---------------------------- MODULE SelfUpdate -----------------------------
(***************************************************************************)
(* The agent's self-update on one host: Apply in the running agent, the    *)
(* files it leaves, the guard the service manager runs before the agent    *)
(* (unix), the finalizer that swaps from outside (Windows), the rollback   *)
(* check at startup and the watch that ends probation.                     *)
(*                                                                         *)
(* The files survive a crash; everything else is a process.  A launch time *)
(* is kept as its age in ticks and forgotten once it is older than         *)
(* CrashWindow, when countStarts no longer counts it.  Time passes while   *)
(* an agent is up and nothing is half done: a restart or a swap takes      *)
(* seconds, the window two minutes.                                        *)
(* State.Denied is left out: each version in it is also in the denylist    *)
(* file, and Denied merges the two.                                        *)
(***************************************************************************)
EXTENDS Integers, Sequences

CONSTANTS
  Versions,      \* builds a host may be sent
  First,         \* the build it was installed with
  Dead,          \* builds that die before any Go code runs
  Flaky,         \* builds that start, and may crash at any time
  None,          \* no version, no file
  CrashWindow, CrashLimit, Keep, MinProbation, MaxProbation, \* as in the source, in ticks
  MaxUpdates,    \* bound: updates asked for
  MaxLosses      \* bound: power losses

ASSUME VersionsAssumption ==
  /\ First \in Versions \ (Dead \cup Flaky) /\ None \notin Versions
  /\ None \notin [version : Versions \cup {None}, finalizing : BOOLEAN]
ASSUME LimitsAssumption ==
  /\ CrashWindow \in Nat /\ CrashLimit \in Nat /\ Keep \in Nat /\ Keep > CrashLimit
  /\ MinProbation \in Nat /\ MaxProbation \in Nat
  /\ CrashWindow < MinProbation /\ MinProbation <= MaxProbation
  /\ MaxUpdates \in Nat /\ MaxLosses \in Nat

VARIABLES
  target,     \* the binary the service starts
  backup,     \* the binary Swap parked, or None
  st,         \* update-state.json
  probation,  \* update-probation, which the guard reads, or None
  starts,     \* update-starts: the launches the guard counted
  denied,     \* update-denied
  guarded,    \* whether this host has the guard (unix) or a finalizer (Windows)
  pc,         \* of the service: down, stopped, the guard's steps, the startup check's, up
  ver,        \* the build that is running
  upd, req,   \* Apply's progress and its request
  watch,      \* Watch's progress
  since,      \* the age of the swap as Watch loaded it
  held,       \* the state markHealthy has loaded and changed, not yet saved
  fin,        \* the finalizer's progress, on the version of finReq
  finReq,
  released,   \* history: builds whose own watch has ended their probation
  rolled,     \* history: builds that were rolled back
  excuse,     \* history: what has happened that may spoil the record
  losses, updates

files == <<target, backup, st, probation, starts, denied>>
job == <<upd, req>>
watcher == <<watch, since, held>>
finalizer == <<fin, finReq>>
history == <<released, rolled, excuse>>
bounds == <<losses, updates>>
vars == <<target, backup, st, probation, starts, denied, guarded, pc, ver, upd, req,
          watch, since, held, fin, finReq, released, rolled, excuse, losses, updates>>

Files == Versions \cup {None}
Requests == [version : Versions, force : BOOLEAN]
Swapping == {"swap", "aside", "in"}
Checking == {"check", "restore", "deny", "save", "clean", "cleanExit"}
Guarding == {"guard", "guardRestore", "guardDeny", "guardClean"}
Excuses == {"orphan", "overlap", "interrupted", "finalizer"}

NoState ==
  [pending |-> None, previous |-> None, healthy |-> FALSE, unproven |-> FALSE,
   rolledBack |-> FALSE, finalizing |-> FALSE, finalizeErr |-> FALSE,
   starts |-> <<>>, age |-> 0]

Pending(s) == s.pending # None /\ ~s.healthy

NoRequest == [version |-> First, force |-> FALSE]

Init ==
  /\ target = First /\ backup = None /\ st = NoState
  /\ probation = None /\ starts = <<>> /\ denied = {}
  /\ guarded \in BOOLEAN
  /\ pc = "down" /\ ver = First
  /\ upd = "idle" /\ req = NoRequest
  /\ watch = "off" /\ since = 0 /\ held = NoState
  /\ fin = "none" /\ finReq = NoRequest
  /\ released = {First} /\ rolled = {} /\ excuse = {}
  /\ losses = 0 /\ updates = 0

\* One more launch; only the latest Keep are kept (maxStartsTracked, KEEP).
Launched(s) ==
  LET t == Append(s, 0) IN IF Len(t) > Keep THEN Tail(t) ELSE t

\* Mutant: the flag is written the wrong way round.
ProbationOfInverted(s) == [version |-> s.pending, finalizing |-> ~s.finalizing]

\* writeProbation: the guard's view of the state.
ProbationOf(s) == [version |-> s.pending, finalizing |-> s.finalizing]

\* The process is gone, and with it what it was doing.  A finalizer that was
\* waiting for it goes on.
Ends(to) ==
  /\ pc' = to
  /\ upd' = "idle" /\ req' = NoRequest
  /\ watch' = "off" /\ since' = 0 /\ held' = NoState
  /\ UNCHANGED ver
ParentGone == fin' = (IF fin = "wait" THEN "swap" ELSE fin) /\ UNCHANGED finReq

\* An update that is recorded and not yet swapped in.
Orphaned == upd \in {"probation", "handoff"} \cup Swapping

-----------------------------------------------------------------------------
(* The service manager and the guard.                                      *)

Launch ==
  /\ pc = "down"
  /\ pc' = IF guarded THEN "guard" ELSE "exec"
  /\ UNCHANGED <<files, guarded, ver, job, watcher, finalizer, history, bounds>>

OnProbation == probation # None /\ ~probation.finalizing
CanRestore == target = None /\ backup # None

GuardCheck ==
  /\ pc = "guard"
  /\ \/ /\ CanRestore
        /\ pc' = "guardRestore"
        /\ UNCHANGED starts
     \/ /\ ~CanRestore /\ OnProbation
        /\ starts' = Launched(starts)
        /\ pc' = IF Len(starts') > CrashLimit /\ backup # None
                   THEN "guardRestore" ELSE "exec"
     \/ /\ ~CanRestore /\ ~OnProbation
        /\ pc' = "exec"
        /\ UNCHANGED starts
  /\ UNCHANGED <<target, backup, st, probation, denied, guarded, ver, job, watcher,
                 finalizer, history, bounds>>

GuardRestore ==
  /\ pc = "guardRestore"
  /\ target' = backup /\ backup' = None
  /\ rolled' = rolled \cup (IF probation = None THEN {} ELSE {probation.version})
  /\ pc' = "guardDeny"
  /\ UNCHANGED <<st, probation, starts, denied, guarded, ver, job, watcher, finalizer,
                 released, excuse, bounds>>

GuardDeny ==
  /\ pc = "guardDeny"
  /\ denied' = denied \cup (IF probation = None THEN {} ELSE {probation.version})
  /\ pc' = "guardClean"
  /\ UNCHANGED <<target, backup, st, probation, starts, guarded, ver, job, watcher,
                 finalizer, history, bounds>>

GuardClean ==
  /\ pc = "guardClean"
  /\ probation' = None /\ starts' = <<>>
  /\ pc' = "exec"
  /\ UNCHANGED <<target, backup, st, denied, guarded, ver, job, watcher, finalizer,
                 history, bounds>>

Exec ==
  /\ pc = "exec"
  /\ \/ /\ target \in Versions \ Dead
        /\ ver' = target
        /\ pc' = "check"
     \/ /\ target \notin Versions \ Dead
        /\ pc' = "down"
        /\ UNCHANGED ver
  /\ UNCHANGED <<files, guarded, job, watcher, finalizer, history, bounds>>

-----------------------------------------------------------------------------
(* CheckAndRollback, before the agent does anything else.                  *)

\* What a rollback leaves in the state file.
RolledBack(s) ==
  [s EXCEPT !.pending = None, !.healthy = FALSE, !.rolledBack = TRUE, !.starts = <<>>]

\* reconcileGuardRollback: the guard has already restored the binary.
GuardRolledBack ==
  Pending(st) /\ ~st.rolledBack /\ probation = None /\ st.pending \in denied

ShouldRollback(s) ==
  /\ Pending(s) /\ ~s.rolledBack
  /\ Len(s.starts) > CrashLimit \/ Len(starts) > CrashLimit

Reconcile ==
  /\ pc = "check" /\ GuardRolledBack
  /\ st' = RolledBack(st)
  /\ pc' = "clean"
  /\ UNCHANGED <<target, backup, probation, starts, denied, guarded, ver, job, watcher,
                 finalizer, history, bounds>>

RecordStart ==
  /\ pc = "check" /\ ~GuardRolledBack
  /\ st' = IF Pending(st) THEN [st EXCEPT !.starts = Launched(@)] ELSE st
  /\ pc' = IF ShouldRollback(st') THEN "restore" ELSE "up"
  /\ watch' = IF ShouldRollback(st') THEN "off" ELSE "boot"
  /\ UNCHANGED <<target, backup, probation, starts, denied, guarded, ver, job, since,
                 held, finalizer, history, bounds>>

\* RestoreBackup; without a backup the count is given up and the agent goes on.
Restore ==
  /\ pc = "restore"
  /\ \/ /\ backup # None
        /\ target' = backup /\ backup' = None
        /\ rolled' = rolled \cup {st.pending}
        /\ pc' = "deny"
        /\ UNCHANGED st
     \/ /\ backup = None
        /\ st' = [st EXCEPT !.rolledBack = TRUE, !.pending = None]
        /\ pc' = "clean"
        /\ UNCHANGED <<target, backup, rolled>>
  /\ UNCHANGED <<probation, starts, denied, guarded, ver, job, watcher, finalizer,
                 released, excuse, bounds>>

\* Mutant: the rolled back version is not recorded.
DenyNothing ==
  /\ pc = "deny"
  /\ pc' = "save"
  /\ UNCHANGED <<target, backup, st, probation, starts, denied, guarded, ver, job, watcher,
                 finalizer, history, bounds>>

Deny ==
  /\ pc = "deny"
  /\ denied' = denied \cup {st.pending}
  /\ pc' = "save"
  /\ UNCHANGED <<target, backup, st, probation, starts, guarded, ver, job, watcher,
                 finalizer, history, bounds>>

SaveRolledBack ==
  /\ pc = "save"
  /\ st' = RolledBack(st)
  /\ pc' = "cleanExit"
  /\ UNCHANGED <<target, backup, probation, starts, denied, guarded, ver, job, watcher,
                 finalizer, history, bounds>>

\* The end of finishRollback: the process exits if it restored a binary.
FinishRollback ==
  /\ pc \in {"clean", "cleanExit"}
  /\ probation' = None /\ starts' = <<>>
  /\ pc' = IF pc = "clean" THEN "up" ELSE "down"
  /\ watch' = IF pc = "clean" THEN "boot" ELSE "off"
  /\ UNCHANGED <<target, backup, st, denied, guarded, ver, job, since, held, finalizer,
                 history, bounds>>

-----------------------------------------------------------------------------
(* Apply, in the running agent.                                            *)

Accept(r) ==
  /\ pc = "up" /\ upd = "idle" /\ updates < MaxUpdates
  /\ r.version # ver
  /\ r.force \/ (r.version \notin denied /\ ~st.finalizing)
  /\ upd' = "download" /\ req' = r
  /\ updates' = updates + 1
  /\ UNCHANGED <<files, guarded, pc, ver, watcher, finalizer, history, losses>>

\* Downloaded and verified; or refused, and the staged file is discarded.
Download ==
  /\ upd = "download"
  /\ \/ upd' = "begin" /\ UNCHANGED req
     \/ upd' = "idle" /\ req' = NoRequest
  /\ UNCHANGED <<files, guarded, pc, ver, watcher, finalizer, history, bounds>>

BeginUpdate ==
  /\ upd = "begin"
  /\ st' = [NoState EXCEPT !.pending = req.version, !.previous = ver]
  /\ starts' = <<>>
  /\ upd' = "probation"
  /\ excuse' = excuse \cup (IF Pending(st) \/ watch \notin {"boot", "idle"}
                              THEN {"overlap"} ELSE {})
  /\ UNCHANGED <<target, backup, probation, denied, guarded, pc, ver, req, watcher,
                 finalizer, released, rolled, bounds>>

WriteProbation ==
  /\ upd = "probation"
  /\ probation' = ProbationOf(st)
  /\ upd' = "swap"
  /\ UNCHANGED <<target, backup, st, starts, denied, guarded, pc, ver, req, watcher,
                 finalizer, history, bounds>>

\* Mutant: the old binary is deleted as soon as the new one is in place.
SwapMovesTidy(s, version) ==
  \/ s = "swap" /\ backup' = None /\ UNCHANGED target
  \/ s = "aside" /\ target # None /\ backup' = target /\ target' = None
  \/ s = "in" /\ target' = version /\ backup' = None

\* Swap: the staged copy is next to the target; drop the last backup, move the
\* target aside, move the copy in.
SwapMoves(s, version) ==
  \/ s = "swap" /\ backup' = None /\ UNCHANGED target
  \/ s = "aside" /\ target # None /\ backup' = target /\ target' = None
  \/ s = "in" /\ target' = version /\ UNCHANGED backup
SwapNext(s) == [swap |-> "aside", aside |-> "in", in |-> "swapped"][s]

\* Mutant: the backup is dropped instead of moved back.
SwapFailsLoses(s) ==
  IF s = "in" /\ backup # None THEN backup' = None /\ UNCHANGED target
                               ELSE UNCHANGED <<target, backup>>

\* Its failures: copying, moving aside, or moving in, which is undone.
SwapFails(s) ==
  IF s = "in" /\ backup # None THEN target' = backup /\ backup' = None
                               ELSE UNCHANGED <<target, backup>>

ApplySwap ==
  /\ upd \in Swapping
  /\ SwapMoves(upd, req.version)
  /\ upd' = SwapNext(upd)
  /\ UNCHANGED <<st, probation, starts, denied, guarded, pc, ver, req, watcher,
                 finalizer, history, bounds>>

\* No swap and no finalizer: Clear.
ApplyFails ==
  /\ upd \in Swapping
  /\ SwapFails(upd)
  /\ st' = NoState /\ probation' = None /\ starts' = <<>>
  /\ upd' = "idle" /\ req' = NoRequest
  /\ UNCHANGED <<denied, guarded, pc, ver, watcher, finalizer, history, bounds>>

SpawnFinalizer ==
  /\ upd \in Swapping /\ ~guarded /\ fin = "none"
  /\ SwapFails(upd)
  /\ fin' = "wait" /\ finReq' = req
  /\ upd' = "handoff"
  /\ UNCHANGED <<st, probation, starts, denied, guarded, pc, ver, req, watcher, history,
                 bounds>>

BeginFinalize ==
  /\ upd = "handoff"
  /\ st' = [st EXCEPT !.finalizing = TRUE, !.finalizeErr = FALSE]
  /\ probation' = ProbationOf(st')
  /\ upd' = "handed"
  /\ UNCHANGED <<target, backup, starts, denied, guarded, pc, ver, req, watcher,
                 finalizer, history, bounds>>

\* finish: the result is out; exit, non-zero to be restarted into the new build,
\* zero to leave the restart to the finalizer.
Finish ==
  /\ upd \in {"swapped", "handed"}
  /\ Ends(IF upd = "swapped" THEN "down" ELSE "stopped")
  /\ ParentGone
  /\ UNCHANGED <<files, guarded, history, bounds>>

-----------------------------------------------------------------------------
(* The finalizer, a process of its own.                                    *)

\* FinalizeOutcome: the swap did not happen.
FinalizeFailed ==
  /\ st' = [st EXCEPT !.finalizing = FALSE, !.finalizeErr = TRUE]
  /\ probation' = None
  /\ fin' = "none" /\ finReq' = NoRequest
  /\ excuse' = excuse \cup {"finalizer"}
  /\ UNCHANGED <<starts, denied, guarded, pc, ver, job, watcher, released, rolled, bounds>>

FinalizerTimesOut ==
  /\ fin = "wait"
  /\ FinalizeFailed
  /\ UNCHANGED <<target, backup>>

FinalizerSwap ==
  /\ fin \in Swapping
  /\ SwapMoves(fin, finReq.version)
  /\ fin' = SwapNext(fin)
  /\ UNCHANGED <<st, probation, starts, denied, guarded, pc, ver, job, watcher, finReq,
                 history, bounds>>

FinalizerFails ==
  /\ fin \in Swapping
  /\ SwapFails(fin)
  /\ FinalizeFailed

\* FinalizeOutcome: the swap is done.
Finalized ==
  /\ fin = "swapped"
  /\ st' = [st EXCEPT !.finalizing = FALSE, !.finalizeErr = FALSE]
  /\ probation' = ProbationOf(st')
  /\ fin' = "start"
  /\ UNCHANGED <<target, backup, starts, denied, guarded, pc, ver, job, watcher, finReq,
                 history, bounds>>

StartService ==
  /\ fin = "start"
  /\ pc' = IF pc = "stopped" THEN "down" ELSE pc
  /\ fin' = "none" /\ finReq' = NoRequest
  /\ UNCHANGED <<files, guarded, ver, job, watcher, history, bounds>>

-----------------------------------------------------------------------------
(* Watch, the task that ends probation.                                    *)

WatchLoad ==
  /\ watch = "boot"
  /\ watch' = IF Pending(st) THEN "wait" ELSE "idle"
  /\ since' = IF Pending(st) THEN st.age ELSE 0
  /\ UNCHANGED <<files, guarded, pc, ver, job, held, finalizer, history, bounds>>

\* The probe succeeds, or probation is over without it: markHealthy loads the
\* state, and does nothing to one that is finalizing or not pending.
MarkHealthy ==
  /\ watch = "wait" /\ since >= MinProbation
  /\ \E unproven \in BOOLEAN :
       /\ unproven => since = MaxProbation
       /\ IF Pending(st) /\ ~st.finalizing
            THEN /\ held' = [st EXCEPT !.healthy = TRUE, !.unproven = unproven,
                                       !.starts = <<>>, !.age = 0]
                 /\ watch' = "save"
            ELSE watch' = "idle" /\ UNCHANGED held
  /\ UNCHANGED <<files, guarded, pc, ver, job, since, finalizer, history, bounds>>

MarkSave ==
  /\ watch = "save"
  /\ st' = held
  /\ released' = released \cup {ver}
  /\ watch' = "clean"
  /\ UNCHANGED <<target, backup, probation, starts, denied, guarded, pc, ver, job, since,
                 held, finalizer, rolled, excuse, bounds>>

MarkClean ==
  /\ watch = "clean"
  /\ probation' = None /\ starts' = <<>>
  /\ watch' = "idle" /\ since' = 0 /\ held' = NoState
  /\ UNCHANGED <<target, backup, st, denied, guarded, pc, ver, job, finalizer, history,
                 bounds>>

-----------------------------------------------------------------------------
(* Time and failures.                                                      *)

Older(s) == SelectSeq([i \in DOMAIN s |-> s[i] + 1], LAMBDA a : a <= CrashWindow)
OlderAge(a) == IF a < MaxProbation THEN a + 1 ELSE a

Tick ==
  /\ pc = "up" /\ upd \in {"idle", "download"} /\ watch \in {"wait", "idle"}
  /\ starts' = Older(starts)
  /\ st' = IF Pending(st) THEN [st EXCEPT !.starts = Older(@), !.age = OlderAge(@)] ELSE st
  /\ since' = IF watch = "wait" THEN OlderAge(since) ELSE since
  /\ UNCHANGED <<target, backup, probation, denied, guarded, pc, ver, job, watch, held,
                 finalizer, history, bounds>>

\* The agent process crashes.
BuildCrashes ==
  /\ pc = "up" /\ ver \in Flaky
  /\ Ends("down")
  /\ ParentGone
  /\ excuse' = excuse \cup (IF Orphaned THEN {"orphan"} ELSE {})
                      \cup (IF fin # "none" THEN {"finalizer"} ELSE {})
  /\ UNCHANGED <<files, guarded, released, rolled, bounds>>

\* The host loses power and boots.
PowerLoss ==
  /\ losses < MaxLosses /\ pc # "down"
  /\ losses' = losses + 1
  /\ Ends("down")
  /\ fin' = "none" /\ finReq' = NoRequest
  /\ excuse' = excuse
       \cup (IF Orphaned THEN {"orphan"} ELSE {})
       \cup (IF pc \in {"guardDeny", "guardClean", "deny", "save", "cleanExit"}
               THEN {"interrupted"} ELSE {})
       \cup (IF fin # "none" THEN {"finalizer"} ELSE {})
  /\ UNCHANGED <<files, guarded, released, rolled, updates>>

Next ==
  \/ Launch \/ GuardCheck \/ GuardRestore \/ GuardDeny \/ GuardClean \/ Exec
  \/ Reconcile \/ RecordStart \/ Restore \/ Deny \/ SaveRolledBack \/ FinishRollback
  \/ \E r \in Requests : Accept(r)
  \/ Download \/ BeginUpdate \/ WriteProbation \/ ApplySwap \/ ApplyFails
  \/ SpawnFinalizer \/ BeginFinalize \/ Finish
  \/ FinalizerTimesOut \/ FinalizerSwap \/ FinalizerFails \/ Finalized \/ StartService
  \/ WatchLoad \/ MarkHealthy \/ MarkSave \/ MarkClean
  \/ Tick \/ BuildCrashes \/ PowerLoss

Spec == Init /\ [][Next]_vars

\* The service manager restarts what is down, and the guard and the startup check
\* run to their end.
Startup ==
  \/ Launch \/ GuardCheck \/ GuardRestore \/ GuardDeny \/ GuardClean \/ Exec
  \/ Reconcile \/ RecordStart \/ Restore \/ Deny \/ SaveRolledBack \/ FinishRollback
LiveSpec == Spec /\ WF_vars(Startup)

-----------------------------------------------------------------------------
(* What the server is told.                                                *)

Report ==
  IF st.finalizing THEN "finalizing"
  ELSE IF st.finalizeErr THEN "finalize_failed"
  ELSE IF st.rolledBack THEN "rolled_back"
  ELSE IF Pending(st) THEN "probation"
  ELSE IF st.healthy THEN (IF st.unproven THEN "unproven" ELSE "healthy")
  ELSE "idle"

States ==
  [pending : Files, previous : Files, healthy : BOOLEAN, unproven : BOOLEAN,
   rolledBack : BOOLEAN, finalizing : BOOLEAN, finalizeErr : BOOLEAN,
   starts : Seq(0..CrashWindow), age : 0..MaxProbation]

(* Type invariant: the binaries, the state file of the tracker and the      *)
(* program counters of the processes are well formed.                       *)
TypeOK ==
  /\ target \in Files /\ backup \in Files /\ st \in States /\ held \in States
  /\ probation \in {None} \cup [version : Files, finalizing : BOOLEAN]
  /\ starts \in Seq(0..CrashWindow) /\ {Len(starts), Len(st.starts)} \subseteq 0..Keep
  /\ denied \subseteq Versions /\ released \subseteq Versions /\ rolled \subseteq Files
  /\ pc \in {"down", "stopped", "exec", "up"} \cup Guarding \cup Checking
  /\ ver \in Versions /\ req \in Requests /\ finReq \in Requests
  /\ upd \in {"idle", "download", "begin", "probation", "swapped", "handoff", "handed"}
             \cup Swapping
  /\ watch \in {"off", "boot", "wait", "save", "clean", "idle"} /\ since \in 0..MaxProbation
  /\ fin \in {"none", "wait", "swapped", "start"} \cup Swapping
  /\ excuse \subseteq Excuses
  /\ losses \in 0..MaxLosses /\ updates \in 0..MaxUpdates

\* "An agent that is running an old version beats a host with no agent binary at
\* all" (Swap): through every step of a swap, a rollback and a guard's restore, and
\* through power losses between them, a binary is left to start or to restore, unless
\* a finalizer lost its agent before BeginFinalize: a new agent's update and the
\* finalizer may then swap at once.
AlwaysABinary == "finalizer" \notin excuse /\ target = None => backup # None

\* The target or the backup is a build that has ended its probation (or the first
\* one), unless an update was applied to a build still on probation or a finalizer
\* went wrong: Swap keeps the previous binary "until the new one reports healthy".
ProvenOnDisk ==
  {"overlap", "finalizer"} \cap excuse = {} => {target, backup} \cap released # {}

\* A build about to be started that has not ended its probation is the one on
\* record, pending, and the guard is told of it (BeginUpdate, markHealthy, Clear),
\* unless an excuse has happened.
WatchedUntilReleased ==
  excuse = {} /\ pc = "down" /\ target \in Versions \ released =>
    /\ Pending(st) /\ st.pending = target
    /\ probation # None

\* The version Report calls healthy ran and ended its own probation (markHealthy),
\* unless an excuse has happened.
HealthyIsEarned == excuse = {} /\ Report = "healthy" => st.pending \in released

\* A build on probation is on probation until the end of it: the proven one stays
\* on disk, the guard watches, and nobody is told that it is healthy.
ProbationKept == ProvenOnDisk /\ WatchedUntilReleased /\ HealthyIsEarned

\* "A crash between the two leaves a harmless orphan record" (BeginUpdate): a crash
\* between the record and the swap never makes the host report as healthy a version
\* that has not run.
HarmlessOrphan ==
  excuse \subseteq {"orphan"} /\ Report = "healthy" => st.pending \in released

\* What a rollback, by the agent or by the guard, puts back is the build that applied
\* the update (RestoreBackup, restore), unless an excuse has happened.
RestoresPrevious ==
  [][(pc \in {"restore", "guardRestore"} /\ target' # target) /\ excuse = {} =>
        target' = st.previous]_vars

\* A build that was rolled back on this host is not swapped in again without force
\* (Deny, IsDenied, Apply), unless a rollback was cut short by a power loss or a
\* finalizer went wrong.
DeniedNotReinstalled ==
  [][\/ upd = "in" /\ upd' = "swapped" /\ ~req.force
     \/ fin = "in" /\ fin' = "swapped" /\ ~finReq.force
     => target' \notin rolled \/ {"interrupted", "finalizer"} \cap excuse # {}]_vars

\* A rollback is for good: it puts back what was there before, and the build it
\* removed does not come again.
RolledBackForGood == RestoresPrevious /\ DeniedNotReinstalled

\* The finalizer "waits for the old agent to exit, swaps the staged binary into
\* place, and starts the service again" (CmdUpdateFinalize): an agent that has
\* stopped for it is not left stopped when it is gone.
NotStranded == pc = "stopped" => fin # "none"

\* On a host with the guard, a service that is down comes up again, whatever build
\* it was given and wherever the power was lost, unless an update was applied to a
\* build still on probation (GuardScript, CheckAndRollback).
ComesBack == guarded /\ pc = "down" ~> pc = "up" \/ "overlap" \in excuse
=============================================================================
