------------------------------ MODULE PatchRun ------------------------------
(***************************************************************************)
(* patch.install jobs of one device, for each of the five update backends, *)
(* with the package managers they start and may leave running, the gate    *)
(* between installs, the COM thread of Windows Update, and the collector   *)
(* that publishes which updates are pending.                               *)
(*                                                                         *)
(* An update is an id of a package of its own.  What a scan of the host    *)
(* offers is what is not on its disk.                                      *)
(***************************************************************************)
EXTENDS Integers, Sequences

CONSTANTS
  Jobs, Updates,
  Bodies,      \* for each job, the sets of ids its body may name
  Self,        \* the ids of the agent's own package
  NoJob,
  Backends     \* the backends this instance covers

ASSUME PatchAssumption ==
  /\ NoJob \notin Jobs
  /\ Bodies \in [Jobs -> SUBSET SUBSET Updates] /\ Self \subseteq Updates
  /\ Backends \subseteq {"apt", "dnf", "pacman", "softwareupdate", "wua"}

VARIABLES
  backend,   \* of the host
  rpm,       \* rpm is there to ask
  disk,      \* updates that are installed
  txns,      \* package managers that run, in the order they were started; on
             \* Windows the call on the COM thread
  gate,      \* the job that holds installGate
  st,        \* each job: idle, gate, scan, run, comDo, com, wait, verify,
             \* refresh, done
  ctx,       \* each job's context: live, or over by its deadline or a cancel
  plan, cur, \* its ids that are still to be tried, and those being tried
  installed, failed,  \* InstallResult, with the reason of each failed id
  err,       \* the error of the install
  code,      \* how its package manager ended: none, ok, bad, locked,
             \* left, unstarted
  status,    \* of the result: over is timeout or cancelled
  shown,     \* the last patchstate snapshot the server has
  late       \* history: updates that landed when their job had given up

hostVars == <<backend, rpm>>
workVars == <<disk, txns, late>>
resVars == <<installed, failed, err, status>>
jobVars == <<plan, cur, code, resVars>>
vars == <<hostVars, workVars, gate, st, ctx, jobVars, shown>>

Unread == {NoJob}   \* no snapshot yet
Pending == Updates \ disk

Init ==
  /\ backend \in Backends /\ rpm \in (IF backend = "dnf" THEN BOOLEAN ELSE {TRUE})
  /\ disk = {} /\ txns = <<>> /\ late = {} /\ gate = NoJob
  /\ st = [j \in Jobs |-> "idle"] /\ ctx = [j \in Jobs |-> "live"]
  /\ plan = [j \in Jobs |-> {}] /\ cur = [j \in Jobs |-> {}]
  /\ code = [j \in Jobs |-> "none"]
  /\ installed = [j \in Jobs |-> {}]
  /\ failed = [j \in Jobs |-> [u \in Updates |-> "no"]]
  /\ err = [j \in Jobs |-> "none"] /\ status = [j \in Jobs |-> "none"]
  /\ shown = Unread

-----------------------------------------------------------------------------
(* What every step of an install does to its job.                          *)

Goto(j, s) == st' = [st EXCEPT ![j] = s]
Plan(j, ids) == plan' = [plan EXCEPT ![j] = ids]

\* fail keeps the first reason.
fail(j, ids, why) ==
  failed' = [failed EXCEPT ![j] =
    [u \in Updates |-> IF u \in ids /\ @[u] = "no" THEN why ELSE @[u]]]

Error(j, e) == err' = [err EXCEPT ![j] = e]

\* Install returns: release is deferred, and the refresh follows.
release(j) == gate' = IF gate = j THEN NoJob ELSE gate
Returns(j) == release(j) /\ Goto(j, "refresh")
Forget(j) ==
  /\ plan' = [plan EXCEPT ![j] = {}] /\ cur' = [cur EXCEPT ![j] = {}]
  /\ code' = [code EXCEPT ![j] = "none"]

-----------------------------------------------------------------------------
(* Before anything is touched.                                             *)

\* A deadline too near refuses all ids, and the agent's own package is refused.
prepareInstall(j, ids) ==
  \/ /\ fail(j, ids, "failed") /\ Error(j, "error") /\ Plan(j, {})
     /\ Goto(j, "refresh") /\ UNCHANGED status
  \/ /\ fail(j, ids \cap Self, "failed") /\ UNCHANGED <<err, status>>
     /\ Plan(j, ids \ Self)
     /\ Goto(j, IF ids \subseteq Self THEN "refresh" ELSE "gate")

\* A body that is empty, or JSON the agent does not understand, names no id.
ParsePatchIDs(j) == Bodies[j]
Execute(j) ==
  /\ st[j] = "idle"
  /\ \E ids \in ParsePatchIDs(j) :
       \/ ids # {} /\ prepareInstall(j, ids)
       \/ /\ ids = {} /\ Goto(j, "done")
          /\ status' = [status EXCEPT ![j] = "failed"]
          /\ UNCHANGED <<err, failed, plan>>
  /\ UNCHANGED <<hostVars, workVars, gate, ctx, cur, code, installed, shown>>

acquire(j) ==
  /\ st[j] = "gate"
  /\ IF gate = NoJob
     THEN /\ gate' = j /\ err' = err
          /\ Goto(j, IF backend = "wua" THEN "comDo" ELSE "scan")
     ELSE /\ Error(j, "busy") /\ Goto(j, "refresh") /\ gate' = gate
  /\ UNCHANGED <<hostVars, workVars, ctx, plan, cur, code, installed, failed,
                 status, shown>>

\* The scan before the install.  Ids that are not offered, malformed or not
\* supported are refused one by one.
ScanFirst(j) ==
  /\ st[j] = "scan"
  /\ \/ /\ Error(j, IF ctx[j] = "live" THEN "error" ELSE "over") /\ Returns(j)
        /\ UNCHANGED <<plan, failed>>
     \/ /\ ctx[j] = "live" /\ err' = err
        /\ \E refused \in SUBSET plan[j] :
             /\ plan[j] \cap disk \subseteq refused
             /\ fail(j, refused, "failed") /\ Plan(j, plan[j] \ refused)
             /\ IF refused = plan[j] THEN Returns(j)
                ELSE Goto(j, "run") /\ gate' = gate
  /\ UNCHANGED <<hostVars, workVars, ctx, cur, code, installed, status, shown>>

-----------------------------------------------------------------------------
(* Package managers.                                                       *)

\* The whole plan is one transaction, on macOS one update.  It is started
\* without the context, also when that is already done, unless it cannot be.
runCmd(j) ==
  LET ids == IF backend = "softwareupdate" THEN {CHOOSE u \in plan[j] : TRUE}
             ELSE plan[j] IN
  /\ st[j] = "run" /\ cur' = [cur EXCEPT ![j] = ids] /\ Plan(j, plan[j] \ ids)
  /\ \/ /\ txns' = Append(txns, [job |-> j, all |-> ids, todo |-> ids, left |-> FALSE])
        /\ Goto(j, "wait") /\ UNCHANGED code
     \/ /\ code' = [code EXCEPT ![j] = "unstarted"]
        /\ Goto(j, "verify") /\ UNCHANGED txns
  /\ UNCHANGED <<hostVars, disk, late, gate, ctx, resVars, shown>>

\* The one package manager that j waits for, and the others once one has ended.
Waiting(j) == CHOOSE i \in DOMAIN txns : txns[i].job = j /\ ~txns[i].left
RemoveAt(s, i) == SubSeq(s, 1, i - 1) \o SubSeq(s, i + 1, Len(s))

\* The package database's lock is with the one that came first.
Locks(i) == i = 1 \/ backend = "softwareupdate"

Lands(i) ==
  /\ Locks(i)
  /\ \E u \in txns[i].todo :
       /\ disk' = disk \cup {u}
       /\ txns' = [txns EXCEPT ![i].todo = @ \ {u}]
       /\ late' = IF txns[i].left THEN late \cup {<<txns[i].job, u>>} ELSE late
  /\ UNCHANGED <<hostVars, gate, st, ctx, jobVars, shown>>

\* Who waits for it hears the exit.  apt and dnf exit well and hold a package
\* back; the others say so.  apt and pacman do not wait for the lock.
Exits(i) ==
  {c \in {"ok", "bad", "locked"} :
     /\ c = "ok" => Locks(i) /\ (txns[i].todo = {} \/ backend \in {"apt", "dnf"})
     /\ c = "bad" => Locks(i) \/ backend = "pacman"
     /\ c = "locked" => backend = "apt" /\ txns[i].todo = txns[i].all}
TxnEnds(i) ==
  /\ backend # "wua"
  /\ \E c \in Exits(i) :
       IF txns[i].left THEN UNCHANGED <<st, code>>
       ELSE /\ code' = [code EXCEPT ![txns[i].job] = c]
            /\ Goto(txns[i].job, "verify")
  /\ txns' = RemoveAt(txns, i)
  /\ UNCHANGED <<hostVars, disk, late, gate, ctx, plan, cur, resVars, shown>>

\* LetFinish: the deadline of the job, or of the command, ends the wait and not
\* the transaction.
LetFinish(j) ==
  /\ st[j] = "wait" /\ backend # "wua"
  /\ txns' = [txns EXCEPT ![Waiting(j)].left = TRUE]
  /\ code' = [code EXCEPT ![j] = "left"] /\ Goto(j, "verify")
  /\ UNCHANGED <<hostVars, disk, late, gate, ctx, plan, cur, resVars, shown>>

\* apt waits the lock out, while its budget and the job's context last.
Retry(j) ==
  /\ st[j] = "verify" /\ code[j] = "locked" /\ ctx[j] = "live"
  /\ Goto(j, "run") /\ Plan(j, cur[j]) /\ code' = [code EXCEPT ![j] = "none"]
  /\ UNCHANGED <<hostVars, workVars, gate, ctx, cur, resVars, shown>>

Outcome(j, got, why, e) ==
  /\ st[j] = "verify"
  /\ IF plan[j] = {} THEN Returns(j) ELSE Goto(j, "run") /\ gate' = gate
  /\ installed' = [installed EXCEPT ![j] = @ \cup got]
  /\ fail(j, cur[j] \ got, why) /\ Error(j, e)
  /\ code' = [code EXCEPT ![j] = "none"]
  /\ UNCHANGED <<hostVars, workVars, ctx, plan, cur, status, shown>>

\* runCmd's own error.
RunErr(j) == IF code[j] = "left" THEN "over" ELSE "error"
Cut(j) == IF code[j] = "left" THEN "timeout" ELSE "failed"

\* Mutant: the exit code is believed, for every id of the run.
attributeByExit(j) ==
  LET got == IF code[j] = "ok" THEN cur[j] ELSE {} IN
  backend = "apt" /\ Outcome(j, got, Cut(j), IF got = {} THEN RunErr(j) ELSE "none")

\* dpkg's answer counts.  Of an older version that is there it says so, and not
\* that the run was cut short.
attributeAptResult(j) ==
  LET got == cur[j] \cap disk IN
  /\ backend = "apt"
  /\ \E why \in {"failed", Cut(j)} :
       Outcome(j, got, why,
               CASE code[j] = "ok" \/ got # {} -> "none"
                 [] code[j] = "locked" /\ ctx[j] = "over" -> "over"
                 [] OTHER -> RunErr(j))

\* rpm's answer counts when there is an rpm, and not when the wait was cut short.
dnfOutcome(j) ==
  LET cut == code[j] \in {"left", "unstarted"}
      got == IF cut THEN {} ELSE IF rpm THEN cur[j] \cap disk ELSE cur[j] IN
  /\ backend = "dnf"
  /\ Outcome(j, got, Cut(j),
             IF got = {} /\ code[j] # "ok" THEN RunErr(j) ELSE "none")

\* What changed since before the run counts.
pacmanOutcome(j) ==
  LET got == cur[j] \cap disk IN
  /\ backend = "pacman"
  /\ Outcome(j, got, Cut(j),
             IF code[j] \in {"left", "unstarted"} /\ got = {} THEN RunErr(j)
             ELSE "none")

\* One update after the other, whatever became of the one before it.
softwareUpdateOutcome(j) ==
  /\ backend = "softwareupdate"
  /\ Outcome(j, IF code[j] = "ok" THEN cur[j] ELSE {},
             Cut(j), "none")

-----------------------------------------------------------------------------
(* Windows: one COM thread runs installs and scans.                        *)

\* A context that is done, or a thread without COM, starts nothing; then the
\* caller waits for the thread.
comDo(j) ==
  /\ st[j] = "comDo" /\ ctx[j] = "live" /\ Goto(j, "com")
  /\ UNCHANGED <<hostVars, workVars, gate, ctx, jobVars, shown>>

\* The call is not started: the caller releases the gate.
comNotStarted(j) ==
  /\ \/ st[j] \in {"comDo", "com"} /\ ctx[j] = "over" /\ Error(j, "over")
     \/ st[j] = "comDo" /\ Error(j, "error")
  /\ Returns(j)
  /\ UNCHANGED <<hostVars, workVars, ctx, plan, cur, code, installed, failed,
                 status, shown>>

\* The thread is free and takes the call, also from a context that is done by
\* now.  What the search does not offer is refused, and does not run.
comStarts(j) ==
  /\ st[j] = "com" /\ txns = <<>> /\ Goto(j, "wait")
  /\ \E ids \in SUBSET (plan[j] \ disk) :
       txns' = <<[job |-> j, all |-> ids, todo |-> ids, left |-> FALSE]>>
  /\ UNCHANGED <<hostVars, disk, late, gate, ctx, jobVars, shown>>

\* The call returns, on the thread, which then releases the gate.  An error may
\* come before any id is accounted for; an installer that is busy has done nothing.
comCompleted(i) ==
  LET t == txns[i]
      got(e) == IF e = "none" THEN t.all \cap disk ELSE {} IN
  /\ backend = "wua" /\ txns' = RemoveAt(txns, i) /\ release(t.job)
  /\ IF t.left THEN UNCHANGED <<st, installed, failed, err>>
     ELSE \E e \in {"none", "error", "busy"} :
          /\ e = "busy" => t.todo = t.all
          /\ Goto(t.job, "refresh") /\ Error(t.job, e)
          /\ installed' = [installed EXCEPT ![t.job] = got(e)]
          /\ \/ fail(t.job, plan[t.job] \ got(e), "failed")
             \/ e # "none" /\ UNCHANGED failed
  /\ UNCHANGED <<hostVars, disk, late, ctx, plan, cur, code, status, shown>>

\* Mutants: the caller never gives up; it releases the gate; it reports a failure.
comWaits(j) == st[j] = "wait" /\ UNCHANGED vars
comAbandonedReleases(j) ==
  /\ st[j] = "wait" /\ backend = "wua" /\ ctx[j] = "over"
  /\ txns' = [txns EXCEPT ![Waiting(j)].left = TRUE]
  /\ fail(j, plan[j], "unknown") /\ Error(j, "over") /\ Returns(j)
  /\ UNCHANGED <<hostVars, disk, late, ctx, plan, cur, code, installed, status, shown>>
comAbandonedFails(j) ==
  /\ st[j] = "wait" /\ backend = "wua" /\ ctx[j] = "over"
  /\ txns' = [txns EXCEPT ![Waiting(j)].left = TRUE]
  /\ fail(j, plan[j], "failed") /\ Error(j, "error") /\ Goto(j, "refresh")
  /\ UNCHANGED <<hostVars, disk, late, gate, ctx, plan, cur, code, installed,
                 status, shown>>

\* The caller gives the call up.  The call goes on, and keeps the gate.
comAbandoned(j) ==
  /\ st[j] = "wait" /\ backend = "wua" /\ ctx[j] = "over"
  /\ txns' = [txns EXCEPT ![Waiting(j)].left = TRUE]
  /\ fail(j, plan[j], "unknown") /\ Error(j, "over") /\ Goto(j, "refresh")
  /\ UNCHANGED <<hostVars, disk, late, gate, ctx, plan, cur, code, installed,
                 status, shown>>

-----------------------------------------------------------------------------
(* The snapshot of pending updates, and the result.                        *)

\* A scan needs the COM thread.
CanScan == backend = "wua" => txns = <<>>

\* Mutant: a scan that fails publishes the empty list it has.
RefreshNowAlways(works) == shown' \in {shown, IF works THEN Pending ELSE {}}

\* A scan that fails publishes nothing, and a publish may fail.
RefreshNow(works) == shown' \in {shown} \cup (IF works THEN {Pending} ELSE {})

\* The collector, on its interval, with the agent's context.
collect ==
  /\ CanScan /\ RefreshNow(TRUE)
  /\ UNCHANGED <<hostVars, workVars, gate, st, ctx, jobVars>>

\* A patch.scan job: the same scan and the same snapshot, on the job's context.
HandlePatchScan ==
  /\ CanScan /\ \E live \in BOOLEAN : RefreshNow(live)
  /\ UNCHANGED <<hostVars, workVars, gate, st, ctx, jobVars>>

patchResult(j) ==
  CASE err[j] = "over" -> "over"
    [] err[j] \in {"error", "busy"} -> "failed"
    [] \E u \in Updates : failed[j][u] # "no" -> "failed"
    [] OTHER -> "succeeded"

\* The refresh, on the job's context, and the result.
Refresh(j) ==
  /\ st[j] = "refresh" /\ (ctx[j] = "over" \/ CanScan) /\ Goto(j, "done") /\ Forget(j)
  /\ RefreshNow(ctx[j] = "live")
  /\ status' = [status EXCEPT ![j] = patchResult(j)]
  /\ ctx' = [ctx EXCEPT ![j] = "live"] /\ Error(j, "none")
  /\ UNCHANGED <<hostVars, workVars, gate, installed, failed>>

\* The job's deadline, or a cancel.
CtxDone(j) ==
  /\ st[j] \notin {"idle", "done"} /\ ctx[j] = "live"
  /\ ctx' = [ctx EXCEPT ![j] = "over"]
  /\ UNCHANGED <<hostVars, workVars, gate, st, jobVars, shown>>

-----------------------------------------------------------------------------

JobStep(j) ==
  \/ acquire(j) \/ ScanFirst(j) \/ runCmd(j) \/ LetFinish(j)
  \/ Retry(j) \/ attributeAptResult(j) \/ dnfOutcome(j) \/ pacmanOutcome(j)
  \/ softwareUpdateOutcome(j) \/ comDo(j) \/ comNotStarted(j)
  \/ comStarts(j) \/ comAbandoned(j) \/ Refresh(j)

Next ==
  \/ \E j \in Jobs : Execute(j) \/ JobStep(j) \/ CtxDone(j)
  \/ \E i \in DOMAIN txns : Lands(i) \/ TxnEnds(i) \/ comCompleted(i)
  \/ collect \/ HandlePatchScan

Spec == Init /\ [][Next]_vars

\* Every handler runs on, every job has a deadline, and the collector's scan
\* succeeds now and then.  No package manager need ever end.
LiveSpec ==
  /\ Spec
  /\ \A j \in Jobs : WF_vars(JobStep(j)) /\ WF_vars(CtxDone(j))
  /\ SF_vars(collect /\ shown' = Pending)

-----------------------------------------------------------------------------

\* What a job reports as installed is on the disk, whatever the exit code of
\* its package manager said and whenever the wait for it was cut short; only
\* dnf on a host without rpm has nobody to ask (attributeAptResult,
\* installedSpecs, recordOutcomes).
InstalledIsInstalled ==
  \A j \in Jobs : installed[j] \subseteq disk \/ (backend = "dnf" /\ ~rpm)

\* The gate and the work agree: Windows never runs two installs, nor one whose
\* job does not hold the gate, and a gate that is held has a job or a call that
\* will release it (installViaCOM).
GateMatchesWork ==
  /\ backend = "wua" => /\ Len(txns) <= 1
                        /\ \A i \in DOMAIN txns : gate = txns[i].job
  /\ gate # NoJob => \/ st[gate] \in {"scan", "run", "comDo", "com", "wait", "verify"}
                     \/ \E i \in DOMAIN txns : txns[i].job = gate

\* An update that lands after its job stopped waiting was not reported as a
\* plain failure, which would invite a second install: it was installed by the
\* time of the check, or the id or the job says the wait was cut short
\* (ErrInstallOutcomeUnknown, LetFinish).  apt answers with the old version.
LateIsTold ==
  backend # "apt" =>
    \A l \in late : LET j == l[1]  u == l[2] IN
      \/ u \in installed[j] \/ failed[j][u] \in {"no", "timeout", "unknown"}
      \/ status[j] = "over"

\* Every install that starts is reported, also when its package manager hangs:
\* again and again there is none that is neither waiting to start nor reported.
JobReports == []<>(\A j \in Jobs : st[j] \in {"idle", "done"})

\* The console follows the host.  It never looks patched when it is not: no
\* snapshot leaves out an update that is pending, although scans fail, jobs are
\* cut short and updates land behind their backs.  And when installs have ended
\* it shows what is pending and no more, unless a hung Windows Update call keeps
\* the COM thread from every scan (RefreshNow: a failed scan is not published;
\* collect, patchEntries).
ConsoleFollows ==
  /\ [](shown # Unread => Pending \subseteq shown)
  /\ <>[](shown = Pending \/ (backend = "wua" /\ txns # <<>>))
=============================================================================
