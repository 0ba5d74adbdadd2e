-------------------------- MODULE SelfUpdate_proof --------------------------
(***************************************************************************)
(* Proofs about the self-update, for any set of builds and any bounds.     *)
(*                                                                         *)
(* What is left on disk after any prefix of an update or of a rollback is  *)
(* told from how far each process has come, so the invariant has a layer   *)
(* for each kind of excuse: where the processes are (PlaceInv, none), the  *)
(* binaries (BinaryInv, no finalizer that went wrong), the build that has  *)
(* proved itself (ProvenInv, nor an update applied to a build on           *)
(* probation), what the state file and the guard's file say of the target  *)
(* (RecordInv, no excuse at all), and the denylist (DeniedInv, no rollback *)
(* cut short).                                                             *)
(***************************************************************************)
EXTENDS SelfUpdate, TLAPS

\* A state file with every field it must have; the launches and the age are left
\* open: nothing here depends on what they are.
Shape(s) ==
  s \in [pending : Files, previous : Files, healthy : BOOLEAN, unproven : BOOLEAN,
         rolledBack : BOOLEAN, finalizing : BOOLEAN, finalizeErr : BOOLEAN,
         starts : {s.starts}, age : {s.age}]

\* BeginUpdate has recorded an update that Apply, or the finalizer, has yet to
\* bring in.
Busy == upd \in {"probation", "handoff", "handed"} \cup Swapping
FinBusy == fin \in {"wait"} \cup Swapping

\* The steps of a rollback after the binary is back and before it is on record.
Restoring == pc \in {"guardDeny", "guardClean", "deny", "save"}

Sound == "finalizer" \notin excuse
Alone == "overlap" \notin excuse /\ "finalizer" \notin excuse
Clean == excuse = {}

\* What the types of the proofs are: TypeOK but for the launches counted.
TypeInv ==
  /\ target \in Files /\ backup \in Files /\ Shape(st) /\ Shape(held)
  /\ probation \in {None} \cup [version : Files, finalizing : BOOLEAN]
  /\ denied \subseteq Versions /\ released \subseteq Versions
  /\ guarded \in BOOLEAN
  /\ ver \in Versions /\ req \in Requests /\ finReq \in Requests
  /\ fin \in {"none", "wait", "swapped", "start"} \cup Swapping

\* Where the processes can be at once, and what they hold while they are there.
PlaceInv ==
  /\ upd # "idle" => pc = "up"
  /\ watch # "off" => pc = "up"
  /\ fin # "none" \/ upd \in {"handoff", "handed"} => ~guarded
  /\ pc \in Guarding => guarded
  /\ probation # None /\ guarded => probation.version \in Versions
  /\ Busy => st.pending \in Versions
  /\ watch = "save" => held.pending \in Versions /\ held.healthy /\ ~held.rolledBack
  /\ pc \in {"restore", "deny"} => Pending(st)
  /\ Pending(st) => ~st.rolledBack

\* The finalizer and an agent's own swap are never at work at once, and a target
\* that is missing has been moved aside by a swap that has yet to end.
BinaryInv ==
  Sound =>
    /\ fin = "wait" => upd \in {"handoff", "handed"}
    /\ upd \in {"handoff", "handed"} => fin = "wait"
    /\ fin \in {"swapped", "start"} \cup Swapping => pc = "stopped"
    /\ target = None =>
         upd = "in" \/ fin = "in" \/ pc \in {"down", "guard", "guardRestore", "exec"}
    /\ target = None \/ upd = "in" \/ fin = "in" \/ pc = "guardRestore" => backup # None
    /\ upd = "in" => backup = ver
    /\ pc \in {"check", "restore", "clean", "up"} /\ upd \notin {"in", "swapped"}
         => target = ver

\* A build that has not ended its probation is the target only with a record that
\* says so and a proven backup.
ProvenInv ==
  Alone =>
    /\ backup \in released \cup {None}
    /\ target \notin released \cup {None} =>
         Pending(st) /\ st.pending = target /\ probation # None /\ backup # None
    /\ Busy => ver \in released /\ Pending(st) /\ st.pending = req.version
    /\ Busy /\ upd # "probation" => probation # None
    /\ FinBusy => Pending(st) /\ st.pending = finReq.version /\ probation # None
    /\ fin \in {"wait", "swap", "aside"} => target \in released
    /\ Restoring \/ pc \in {"clean", "cleanExit"} => target \in released
    /\ watch \in {"save", "clean"} => upd \in {"idle", "download", "begin"}
    /\ upd \notin {"idle", "download", "begin"} =>
         st.age = 0 /\ (watch = "wait" => since = 0)
    /\ watch = "save" => held.pending = st.pending /\ held.previous = st.previous
    /\ watch = "clean" => ver \in released

\* What the record and the guard's file say of the binaries: the pending version is
\* the target and the backup the one before it, or a swap or a rollback between them
\* is under way, or the guard has rolled back and the agent has yet to read it.
RecordInv ==
  Clean =>
    /\ target = None => upd = "in" \/ fin = "in"
    /\ st.pending # None => st.previous # None
    /\ Busy => st.previous = ver
    /\ FinBusy => target = st.previous \/ fin = "in"
    /\ fin = "in" => backup = st.previous
    /\ fin = "swapped" => Pending(st) /\ st.pending = target /\ backup = st.previous
    /\ st.pending # None /\ ~Busy /\ ~FinBusy /\ ~Restoring =>
         \/ st.pending = target /\ backup = st.previous
         \/ probation = None /\ st.healthy
         \/ probation = None /\ st.pending \in denied /\ pc \in {"down", "guard", "exec", "check"}
    /\ probation # None /\ upd # "probation" /\ pc # "cleanExit" =>
         st.pending # None /\ probation.version = st.pending
    /\ pc \in {"guardRestore", "guardDeny"} => probation # None
    /\ pc = "guardClean" => st.healthy \/ st.pending \in denied
    /\ pc \in {"deny", "save"} => st.pending # None
    /\ pc = "clean" => st.pending = None /\ probation = None
    /\ st.healthy => st.pending \in released

\* Every version that was rolled back is denied, or the step that denies it is next;
\* and an update that is not forced is of a version that is not denied.
DeniedInv ==
  "interrupted" \notin excuse /\ "finalizer" \notin excuse =>
    /\ \A v \in rolled : \/ v \in denied
                         \/ pc = "guardDeny" /\ probation # None /\ v = probation.version
                         \/ pc = "deny" /\ v = st.pending
    /\ upd # "idle" /\ ~req.force => req.version \notin denied
    /\ fin # "none" /\ ~finReq.force => finReq.version \notin denied

UpdateInv == TypeInv /\ PlaceInv /\ BinaryInv /\ ProvenInv /\ RecordInv /\ DeniedInv

-----------------------------------------------------------------------------
(* The state file.                                                         *)

\* A change of the launches, the age or the finalizer's flags.
Same(s, t) ==
  /\ Shape(t)
  /\ t.pending = s.pending /\ t.previous = s.previous
  /\ t.healthy = s.healthy /\ t.rolledBack = s.rolledBack

\* What recordStart, beginFinalize, FinalizeOutcome and the passing of time leave
\* alone in the state file.
LEMMA SameFacts ==
  ASSUME NEW s, Shape(s), NEW a, NEW b
  PROVE  /\ Same(s, s)
         /\ Same(s, [s EXCEPT !.starts = a]) /\ [s EXCEPT !.starts = a].age = s.age
         /\ Same(s, [s EXCEPT !.starts = a, !.age = b])
         /\ Same(s, [s EXCEPT !.finalizing = TRUE, !.finalizeErr = FALSE])
         /\ [s EXCEPT !.finalizing = TRUE, !.finalizeErr = FALSE].age = s.age
         /\ Same(s, [s EXCEPT !.finalizing = FALSE, !.finalizeErr = TRUE])
         /\ Same(s, [s EXCEPT !.finalizing = FALSE, !.finalizeErr = FALSE])
  BY DEF Same, Shape

\* What BeginUpdate, a rollback without a backup and markHealthy write.
Begun(v, w) == [NoState EXCEPT !.pending = v, !.previous = w]
GivenUp(s) == [s EXCEPT !.rolledBack = TRUE, !.pending = None]
Healed(s, u) ==
  [s EXCEPT !.healthy = TRUE, !.unproven = u, !.starts = <<>>, !.age = 0]

\* Clear leaves an empty state file.
LEMMA EmptyFacts ==
  Shape(NoState) /\ NoState.pending = None /\ NoState.healthy = FALSE
  BY DEF Shape, NoState, Files

\* finishRollback forgets the pending version.
LEMMA RolledBackFacts ==
  ASSUME NEW s, Shape(s)
  PROVE  /\ Shape(RolledBack(s)) /\ RolledBack(s).pending = None
         /\ RolledBack(s).healthy = FALSE
  BY DEF Shape, RolledBack, Files

\* So does a rollback that finds no backup.
LEMMA GivenUpFacts ==
  ASSUME NEW s, Shape(s)
  PROVE  /\ Shape(GivenUp(s)) /\ GivenUp(s).pending = None
         /\ GivenUp(s).healthy = s.healthy
  BY DEF Shape, GivenUp, Files

\* BeginUpdate records the version, the one before it, and nothing else.
LEMMA BegunFacts ==
  ASSUME NEW v \in Files, NEW w \in Files
  PROVE  /\ Shape(Begun(v, w)) /\ Begun(v, w).pending = v /\ Begun(v, w).previous = w
         /\ Begun(v, w).healthy = FALSE /\ Begun(v, w).rolledBack = FALSE
         /\ Begun(v, w).age = 0
  BY DEF Shape, Begun, NoState, Files

\* markHealthy ends the probation of the version on record.
LEMMA HealedFacts ==
  ASSUME NEW s, Shape(s), NEW u \in BOOLEAN
  PROVE  /\ Shape(Healed(s, u)) /\ Healed(s, u).pending = s.pending
         /\ Healed(s, u).previous = s.previous /\ Healed(s, u).healthy = TRUE
         /\ Healed(s, u).rolledBack = s.rolledBack /\ Healed(s, u).age = 0
  <1>1. Shape(Healed(s, u)) /\ Healed(s, u).age = 0
    BY Zenon DEF Shape, Healed
  <1>2. Healed(s, u).pending = s.pending /\ Healed(s, u).previous = s.previous
    BY DEF Shape, Healed
  <1>3. Healed(s, u).healthy = TRUE /\ Healed(s, u).rolledBack = s.rolledBack
    BY DEF Shape, Healed
  <1> QED BY <1>1, <1>2, <1>3

-----------------------------------------------------------------------------
(* The steps.                                                              *)

\* What each move of Swap does, and what undoing it does.
LEMMA SwapFacts ==
  ASSUME NEW s \in Swapping, NEW v \in Versions
  PROVE  /\ SwapMoves(s, v) =>
              \/ s = "swap" /\ SwapNext(s) = "aside" /\ backup' = None /\ target' = target
              \/ /\ s = "aside" /\ SwapNext(s) = "in" /\ target # None
                 /\ backup' = target /\ target' = None
              \/ s = "in" /\ SwapNext(s) = "swapped" /\ target' = v /\ backup' = backup
         /\ SwapFails(s) =>
              \/ s = "in" /\ backup # None /\ target' = backup /\ backup' = None
              \/ (s # "in" \/ backup = None) /\ target' = target /\ backup' = backup
  BY DEF SwapMoves, SwapNext, SwapFails, Swapping

\* The actions that leave the state file alone.
Reading ==
  \/ Launch \/ GuardCheck \/ GuardRestore \/ GuardDeny \/ GuardClean \/ Exec
  \/ Deny \/ FinishRollback \/ \E r \in Requests : Accept(r)
  \/ Download \/ WriteProbation \/ ApplySwap \/ SpawnFinalizer \/ Finish
  \/ FinalizerSwap \/ StartService \/ WatchLoad \/ MarkHealthy \/ MarkClean
  \/ BuildCrashes \/ PowerLoss

\* The actions that change the launches, the age or the finalizer's flags in it.
Noting ==
  \/ RecordStart \/ BeginFinalize \/ FinalizerTimesOut \/ FinalizerFails \/ Finalized
  \/ Tick

\* What a step leaves of the state file: nothing else changes its version.
LEMMA StateStep ==
  ASSUME TypeInv, PlaceInv, Next
  PROVE  /\ Reading => st' = st
         /\ Noting => Same(st, st')
         /\ RecordStart \/ BeginFinalize => st'.age = st.age
         /\ Reconcile \/ SaveRolledBack => st' = RolledBack(st)
         /\ BeginUpdate => st' = Begun(req.version, ver)
         /\ ApplyFails => st' = NoState
         /\ MarkSave => st' = held
         /\ Restore => st' = st \/ (backup = None /\ st' = GivenUp(st))
         /\ MarkHealthy => \/ held' = held
                           \/ Pending(st) /\ \E u \in BOOLEAN : held' = Healed(st, u)
  <1>1. Reading => st' = st
    BY Zenon DEF Reading, Launch, GuardCheck, GuardRestore, GuardDeny, GuardClean, Exec, Deny,
       FinishRollback, Accept, Download, WriteProbation, ApplySwap, SpawnFinalizer, Finish,
       FinalizerSwap, StartService, WatchLoad, MarkHealthy, MarkClean, BuildCrashes,
       PowerLoss, files
  <1>2. RecordStart => Same(st, st') /\ st'.age = st.age
    <2>1. RecordStart => st' = st \/ \E a : st' = [st EXCEPT !.starts = a]
      BY Zenon DEF RecordStart
    <2>2. Same(st, st)
      BY SameFacts DEF TypeInv
    <2>3. \A a : LET t == [st EXCEPT !.starts = a] IN Same(st, t) /\ t.age = st.age
      BY SameFacts DEF TypeInv
    <2> QED BY <2>1, <2>2, <2>3, Zenon
  <1>3. BeginFinalize => Same(st, st') /\ st'.age = st.age
    BY SameFacts DEF BeginFinalize, TypeInv
  <1>4. FinalizerTimesOut \/ FinalizerFails => Same(st, st')
    <2>1. FinalizerTimesOut \/ FinalizerFails =>
            st' = [st EXCEPT !.finalizing = FALSE, !.finalizeErr = TRUE]
      BY Zenon DEF FinalizerTimesOut, FinalizerFails, FinalizeFailed
    <2>2. Same(st, [st EXCEPT !.finalizing = FALSE, !.finalizeErr = TRUE])
      BY SameFacts DEF TypeInv
    <2> QED BY <2>1, <2>2, Zenon
  <1>5. Finalized => Same(st, st')
    BY SameFacts DEF Finalized, TypeInv
  <1>6. Tick => Same(st, st')
    <2> DEFINE Aged(a, b) == [st EXCEPT !.starts = a, !.age = b]
    <2>1. Tick => st' = st \/ \E a, b : st' = Aged(a, b)
      BY Zenon DEF Tick
    <2>2. Same(st, st)
      BY SameFacts DEF TypeInv
    <2>3. \A a, b : Same(st, Aged(a, b))
      BY SameFacts DEF TypeInv
    <2> HIDE DEF Aged
    <2> QED BY <2>1, <2>2, <2>3, Zenon
  <1>7. /\ Reconcile \/ SaveRolledBack => st' = RolledBack(st)
        /\ BeginUpdate => st' = Begun(req.version, ver)
        /\ ApplyFails => st' = NoState
        /\ MarkSave => st' = held
    BY Zenon DEF Reconcile, SaveRolledBack, BeginUpdate, ApplyFails, MarkSave, Begun
  <1>8. Restore => st' = st \/ (backup = None /\ st' = GivenUp(st))
    BY Zenon DEF Restore, GivenUp
  <1>9. MarkHealthy => \/ held' = held
                       \/ Pending(st) /\ \E u \in BOOLEAN : held' = Healed(st, u)
    BY Zenon DEF MarkHealthy, Healed
  <1> QED BY <1>1, <1>2, <1>3, <1>4, <1>5, <1>6, <1>7, <1>8, <1>9, Zenon DEF Noting

\* Which steps write each file, and each history variable.
LEMMA Writers ==
  ASSUME Next
  PROVE  /\ \/ target' = target /\ backup' = backup
            \/ GuardRestore \/ Restore \/ ApplySwap \/ ApplyFails \/ SpawnFinalizer
            \/ FinalizerSwap \/ FinalizerFails
         /\ \/ probation' = probation \/ probation' = None
            \/ WriteProbation \/ BeginFinalize \/ Finalized
         /\ denied' = denied \/ GuardDeny \/ Deny
         /\ released' = released \/ MarkSave
         /\ held' = held \/ held' = NoState \/ MarkHealthy
         /\ \/ req' = req \/ req' = NoRequest
            \/ \E r \in Requests : req' = r
         /\ finReq' = finReq \/ finReq' = NoRequest \/ finReq' = req
         /\ ver' = ver \/ Exec
         /\ guarded' = guarded
         /\ upd' = upd \/ upd' # "swapped" \/ ApplySwap
         /\ fin' = fin \/ fin' \in {"none", "wait", "swap", "start"} \/ FinalizerSwap
  <1> USE DEF files, job, watcher, finalizer, history, bounds, Ends, ParentGone,
        FinalizeFailed
  <1>1. CASE \/ Launch \/ GuardCheck \/ GuardRestore \/ GuardDeny \/ GuardClean \/ Exec
             \/ Reconcile \/ RecordStart \/ Restore \/ Deny \/ SaveRolledBack
             \/ FinishRollback
    BY <1>1, Zenon DEF Launch, GuardCheck, GuardRestore, GuardDeny, GuardClean, Exec,
       Reconcile, RecordStart, Restore, Deny, SaveRolledBack, FinishRollback
  <1>2. CASE \/ \E r \in Requests : Accept(r)
             \/ Download \/ BeginUpdate \/ WriteProbation \/ ApplySwap \/ ApplyFails
             \/ SpawnFinalizer \/ BeginFinalize \/ Finish
    BY <1>2, Zenon DEF Accept, Download, BeginUpdate, WriteProbation, ApplySwap,
       ApplyFails, SpawnFinalizer, BeginFinalize, Finish
  <1>3. CASE \/ FinalizerTimesOut \/ FinalizerSwap \/ FinalizerFails \/ Finalized
             \/ StartService \/ WatchLoad \/ MarkHealthy \/ MarkSave \/ MarkClean
             \/ Tick \/ BuildCrashes \/ PowerLoss
    BY <1>3, Zenon DEF FinalizerTimesOut, FinalizerSwap, FinalizerFails, Finalized,
       StartService, WatchLoad, MarkHealthy, MarkSave, MarkClean, Tick, BuildCrashes,
       PowerLoss
  <1> QED BY <1>1, <1>2, <1>3, Zenon DEF Next

\* The moves of Swap and their undoing, in Apply and in the finalizer.
LEMMA MoveStep ==
  ASSUME TypeInv
  PROVE  /\ ApplySwap =>
              \/ upd = "swap" /\ upd' = "aside" /\ backup' = None /\ target' = target
              \/ /\ upd = "aside" /\ upd' = "in" /\ target # None
                 /\ backup' = target /\ target' = None
              \/ upd = "in" /\ upd' = "swapped" /\ target' = req.version /\ backup' = backup
         /\ FinalizerSwap =>
              \/ fin = "swap" /\ fin' = "aside" /\ backup' = None /\ target' = target
              \/ /\ fin = "aside" /\ fin' = "in" /\ target # None
                 /\ backup' = target /\ target' = None
              \/ /\ fin = "in" /\ fin' = "swapped"
                 /\ target' = finReq.version /\ backup' = backup
         /\ ApplyFails \/ SpawnFinalizer =>
              \/ upd = "in" /\ backup # None /\ target' = backup /\ backup' = None
              \/ (upd # "in" \/ backup = None) /\ target' = target /\ backup' = backup
  <1>1. req.version \in Versions /\ finReq.version \in Versions
    BY DEF TypeInv, Requests
  <1>2. ApplySwap =>
          \/ upd = "swap" /\ upd' = "aside" /\ backup' = None /\ target' = target
          \/ upd = "aside" /\ upd' = "in" /\ target # None /\ backup' = target /\ target' = None
          \/ upd = "in" /\ upd' = "swapped" /\ target' = req.version /\ backup' = backup
    BY <1>1, SwapFacts DEF ApplySwap
  <1>3. FinalizerSwap =>
          \/ fin = "swap" /\ fin' = "aside" /\ backup' = None /\ target' = target
          \/ fin = "aside" /\ fin' = "in" /\ target # None /\ backup' = target /\ target' = None
          \/ fin = "in" /\ fin' = "swapped" /\ target' = finReq.version /\ backup' = backup
    BY <1>1, SwapFacts DEF FinalizerSwap
  <1>4. ApplyFails \/ SpawnFinalizer =>
          \/ upd = "in" /\ backup # None /\ target' = backup /\ backup' = None
          \/ (upd # "in" \/ backup = None) /\ target' = target /\ backup' = backup
    BY <1>1, SwapFacts DEF ApplyFails, SpawnFinalizer
  <1> QED BY <1>2, <1>3, <1>4, Zenon

\* The types are kept by every step.
LEMMA TypeStep ==
  ASSUME TypeInv, PlaceInv, Next
  PROVE  TypeInv'
  <1>0. /\ None \notin Versions /\ First \in Versions /\ NoRequest \in Requests
        /\ Versions \subseteq Files /\ None \in Files
    BY VersionsAssumption DEF NoRequest, Requests, Files
  <1>1. Shape(st')
    <2>1. CASE Reading \/ Noting
      BY <2>1, StateStep, Zenon DEF Same, TypeInv
    <2>2. CASE Reconcile \/ SaveRolledBack
      <3>1. st' = RolledBack(st)
        BY <2>2, StateStep
      <3> QED BY <3>1, RolledBackFacts DEF TypeInv
    <2>3. CASE Restore
      <3>1. st' = st \/ st' = GivenUp(st)
        BY <2>3, StateStep
      <3> QED BY <3>1, GivenUpFacts DEF TypeInv
    <2>4. CASE BeginUpdate
      <3>1. req.version \in Files /\ ver \in Files
        BY <1>0 DEF TypeInv, Requests
      <3>2. st' = Begun(req.version, ver)
        BY <2>4, StateStep
      <3> QED BY <3>1, <3>2, BegunFacts
    <2>5. CASE ApplyFails \/ MarkSave
      BY <2>5, StateStep, EmptyFacts DEF TypeInv
    <2> QED BY <2>1, <2>2, <2>3, <2>4, <2>5, Zenon DEF Next, Reading, Noting
  <1>2. Shape(held')
    <2>1. CASE MarkHealthy
      <3>1. held' = held \/ \E u \in BOOLEAN : held' = Healed(st, u)
        BY <2>1, StateStep
      <3>2. \A u \in BOOLEAN : Shape(Healed(st, u))
        BY <1>0, HealedFacts, Zenon DEF TypeInv
      <3>3. Shape(held)
        BY <1>0 DEF TypeInv
      <3> QED BY <3>1, <3>2, <3>3, Zenon
    <2> QED BY <2>1, Writers, EmptyFacts DEF TypeInv
  <1>3. probation' \in {None} \cup [version : Files, finalizing : BOOLEAN]
    <2>1. CASE WriteProbation
      BY <2>1, <1>1 DEF WriteProbation, ProbationOf, TypeInv, Shape
    <2>2. CASE BeginFinalize \/ Finalized
      BY <2>2, <1>1 DEF BeginFinalize, Finalized, ProbationOf, Shape
    <2> QED BY <2>1, <2>2, Writers, Zenon DEF TypeInv
  <1>4. target' \in Files /\ backup' \in Files
    <2>1. CASE GuardRestore \/ Restore
      BY <2>1, <1>0 DEF GuardRestore, Restore, TypeInv
    <2>2. CASE ApplySwap \/ ApplyFails \/ SpawnFinalizer
      BY <2>2, <1>0, SwapFacts DEF ApplySwap, ApplyFails, SpawnFinalizer, TypeInv, Requests
    <2>3. CASE FinalizerSwap \/ FinalizerFails
      BY <2>3, <1>0, SwapFacts DEF FinalizerSwap, FinalizerFails, TypeInv, Requests
    <2> QED BY <2>1, <2>2, <2>3, Writers, Zenon DEF TypeInv
  <1>5. denied' \subseteq Versions /\ released' \subseteq Versions
    <2>1. CASE GuardDeny
      BY <2>1, Writers DEF GuardDeny, PlaceInv, TypeInv, Guarding, history
    <2>2. CASE Deny
      BY <2>2, Writers DEF Deny, PlaceInv, TypeInv, Pending, Shape, Files, history
    <2>3. CASE MarkSave
      BY <2>3 DEF MarkSave, TypeInv
    <2> QED BY <2>1, <2>2, <2>3, Writers DEF TypeInv
  <1>6. ver' \in Versions
    BY Writers DEF Exec, TypeInv
  <1>7. fin' \in {"none", "wait", "swapped", "start"} \cup Swapping
    BY Writers, MoveStep DEF TypeInv, Swapping
  <1>8. req' \in Requests /\ finReq' \in Requests /\ guarded' \in BOOLEAN
    BY <1>0, Writers, Zenon DEF TypeInv
  <1> QED BY <1>1, <1>2, <1>3, <1>4, <1>5, <1>6, <1>7, <1>8, Zenon DEF TypeInv

\* The same, field by field.
LEMMA FieldStep ==
  ASSUME TypeInv, PlaceInv, Next
  PROVE  /\ Noting => Same(st, st')
         /\ Reconcile \/ SaveRolledBack \/ ApplyFails => st'.pending = None /\ ~st'.healthy
         /\ BeginUpdate =>
              /\ st'.pending = req.version /\ st'.previous = ver
              /\ ~st'.healthy /\ ~st'.rolledBack /\ st'.age = 0
         /\ Restore => \/ st' = st
                       \/ backup = None /\ st'.pending = None /\ st'.healthy = st.healthy
         /\ MarkHealthy /\ watch' = "save" =>
              /\ Pending(st) /\ held'.pending = st.pending /\ held'.previous = st.previous
              /\ held'.healthy /\ held'.rolledBack = st.rolledBack
  <1>1. Noting => Same(st, st')
    BY StateStep, Zenon
  <1>2. Reconcile \/ SaveRolledBack \/ ApplyFails => st'.pending = None /\ ~st'.healthy
    <2>1. RolledBack(st).pending = None /\ ~RolledBack(st).healthy
      BY RolledBackFacts DEF TypeInv
    <2>2. Reconcile \/ SaveRolledBack => st' = RolledBack(st)
      BY StateStep, Zenon
    <2>3. ApplyFails => st' = NoState
      BY StateStep, Zenon
    <2> QED BY <2>1, <2>2, <2>3, EmptyFacts, Zenon
  <1>3. BeginUpdate =>
          /\ st'.pending = req.version /\ st'.previous = ver
          /\ ~st'.healthy /\ ~st'.rolledBack /\ st'.age = 0
    <2>1. req.version \in Files /\ ver \in Files
      BY DEF TypeInv, Requests, Files
    <2>2. LET n == Begun(req.version, ver)
          IN  n.pending = req.version /\ n.previous = ver /\ ~n.healthy /\ ~n.rolledBack
              /\ n.age = 0
      BY <2>1, BegunFacts
    <2>3. BeginUpdate => st' = Begun(req.version, ver)
      BY StateStep, Zenon
    <2> QED BY <2>2, <2>3, Zenon
  <1>4. Restore => \/ st' = st
                   \/ backup = None /\ st'.pending = None /\ st'.healthy = st.healthy
    <2>1. GivenUp(st).pending = None /\ GivenUp(st).healthy = st.healthy
      BY GivenUpFacts DEF TypeInv
    <2>2. Restore => st' = st \/ (backup = None /\ st' = GivenUp(st))
      BY StateStep, Zenon
    <2> QED BY <2>1, <2>2, Zenon
  <1>5. ASSUME MarkHealthy, watch' = "save"
        PROVE  /\ Pending(st) /\ held'.pending = st.pending /\ held'.previous = st.previous
               /\ held'.healthy /\ held'.rolledBack = st.rolledBack
    <2>1. PICK u \in BOOLEAN : held' = Healed(st, u) /\ Pending(st)
      BY <1>5, Zenon DEF MarkHealthy, Healed
    <2>2. /\ Healed(st, u).pending = st.pending /\ Healed(st, u).previous = st.previous
          /\ Healed(st, u).healthy /\ Healed(st, u).rolledBack = st.rolledBack
      BY HealedFacts DEF TypeInv
    <2> QED BY <2>1, <2>2, Zenon
  <1> QED BY <1>1, <1>2, <1>3, <1>4, <1>5, Zenon

\* Where the processes are, and what they hold while they are there, is kept by
\* every step.
LEMMA PlaceStep ==
  ASSUME TypeInv, PlaceInv, Next
  PROVE  PlaceInv'
  <1> USE DEF PlaceInv, Busy, Swapping, Guarding, Pending, files, job, watcher, finalizer
  <1>0. /\ None \notin Versions /\ req.version \in Versions /\ req.version \in Files
        /\ ver \in Files
    BY VersionsAssumption DEF TypeInv, Requests, Files
  <1>1. CASE Launch
    BY <1>1 DEF Launch
  <1>2. CASE GuardCheck
    BY <1>2 DEF GuardCheck
  <1>3. CASE GuardRestore
    BY <1>3 DEF GuardRestore
  <1>4. CASE GuardDeny
    BY <1>4 DEF GuardDeny
  <1>5. CASE GuardClean
    BY <1>5 DEF GuardClean
  <1>6. CASE Exec
    BY <1>6 DEF Exec
  <1>7. CASE Reconcile
    BY <1>7, FieldStep DEF Reconcile
  <1>8. CASE RecordStart
    <2>1. Same(st, st')
      BY <1>8, FieldStep DEF Noting
    <2> QED BY <1>8, <2>1 DEF RecordStart, ShouldRollback, Same
  <1>9. CASE Restore
    <2>1. \/ st' = st
          \/ backup = None /\ st'.pending = None /\ st'.healthy = st.healthy
      BY <1>9, FieldStep
    <2> QED BY <1>9, <2>1 DEF Restore
  <1>10. CASE Deny
    BY <1>10 DEF Deny
  <1>11. CASE SaveRolledBack
    BY <1>11, FieldStep DEF SaveRolledBack
  <1>12. CASE FinishRollback
    BY <1>12 DEF FinishRollback
  <1>13. CASE \E r \in Requests : Accept(r)
    BY <1>13 DEF Accept
  <1>14. CASE Download
    BY <1>14 DEF Download
  <1>15. CASE BeginUpdate
    <2>1. st'.pending = req.version /\ ~st'.rolledBack
      BY <1>15, FieldStep
    <2> QED BY <1>15, <1>0, <2>1 DEF BeginUpdate
  <1>16. CASE WriteProbation
    BY <1>16 DEF WriteProbation, ProbationOf
  <1>17. CASE ApplySwap
    <2>1. upd' \in {"aside", "in", "swapped"}
      BY <1>17, <1>0, SwapFacts DEF ApplySwap
    <2> QED BY <1>17, <2>1 DEF ApplySwap
  <1>18. CASE ApplyFails
    BY <1>18, FieldStep DEF ApplyFails
  <1>19. CASE SpawnFinalizer
    BY <1>19 DEF SpawnFinalizer
  <1>20. CASE BeginFinalize
    <2>1. Same(st, st')
      BY <1>20, FieldStep DEF Noting
    <2> QED BY <1>20, <2>1 DEF BeginFinalize, ProbationOf, Same
  <1>21. CASE Finish
    BY <1>21 DEF Finish, Ends, ParentGone
  <1>22. CASE FinalizerTimesOut \/ FinalizerFails
    <2>1. Same(st, st')
      BY <1>22, FieldStep DEF Noting
    <2> QED BY <1>22, <2>1 DEF FinalizerTimesOut, FinalizerFails, FinalizeFailed, Same
  <1>23. CASE FinalizerSwap
    BY <1>23 DEF FinalizerSwap
  <1>24. CASE Finalized
    <2>1. Same(st, st')
      BY <1>24, FieldStep DEF Noting
    <2> QED BY <1>24, <2>1 DEF Finalized, Same
  <1>25. CASE StartService
    BY <1>25 DEF StartService
  <1>26. CASE WatchLoad
    BY <1>26 DEF WatchLoad
  <1>27. CASE MarkHealthy
    <2>1. watch' = "save" =>
            held'.pending \in Versions /\ held'.healthy /\ ~held'.rolledBack
      BY <1>27, FieldStep DEF TypeInv, Shape, Files
    <2> QED BY <1>27, <2>1 DEF MarkHealthy
  <1>28. CASE MarkSave
    BY <1>28 DEF MarkSave
  <1>29. CASE MarkClean
    BY <1>29 DEF MarkClean
  <1>30. CASE Tick
    <2>1. Same(st, st')
      BY <1>30, FieldStep DEF Noting
    <2> QED BY <1>30, <2>1 DEF Tick, Same
  <1>31. CASE BuildCrashes
    BY <1>31 DEF BuildCrashes, Ends, ParentGone
  <1>32. CASE PowerLoss
    BY <1>32 DEF PowerLoss, Ends
  <1> HIDE DEF PlaceInv, Busy, Swapping, Guarding, Pending, files, job, watcher,
        finalizer
  <1> QED
    BY <1>1, <1>2, <1>3, <1>4, <1>5, <1>6, <1>7, <1>8, <1>9, <1>10, <1>11, <1>12, <1>13,
       <1>14, <1>15, <1>16, <1>17, <1>18, <1>19, <1>20, <1>21, <1>22, <1>23, <1>24, <1>25,
       <1>26, <1>27, <1>28, <1>29, <1>30, <1>31, <1>32, SMT DEF Next

\* Swap, its undoing and the restores never leave a host without a binary, and never
\* work on the files at once: kept by every step.
LEMMA BinaryStep ==
  ASSUME TypeInv, PlaceInv, BinaryInv, Next
  PROVE  BinaryInv'
  <1> USE DEF BinaryInv, Sound, PlaceInv, Swapping, Guarding, files, job, finalizer, history
  <1>0. /\ None \notin Versions /\ req.version \in Versions /\ finReq.version \in Versions
        /\ ver \in Versions
    BY VersionsAssumption DEF TypeInv, Requests
  <1>1. CASE Launch
    BY <1>1 DEF Launch
  <1>2. CASE GuardCheck
    BY <1>2 DEF GuardCheck, CanRestore
  <1>3. CASE GuardRestore
    BY <1>3 DEF GuardRestore
  <1>4. CASE GuardDeny
    BY <1>4 DEF GuardDeny
  <1>5. CASE GuardClean
    BY <1>5 DEF GuardClean
  <1>6. CASE Exec
    BY <1>6, <1>0 DEF Exec
  <1>7. CASE Reconcile
    BY <1>7 DEF Reconcile
  <1>8. CASE RecordStart
    BY <1>8 DEF RecordStart
  <1>9. CASE Restore
    BY <1>9 DEF Restore
  <1>10. CASE Deny
    BY <1>10 DEF Deny
  <1>11. CASE SaveRolledBack
    BY <1>11 DEF SaveRolledBack
  <1>12. CASE FinishRollback
    BY <1>12 DEF FinishRollback
  <1>13. CASE \E r \in Requests : Accept(r)
    BY <1>13 DEF Accept
  <1>14. CASE Download
    BY <1>14 DEF Download
  <1>15. CASE BeginUpdate
    BY <1>15 DEF BeginUpdate
  <1>16. CASE WriteProbation
    BY <1>16 DEF WriteProbation
  <1>17. CASE ApplySwap
    BY <1>17, <1>0, MoveStep DEF ApplySwap
  <1>18. CASE ApplyFails
    BY <1>18, <1>0, MoveStep DEF ApplyFails
  <1>19. CASE SpawnFinalizer
    BY <1>19, <1>0, MoveStep DEF SpawnFinalizer
  <1>20. CASE BeginFinalize
    BY <1>20 DEF BeginFinalize
  <1>21. CASE Finish
    BY <1>21 DEF Finish, Ends, ParentGone
  <1>22. CASE FinalizerTimesOut
    BY <1>22 DEF FinalizerTimesOut, FinalizeFailed
  <1>23. CASE FinalizerSwap
    BY <1>23, <1>0, MoveStep DEF FinalizerSwap
  <1>24. CASE FinalizerFails
    BY <1>24 DEF FinalizerFails, FinalizeFailed
  <1>25. CASE Finalized
    BY <1>25 DEF Finalized
  <1>26. CASE StartService
    BY <1>26 DEF StartService
  <1>27. CASE WatchLoad
    BY <1>27 DEF WatchLoad
  <1>28. CASE MarkHealthy
    BY <1>28 DEF MarkHealthy
  <1>29. CASE MarkSave
    BY <1>29 DEF MarkSave
  <1>30. CASE MarkClean
    BY <1>30 DEF MarkClean
  <1>31. CASE Tick
    BY <1>31 DEF Tick
  <1>32. CASE BuildCrashes
    BY <1>32 DEF BuildCrashes, Ends, ParentGone
  <1>33. CASE PowerLoss
    BY <1>33 DEF PowerLoss, Ends
  <1> HIDE DEF BinaryInv, Sound, PlaceInv, Swapping, Guarding, files, job, finalizer, history
  <1> QED
    BY <1>1, <1>2, <1>3, <1>4, <1>5, <1>6, <1>7, <1>8, <1>9, <1>10, <1>11, <1>12,
       <1>13, <1>14, <1>15, <1>16, <1>17, <1>18, <1>19, <1>20, <1>21, <1>22, <1>23,
       <1>24, <1>25, <1>26, <1>27, <1>28, <1>29, <1>30, <1>31, <1>32, <1>33,
       SMT DEF Next

\* A proven build stays on disk, and one that is not is on record: kept by every step.
LEMMA ProvenStep ==
  ASSUME TypeInv, PlaceInv, BinaryInv, ProvenInv, Next
  PROVE  ProvenInv'
  <1> USE DEF ProvenInv, Alone, BinaryInv, Sound, PlaceInv, Busy, FinBusy, Restoring, Pending, Swapping,
        Guarding, files, job, watcher, finalizer, history
  <1>0. /\ None \notin Versions /\ req.version \in Versions /\ finReq.version \in Versions
        /\ ver \in Versions /\ released \subseteq Versions /\ MinProbation \in Nat /\ MinProbation > 0
        /\ None \notin [version : Files, finalizing : BOOLEAN] /\ st.pending \in Files
        /\ st.finalizing \in BOOLEAN
    BY VersionsAssumption, LimitsAssumption DEF TypeInv, Requests, Files, Shape
  <1>1. CASE Launch
    BY <1>1 DEF Launch
  <1>2. CASE GuardCheck
    BY <1>2 DEF GuardCheck, CanRestore
  <1>3. CASE GuardRestore
    BY <1>3 DEF GuardRestore
  <1>4. CASE GuardDeny
    BY <1>4 DEF GuardDeny
  <1>5. CASE GuardClean
    BY <1>5 DEF GuardClean
  <1>6. CASE Exec
    BY <1>6, <1>0 DEF Exec
  <1>7. CASE Reconcile
    BY <1>7, <1>0, FieldStep DEF Reconcile, GuardRolledBack
  <1>8. CASE RecordStart
    <2>1. Same(st, st') /\ st'.age = st.age
      BY <1>8, StateStep DEF Noting
    <2> QED BY <1>8, <1>0, <2>1 DEF RecordStart, ShouldRollback, Same
  <1>9. CASE Restore
    <2>1. \/ st' = st
          \/ backup = None /\ st'.pending = None /\ st'.healthy = st.healthy
      BY <1>9, FieldStep
    <2> QED BY <1>9, <1>0, <2>1 DEF Restore
  <1>10. CASE Deny
    BY <1>10 DEF Deny
  <1>11. CASE SaveRolledBack
    BY <1>11, <1>0, FieldStep DEF SaveRolledBack
  <1>12. CASE FinishRollback
    BY <1>12 DEF FinishRollback
  <1>13. CASE \E r \in Requests : Accept(r)
    BY <1>13 DEF Accept
  <1>14. CASE Download
    BY <1>14 DEF Download
  <1>15. CASE BeginUpdate
    <2>1. st'.pending = req.version /\ ~st'.healthy /\ st'.age = 0
      BY <1>15, FieldStep
    <2> QED BY <1>15, <1>0, <2>1 DEF BeginUpdate
  <1>16. CASE WriteProbation
    BY <1>16, <1>0 DEF WriteProbation, ProbationOf
  <1>17. CASE ApplySwap
    BY <1>17, <1>0, MoveStep DEF ApplySwap
  <1>18. CASE ApplyFails
    BY <1>18, <1>0, MoveStep DEF ApplyFails
  <1>19. CASE SpawnFinalizer
    BY <1>19, <1>0, MoveStep DEF SpawnFinalizer
  <1>20. CASE BeginFinalize
    <2>1. Same(st, st') /\ st'.age = st.age
      BY <1>20, StateStep DEF Noting
    <2>2. st'.pending \in Files /\ st'.finalizing \in BOOLEAN
      BY <2>1 DEF Same, Shape
    <2>3. /\ upd = "handoff" /\ upd' = "handed" /\ probation' = ProbationOf(st')
          /\ UNCHANGED <<target, backup, pc, ver, req, watcher, finalizer, history>>
      BY <1>20, Zenon DEF BeginFinalize
    <2>4. probation' # None
      BY <2>2, <2>3, VersionsAssumption DEF ProbationOf, Files
    <2>5. /\ st'.pending = st.pending /\ st'.healthy = st.healthy
          /\ st'.previous = st.previous /\ (Pending(st) => Pending(st'))
      BY <2>1 DEF Same, Pending
    <2> QED BY <1>0, <2>1, <2>3, <2>4, <2>5
  <1>21. CASE Finish
    BY <1>21 DEF Finish, Ends, ParentGone
  <1>22. CASE FinalizerTimesOut
    BY <1>22 DEF FinalizerTimesOut, FinalizeFailed
  <1>23. CASE FinalizerSwap
    BY <1>23, <1>0, MoveStep DEF FinalizerSwap
  <1>24. CASE FinalizerFails
    BY <1>24 DEF FinalizerFails, FinalizeFailed
  <1>25. CASE Finalized
    <2>1. Same(st, st')
      BY <1>25, FieldStep DEF Noting
    <2>2. st'.pending \in Files /\ st'.finalizing \in BOOLEAN
      BY <2>1 DEF Same, Shape
    <2>3. /\ fin = "swapped" /\ fin' = "start" /\ probation' = ProbationOf(st')
          /\ UNCHANGED <<target, backup, pc, ver, job, watcher, finReq, history>>
      BY <1>25, Zenon DEF Finalized
    <2>4. probation' # None
      BY <2>2, <2>3, VersionsAssumption DEF ProbationOf, Files
    <2>5. /\ st'.pending = st.pending /\ st'.healthy = st.healthy
          /\ st'.previous = st.previous /\ (Pending(st) => Pending(st'))
      BY <2>1 DEF Same, Pending
    <2> QED BY <1>0, <2>1, <2>3, <2>4, <2>5
  <1>26. CASE StartService
    BY <1>26 DEF StartService
  <1>27. CASE WatchLoad
    BY <1>27 DEF WatchLoad
  <1>28. CASE MarkHealthy
    <2>1. watch' = "save" =>
            Pending(st) /\ held'.pending = st.pending /\ held'.previous = st.previous
      BY <1>28, FieldStep
    <2>2. /\ watch = "wait" /\ since >= MinProbation /\ watch' \in {"save", "idle"}
          /\ UNCHANGED <<files, pc, ver, job, since, finalizer, history>>
      BY <1>28, Zenon DEF MarkHealthy
    <2> QED BY <1>0, <2>1, <2>2
  <1>29. CASE MarkSave
    BY <1>29 DEF MarkSave
  <1>30. CASE MarkClean
    BY <1>30 DEF MarkClean
  <1>31. CASE Tick
    <2>1. Same(st, st')
      BY <1>31, FieldStep DEF Noting
    <2> QED BY <1>31, <1>0, <2>1 DEF Tick, Same
  <1>32. CASE BuildCrashes
    BY <1>32 DEF BuildCrashes, Ends, ParentGone
  <1>33. CASE PowerLoss
    BY <1>33 DEF PowerLoss, Ends
  <1> HIDE DEF ProvenInv, Alone, BinaryInv, Sound, PlaceInv, Busy, FinBusy, Restoring, Pending, Swapping,
        Guarding, files, job, watcher, finalizer, history
  <1> QED
    BY <1>1, <1>2, <1>3, <1>4, <1>5, <1>6, <1>7, <1>8, <1>9, <1>10, <1>11, <1>12,
       <1>13, <1>14, <1>15, <1>16, <1>17, <1>18, <1>19, <1>20, <1>21, <1>22, <1>23,
       <1>24, <1>25, <1>26, <1>27, <1>28, <1>29, <1>30, <1>31, <1>32, <1>33,
       SMT DEF Next

\* What the record and the guard's file say of the binaries is kept by every step.
LEMMA RecordStep ==
  ASSUME TypeInv, PlaceInv, BinaryInv, ProvenInv, RecordInv, Next
  PROVE  RecordInv'
  <1> USE DEF RecordInv, Clean, ProvenInv, Alone, BinaryInv, Sound, PlaceInv, Busy, FinBusy, Restoring,
        Pending, Swapping, Guarding, files, job, watcher, finalizer, history
  <1>0. /\ None \notin Versions /\ req.version \in Versions /\ finReq.version \in Versions
        /\ ver \in Versions /\ released \subseteq Versions /\ denied \subseteq Versions
    BY VersionsAssumption DEF TypeInv, Requests
  <1>1. CASE Launch
    BY <1>1 DEF Launch
  <1>2. CASE GuardCheck
    BY <1>2, <1>0 DEF GuardCheck, CanRestore, OnProbation
  <1>3. CASE GuardRestore
    BY <1>3 DEF GuardRestore
  <1>4. CASE GuardDeny
    BY <1>4 DEF GuardDeny
  <1>5. CASE GuardClean
    BY <1>5 DEF GuardClean
  <1>6. CASE Exec
    BY <1>6, <1>0 DEF Exec
  <1>7. CASE Reconcile
    BY <1>7, <1>0, FieldStep DEF Reconcile, GuardRolledBack
  <1>8. CASE RecordStart
    <2>1. Same(st, st')
      BY <1>8, FieldStep DEF Noting
    <2> QED BY <1>8, <1>0, <2>1 DEF RecordStart, Same, GuardRolledBack
  <1>9. CASE Restore
    <2>1. \/ st' = st
          \/ backup = None /\ st'.pending = None /\ st'.healthy = st.healthy
      BY <1>9, FieldStep
    <2> QED BY <1>9, <1>0, <2>1 DEF Restore
  <1>10. CASE Deny
    BY <1>10 DEF Deny
  <1>11. CASE SaveRolledBack
    BY <1>11, <1>0, FieldStep DEF SaveRolledBack
  <1>12. CASE FinishRollback
    BY <1>12 DEF FinishRollback
  <1>13. CASE \E r \in Requests : Accept(r)
    BY <1>13 DEF Accept
  <1>14. CASE Download
    BY <1>14 DEF Download
  <1>15. CASE BeginUpdate
    <2>1. st'.pending = req.version /\ st'.previous = ver /\ ~st'.healthy
      BY <1>15, FieldStep
    <2> QED BY <1>15, <1>0, <2>1 DEF BeginUpdate
  <1>16. CASE WriteProbation
    BY <1>16, <1>0 DEF WriteProbation, ProbationOf
  <1>17. CASE ApplySwap
    BY <1>17, <1>0, MoveStep DEF ApplySwap
  <1>18. CASE ApplyFails
    BY <1>18, <1>0, MoveStep, FieldStep DEF ApplyFails
  <1>19. CASE SpawnFinalizer
    BY <1>19, <1>0, MoveStep DEF SpawnFinalizer
  <1>20. CASE BeginFinalize
    <2>1. Same(st, st')
      BY <1>20, FieldStep DEF Noting
    <2>2. /\ upd = "handoff" /\ upd' = "handed" /\ probation' = ProbationOf(st')
          /\ UNCHANGED <<target, backup, denied, pc, ver, req, watcher, finalizer, history>>
      BY <1>20, Zenon DEF BeginFinalize
    <2> QED BY <1>0, <2>1, <2>2 DEF ProbationOf, Same
  <1>21. CASE Finish
    BY <1>21 DEF Finish, Ends, ParentGone
  <1>22. CASE FinalizerTimesOut
    BY <1>22 DEF FinalizerTimesOut, FinalizeFailed
  <1>23. CASE FinalizerSwap
    BY <1>23, <1>0, MoveStep DEF FinalizerSwap
  <1>24. CASE FinalizerFails
    BY <1>24 DEF FinalizerFails, FinalizeFailed
  <1>25. CASE Finalized
    <2>1. Same(st, st')
      BY <1>25, FieldStep DEF Noting
    <2>2. /\ fin = "swapped" /\ fin' = "start" /\ probation' = ProbationOf(st')
          /\ UNCHANGED <<target, backup, denied, pc, ver, job, watcher, finReq, history>>
      BY <1>25, Zenon DEF Finalized
    <2> QED BY <1>0, <2>1, <2>2 DEF ProbationOf, Same
  <1>26. CASE StartService
    BY <1>26 DEF StartService
  <1>27. CASE WatchLoad
    BY <1>27 DEF WatchLoad
  <1>28. CASE MarkHealthy
    <2>1. UNCHANGED <<files, pc, ver, job, finalizer, history>>
      BY <1>28, Zenon DEF MarkHealthy
    <2> QED BY <2>1
  <1>29. CASE MarkSave
    BY <1>29, <1>0 DEF MarkSave
  <1>30. CASE MarkClean
    BY <1>30 DEF MarkClean
  <1>31. CASE Tick
    <2>1. Same(st, st')
      BY <1>31, FieldStep DEF Noting
    <2> QED BY <1>31, <1>0, <2>1 DEF Tick, Same
  <1>32. CASE BuildCrashes
    BY <1>32, <1>0 DEF BuildCrashes, Ends, ParentGone, Orphaned
  <1>33. CASE PowerLoss
    BY <1>33, <1>0 DEF PowerLoss, Ends, Orphaned
  <1> HIDE DEF RecordInv, Clean, ProvenInv, Alone, BinaryInv, Sound, PlaceInv, Busy, FinBusy, Restoring,
        Pending, Swapping, Guarding, files, job, watcher, finalizer, history
  <1> QED
    BY <1>1, <1>2, <1>3, <1>4, <1>5, <1>6, <1>7, <1>8, <1>9, <1>10, <1>11, <1>12,
       <1>13, <1>14, <1>15, <1>16, <1>17, <1>18, <1>19, <1>20, <1>21, <1>22, <1>23,
       <1>24, <1>25, <1>26, <1>27, <1>28, <1>29, <1>30, <1>31, <1>32, <1>33,
       SMT DEF Next

\* A version that was rolled back is denied before the next update can be asked for,
\* and what Apply has accepted stays allowed: kept by every step.
LEMMA DeniedStep ==
  ASSUME TypeInv, PlaceInv, BinaryInv, DeniedInv, Next
  PROVE  DeniedInv'
  <1> USE DEF DeniedInv, BinaryInv, Sound, PlaceInv, Swapping, Guarding, files, job, finalizer, history
  <1>1. CASE Launch
    BY <1>1 DEF Launch
  <1>2. CASE GuardCheck
    BY <1>2 DEF GuardCheck
  <1>3. CASE GuardRestore
    BY <1>3 DEF GuardRestore
  <1>4. CASE GuardDeny
    BY <1>4 DEF GuardDeny
  <1>5. CASE GuardClean
    BY <1>5 DEF GuardClean
  <1>6. CASE Exec
    BY <1>6 DEF Exec
  <1>7. CASE Reconcile
    BY <1>7 DEF Reconcile
  <1>8. CASE RecordStart
    <2>1. Same(st, st')
      BY <1>8, FieldStep DEF Noting
    <2> QED BY <1>8, <2>1 DEF RecordStart, Same
  <1>9. CASE Restore
    BY <1>9 DEF Restore
  <1>10. CASE Deny
    BY <1>10 DEF Deny, TypeInv
  <1>11. CASE SaveRolledBack
    BY <1>11 DEF SaveRolledBack
  <1>12. CASE FinishRollback
    BY <1>12 DEF FinishRollback
  <1>13. CASE \E r \in Requests : Accept(r)
    BY <1>13 DEF Accept
  <1>14. CASE Download
    BY <1>14 DEF Download
  <1>15. CASE BeginUpdate
    BY <1>15 DEF BeginUpdate
  <1>16. CASE WriteProbation
    BY <1>16 DEF WriteProbation
  <1>17. CASE ApplySwap
    BY <1>17 DEF ApplySwap
  <1>18. CASE ApplyFails
    BY <1>18 DEF ApplyFails
  <1>19. CASE SpawnFinalizer
    BY <1>19 DEF SpawnFinalizer
  <1>20. CASE BeginFinalize
    BY <1>20 DEF BeginFinalize
  <1>21. CASE Finish
    BY <1>21 DEF Finish, Ends, ParentGone, NoRequest
  <1>22. CASE FinalizerTimesOut
    BY <1>22 DEF FinalizerTimesOut, FinalizeFailed
  <1>23. CASE FinalizerSwap
    BY <1>23 DEF FinalizerSwap
  <1>24. CASE FinalizerFails
    BY <1>24 DEF FinalizerFails, FinalizeFailed
  <1>25. CASE Finalized
    BY <1>25 DEF Finalized
  <1>26. CASE StartService
    BY <1>26 DEF StartService
  <1>27. CASE WatchLoad
    BY <1>27 DEF WatchLoad
  <1>28. CASE MarkHealthy
    <2>1. UNCHANGED <<files, pc, job, finalizer, history>>
      BY <1>28, Zenon DEF MarkHealthy
    <2> QED BY <2>1
  <1>29. CASE MarkSave
    BY <1>29 DEF MarkSave
  <1>30. CASE MarkClean
    BY <1>30 DEF MarkClean
  <1>31. CASE Tick
    BY <1>31 DEF Tick
  <1>32. CASE BuildCrashes
    BY <1>32 DEF BuildCrashes, Ends, ParentGone
  <1>33. CASE PowerLoss
    BY <1>33 DEF PowerLoss, Ends
  <1> HIDE DEF DeniedInv, BinaryInv, Sound, PlaceInv, Swapping, Guarding, files, job, finalizer, history
  <1> QED
    BY <1>1, <1>2, <1>3, <1>4, <1>5, <1>6, <1>7, <1>8, <1>9, <1>10, <1>11, <1>12,
       <1>13, <1>14, <1>15, <1>16, <1>17, <1>18, <1>19, <1>20, <1>21, <1>22, <1>23,
       <1>24, <1>25, <1>26, <1>27, <1>28, <1>29, <1>30, <1>31, <1>32, <1>33,
       SMT DEF Next


-----------------------------------------------------------------------------
(* The theorems.                                                           *)

\* A host as it was installed: nothing pending, nothing denied, the first build in
\* place.
LEMMA InitUpdate ==
  ASSUME Init
  PROVE  UpdateInv
  <1>1. /\ First \in Versions /\ None \notin Versions /\ NoRequest \in Requests
        /\ First \in Files /\ None \in Files
    BY VersionsAssumption DEF NoRequest, Requests, Files
  <1>2. TypeInv
    BY <1>1, EmptyFacts DEF Init, TypeInv
  <1>3. PlaceInv
    BY EmptyFacts DEF Init, PlaceInv, Busy, Swapping, Guarding, Pending
  <1>4. BinaryInv
    BY <1>1 DEF Init, BinaryInv, Swapping
  <1>5. ProvenInv
    BY DEF Init, ProvenInv, Busy, FinBusy, Restoring, Swapping
  <1>6. RecordInv
    BY <1>1, EmptyFacts DEF Init, RecordInv, Busy, FinBusy, Restoring, Swapping
  <1>7. DeniedInv
    BY DEF Init, DeniedInv
  <1> QED BY <1>2, <1>3, <1>4, <1>5, <1>6, <1>7 DEF UpdateInv

\* The layers hold together, in every state of every run.
LEMMA UpdateInvHolds == Spec => []UpdateInv
  <1>1. Init => UpdateInv
    BY InitUpdate
  <1>2. UpdateInv /\ [Next]_vars => UpdateInv'
    <2>1. CASE Next
      BY <2>1, TypeStep, PlaceStep, BinaryStep, ProvenStep, RecordStep, DeniedStep
         DEF UpdateInv
    <2>2. CASE UNCHANGED vars
      <3>1. TypeInv => TypeInv'
        BY <2>2 DEF vars, TypeInv, Shape
      <3>2. PlaceInv => PlaceInv'
        BY <2>2 DEF vars, PlaceInv, Busy, Pending
      <3>3. BinaryInv => BinaryInv'
        BY <2>2 DEF vars, BinaryInv, Sound
      <3>4. ProvenInv => ProvenInv'
        BY <2>2 DEF vars, ProvenInv, Alone, Busy, FinBusy, Restoring, Pending
      <3>5. RecordInv => RecordInv'
        BY <2>2 DEF vars, RecordInv, Clean, Busy, FinBusy, Restoring, Pending
      <3>6. DeniedInv => DeniedInv'
        BY <2>2 DEF vars, DeniedInv
      <3> QED BY <3>1, <3>2, <3>3, <3>4, <3>5, <3>6 DEF UpdateInv
    <2> QED BY <2>1, <2>2
  <1> QED BY <1>1, <1>2, PTL DEF Spec

\* Through every step of a swap, a rollback and a guard's restore, and through power
\* losses between them, a binary is left to start or to restore (Swap, RestoreBackup,
\* GuardScript).
THEOREM BinaryHolds == Spec => []AlwaysABinary
  <1>1. UpdateInv => AlwaysABinary
    BY DEF UpdateInv, BinaryInv, Sound, AlwaysABinary
  <1> QED BY <1>1, UpdateInvHolds, PTL

\* A build on probation stays so until its own watch ends it: the proven one stays on
\* disk, the guard and the record know of the new one, and Report calls only a build
\* healthy that earned it (BeginUpdate, Swap, markHealthy, Clear).
THEOREM ProbationHolds == Spec => []ProbationKept
  <1>1. UpdateInv => ProvenOnDisk
    BY DEF UpdateInv, BinaryInv, ProvenInv, Sound, Alone, ProvenOnDisk
  <1>2. UpdateInv => WatchedUntilReleased
    BY VersionsAssumption DEF UpdateInv, ProvenInv, Alone, WatchedUntilReleased
  <1>3. UpdateInv => HealthyIsEarned
    BY DEF UpdateInv, TypeInv, Shape, RecordInv, Clean, HealthyIsEarned, Report
  <1>4. UpdateInv => ProbationKept
    BY <1>1, <1>2, <1>3 DEF ProbationKept
  <1> QED BY <1>4, UpdateInvHolds, PTL

\* A rollback puts back the build that applied the update, and the build it removed
\* is not swapped in again without force (RestoreBackup, restore, Deny, IsDenied).
THEOREM RollbackHolds == Spec => RolledBackForGood
  <1>1. UpdateInv /\ [Next]_vars =>
          [(pc \in {"restore", "guardRestore"} /\ target' # target) /\ excuse = {} =>
              target' = st.previous]_vars
    <2> SUFFICES ASSUME UpdateInv, Next, pc \in {"restore", "guardRestore"},
                        target' # target, excuse = {}
                 PROVE  target' = st.previous
      BY Zenon
    <2>1. upd = "idle" /\ fin \notin Swapping /\ fin # "wait"
      BY DEF UpdateInv, PlaceInv, BinaryInv, Sound
    <2>2. GuardRestore \/ Restore
      BY <2>1, Writers DEF ApplySwap, ApplyFails, SpawnFinalizer, FinalizerSwap,
         FinalizerFails, Swapping
    <2>3. target' = backup
      BY <2>2, Zenon DEF GuardRestore, Restore
    <2>4. probation # None \/ (Pending(st) /\ pc = "restore")
      BY DEF UpdateInv, PlaceInv, RecordInv, Clean
    <2>5. st.pending # None /\ ~Busy /\ ~FinBusy /\ ~Restoring
      BY <2>1, <2>4 DEF UpdateInv, RecordInv, Clean, Pending, Busy, FinBusy, Restoring,
         Swapping
    <2> QED BY <2>3, <2>4, <2>5 DEF UpdateInv, RecordInv, Clean, Pending
  <1>2. UpdateInv /\ [Next]_vars =>
          [\/ upd = "in" /\ upd' = "swapped" /\ ~req.force
           \/ fin = "in" /\ fin' = "swapped" /\ ~finReq.force
           => target' \notin rolled \/ {"interrupted", "finalizer"} \cap excuse # {}]_vars
    <2> SUFFICES ASSUME UpdateInv, Next,
                        \/ upd = "in" /\ upd' = "swapped" /\ ~req.force
                        \/ fin = "in" /\ fin' = "swapped" /\ ~finReq.force,
                        "interrupted" \notin excuse, "finalizer" \notin excuse
                 PROVE  target' \notin rolled
      BY Zenon
    <2>1. rolled \subseteq denied
      BY DEF UpdateInv, DeniedInv, PlaceInv, BinaryInv, Sound, Swapping
    <2>2. CASE upd = "in" /\ upd' = "swapped" /\ ~req.force
      <3>1. target' = req.version
        BY <2>2, Writers, MoveStep DEF UpdateInv
      <3> QED BY <2>1, <2>2, <3>1 DEF UpdateInv, DeniedInv
    <2>3. CASE fin = "in" /\ fin' = "swapped" /\ ~finReq.force
      <3>1. target' = finReq.version
        BY <2>3, Writers, MoveStep DEF UpdateInv
      <3> QED BY <2>1, <2>3, <3>1 DEF UpdateInv, DeniedInv
    <2> QED BY <2>2, <2>3
  <1>3. Spec => RestoresPrevious
    BY <1>1, UpdateInvHolds, PTL DEF Spec, RestoresPrevious
  <1>4. Spec => DeniedNotReinstalled
    BY <1>2, UpdateInvHolds, PTL DEF Spec, DeniedNotReinstalled
  <1> QED BY <1>3, <1>4, PTL DEF RolledBackForGood
=============================================================================
