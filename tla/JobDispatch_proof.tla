------------------------- MODULE JobDispatch_proof -------------------------
(***************************************************************************)
(* Theorems about JobDispatch for any set of jobs, any number of           *)
(* dispatchers draining the outbox and any number of faults.               *)
(***************************************************************************)
EXTENDS JobDispatch, TLAPS

\* What the proofs need of the types of the rows, the broker and the agent.
TypeInv ==
  /\ run \in [Jobs -> Statuses]
  /\ copies \in [Jobs -> Nat]
  /\ window \subseteq Jobs
  /\ agent \in [Jobs -> {"idle", "running", "done"}]
  /\ results \subseteq Jobs \X Outcomes
  /\ outTx \in Jobs \cup {NoJob}
  /\ ran \in [Jobs -> Nat]
  /\ faults \in Nat

\* While the agent has not restarted, it remembers every job it has started:
\* idle jobs are those never started, and the others were started once.
RememberedByAgent ==
  "restart" \notin excuse =>
    \A j \in Jobs : ran[j] = IF agent[j] = "idle" THEN 0 ELSE 1

\* While no ack was lost and no duplicate window has ended, a job's message is
\* stored at most once, and never before its id is in the window: it either
\* waits in the stream or has been taken, and only a taken one starts a body.
OneMessage ==
  excuse \cap {"window", "redelivered"} = {} =>
    \A j \in Jobs : copies[j] + ran[j] <= IF j \in window THEN 1 ELSE 0

\* The inductive invariant: a second start needs a loss on both sides.
OnceInv == TypeInv /\ RememberedByAgent /\ OneMessage

\* A job is a script run or a patch install, and neither is a placeholder.
LEMMA JobFacts == Scripts \subseteq Jobs /\ Patches \subseteq Jobs /\ NoJob \notin Jobs
BY JobsAssumption DEF Jobs

\* The message is stored only if its id is not in the window, and then is in it
\* (js.publish with Nats-Msg-Id).
LEMMA StoredFacts ==
  ASSUME TypeInv, NEW j \in Jobs, Stored(j)
  PROVE  /\ copies' \in [Jobs -> Nat] /\ window' = window \cup {j}
         /\ copies'[j] = IF j \in window THEN copies[j] ELSE copies[j] + 1
         /\ \A k \in Jobs \ {j} : copies'[k] = copies[k]
<1>1. copies \in [Jobs -> Nat] /\ copies[j] + 1 \in Nat
  BY DEF TypeInv
<1>2. /\ Set(copies, j, copies[j] + 1) \in [Jobs -> Nat]
      /\ Set(copies, j, copies[j] + 1)[j] = copies[j] + 1
      /\ \A k \in Jobs \ {j} : Set(copies, j, copies[j] + 1)[k] = copies[k]
  BY <1>1 DEF Set
<1> QED BY <1>1, <1>2, Zenon DEF Stored

\* The statuses a result writes are final ones (apply_job_result).
LEMMA ResultFacts ==
  ASSUME TypeInv, NEW j \in Jobs, NEW outcome \in Outcomes, ApplyResult(j, outcome)
  PROVE  \E s \in Final : run' = Set(run, j, s)
<1>1. CASE j \in Scripts
  BY <1>1, Zenon DEF ApplyResult, Final
<1>2. CASE j \notin Scripts
  <2>1. \A i, f : PatchStatus(outcome, i, f) \in {"cancelled", "partial", "failed", "succeeded"}
    BY Zenon DEF PatchStatus
  <2>2. {"cancelled", "partial", "failed", "succeeded"} \subseteq Final
    BY DEF Final, Outcomes
  <2>3. PICK l \in Lists(outcome) : run' = Set(run, j, PatchStatus(outcome, l[1], l[2]))
    BY <1>2, Zenon DEF ApplyResult
  <2> QED BY <2>1, <2>2, <2>3, Zenon
<1> QED BY <1>1, <1>2

\* No step writes anything but a status into the row of a job, and none but a
\* racing write of output takes a final one back.
LEMMA RunStep ==
  ASSUME TypeInv, [Next]_vars
  PROVE  /\ run' \in [Jobs -> Statuses]
         /\ "raced" \notin excuse' => \A j \in Jobs : run[j] \in Final => run'[j] \in Final
<1> DEFINE Goal ==
       /\ run' \in [Jobs -> Statuses]
       /\ "raced" \notin excuse' => \A j \in Jobs : run[j] \in Final => run'[j] \in Final
<1>0. run \in [Jobs -> Statuses] /\ Final \subseteq Statuses /\ {"queued", "running"} \subseteq Statuses
  BY Zenon DEF TypeInv, Statuses
<1>a. ASSUME run' = run PROVE Goal
  BY <1>0, <1>a
<1>b. ASSUME NEW j \in Jobs, NEW s \in Final, run' = Set(run, j, s) PROVE Goal
  BY <1>0, <1>b DEF Set
<1>c. ASSUME NEW j \in Jobs, NEW s \in Statuses, run' = Set(run, j, s), run[j] \notin Final
      PROVE Goal
  BY <1>0, <1>c DEF Set
<1>1. ASSUME UNCHANGED vars PROVE Goal
  BY <1>1, <1>a DEF vars
<1>2. ASSUME NEW j \in Jobs, QueueRun(j) PROVE Goal
  <2>1. run' = Set(run, j, "queued") /\ run[j] \notin Final
    BY <1>2 DEF QueueRun, Final, Outcomes
  <2> QED BY <2>1, <1>0, <1>c
<1>3. ASSUME NEW j \in Jobs,
             BackoffElapses(j) \/ WindowEnds(j) \/ AgentTakes(j) \/ AgentOutputs(j) \/ OutputRead(j)
      PROVE Goal
  BY <1>3, <1>a DEF BackoffElapses, WindowEnds, AgentTakes, AgentOutputs, OutputRead, row
<1>4. ASSUME NEW j \in Jobs, NEW outcome \in Outcomes, AgentFinishes(j, outcome) PROVE Goal
  BY <1>4, <1>a DEF AgentFinishes, row
<1>5. ASSUME NEW j \in Jobs, NEW outcome \in Outcomes, ApplyResult(j, outcome) PROVE Goal
  BY <1>5, <1>b, ResultFacts, Zenon
<1>6. ASSUME NEW j \in Scripts, CancelRead(j) \/ CancelAsk(j) PROVE Goal
  BY <1>6, <1>a DEF CancelRead, CancelAsk, row
<1>7. ASSUME NEW j \in Scripts, CancelDrop(j) \/ CancelWrite(j) PROVE Goal
  <2>1. WriteCancelled(j)
    BY <1>7 DEF CancelDrop, CancelWrite
  <2>2. run' = run \/ run' = Set(run, j, "cancelled")
    BY <2>1 DEF WriteCancelled
  <2>3. "cancelled" \in Final
    BY DEF Final, Outcomes
  <2> QED BY <2>2, <2>3, <1>a, <1>b, JobFacts
<1>8. ASSUME NEW d \in Drainers, DrainSelect(d) \/ DrainRollback(d) PROVE Goal
  BY <1>8, <1>a DEF DrainSelect, DrainRollback, row
<1>9. ASSUME NEW d \in Drainers, NEW j \in Jobs, Publish(d, j) \/ PublishFails(d, j) PROVE Goal
  BY <1>9, <1>a DEF Publish, PublishFails, row
<1>10. ASSUME NEW d \in Drainers, DrainCommit(d) PROVE Goal
  <2>1. PICK S : run' = [j \in Jobs |-> IF j \in S THEN "failed" ELSE run[j]]
    BY <1>10, Zenon DEF DrainCommit
  <2>2. "failed" \in Final
    BY DEF Final, Outcomes
  <2> QED BY <2>1, <2>2, <1>0
<1>11. ASSUME OutputWrite PROVE Goal
  <2>1. outTx \in Jobs
    BY <1>11 DEF OutputWrite, TypeInv
  <2>2. CASE outRead # "queued"
    BY <1>11, <2>2, <1>a DEF OutputWrite
  <2>3. CASE outRead = "queued"
    <3>1. run' = Set(run, outTx, "running")
      BY <1>11, <2>3 DEF OutputWrite
    <3>2. "raced" \notin excuse' => run[outTx] = "queued"
      BY <1>11, <2>3 DEF OutputWrite
    <3>3. "queued" \notin Final
      BY DEF Final, Outcomes
    <3> QED BY <1>0, <2>1, <3>1, <3>2, <3>3 DEF Set
  <2> QED BY <2>2, <2>3
<1>12. ASSUME AgentRestarts PROVE Goal
  BY <1>12, <1>a DEF AgentRestarts, row
<1> HIDE DEF Goal
<1>13. Goal
  BY <1>1, <1>2, <1>3, <1>4, <1>5, <1>6, <1>7, <1>8, <1>9, <1>10, <1>11, <1>12, Zenon
     DEF Next, Running, Ingesting, Cancelling, Draining
<1> QED BY <1>13 DEF Goal

\* No step leaves the types.
LEMMA TypeStep ==
  ASSUME TypeInv, [Next]_vars
  PROVE  TypeInv'
<1> DEFINE Rest == <<copies, window, agent, ran>>
           Wire == <<results, outTx>>
           Keeps == Rest' = Rest /\ Wire' = Wire /\ faults' \in Nat
<1>0. run' \in [Jobs -> Statuses]
  BY RunStep
<1>f. Fault \/ NoFault => faults' \in Nat
  BY DEF Fault, NoFault, TypeInv
<1>k. ASSUME Keeps PROVE TypeInv'
  BY <1>k, <1>0, Zenon DEF TypeInv
<1>1. ASSUME UNCHANGED vars PROVE TypeInv'
  BY <1>1, <1>k, <1>f, Zenon DEF vars, NoFault
<1>2. ASSUME NEW j \in Jobs, QueueRun(j) \/ BackoffElapses(j) \/ AgentOutputs(j) PROVE TypeInv'
  BY <1>2, <1>k, <1>f, Zenon
     DEF QueueRun, BackoffElapses, AgentOutputs, broker, host, ingest, NoFault
<1>3. ASSUME NEW j \in Jobs, WindowEnds(j) PROVE TypeInv'
  <2>1. UNCHANGED <<copies, agent, ran, results, outTx>> /\ window' \subseteq window /\ faults' \in Nat
    BY <1>3, <1>f, Zenon DEF WindowEnds, host, ingest
  <2> QED BY <2>1, <1>0, Zenon DEF TypeInv
<1>4. ASSUME NEW j \in Jobs, AgentTakes(j) PROVE TypeInv'
  <2>1. /\ copies' = Set(copies, j, copies[j] - 1) \/ copies' = copies
        /\ \/ agent' = Set(agent, j, "running") /\ ran' = Set(ran, j, ran[j] + 1)
           \/ UNCHANGED <<agent, ran>>
        /\ UNCHANGED <<window, results, outTx>> /\ faults' \in Nat
    BY <1>4, <1>f, Zenon DEF AgentTakes, ingest
  <2>2. copies[j] \in Nat /\ copies[j] > 0 /\ ran[j] \in Nat
    BY <1>4 DEF AgentTakes, TypeInv
  <2>3. copies[j] - 1 \in Nat /\ ran[j] + 1 \in Nat
    BY <2>2
  <2>4. copies' \in [Jobs -> Nat]
    BY <2>1, <2>3 DEF TypeInv, Set
  <2>5. ran' \in [Jobs -> Nat]
    BY <2>1, <2>3 DEF TypeInv, Set
  <2>6. agent' \in [Jobs -> {"idle", "running", "done"}]
    BY <2>1 DEF TypeInv, Set
  <2> QED BY <1>0, <2>1, <2>4, <2>5, <2>6, Zenon DEF TypeInv
<1>5. ASSUME NEW j \in Jobs, NEW outcome \in Outcomes, AgentFinishes(j, outcome) PROVE TypeInv'
  <2>1. /\ agent' = Set(agent, j, "done") /\ UNCHANGED <<copies, window, ran, outTx>>
        /\ Report(j, outcome)
    BY <1>5 DEF AgentFinishes, broker
  <2>2. agent' \in [Jobs -> {"idle", "running", "done"}]
    BY <2>1 DEF TypeInv, Set
  <2>3. results' \subseteq Jobs \X Outcomes
    BY <2>1 DEF Report, TypeInv
  <2>4. faults' \in Nat
    BY <2>1, <1>f, Zenon DEF Report
  <2> QED BY <1>0, <2>1, <2>2, <2>3, <2>4, Zenon DEF TypeInv
<1>6. ASSUME NEW j \in Jobs, OutputRead(j) PROVE TypeInv'
  <2>1. UNCHANGED <<copies, window, agent, ran, results>> /\ outTx' = j /\ faults' \in Nat
    BY <1>6, <1>f, Zenon DEF OutputRead, broker, host, NoFault
  <2> QED BY <1>0, <2>1, Zenon DEF TypeInv
<1>7. ASSUME NEW j \in Jobs, NEW outcome \in Outcomes, ApplyResult(j, outcome) PROVE TypeInv'
  <2>1. UNCHANGED <<copies, window, agent, ran, outTx>> /\ results' \subseteq results /\ faults' \in Nat
    BY <1>7, <1>f, Zenon DEF ApplyResult, broker, host
  <2> QED BY <1>0, <2>1, Zenon DEF TypeInv
<1>8. ASSUME NEW j \in Scripts, CancelRead(j) \/ CancelDrop(j) \/ CancelAsk(j) \/ CancelWrite(j)
      PROVE TypeInv'
  BY <1>8, <1>k, <1>f, Zenon
     DEF CancelRead, CancelDrop, CancelAsk, CancelWrite, broker, host, ingest, NoFault
<1>9. ASSUME NEW d \in Drainers, DrainSelect(d) \/ DrainCommit(d) \/ DrainRollback(d) PROVE TypeInv'
  BY <1>9, <1>k, <1>f, Zenon
     DEF DrainSelect, DrainCommit, DrainRollback, broker, host, ingest, NoFault
<1>10. ASSUME NEW d \in Drainers, NEW j \in Jobs, Publish(d, j) \/ PublishFails(d, j) PROVE TypeInv'
  <2>1. (Stored(j) \/ UNCHANGED broker) /\ UNCHANGED <<agent, ran, results, outTx>> /\ faults' \in Nat
    BY <1>10, <1>f, Zenon DEF Publish, PublishFails, host, ingest, NoFault
  <2>2. copies' \in [Jobs -> Nat] /\ window' \subseteq Jobs
    BY <2>1, StoredFacts, Zenon DEF TypeInv, broker
  <2> QED BY <1>0, <2>1, <2>2, Zenon DEF TypeInv
<1>11. ASSUME OutputWrite PROVE TypeInv'
  <2>1. UNCHANGED <<copies, window, agent, ran, results>> /\ outTx' = NoJob /\ faults' \in Nat
    BY <1>11, <1>f, Zenon DEF OutputWrite, broker, host
  <2> QED BY <1>0, <2>1, Zenon DEF TypeInv
<1>12. ASSUME AgentRestarts PROVE TypeInv'
  <2>1. /\ UNCHANGED <<copies, window, ran, outTx>> /\ agent' = [j \in Jobs |-> "idle"]
        /\ results' \subseteq results \cup (Jobs \X {"cancelled"}) /\ faults' \in Nat
    BY <1>12, <1>f DEF AgentRestarts, broker
  <2>2. results' \subseteq Jobs \X Outcomes
    BY <2>1 DEF TypeInv, Outcomes
  <2> QED BY <1>0, <2>1, <2>2 DEF TypeInv
<1> QED
  BY <1>1, <1>2, <1>3, <1>4, <1>5, <1>6, <1>7, <1>8, <1>9, <1>10, <1>11, <1>12, Zenon
     DEF Next, Running, Ingesting, Cancelling, Draining

\* A step that leaves the stream and the agent alone keeps the count of both.
LEMMA Quiet ==
  ASSUME OnceInv, UNCHANGED <<copies, window, agent, ran>>, excuse \subseteq excuse'
  PROVE  RememberedByAgent' /\ OneMessage'
BY Zenon DEF OnceInv, RememberedByAgent, OneMessage

\* No step starts a body that neither side has an excuse for.
LEMMA OnceStep ==
  ASSUME OnceInv, [Next]_vars
  PROVE  OnceInv'
<1> DEFINE Goal == RememberedByAgent' /\ OneMessage'
<1>t. TypeInv /\ TypeInv'
  BY TypeStep DEF OnceInv
<1>1. ASSUME UNCHANGED vars PROVE Goal
  BY <1>1, Quiet, Zenon DEF vars
<1>2. ASSUME NEW j \in Jobs,
             QueueRun(j) \/ BackoffElapses(j) \/ AgentOutputs(j) \/ OutputRead(j)
      PROVE Goal
  BY <1>2, Quiet, Zenon DEF QueueRun, BackoffElapses, AgentOutputs, OutputRead, broker, host
<1>3. ASSUME NEW j \in Jobs, WindowEnds(j) PROVE Goal
  <2>1. excuse' = excuse \cup {"window"} /\ UNCHANGED <<agent, ran>>
    BY <1>3 DEF WindowEnds, host
  <2> QED BY <2>1, Zenon DEF OnceInv, RememberedByAgent, OneMessage
<1>4. ASSUME NEW j \in Jobs, AgentTakes(j) PROVE Goal
  <2>1. copies[j] \in Nat /\ copies[j] > 0 /\ ran[j] \in Nat /\ UNCHANGED window
    BY <1>4 DEF AgentTakes, OnceInv, TypeInv
  <2>2. /\ \A k \in Jobs \ {j} : ran'[k] = ran[k] /\ agent'[k] = agent[k]
        /\ IF agent[j] = "idle" THEN agent'[j] = "running" /\ ran'[j] = ran[j] + 1
                                ELSE agent'[j] = agent[j] /\ ran'[j] = ran[j]
    BY <1>4 DEF AgentTakes, Set, OnceInv, TypeInv
  <2>3. \/ "redelivered" \in excuse'
        \/ excuse' = excuse /\ copies'[j] = copies[j] - 1
           /\ \A k \in Jobs \ {j} : copies'[k] = copies[k]
    BY <1>4 DEF AgentTakes, Set, OnceInv, TypeInv
  <2>4. excuse \subseteq excuse'
    BY <1>4 DEF AgentTakes
  <2>5. RememberedByAgent'
    BY <2>1, <2>2, <2>4 DEF OnceInv, RememberedByAgent
  <2>6. OneMessage'
    <3>1. CASE "redelivered" \in excuse'
      BY <3>1 DEF OneMessage
    <3>2. CASE excuse' = excuse /\ copies'[j] = copies[j] - 1
               /\ \A k \in Jobs \ {j} : copies'[k] = copies[k]
      <4>1. copies'[j] + ran'[j] <= copies[j] + ran[j]
        BY <3>2, <2>1, <2>2
      <4>2. \A k \in Jobs \ {j} : copies'[k] = copies[k] /\ ran'[k] = ran[k]
        BY <3>2, <2>2
      <4>3. \A k \in Jobs : copies[k] \in Nat /\ ran[k] \in Nat /\ copies'[k] \in Nat /\ ran'[k] \in Nat
        BY <1>t DEF TypeInv
      <4> QED BY <3>2, <2>1, <4>1, <4>2, <4>3 DEF OnceInv, OneMessage
    <3> QED BY <2>3, <3>1, <3>2
  <2> QED BY <2>5, <2>6
<1>5. ASSUME NEW j \in Jobs, NEW outcome \in Outcomes, AgentFinishes(j, outcome) PROVE Goal
  <2>1. /\ agent[j] = "running" /\ agent' = Set(agent, j, "done") /\ excuse \subseteq excuse'
        /\ UNCHANGED <<copies, window, ran>>
    BY <1>5 DEF AgentFinishes, Report, broker
  <2>2. \A k \in Jobs : agent'[k] = "idle" <=> agent[k] = "idle"
    BY <2>1 DEF Set, OnceInv, TypeInv
  <2> QED BY <2>1, <2>2, Zenon DEF OnceInv, RememberedByAgent, OneMessage
<1>6. ASSUME NEW j \in Jobs, NEW outcome \in Outcomes, ApplyResult(j, outcome) PROVE Goal
  BY <1>6, Quiet, Zenon DEF ApplyResult, broker, host
<1>7. ASSUME NEW j \in Scripts, CancelRead(j) \/ CancelDrop(j) \/ CancelAsk(j) \/ CancelWrite(j)
      PROVE Goal
  BY <1>7, Quiet, Zenon DEF CancelRead, CancelDrop, CancelAsk, CancelWrite, broker, host
<1>8. ASSUME NEW d \in Drainers, DrainSelect(d) \/ DrainCommit(d) \/ DrainRollback(d) PROVE Goal
  BY <1>8, Quiet, Zenon DEF DrainSelect, DrainCommit, DrainRollback, broker, host
<1>9. ASSUME NEW d \in Drainers, NEW j \in Jobs, Publish(d, j) \/ PublishFails(d, j) PROVE Goal
  <2>1. (Stored(j) \/ UNCHANGED broker) /\ UNCHANGED <<agent, ran, excuse>>
    BY <1>9, Zenon DEF Publish, PublishFails, host
  <2>2. CASE UNCHANGED broker
    BY <2>1, <2>2, Quiet, Zenon DEF broker
  <2>3. CASE Stored(j)
    <3>1. RememberedByAgent'
      BY <2>1, Zenon DEF OnceInv, RememberedByAgent
    <3>2. /\ copies' \in [Jobs -> Nat] /\ window' = window \cup {j}
          /\ copies'[j] = IF j \in window THEN copies[j] ELSE copies[j] + 1
          /\ \A k \in Jobs \ {j} : copies'[k] = copies[k]
      BY <1>t, <2>3, StoredFacts, Zenon
    <3>3. \A k \in Jobs : copies[k] \in Nat /\ ran[k] \in Nat
      BY <1>t DEF TypeInv
    <3>4. OneMessage'
      BY <2>1, <3>2, <3>3 DEF OnceInv, OneMessage
    <3> QED BY <3>1, <3>4
  <2> QED BY <2>1, <2>2, <2>3
<1>10. ASSUME OutputWrite PROVE Goal
  <2>1. UNCHANGED <<copies, window, agent, ran>> /\ excuse \subseteq excuse'
    BY <1>10 DEF OutputWrite, broker, host
  <2> QED BY <2>1, Quiet, Zenon
<1>11. ASSUME AgentRestarts PROVE Goal
  <2>1. UNCHANGED <<copies, window, ran>> /\ excuse' = excuse \cup {"restart"}
    BY <1>11 DEF AgentRestarts, broker
  <2> QED BY <2>1, Zenon DEF OnceInv, RememberedByAgent, OneMessage
<1> HIDE DEF Goal
<1>12. Goal
  BY <1>1, <1>2, <1>3, <1>4, <1>5, <1>6, <1>7, <1>8, <1>9, <1>10, <1>11, Zenon
     DEF Next, Running, Ingesting, Cancelling, Draining
<1> QED BY <1>12, <1>t DEF Goal, OnceInv

\* Nothing is queued, stored or started at first.
LEMMA InitOnce == Init => OnceInv
<1> SUFFICES ASSUME Init PROVE OnceInv
    OBVIOUS
<1>1. TypeInv
  BY DEF Init, TypeInv, Statuses
<1> QED BY <1>1 DEF Init, OnceInv, RememberedByAgent, OneMessage

\* A job is started at most once, whatever the drainers, their failed publishes
\* and rollbacks do, and restarts included: a second start takes both an agent
\* that has forgotten the first and a second message, which only a lost ack or
\* an expired duplicate window leaves (drain_outbox, handleJob).
THEOREM StartedAtMostOnce == Spec => []RanOnce
<1>1. OnceInv => RanOnce
  <2> SUFFICES ASSUME OnceInv, NEW j \in Jobs, ran[j] > 1
               PROVE  "restart" \in excuse /\ excuse \cap {"window", "redelivered"} # {}
    BY DEF RanOnce
  <2>1. ran[j] \in Nat /\ copies[j] \in Nat
    BY DEF OnceInv, TypeInv
  <2>2. "restart" \in excuse
    BY <2>1 DEF OnceInv, RememberedByAgent
  <2>3. excuse \cap {"window", "redelivered"} # {}
    BY <2>1 DEF OnceInv, OneMessage
  <2> QED BY <2>2, <2>3
<1>2. OnceInv /\ [Next]_vars => OnceInv'
  BY OnceStep
<1> QED BY InitOnce, <1>1, <1>2, PTL DEF Spec

\* A run that has ended does not go back to queued or running, for any order of
\* output, results, cancels and given-up publishes, unless output raced another
\* writer of its row (apply_job_output, apply_job_result, cancel_run).
THEOREM FinalIsKept == Spec => FinishedStaysFinished
<1>1. OnceInv /\ [Next]_vars =>
        [\A j \in Jobs : run[j] \in Final /\ "raced" \notin excuse' => run'[j] \in Final]_vars
  <2> SUFFICES ASSUME OnceInv, [Next]_vars
               PROVE  \A j \in Jobs : run[j] \in Final /\ "raced" \notin excuse' => run'[j] \in Final
    OBVIOUS
  <2> QED BY RunStep, Zenon DEF OnceInv
<1>2. OnceInv /\ [Next]_vars => OnceInv'
  BY OnceStep
<1> QED BY InitOnce, <1>1, <1>2, PTL DEF Spec, FinishedStaysFinished
=============================================================================
