---------------------------- MODULE JobDispatch ----------------------------
(***************************************************************************)
(* The life of a script run or patch install from the API to its last      *)
(* status: queue_script_run commits a row and its outbox row, dispatchers  *)
(* drain the outbox into the JOBS stream, the agent runs the job and the   *)
(* ingest consumers write what it reports back into the row, while an      *)
(* operator may cancel.  The agent is the abstraction of AgentJobs that    *)
(* its theorems justify: a delivery starts the job unless this process     *)
(* runs it or has run it.                                                  *)
(*                                                                         *)
(* A drainer holds its rows locked (FOR UPDATE SKIP LOCKED) from its       *)
(* select to its commit and publishes in between; its marks become visible *)
(* at the commit.  No other transaction locks a row that it reads.         *)
(***************************************************************************)
EXTENDS Integers, FiniteSets

CONSTANTS
  Scripts,      \* script runs
  Patches,      \* patch installs
  Drainers,     \* dispatchers draining the outbox
  Nobody,       \* no drainer
  NoJob,        \* the output consumer handles no chunk
  Batch,        \* rows per drain
  MaxAttempts,  \* MAX_ATTEMPTS
  MaxEvents     \* bound: jobs queued, plus failed publishes, rollbacks, lost acks,
                \* lost results, restarts and expired windows

Jobs == Scripts \cup Patches

ASSUME JobsAssumption ==
  /\ Scripts \cap Patches = {}
  /\ NoJob \notin Jobs
  /\ Nobody \notin Drainers
ASSUME BoundsAssumption ==
  /\ Batch \in Nat \ {0}
  /\ MaxAttempts \in Nat \ {0}
  /\ MaxEvents \in Nat

VARIABLES
  run,       \* status of the ScriptRun or PatchJob row, none before it exists
  outbox,    \* status of its JobOutbox row
  attempts,  \* publishes that failed and were recorded
  due,       \* rows whose next_attempt_at has come
  lock,      \* the drainer that holds the outbox row, or Nobody
  mark,      \* what that drainer's transaction will write
  copies,    \* messages of the job waiting in the JOBS stream
  window,    \* jobs JetStream still remembers by their Nats-Msg-Id
  agent,     \* the agent process: idle, running or done with the job
  killed,    \* running jobs whose context has been cancelled
  out,       \* the job's output chunk: none, sent or stored
  results,   \* results on the RESULTS stream
  outTx,     \* the job whose chunk the output consumer has read the row for
  outRead,   \* the status it read
  cancel,    \* the cancel request: idle, drop, ask or asked
  again,     \* runs whose cancel request found them cancelled already
  ran,       \* history: bodies the agent started
  excuse,    \* history: what has happened that weakens a promise
  faults     \* faults so far

row == <<run, outbox, attempts, due>>
tx == <<lock, mark>>
broker == <<copies, window>>
host == <<agent, killed, ran>>
ingest == <<out, results, outTx, outRead>>
operator == <<cancel, again>>
vars == <<run, outbox, attempts, due, lock, mark, copies, window, agent, killed, out,
          results, outTx, outRead, cancel, again, ran, excuse, faults>>

Outcomes == {"succeeded", "failed", "timeout", "cancelled"}
Final == Outcomes \cup {"partial"}
Statuses == {"none", "queued", "running"} \cup Final
Marks == {"none", "published", "retry", "failed", "orphan"}
Excuses == {"window", "redelivered", "restart", "lost", "raced"}

Room == faults + Cardinality({j \in Jobs : run[j] # "none"}) < MaxEvents
Fault == Room /\ faults' = faults + 1
NoFault == UNCHANGED faults
Set(f, j, v) == [f EXCEPT ![j] = v]

Init ==
  /\ run = [j \in Jobs |-> "none"]
  /\ outbox = [j \in Jobs |-> "none"]
  /\ attempts = [j \in Jobs |-> 0]
  /\ due = {}
  /\ lock = [j \in Jobs |-> Nobody]
  /\ mark = [j \in Jobs |-> "none"]
  /\ copies = [j \in Jobs |-> 0]
  /\ window = {}
  /\ agent = [j \in Jobs |-> "idle"]
  /\ killed = {}
  /\ out = [j \in Jobs |-> "none"]
  /\ results = {}
  /\ outTx = NoJob
  /\ outRead = "none"
  /\ cancel = [j \in Jobs |-> "idle"]
  /\ again = {}
  /\ ran = [j \in Jobs |-> 0]
  /\ excuse = {}
  /\ faults = 0

-----------------------------------------------------------------------------
(* Queueing, and the drainers.                                             *)

\* queue_script_run and queue_patch_install: the row, its outbox row and the
\* audit entry commit together; nothing is published.
QueueRun(j) ==
  /\ run[j] = "none"
  /\ Room
  /\ run' = Set(run, j, "queued")
  /\ outbox' = Set(outbox, j, "pending")
  /\ due' = due \cup {j}
  /\ UNCHANGED <<attempts, tx, broker, host, ingest, operator, excuse, faults>>

Held(d) == {j \in Jobs : lock[j] = d}
Due == {j \in due : outbox[j] = "pending" /\ lock[j] = Nobody}

DrainSelect(d) ==
  /\ Held(d) = {}
  /\ Due # {}
  /\ \E S \in SUBSET Due :
       /\ Cardinality(S) = IF Cardinality(Due) < Batch THEN Cardinality(Due) ELSE Batch
       /\ lock' = [j \in Jobs |-> IF j \in S THEN d ELSE lock[j]]
  /\ UNCHANGED <<row, mark, broker, host, ingest, operator, excuse, faults>>

\* What is left of the batch: a failed publish ends it.
Todo(d) ==
  IF \E j \in Held(d) : mark[j] \notin {"none", "published"} THEN {}
  ELSE {j \in Held(d) : mark[j] = "none"}

\* Mutant: the message carries no Nats-Msg-Id.
StoredAlways(j) ==
  /\ copies' = Set(copies, j, copies[j] + 1)
  /\ UNCHANGED window

\* JetStream stores a message unless it remembers its id (external).
Stored(j) ==
  /\ copies' = IF j \in window THEN copies ELSE Set(copies, j, copies[j] + 1)
  /\ window' = window \cup {j}

Publish(d, j) ==
  /\ j \in Todo(d)
  /\ Stored(j)
  /\ mark' = Set(mark, j, "published")
  /\ UNCHANGED <<row, lock, host, ingest, operator, excuse, faults>>

\* Mutant: giving up leaves the row an operator looks at alone.
RecordFailureQuiet(j) ==
  Set(mark, j, IF attempts[j] + 1 < MaxAttempts THEN "retry" ELSE "orphan")

\* _record_failure, and _fail_owner's look at the row when it gives up.
RecordFailure(j) ==
  Set(mark, j, IF attempts[j] + 1 < MaxAttempts THEN "retry"
               ELSE IF run[j] = "queued" THEN "failed" ELSE "orphan")

\* A publish that raised: refused, or stored with the answer late or lost.
PublishFails(d, j) ==
  /\ j \in Todo(d)
  /\ Stored(j) \/ UNCHANGED broker
  /\ mark' = RecordFailure(j)
  /\ Fault
  /\ UNCHANGED <<row, lock, host, ingest, operator, excuse>>

Released(d) ==
  /\ lock' = [j \in Jobs |-> IF lock[j] = d THEN Nobody ELSE lock[j]]
  /\ mark' = [j \in Jobs |-> IF lock[j] = d THEN "none" ELSE mark[j]]

DrainCommit(d) ==
  /\ Held(d) # {}
  /\ Todo(d) = {}
  /\ LET Marked(m) == {j \in Held(d) : mark[j] = m}
         Failing == Marked("failed") \cup Marked("orphan")
     IN  /\ outbox' = [j \in Jobs |-> IF j \in Marked("published") THEN "published"
                                      ELSE IF j \in Failing THEN "failed" ELSE outbox[j]]
         /\ attempts' = [j \in Jobs |-> IF j \in Failing \cup Marked("retry")
                                        THEN attempts[j] + 1 ELSE attempts[j]]
         /\ due' = due \ Marked("retry")
         /\ run' = [j \in Jobs |-> IF j \in Marked("failed") THEN "failed" ELSE run[j]]
  /\ Released(d)
  /\ UNCHANGED <<broker, host, ingest, operator, excuse, faults>>

\* The dispatcher died or the database did: nothing is recorded.
DrainRollback(d) ==
  /\ Held(d) # {}
  /\ Fault
  /\ Released(d)
  /\ UNCHANGED <<row, broker, host, ingest, operator, excuse>>

BackoffElapses(j) ==
  /\ j \notin due
  /\ outbox[j] = "pending"
  /\ due' = due \cup {j}
  /\ UNCHANGED <<run, outbox, attempts, tx, broker, host, ingest, operator, excuse, faults>>

\* The duplicate window is longer than all the back-offs together; it ends
\* while a row is pending only when no dispatcher ran for two hours.
WindowEnds(j) ==
  /\ j \in window
  /\ Fault
  /\ window' = window \ {j}
  /\ excuse' = excuse \cup {"window"}
  /\ UNCHANGED <<row, tx, copies, host, ingest, operator>>

-----------------------------------------------------------------------------
(* The agent.                                                              *)

\* A delivery; its ack may be lost, and then the message comes again.
AgentTakes(j) ==
  /\ copies[j] > 0
  /\ \/ copies' = Set(copies, j, copies[j] - 1) /\ UNCHANGED excuse /\ NoFault
     \/ UNCHANGED copies /\ excuse' = excuse \cup {"redelivered"} /\ Fault
  /\ IF agent[j] = "idle"
     THEN agent' = Set(agent, j, "running") /\ ran' = Set(ran, j, ran[j] + 1)
     ELSE UNCHANGED <<agent, ran>>
  /\ UNCHANGED <<row, tx, window, killed, ingest, operator>>

\* Patch output has no row to go to: the output consumer logs it and drops it.
AgentOutputs(j) ==
  /\ j \in Scripts
  /\ agent[j] = "running"
  /\ out[j] = "none"
  /\ out' = Set(out, j, "sent")
  /\ UNCHANGED <<row, tx, broker, host, results, outTx, outRead, operator, excuse, faults>>

\* publishResult retries until it is acknowledged, three times; then the result
\* is lost.
Report(j, outcome) ==
  \/ results' = results \cup {<<j, outcome>>} /\ UNCHANGED excuse /\ NoFault
  \/ UNCHANGED results /\ excuse' = excuse \cup {"lost"} /\ Fault

AgentFinishes(j, outcome) ==
  /\ agent[j] = "running"
  /\ outcome = "cancelled" => j \in killed
  /\ outcome = "timeout" => j \in Patches  \* a script's is handled like its failure
  /\ agent' = Set(agent, j, "done")
  /\ killed' = killed \ {j}
  /\ Report(j, outcome)
  /\ UNCHANGED <<row, tx, broker, ran, out, outTx, outRead, operator>>

\* A restart forgets what ran.  A clean one reports the running jobs as
\* cancelled, a crash does not.
AgentRestarts ==
  /\ Fault
  /\ excuse' = excuse \cup {"restart"}
  /\ agent' = [j \in Jobs |-> "idle"]
  /\ killed' = {}
  /\ LET Running == {j \in Jobs : agent[j] = "running"}
     IN  \/ UNCHANGED results
         \/ results' = results \cup (Running \X {"cancelled"})
  /\ UNCHANGED <<row, tx, broker, ran, out, outTx, outRead, operator>>

-----------------------------------------------------------------------------
(* Ingest: one consumer for output, one for results.                       *)

\* apply_job_output reads the row ...
OutputRead(j) ==
  /\ outTx = NoJob
  /\ out[j] = "sent"
  /\ outTx' = j
  /\ outRead' = run[j]
  /\ UNCHANGED <<row, tx, broker, host, out, results, operator, excuse, faults>>

\* Mutant: output always means that the run is running.
OutputWriteReopens ==
  /\ outTx # NoJob
  /\ run' = Set(run, outTx, "running")
  /\ \/ out' = Set(out, outTx, "stored") /\ NoFault
     \/ UNCHANGED out /\ Fault
  /\ excuse' = IF outRead = "queued" /\ run[outTx] # "queued" THEN excuse \cup {"raced"} ELSE excuse
  /\ outTx' = NoJob
  /\ outRead' = "none"
  /\ UNCHANGED <<outbox, attempts, due, tx, broker, host, results, operator>>

\* ... and writes it from what it read.  A chunk not acknowledged comes again.
OutputWrite ==
  /\ outTx # NoJob
  /\ run' = IF outRead = "queued" THEN Set(run, outTx, "running") ELSE run
  /\ \/ out' = Set(out, outTx, "stored") /\ NoFault
     \/ UNCHANGED out /\ Fault
  /\ excuse' = IF outRead = "queued" /\ run[outTx] # "queued" THEN excuse \cup {"raced"} ELSE excuse
  /\ outTx' = NoJob
  /\ outRead' = "none"
  /\ UNCHANGED <<outbox, attempts, due, tx, broker, host, results, operator>>

\* The status of a patch job comes from the lists of installed and failed
\* updates, whatever the result's own status says, unless that is cancelled.
PatchStatus(outcome, installed, failed) ==
  CASE outcome = "cancelled" -> "cancelled"
    [] outcome # "cancelled" /\ failed /\ installed -> "partial"
    [] outcome # "cancelled" /\ failed /\ ~installed -> "failed"
    [] OTHER -> "succeeded"

\* patchResult: a failed update makes a failed job, but a busy backend, a
\* timeout, a panic or an error before the first update leaves both lists empty.
Lists(outcome) ==
  CASE outcome = "succeeded" -> {<<TRUE, FALSE>>, <<FALSE, FALSE>>}
    [] outcome = "failed" -> BOOLEAN \X BOOLEAN
    [] OTHER -> {<<FALSE, FALSE>>}

\* apply_job_result overwrites the status, whatever it was.
ApplyResult(j, outcome) ==
  /\ <<j, outcome>> \in results
  /\ \/ results' = results \ {<<j, outcome>>} /\ NoFault
     \/ UNCHANGED results /\ Fault
  /\ IF j \in Scripts
     THEN run' = Set(run, j, outcome)
     ELSE \E lists \in Lists(outcome) :
            run' = Set(run, j, PatchStatus(outcome, lists[1], lists[2]))
  /\ UNCHANGED <<outbox, attempts, due, tx, broker, host, out, outTx, outRead, operator, excuse>>

-----------------------------------------------------------------------------
(* cancel_run, for script runs.                                            *)

CancelRead(j) ==
  /\ cancel[j] = "idle"
  /\ run[j] \notin {"none", "succeeded", "failed", "timeout"}
  /\ cancel' = Set(cancel, j, IF outbox[j] = "pending" THEN "drop" ELSE "ask")
  /\ again' = IF run[j] = "cancelled" THEN again \cup {j} ELSE again \ {j}
  /\ UNCHANGED <<row, tx, broker, host, ingest, excuse, faults>>

\* An assignment of the status that was read writes nothing.
WriteCancelled(j) == run' = IF j \in again THEN run ELSE Set(run, j, "cancelled")

\* The outbox row was pending when it was read; the write waits for its lock.
CancelDrop(j) ==
  /\ cancel[j] = "drop"
  /\ lock[j] = Nobody
  /\ outbox' = Set(outbox, j, "cancelled")
  /\ WriteCancelled(j)
  /\ cancel' = Set(cancel, j, "idle")
  /\ again' = again \ {j}
  /\ UNCHANGED <<attempts, due, tx, broker, host, ingest, excuse, faults>>

\* job.cancel reaches a running job, or finds none, or is lost.
CancelAsk(j) ==
  /\ cancel[j] = "ask"
  /\ \/ killed' = IF agent[j] = "running" THEN killed \cup {j} ELSE killed
     \/ UNCHANGED killed
  /\ cancel' = Set(cancel, j, "asked")
  /\ UNCHANGED <<again, row, tx, broker, agent, ran, ingest, excuse, faults>>

CancelWrite(j) ==
  /\ cancel[j] = "asked"
  /\ WriteCancelled(j)
  /\ cancel' = Set(cancel, j, "idle")
  /\ again' = again \ {j}
  /\ UNCHANGED <<outbox, attempts, due, tx, broker, host, ingest, excuse, faults>>

-----------------------------------------------------------------------------
Draining(d) ==
  \/ DrainSelect(d) \/ DrainCommit(d)
  \/ \E j \in Jobs : Publish(d, j) \/ PublishFails(d, j)
Cancelling(j) == CancelDrop(j) \/ CancelAsk(j) \/ CancelWrite(j)
Running(j) ==
  \/ AgentTakes(j)
  \/ \E outcome \in Outcomes : AgentFinishes(j, outcome)
Ingesting(j) == OutputRead(j) \/ \E outcome \in Outcomes : ApplyResult(j, outcome)

Next ==
  \/ \E j \in Jobs :
       \/ QueueRun(j) \/ BackoffElapses(j) \/ WindowEnds(j)
       \/ Running(j) \/ AgentOutputs(j) \/ Ingesting(j)
  \/ \E j \in Scripts : CancelRead(j) \/ Cancelling(j)
  \/ \E d \in Drainers : Draining(d) \/ DrainRollback(d)
  \/ OutputWrite
  \/ AgentRestarts

Spec == Init /\ [][Next]_vars

\* The dispatchers, the agent and the ingest consumers go on working while any
\* of them can, and an operator's cancel request that was made runs to its end;
\* nobody owes a cancel.
Working ==
  \/ \E d \in Drainers : Draining(d)
  \/ OutputWrite
  \/ \E j \in Jobs : BackoffElapses(j) \/ Running(j) \/ Ingesting(j)

LiveSpec ==
  /\ Spec
  /\ WF_vars(Working)
  /\ WF_vars(\E j \in Scripts : Cancelling(j))

-----------------------------------------------------------------------------
(* Type invariant: run, outbox and patch rows have a status of their        *)
(* enumeration, and the open transactions what they have read.              *)
TypeOK ==
  /\ run \in [Jobs -> Statuses]
  /\ outbox \in [Jobs -> {"none", "pending", "published", "cancelled", "failed"}]
  /\ attempts \in [Jobs -> 0..MaxAttempts]
  /\ due \subseteq Jobs
  /\ lock \in [Jobs -> Drainers \cup {Nobody}]
  /\ mark \in [Jobs -> Marks]
  /\ copies \in [Jobs -> Nat]
  /\ window \subseteq Jobs
  /\ agent \in [Jobs -> {"idle", "running", "done"}]
  /\ killed \subseteq Jobs
  /\ out \in [Jobs -> {"none", "sent", "stored"}]
  /\ results \subseteq Jobs \X Outcomes
  /\ outTx \in Jobs \cup {NoJob} /\ outRead \in Statuses
  /\ cancel \in [Jobs -> {"idle", "drop", "ask", "asked"}]
  /\ again \subseteq Scripts
  /\ ran \in [Jobs -> Nat]
  /\ excuse \subseteq Excuses
  /\ faults \in 0..MaxEvents

\* At-least-once publishing, by several drainers that may each fail after the
\* publish, still runs a job once, even across restarts of the agent: a second
\* start needs a restart that forgets the first and a second copy of the
\* message, which only a lost ack or an expired duplicate window leaves behind
\* (services/job_outbox.py).
RanOnce ==
  \A j \in Jobs : ran[j] > 1 =>
    "restart" \in excuse /\ excuse \cap {"window", "redelivered"} # {}

\* A run that has ended never goes back to queued or running, although late and
\* repeated output keeps arriving, except when output and another writer of the
\* row overlap (apply_job_output, apply_job_result).
FinishedStaysFinished ==
  [][\A j \in Jobs : run[j] \in Final /\ "raced" \notin excuse' => run'[j] \in Final]_vars

\* Every queued run gets a final status, published or given up, cancelled or
\* not, unless a result was lost, the agent restarted or two writers of the row
\* overlapped: no run shows queued for ever (_fail_owner).
QueuedEnds ==
  []<>(\/ \A j \in Jobs : run[j] \in Final \cup {"none"}
       \/ excuse \cap {"restart", "lost", "raced"} # {})

\* "Undelivered work is cancelled by never sending it" (cancel_run): a run whose
\* outbox row was cancelled is not run.
CancelledIsNeverSent == \A j \in Jobs : outbox[j] = "cancelled" => ran[j] = 0
=============================================================================
