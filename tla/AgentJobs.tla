----------------------------- MODULE AgentJobs -----------------------------
(***************************************************************************)
(* The agent's job execution core (agent/internal/jobs): one JetStream     *)
(* callback, one command callback and the scheduler's goroutines all take  *)
(* worker slots through Module.reserve, run a job on a goroutine of its    *)
(* own and release the slot.  The JetStream consumer is external: it       *)
(* delivers a message at most MaxDeliver times, again whenever it saw no   *)
(* acknowledgement, and any acknowledgement may be lost on the way.        *)
(*                                                                         *)
(* An ATTEMPT <<r, n>> is one call of reserve: the n-th delivery of stream *)
(* message r, or (n = 1) the firing of schedule occurrence r, or the       *)
(* agent.update command r.                                                 *)
(***************************************************************************)
EXTENDS Integers, Sequences, FiniteSets

CONSTANTS
  Msgs,             \* messages of the JOBS stream for this agent
  Fires,            \* firings of schedule entries (RunScheduled)
  Updates,          \* agent.update commands
  Jobs,             \* job ids
  JobOf,            \* the job id each request carries
  Poison,           \* messages decodeJob or CheckIdentifier refuse
  Hangs,            \* jobs whose body does not end by itself
  MaxConcurrent,    \* maxConcurrentJobs
  MaxDeliver,       \* maxDeliver
  MaxAckPending,    \* maxAckPending
  RecentlyDoneCap,  \* recentlyDoneCap
  MaxLives,         \* bound: process lives explored
  NoAttempt         \* the callback handles no message

Requests == Msgs \cup Fires \cup Updates

ASSUME RequestsAssumption ==
  /\ Msgs \cap Fires = {}
  /\ Msgs \cap Updates = {}
  /\ Fires \cap Updates = {}
  /\ JobOf \in [Requests -> Jobs]
  /\ Poison \subseteq Msgs
  /\ Hangs \subseteq Jobs
ASSUME BoundsAssumption ==
  /\ MaxConcurrent \in Nat \ {0}
  /\ MaxDeliver \in Nat \ {0}
  /\ MaxAckPending \in Nat \ {0}
  /\ RecentlyDoneCap \in Nat \ {0}
  /\ MaxLives \in Nat \ {0}

Attempts == Requests \X (1..MaxDeliver)
Deliveries == Msgs \X (1..MaxDeliver)
Job(a) == JobOf[a[1]]

ASSUME NoAttemptAssumption == NoAttempt \notin Attempts

VARIABLES
  stream,    \* per message: stored, pending (delivered, unacked), acked or dropped
  ndel,      \* per message: how often it has been delivered
  buffer,    \* deliveries in the client's buffer, oldest first
  callback,  \* the delivery handleJob is working on, or NoAttempt
  pc,        \* per attempt: where its goroutine is
  slots,     \* len(m.slots): worker slots taken
  inflight,  \* keys of m.inflight
  doneOrder, \* m.doneOrder; m.done is its range
  life,      \* up, then the stages of drainJobs, then down
  base,      \* m.base, the parent of every job's context: live or cancelled
  toReport,  \* jobs drainJobs still has to report as interrupted
  cancelled, \* running jobs whose context job.cancel has cancelled
  starts,    \* history: per job, bodies started in this process life
  everRan,   \* history: jobs started in any life
  results,   \* history: per job, the results handed to PublishResult in this life
  lives      \* process lives so far

js == <<stream, ndel>>
reg == <<slots, inflight, doneOrder>>
stop == <<life, base, toReport>>
hist == <<starts, everRan, results>>
vars == <<stream, ndel, buffer, callback, pc, slots, inflight, doneOrder, life,
          base, toReport, cancelled, starts, everRan, results, lives>>

PCs == {"new", "enter", "slot", "recheck", "running", "published", "marked",
        "releasing", "over"}
Lives == {"up", "draining", "cancelling", "reporting", "drained", "down"}

At(phases) == {a \in Attempts : pc[a] \in phases}

\* Goroutines between reserve's registration and the delete from m.inflight.
Registered == At({"running", "published", "marked"})
\* Attempts that have put a token into m.slots and not yet taken it out.
Holders == At({"recheck", "running", "published", "marked", "releasing"})
\* What m.wg counts: registered jobs whose release has not finished.
WaitGroup == At({"running", "published", "marked", "releasing"})

Done == {doneOrder[i] : i \in DOMAIN doneOrder}
Stopping == life \in {"draining", "cancelling", "reporting", "drained"}
Alive == life # "down"

Init ==
  /\ stream = [m \in Msgs |-> "stored"]
  /\ ndel = [m \in Msgs |-> 0]
  /\ buffer = <<>>
  /\ callback = NoAttempt
  /\ pc = [a \in Attempts |-> "new"]
  /\ slots = 0
  /\ inflight = {}
  /\ doneOrder = <<>>
  /\ life = "up"
  /\ base = "live"
  /\ toReport = {}
  /\ cancelled = {}
  /\ starts = [j \in Jobs |-> 0]
  /\ everRan = {}
  /\ results = [j \in Jobs |-> <<>>]
  /\ lives = 1

-----------------------------------------------------------------------------
(* The durable pull consumer, as bindConsumer configures it (external).    *)

Deliver(m) ==
  /\ life = "up"
  /\ stream[m] = "stored"
  /\ ndel[m] < MaxDeliver
  /\ Cardinality({x \in Msgs : stream[x] = "pending"}) < MaxAckPending
  /\ stream' = [stream EXCEPT ![m] = "pending"]
  /\ ndel' = [ndel EXCEPT ![m] = @ + 1]
  /\ buffer' = Append(buffer, <<m, ndel[m] + 1>>)
  /\ UNCHANGED <<callback, pc, reg, stop, cancelled, hist, lives>>

\* What the stream does with a message its consumer gave back: it is offered
\* again unless its deliveries are used up.
Returned(m) == IF ndel[m] < MaxDeliver THEN "stored" ELSE "dropped"

AckWaitExpires(m) ==
  /\ stream[m] = "pending"
  /\ stream' = [stream EXCEPT ![m] = Returned(m)]
  /\ UNCHANGED <<ndel, buffer, callback, pc, reg, stop, cancelled,
                 hist, lives>>

\* A terminal pull error: the subscription stops and Run binds the consumer
\* again after consumerRetry.  The buffered deliveries are gone.
ConsumerStops ==
  /\ life = "up"
  /\ buffer # <<>>
  /\ buffer' = <<>>
  /\ UNCHANGED <<js, callback, pc, reg, stop, cancelled, hist, lives>>

\* msg.Ack and msg.Term, msg.Nak: sent once, without waiting for a reply.
Ack(m) ==
  \/ stream' = [stream EXCEPT ![m] = "acked"]
  \/ UNCHANGED stream

Nak(m) ==
  \/ stream' = [stream EXCEPT ![m] = IF @ = "pending" THEN Returned(m) ELSE @]
  \/ UNCHANGED stream

-----------------------------------------------------------------------------
(* The three callers of reserve.                                           *)

\* handleJob takes the oldest buffered delivery; one that does not decode is
\* terminated and never reaches reserve.
HandleJob ==
  /\ life = "up"
  /\ callback = NoAttempt
  /\ buffer # <<>>
  /\ buffer' = Tail(buffer)
  /\ LET d == Head(buffer)
     IN  IF d[1] \in Poison
         THEN /\ Ack(d[1])
              /\ pc' = [pc EXCEPT ![d] = "over"]
              /\ UNCHANGED callback
         ELSE /\ callback' = d
              /\ pc' = [pc EXCEPT ![d] = "enter"]
              /\ UNCHANGED stream
  /\ UNCHANGED <<ndel, reg, stop, cancelled, hist, lives>>

RunScheduled(f) ==
  /\ Alive
  /\ pc[<<f, 1>>] = "new"
  /\ pc' = [pc EXCEPT ![<<f, 1>>] = "enter"]
  /\ UNCHANGED <<js, buffer, callback, reg, stop, cancelled, hist, lives>>

\* The command callback handles one message at a time, and cmdAgentUpdate
\* calls reserve on it.
CommandBusy == \E u \in Updates : pc[<<u, 1>>] \in {"enter", "slot", "recheck"}

CmdAgentUpdate(u) ==
  /\ life = "up"
  /\ ~CommandBusy
  /\ pc[<<u, 1>>] = "new"
  /\ pc' = [pc EXCEPT ![<<u, 1>>] = "enter"]
  /\ UNCHANGED <<js, buffer, callback, reg, stop, cancelled, hist, lives>>

CmdJobCancel(j) ==
  /\ life = "up"
  /\ ~CommandBusy
  /\ j \in inflight \ cancelled
  /\ cancelled' = cancelled \cup {j}
  /\ UNCHANGED <<js, buffer, callback, pc, reg, stop, hist, lives>>

-----------------------------------------------------------------------------
(* reserve.  How each caller disposes of a refusal is part of the step:    *)
(* handleJob answers the message, the other two only log or reply.         *)

\* Mutant: a job refused because the agent is stopping is acknowledged.
RefuseStoppingAcks(a) ==
  /\ pc' = [pc EXCEPT ![a] = "over"]
  /\ IF a \in Deliveries
     THEN Ack(a[1]) /\ callback' = NoAttempt
     ELSE UNCHANGED <<stream, callback>>

RefuseStopping(a) ==
  /\ pc' = [pc EXCEPT ![a] = "over"]
  /\ IF a \in Deliveries
     THEN Nak(a[1]) /\ callback' = NoAttempt
     ELSE UNCHANGED <<stream, callback>>

RefuseDuplicate(a) ==
  /\ pc' = [pc EXCEPT ![a] = "over"]
  /\ IF a \in Deliveries
     THEN Ack(a[1]) /\ callback' = NoAttempt
     ELSE UNCHANGED <<stream, callback>>

\* The first critical section: refuse, or go and wait for a slot.
ReserveCheck(a) ==
  /\ pc[a] = "enter"
  /\ CASE Stopping -> RefuseStopping(a)
       [] ~Stopping /\ Job(a) \in inflight -> RefuseDuplicate(a)
       [] OTHER -> /\ pc' = [pc EXCEPT ![a] = "slot"]
                   /\ UNCHANGED <<stream, callback>>
  /\ UNCHANGED <<ndel, buffer, reg, stop, cancelled, hist, lives>>

TakeSlot(a) ==
  /\ pc[a] = "slot"
  /\ slots < MaxConcurrent
  /\ slots' = slots + 1
  /\ pc' = [pc EXCEPT ![a] = "recheck"]
  /\ UNCHANGED <<js, buffer, callback, inflight, doneOrder, stop, cancelled, hist, lives>>

WaitAborted(a) ==
  /\ pc[a] = "slot"
  /\ base = "cancelled"
  /\ RefuseStopping(a)
  /\ UNCHANGED <<ndel, buffer, reg, stop, cancelled, hist, lives>>

\* The second critical section, with a slot in hand.  The errJobDone return
\* keeps the slot.
ReserveRefuse(a) ==
  /\ pc[a] = "recheck"
  /\ CASE Stopping -> RefuseStopping(a) /\ slots' = slots - 1
       [] ~Stopping /\ Job(a) \in inflight -> RefuseDuplicate(a) /\ slots' = slots - 1
       [] ~Stopping /\ Job(a) \notin inflight /\ Job(a) \in Done ->
            RefuseDuplicate(a) /\ UNCHANGED slots
       [] OTHER -> FALSE
  /\ UNCHANGED <<ndel, buffer, inflight, doneOrder, stop, cancelled,
                 hist, lives>>

\* Mutants: the second critical section trusts the first one's look at the
\* registry; or it never looks at the recently-done set.
ReserveRegisterTrusting(a) ==
  /\ pc[a] = "recheck"
  /\ ~Stopping
  /\ Job(a) \notin Done
  /\ inflight' = inflight \cup {Job(a)}
  /\ pc' = [pc EXCEPT ![a] = "running"]
  /\ starts' = [starts EXCEPT ![Job(a)] = @ + 1]
  /\ everRan' = everRan \cup {Job(a)}
  /\ UNCHANGED <<js, buffer, callback, slots, doneOrder, stop, cancelled, results, lives>>

ReserveRegisterForgetful(a) ==
  /\ pc[a] = "recheck"
  /\ ~Stopping
  /\ Job(a) \notin inflight
  /\ inflight' = inflight \cup {Job(a)}
  /\ pc' = [pc EXCEPT ![a] = "running"]
  /\ starts' = [starts EXCEPT ![Job(a)] = @ + 1]
  /\ everRan' = everRan \cup {Job(a)}
  /\ UNCHANGED <<js, buffer, callback, slots, doneOrder, stop, cancelled, results, lives>>

ReserveRegister(a) ==
  /\ pc[a] = "recheck"
  /\ ~Stopping
  /\ Job(a) \notin inflight \cup Done
  /\ inflight' = inflight \cup {Job(a)}
  /\ pc' = [pc EXCEPT ![a] = "running"]
  /\ starts' = [starts EXCEPT ![Job(a)] = @ + 1]
  /\ everRan' = everRan \cup {Job(a)}
  /\ UNCHANGED <<js, buffer, callback, slots, doneOrder, stop, cancelled, results, lives>>

\* handleJob's last statement, after the job's goroutine was started.
AckStarted ==
  /\ callback # NoAttempt
  /\ pc[callback] \notin {"enter", "slot", "recheck"}
  /\ Ack(callback[1])
  /\ callback' = NoAttempt
  /\ UNCHANGED <<ndel, buffer, pc, reg, stop, cancelled, hist, lives>>

-----------------------------------------------------------------------------
(* A job's goroutine: runJob publishes exactly one result (of execute or   *)
(* of jobPanicked), then the deferred calls run.                           *)

RunJob(a) ==
  /\ pc[a] = "running"
  /\ pc' = [pc EXCEPT ![a] = "published"]
  /\ results' = [results EXCEPT ![Job(a)] = Append(@, "own")]
  /\ UNCHANGED <<js, buffer, callback, reg, stop, cancelled, starts,
                 everRan, lives>>

\* markDone, for stream jobs only: the oldest id goes when the set is full.
Remembered(order, j) ==
  IF \E i \in DOMAIN order : order[i] = j THEN order
  ELSE LET grown == Append(order, j)
       IN  IF Len(grown) > RecentlyDoneCap THEN Tail(grown) ELSE grown

MarkDone(a) ==
  /\ pc[a] = "published"
  /\ a \in Deliveries
  /\ doneOrder' = Remembered(doneOrder, Job(a))
  /\ pc' = [pc EXCEPT ![a] = "marked"]
  /\ UNCHANGED <<js, buffer, callback, slots, inflight, stop, cancelled, hist, lives>>

\* Mutant: the slot is given back with the registry entry, and again after.
UnregisterTwice(a) ==
  /\ pc[a] = IF a \in Deliveries THEN "marked" ELSE "published"
  /\ inflight' = inflight \ {Job(a)}
  /\ cancelled' = cancelled \ {Job(a)}
  /\ slots' = slots - 1
  /\ pc' = [pc EXCEPT ![a] = "releasing"]
  /\ UNCHANGED <<js, buffer, callback, doneOrder, stop, hist, lives>>

\* release: the registry entry goes first, the slot and wg.Done after.
Unregister(a) ==
  /\ pc[a] = IF a \in Deliveries THEN "marked" ELSE "published"
  /\ inflight' = inflight \ {Job(a)}
  /\ cancelled' = cancelled \ {Job(a)}
  /\ pc' = [pc EXCEPT ![a] = "releasing"]
  /\ UNCHANGED <<js, buffer, callback, slots, doneOrder, stop, hist, lives>>

\* Mutant: release keeps the slot.
FreeSlotLeaks(a) ==
  /\ pc[a] = "releasing"
  /\ pc' = [pc EXCEPT ![a] = "over"]
  /\ UNCHANGED <<js, buffer, callback, reg, stop, cancelled, hist, lives>>

FreeSlot(a) ==
  /\ pc[a] = "releasing"
  /\ slots' = slots - 1
  /\ pc' = [pc EXCEPT ![a] = "over"]
  /\ UNCHANGED <<js, buffer, callback, inflight, doneOrder, stop, cancelled, hist, lives>>

-----------------------------------------------------------------------------
(* Shutdown: Run returns, drainJobs waits, cancels, reports; then the      *)
(* process exits.  Or it crashes.                                          *)

\* ctx is done: consume stops the subscription, which discards the buffer,
\* and drainJobs sets m.stopping.
DrainJobs ==
  /\ life = "up"
  /\ life' = "draining"
  /\ buffer' = <<>>
  /\ UNCHANGED <<js, callback, pc, reg, base, toReport, cancelled, hist, lives>>

\* The two timers run whether or not the jobs have ended meanwhile.
GraceExpired ==
  /\ life = "draining"
  /\ life' = "cancelling"
  /\ base' = "cancelled"
  /\ UNCHANGED <<js, buffer, callback, pc, reg, toReport, cancelled, hist, lives>>

\* Mutant: no second grace; drainJobs waits for the cancelled jobs to return.
CancelGraceNever ==
  /\ life = "cancelling"
  /\ WaitGroup = {}
  /\ life' = "reporting"
  /\ toReport' = inflight
  /\ UNCHANGED <<js, buffer, callback, pc, reg, base, cancelled, hist, lives>>

\* RunningJobs is read once; the jobs it names are then reported one by one.
CancelGraceExpired ==
  /\ life = "cancelling"
  /\ life' = "reporting"
  /\ toReport' = inflight
  /\ UNCHANGED <<js, buffer, callback, pc, reg, base, cancelled, hist, lives>>

ReportInterrupted(j) ==
  /\ life = "reporting"
  /\ j \in toReport
  /\ toReport' = toReport \ {j}
  /\ results' = [results EXCEPT ![j] = Append(@, "interrupted")]
  /\ UNCHANGED <<js, buffer, callback, pc, reg, life, base, cancelled, starts,
                 everRan, lives>>

\* Mutant: drainJobs returns when its graces are over, without reporting.
DrainReturnsSilent ==
  /\ Stopping /\ life # "drained"
  /\ life' = "drained"
  /\ UNCHANGED <<js, buffer, callback, pc, reg, base, toReport, cancelled,
                 hist, lives>>

\* drainJobs returns: every job released in time, or the rest reported.
DrainReturns ==
  /\ \/ life \in {"draining", "cancelling"} /\ WaitGroup = {}
     \/ life = "reporting" /\ toReport = {}
  /\ life' = "drained"
  /\ UNCHANGED <<js, buffer, callback, pc, reg, base, toReport, cancelled,
                 hist, lives>>

\* The process is gone, with everything it held in memory.
Gone ==
  /\ life' = "down"
  /\ buffer' = <<>>
  /\ callback' = NoAttempt
  /\ pc' = [a \in Attempts |-> IF pc[a] = "new" THEN "new" ELSE "over"]
  /\ slots' = 0
  /\ inflight' = {}
  /\ doneOrder' = <<>>
  /\ toReport' = {}
  /\ cancelled' = {}
  /\ base' = "live"

Exit ==
  /\ life = "drained"
  /\ Gone
  /\ UNCHANGED <<js, hist, lives>>

Crash ==
  /\ Alive
  /\ lives < MaxLives
  /\ Gone
  /\ UNCHANGED <<js, hist, lives>>

\* startJobs in a new process.
StartJobs ==
  /\ life = "down"
  /\ lives < MaxLives
  /\ life' = "up"
  /\ lives' = lives + 1
  /\ starts' = [j \in Jobs |-> 0]
  /\ results' = [j \in Jobs |-> <<>>]
  /\ UNCHANGED <<js, buffer, callback, pc, reg, base, toReport, cancelled, everRan>>

-----------------------------------------------------------------------------
Next ==
  \/ \E m \in Msgs : Deliver(m) \/ AckWaitExpires(m)
  \/ ConsumerStops
  \/ HandleJob
  \/ AckStarted
  \/ \E f \in Fires : RunScheduled(f)
  \/ \E u \in Updates : CmdAgentUpdate(u)
  \/ \E j \in Jobs : CmdJobCancel(j) \/ ReportInterrupted(j)
  \/ \E a \in Attempts :
       \/ ReserveCheck(a) \/ TakeSlot(a) \/ WaitAborted(a)
       \/ ReserveRefuse(a) \/ ReserveRegister(a)
       \/ RunJob(a) \/ MarkDone(a) \/ Unregister(a) \/ FreeSlot(a)
  \/ DrainJobs \/ GraceExpired \/ CancelGraceExpired \/ DrainReturns
  \/ Exit \/ Crash \/ StartJobs

Spec == Init /\ [][Next]_vars

\* What the Go runtime and the timers guarantee: every goroutine that can move
\* eventually does, and drainJobs' two timers fire.  A body ends because
\* scripts.Runner and patchJobTimeout put a timeout on every kind of job, except
\* those of Hangs, which ignore it.
Reserving(a) ==
  ReserveCheck(a) \/ TakeSlot(a) \/ ReserveRefuse(a) \/ ReserveRegister(a)
Releasing(a) == MarkDone(a) \/ Unregister(a) \/ FreeSlot(a)
ShuttingDown ==
  \/ GraceExpired \/ CancelGraceExpired \/ DrainReturns \/ Exit
  \/ \E j \in Jobs : ReportInterrupted(j)

LiveSpec ==
  /\ Spec
  /\ WF_vars(ShuttingDown) /\ WF_vars(HandleJob) /\ WF_vars(AckStarted)
  /\ \A m \in Msgs : WF_vars(Deliver(m)) /\ WF_vars(AckWaitExpires(m))
  /\ \A a \in Attempts : WF_vars(Reserving(a)) /\ WF_vars(Releasing(a))
  /\ \A a \in Attempts : Job(a) \notin Hangs => WF_vars(RunJob(a))

-----------------------------------------------------------------------------
(* Properties.                                                             *)

(* Type invariant: every variable ranges over the states of its field in    *)
(* jobs.Module, and the slot count never leaves 0..maxConcurrentJobs.       *)
TypeOK ==
  /\ stream \in [Msgs -> {"stored", "pending", "acked", "dropped"}]
  /\ ndel \in [Msgs -> 0..MaxDeliver]
  /\ buffer \in Seq(Deliveries)
  /\ callback \in Deliveries \cup {NoAttempt}
  /\ pc \in [Attempts -> PCs]
  /\ slots \in 0..MaxConcurrent
  /\ inflight \subseteq Jobs
  /\ doneOrder \in Seq(Jobs)
  /\ life \in Lives
  /\ base \in {"live", "cancelled"}
  /\ toReport \subseteq Jobs
  /\ cancelled \subseteq Jobs
  /\ starts \in [Jobs -> Nat]
  /\ everRan \subseteq Jobs
  /\ results \in [Jobs -> Seq({"own", "interrupted"})]
  /\ lives \in 1..MaxLives

\* No more than maxConcurrentJobs jobs are between their start and the end of
\* their release, whoever started them (maxConcurrentJobs, inflight.go).
ConcurrencyBound == Cardinality(WaitGroup) <= MaxConcurrent

\* A job id never has two bodies at once, although deliveries, firings and
\* commands check the registry, give up the lock to wait and check again; and
\* the registry names exactly the jobs that have a body, so job.cancel finds
\* every one of them and nothing else.
OneBodyPerJob ==
  /\ inflight = {Job(a) : a \in Registered}
  /\ \A a, b \in Registered : Job(a) = Job(b) => a = b

\* A job of the stream starts at most once in a process life, however often it
\* is redelivered and however long its copies sat in the client's buffer,
\* while the recently-done set is large enough for the jobs at hand (markDone).
StartedOncePerLife == \A m \in Msgs : starts[JobOf[m]] <= 1

\* A message leaves the stream for good only once its job has been started by
\* this or an earlier process: handleJob registers the job before it acks, so
\* neither a full agent nor a shutdown swallows work (undecodable messages are
\* terminated on purpose).
AckedWasStarted ==
  \A m \in Msgs \ Poison : stream[m] = "acked" => JobOf[m] \in everRan

\* Once drainJobs has returned, every job this process started has had a
\* terminal result published, by itself or by reportInterrupted, and no job
\* can start any more.
DrainedIsReported ==
  life = "drained" => \A j \in Jobs : starts[j] > 0 => results[j] # <<>>

\* A requested shutdown ends even if a running job hangs (drainJobs' graces).
ShutdownCompletes == []<>(life \in {"up", "down"})

\* A delivery of m waits in the client's buffer or inside reserve.
InHand(m) ==
  \/ \E i \in DOMAIN buffer : buffer[i][1] = m
  \/ \E a \in At({"enter", "slot", "recheck"}) : a[1] = m

\* As long as the agent stays up and hung jobs leave a slot free, every
\* message's job is started, unless the stream has used up its deliveries:
\* waiting for a slot (reserve) never becomes waiting forever.
EveryJobStarts ==
  \A m \in Msgs \ Poison :
    (stream[m] = "stored") ~>
      (JobOf[m] \in everRan \/ life # "up" \/ (stream[m] = "dropped" /\ ~InHand(m)))

\* The command callback, which agent.update occupies while it waits for a
\* slot, is free again eventually, so job.cancel can be heard.
CommandsReturn == []<>~CommandBusy

\* Nobody waits for ever on a slot: not a message on the stream, and not the
\* command callback, which holds back the cancels that could free one (reserve,
\* cmdAgentUpdate).
NobodyWaitsForEver == EveryJobStarts /\ CommandsReturn

\* Every token in m.slots belongs to somebody who will take it out: "It blocks
\* while every slot is busy" (inflight.go:83).
SlotsAccounted == slots = Cardinality(Holders)

\* A message refused because the agent is stopping is left "on the stream for
\* the next process" (consumer.go:163): it is not given up by the stream.
RefusedIsKept ==
  [][\A d \in Deliveries :
       /\ Stopping
       /\ pc[d] \in {"enter", "slot", "recheck"}
       /\ pc'[d] = "over"
       /\ Job(d) \notin everRan
       /\ life' # "down"
       => stream'[d[1]] # "dropped"]_vars

\* reportInterrupted publishes "a terminal result for a job the agent could not
\* finish" (inflight.go:282), so never after the job's own result.
InterruptedWasUnfinished ==
  \A j \in Jobs : \A i \in 2..Len(results[j]) :
    ~(results[j][i - 1] = "own" /\ results[j][i] = "interrupted")
=============================================================================
