------------------------- MODULE ScriptRunner_proof -------------------------
(***************************************************************************)
(* The record of a run implements the abstract stream, nothing follows a   *)
(* stream's end marker, and a killed job is reported as killed: for any    *)
(* cap on the output, any number of frames and any number of redeliveries. *)
(***************************************************************************)
EXTENDS ScriptRunner, TLAPS

-----------------------------------------------------------------------------
(* What the consumer may be given was numbered by the sink.                *)

Frames == [s : Streams, n : Nat]

NumbersInv ==
  /\ seq \in Nat
  /\ high \in [Streams -> Nat]
  /\ \A s \in Streams : high[s] <= seq
  /\ queue \in Seq(Frames)
  /\ \A i \in 1..Len(queue) : queue[i].n <= seq
  /\ \A a \in again : a.f \in Frames /\ a.f.n <= seq

\* The sink's counter and its queue grow together, or not at all (send, write).
LEMMA Sink ==
  ASSUME NumbersInv, NEW s \in Streams, send(s) \/ UNCHANGED <<seq, queue>>
  PROVE  /\ seq' \in {seq, seq + 1} /\ seq' \in Nat
         /\ queue' \in Seq(Frames)
         /\ \A i \in 1..Len(queue') : queue'[i].n <= seq'
<1>1. CASE UNCHANGED <<seq, queue>>
  BY <1>1 DEF NumbersInv
<1>2. CASE send(s)
  <2> DEFINE f == [s |-> s, n |-> seq + 1]
  <2>1. seq' = seq + 1 /\ queue' = Append(queue, f)
    BY <1>2 DEF send
  <2>2. f \in Frames /\ f.n = seq + 1
    BY DEF Frames, NumbersInv
  <2> HIDE DEF f
  <2>3. queue' \in Seq(Frames) /\ Len(queue') = Len(queue) + 1
    BY <2>1, <2>2 DEF NumbersInv
  <2>4. ASSUME NEW i \in 1..Len(queue') PROVE queue'[i].n <= seq'
    <3>1. CASE i \in 1..Len(queue)
      <4>1. queue'[i] = queue[i] /\ queue[i] \in Frames
        BY <3>1, <2>1, <2>2 DEF NumbersInv
      <4> QED
        BY <4>1, <3>1, <2>1 DEF NumbersInv, Frames
    <3>2. CASE i = Len(queue) + 1
      BY <3>2, <2>1, <2>2 DEF NumbersInv
    <3> QED
      BY <3>1, <3>2, <2>3 DEF NumbersInv
  <2> QED
    BY <2>1, <2>3, <2>4 DEF NumbersInv
<1> QED
  BY <1>1, <1>2

\* What is due has a number the sink has given (Due).
LEMMA DueNumbered == NumbersInv => \A f \in Due : f \in Frames /\ f.n <= seq
<1> SUFFICES ASSUME NumbersInv, NEW f \in Due PROVE f \in Frames /\ f.n <= seq
  OBVIOUS
<1>1. CASE f \in ToSet(queue)
  <2>1. PICK i \in DOMAIN queue : f = queue[i]
    BY <1>1 DEF ToSet
  <2>2. i \in 1..Len(queue) /\ queue[i] \in Frames
    BY DEF NumbersInv
  <2> QED
    BY <2>1, <2>2 DEF NumbersInv
<1>2. CASE f \in {a.f : a \in again}
  BY <1>2 DEF NumbersInv
<1> QED
  BY <1>1, <1>2 DEF Due

\* A delivery takes the first frame of the queue, or leaves the queue (Delivered).
LEMMA QueueAfter ==
  ASSUME NumbersInv, NEW f, Delivered(f)
  PROVE  /\ queue' \in Seq(Frames)
         /\ \A i \in 1..Len(queue') : queue'[i].n <= seq
         /\ Len(queue') <= Len(queue)
<1>1. CASE queue' = queue
  BY <1>1 DEF NumbersInv
<1>2. CASE queue # <<>> /\ queue' = Tail(queue)
  <2>1. /\ queue' \in Seq(Frames) /\ Len(queue') = Len(queue) - 1
        /\ \A i \in 1..Len(queue') : queue'[i] = queue[i + 1]
    BY <1>2 DEF NumbersInv
  <2> QED
    BY <2>1 DEF NumbersInv
<1> QED
  BY <1>1, <1>2 DEF Delivered

\* A stored frame moves its stream up to the frame's number or not at all.
LEMMA Apply ==
  ASSUME NumbersInv, NEW f \in Frames, f.n <= seq
  PROVE  /\ apply(f) \in [Streams -> Nat]
         /\ \A s \in Streams :
              apply(f)[s] = high[s] \/ (apply(f)[s] > high[s] /\ apply(f)[s] <= seq)
  BY DEF NumbersInv, apply, Frames

-----------------------------------------------------------------------------
(* Every step, seen from the sink and from the consumer.                   *)

Sends(s) == send(s) /\ UNCHANGED <<high, again>>
Consumes ==
  \E f \in Due :
    /\ Delivered(f)
    /\ high' \in {apply(f), high}
    /\ \A a \in again' : a \in again \/ a.f = f
    /\ UNCHANGED <<seq, ended>>

\* What each step of the runner, the pumps, the connection and the server does
\* to the sink's numbers, the queue and the record.
LEMMA Steps ==
  ASSUME [Next]_vars
  PROVE  \/ UNCHANGED <<seq, queue, high, again>>
         \/ \E s \in Streams : Sends(s)
         \/ Consumes
<1>1. CASE abort
  BY <1>1 DEF abort, write, Sends, Streams
<1>2. CASE \E s \in Streams : pumpSend(s)
  BY <1>2 DEF pumpSend, write, Sends
<1>3. CASE Run_eof
  BY <1>3 DEF Run_eof, eof, Sends, Streams
<1>4. CASE apply_job_output
  <2>1. PICK f \in Due : /\ Delivered(f)
                         /\ high' = apply(f) /\ again' = {a \in again : a.f # f}
    BY <1>4 DEF apply_job_output
  <2> QED
    BY <1>4, <2>1 DEF apply_job_output, Consumes, sinkVars
<1>5. CASE Redelivered
  <2>1. PICK f \in Due, commits \in BOOLEAN :
          /\ Delivered(f)
          /\ high' = IF commits THEN apply(f) ELSE high
          /\ again' = {a \in again : a.f # f}
               \cup {[f |-> f, stored |-> commits \/ [f |-> f, stored |-> TRUE] \in again]}
    BY <1>5 DEF Redelivered
  <2>2. \A a \in again' : a \in again \/ a.f = f
    BY <2>1
  <2>3. high' \in {apply(f), high}
    BY <2>1
  <2> QED
    BY <1>5, <2>1, <2>2, <2>3 DEF Redelivered, Consumes, sinkVars
<1>6. CASE execute \/ Wait \/ drain \/ result \/ publishAck \/ TimerFires \/ WatcherDone
           \/ Cancel \/ guard_kill \/ ChildEnds \/ ChildForks \/ DaemonEnds
  BY <1>6 DEF execute, Wait, drain, result, publishAck, TimerFires, WatcherDone, Cancel,
       guard_kill, ChildEnds, ChildForks, DaemonEnds, sinkVars, storeVars
<1>7. CASE \E s \in Streams : pumpRead(s) \/ ChildWrites(s)
  BY <1>7 DEF pumpRead, ChildWrites, sinkVars, storeVars
<1>8. CASE UNCHANGED vars
  BY <1>8 DEF vars, sinkVars, storeVars
<1> QED
  BY <1>1, <1>2, <1>3, <1>4, <1>5, <1>6, <1>7, <1>8
  DEF Next, Runner, Pumps, Script

\* No number beyond the sink's counter is in the queue, due again or stored.
LEMMA NumbersInvariant == Spec => []NumbersInv
<1>1. Init => NumbersInv
  BY DEF Init, NumbersInv, Streams, Frames
<1>2. NumbersInv /\ [Next]_vars => NumbersInv'
  <2> SUFFICES ASSUME NumbersInv, [Next]_vars PROVE NumbersInv'
    OBVIOUS
  <2>1. CASE UNCHANGED <<seq, queue, high, again>>
    BY <2>1 DEF NumbersInv
  <2>2. ASSUME NEW s \in Streams, Sends(s) PROVE NumbersInv'
    <3>1. /\ seq' \in {seq, seq + 1} /\ seq' \in Nat
          /\ queue' \in Seq(Frames)
          /\ \A i \in 1..Len(queue') : queue'[i].n <= seq'
      BY <2>2, Sink DEF Sends
    <3>2. high' = high /\ again' = again /\ seq <= seq'
      BY <2>2, <3>1 DEF Sends, NumbersInv
    <3>3. \A x \in Streams : high[x] \in Nat /\ high[x] <= seq'
      BY ONLY NumbersInv, <3>1, <3>2 DEF NumbersInv
    <3>4. \A a \in again : a.f \in Frames /\ a.f.n <= seq'
      BY ONLY NumbersInv, <3>1, <3>2 DEF NumbersInv, Frames
    <3> QED
      BY ONLY NumbersInv, <3>1, <3>2, <3>3, <3>4 DEF NumbersInv
  <2>3. CASE Consumes
    <3>1. PICK f \in Due :
            /\ Delivered(f) /\ high' \in {apply(f), high}
            /\ \A a \in again' : a \in again \/ a.f = f
            /\ seq' = seq
      BY <2>3 DEF Consumes
    <3>2. f \in Frames /\ f.n <= seq
      BY DueNumbered
    <3>3. high' \in [Streams -> Nat] /\ \A s \in Streams : high'[s] <= seq
      BY <3>1, <3>2, Apply DEF NumbersInv
    <3>4. queue' \in Seq(Frames) /\ \A i \in 1..Len(queue') : queue'[i].n <= seq
      BY <3>1, QueueAfter
    <3> QED
      BY <3>1, <3>2, <3>3, <3>4 DEF NumbersInv
  <2> QED
    BY <2>1, <2>2, <2>3, Steps
<1> QED
  BY <1>1, <1>2, PTL DEF Spec

\* A step moves a stream of the record to a later frame that was sent, or adds
\* a frame to those sent, never both.
LEMMA RecordStep ==
  ASSUME NumbersInv, [Next]_vars, NEW s \in Streams
  PROVE  \/ UNCHANGED <<seq, high[s]>>
         \/ seq' = seq + 1 /\ high'[s] = high[s]
         \/ seq' = seq /\ high'[s] \in (high[s] + 1)..seq
<1>1. CASE UNCHANGED <<seq, queue, high, again>>
  BY <1>1
<1>2. ASSUME NEW t \in Streams, Sends(t) PROVE seq' = seq + 1 /\ high'[s] = high[s]
  BY <1>2 DEF Sends, send
<1>3. CASE Consumes
  <2>1. PICK f \in Due :
          Delivered(f) /\ high' \in {apply(f), high} /\ seq' = seq
    BY <1>3 DEF Consumes
  <2>2. f \in Frames /\ f.n <= seq
    BY DueNumbered
  <2>3. /\ apply(f)[s] \in Nat
        /\ apply(f)[s] = high[s] \/ (apply(f)[s] > high[s] /\ apply(f)[s] <= seq)
    BY <2>2, Apply
  <2> QED
    BY <2>1, <2>3 DEF NumbersInv
<1> QED
  BY <1>1, <1>2, <1>3, Steps

\* Each stream of a run's record grows by frames the agent sent, in the order it
\* sent them and never one twice, whatever the consumer was given again: the
\* sink and apply_job_output implement the abstract stream.
THEOREM RecordImplements == Spec => RecordInOrder
<1>1. Init => Out!Init /\ Err!Init
  BY DEF Init, Out!Init, Err!Init, Streams
<1>2. NumbersInv /\ [Next]_vars => [Out!Next]_(Out!vars)
  <2> SUFFICES ASSUME NumbersInv, [Next]_vars PROVE [Out!Next]_(Out!vars)
    OBVIOUS
  <2>1. "stdout" \in Streams
    BY DEF Streams
  <2> QED
    BY <2>1, RecordStep DEF Out!Next, Out!vars, Out!Write, Out!Show
<1>3. NumbersInv /\ [Next]_vars => [Err!Next]_(Err!vars)
  <2> SUFFICES ASSUME NumbersInv, [Next]_vars PROVE [Err!Next]_(Err!vars)
    OBVIOUS
  <2>1. "stderr" \in Streams
    BY DEF Streams
  <2> QED
    BY <2>1, RecordStep DEF Err!Next, Err!vars, Err!Write, Err!Show
<1> QED
  BY <1>1, <1>2, <1>3, NumbersInvariant, PTL DEF Spec, RecordInOrder, Out!Spec, Err!Spec

-----------------------------------------------------------------------------
(* The end markers.                                                        *)

\* When the runner is past its drain no pump can reach the sink: each is gone,
\* never started, or finds the sink stopped.
Quiet == stopped \/ \A s \in Streams : pump[s] \in {"off", "gone"}

EofInv ==
  /\ main \in {"idle", "wait", "drain", "clean", "eof", "publish", "done"}
  /\ pump \in [Streams -> {"off", "read", "send", "gone"}]
  /\ main = "idle" => \A s \in Streams : pump[s] = "off"
  /\ main \in {"clean", "eof", "publish", "done"} => Quiet
  /\ main \in {"idle", "wait", "drain", "clean"} => ended = {}
  /\ main = "eof" => ended \in {{}, {"stdout"}}

\* After the drain the pumps are quiet and stay so, and the markers go out in
\* their order (drain, eof).
LEMMA EofInvariant == Spec => []EofInv
<1>1. Init => EofInv
  BY DEF Init, EofInv
<1>2. EofInv /\ [Next]_vars => EofInv'
  <2> SUFFICES ASSUME EofInv, [Next]_vars PROVE EofInv'
    OBVIOUS
  <2> USE DEF EofInv, Quiet
  <2>1. CASE abort
    BY <2>1 DEF abort, pipeVars
  <2>2. CASE execute
    BY <2>2 DEF execute, sinkVars
  <2>3. CASE drain
    BY <2>3 DEF drain
  <2>4. CASE Run_eof
    BY <2>4 DEF Run_eof, eof, pipeVars
  <2>5. CASE result
    BY <2>5 DEF result, sinkVars
  <2>6. CASE Wait \/ publishAck
    BY <2>6 DEF Wait, publishAck, pipeVars, sinkVars
  <2>7. CASE \E s \in Streams : pumpRead(s)
    <3>1. PICK s \in Streams : pumpRead(s)
      BY <2>7
    <3>2. /\ pump[s] = "read" /\ UNCHANGED <<main, stopped, ended>>
          /\ pump' \in {[pump EXCEPT ![s] = "gone"], [pump EXCEPT ![s] = "send"]}
      BY <3>1 DEF pumpRead, runVars, sinkVars
    <3> QED
      BY <3>2
  <2>8. CASE \E s \in Streams : pumpSend(s)
    <3>1. PICK s \in Streams : pumpSend(s)
      BY <2>8
    <3>2. /\ pump[s] = "send" /\ UNCHANGED <<main, stopped, ended>>
          /\ pump' = [pump EXCEPT ![s] = "read"]
      BY <3>1 DEF pumpSend, runVars
    <3> QED
      BY <3>2
  <2>9. CASE TimerFires \/ WatcherDone \/ Cancel \/ guard_kill \/ Script
             \/ apply_job_output \/ Redelivered \/ UNCHANGED vars
    BY <2>9 DEF TimerFires, WatcherDone, Cancel, guard_kill, Script, ChildEnds, ChildForks,
         DaemonEnds, ChildWrites, apply_job_output, Redelivered, vars, runVars, pipeVars,
         sinkVars
  <2> QED
    BY <2>1, <2>2, <2>3, <2>4, <2>5, <2>6, <2>7, <2>8, <2>9 DEF Next, Runner, Pumps
<1> QED
  BY <1>1, <1>2, PTL DEF Spec

\* What a step that makes the queue longer has put at its end.
LEMMA Appended ==
  ASSUME NumbersInv, NEW s \in Streams, send(s)
  PROVE  Last(queue').s = s
<1> DEFINE f == [s |-> s, n |-> seq + 1]
<1>1. queue' = Append(queue, f) /\ f \in Frames /\ f.s = s
  BY DEF send, NumbersInv, Frames
<1> HIDE DEF f
<1>2. queue'[Len(queue')] = f
  BY <1>1 DEF NumbersInv
<1> QED
  BY <1>1, <1>2 DEF Last

\* The record of a run is what its sink sent, in order, and no stream has a frame
\* after its end marker, also when a process the script left behind holds the
\* pipes beyond the result (send, eof, stop, apply_job_output).
THEOREM RecordHolds == Spec => StreamsRecorded
<1>1. NumbersInv /\ EofInv /\ [Next]_vars =>
        [\A s \in ended : Len(queue') > Len(queue) => Last(queue').s # s]_vars
  <2> SUFFICES ASSUME NumbersInv, EofInv, [Next]_vars,
                      NEW s \in ended, Len(queue') > Len(queue)
               PROVE  Last(queue').s # s
    OBVIOUS
  <2>1. queue' # queue
    BY DEF NumbersInv
  <2>2. CASE abort
    BY <2>2 DEF abort, EofInv
  <2>3. ASSUME NEW t \in Streams, pumpSend(t) PROVE FALSE
    <3>1. pump[t] = "send" /\ write(t) /\ main \in {"eof", "publish", "done"}
      BY <2>3 DEF pumpSend, EofInv
    <3>2. stopped
      BY <3>1 DEF EofInv, Quiet
    <3> QED
      BY <2>1, <3>1, <3>2 DEF write
  <2>4. CASE Run_eof
    <3>1. main = "eof" /\ ended = {"stdout"} /\ send("stderr") /\ "stderr" \in Streams
      BY <2>4 DEF Run_eof, EofInv, eof, Streams
    <3> QED
      BY <3>1, Appended
  <2>5. CASE apply_job_output \/ Redelivered
    <3>1. PICK f \in Due : Delivered(f)
      BY <2>5 DEF apply_job_output, Redelivered
    <3> QED
      BY <3>1, QueueAfter DEF NumbersInv
  <2>6. CASE execute \/ Wait \/ drain \/ result \/ publishAck \/ TimerFires \/ WatcherDone
             \/ Cancel \/ guard_kill \/ ChildEnds \/ ChildForks \/ DaemonEnds
    BY <2>1, <2>6 DEF execute, Wait, drain, result, publishAck, TimerFires, WatcherDone,
         Cancel, guard_kill, ChildEnds, ChildForks, DaemonEnds, storeVars
  <2>7. CASE \E t \in Streams : pumpRead(t) \/ ChildWrites(t)
    BY <2>1, <2>7 DEF pumpRead, ChildWrites, storeVars
  <2>8. CASE UNCHANGED vars
    BY <2>1, <2>8 DEF vars, storeVars
  <2> QED
    BY <2>2, <2>3, <2>4, <2>5, <2>6, <2>7, <2>8 DEF Next, Runner, Pumps, Script
<1>2. Spec => NothingAfterEof
  BY <1>1, NumbersInvariant, EofInvariant, PTL DEF Spec, NothingAfterEof
<1> QED
  BY <1>2, RecordImplements DEF StreamsRecorded

-----------------------------------------------------------------------------
(* The outcome.                                                            *)

\* Only a script that runs is hit, by the first reason; and the status is set
\* when it no longer runs.
OutcomeInv ==
  /\ child = "alive" => main = "wait"
  /\ hit # "none" => reason = hit /\ main # "idle"
  /\ main \in {"idle", "wait", "drain", "clean"} => status = "none"
  /\ StoppedIsReported

\* A deadline or a cancel that found the script running is what the result says,
\* however the kill, the exit, the drain and a second reason interleave (kill,
\* reasonBox, result).
THEOREM OutcomeReported == Spec => []StoppedIsReported
<1> USE DEF OutcomeInv, StoppedIsReported
<1>1. Init => OutcomeInv
  BY DEF Init
<1>2. OutcomeInv /\ [Next]_vars => OutcomeInv'
  <2> SUFFICES ASSUME OutcomeInv, [Next]_vars PROVE OutcomeInv'
    OBVIOUS
  <2>1. CASE abort
    BY <2>1 DEF abort, procVars, killVars
  <2>2. CASE execute
    BY <2>2 DEF execute
  <2>3. CASE Wait \/ drain \/ Run_eof \/ publishAck
    BY <2>3 DEF Wait, drain, Run_eof, publishAck, procVars, killVars
  <2>4. CASE result
    BY <2>4 DEF result, procVars, killVars
  <2>5. CASE TimerFires \/ Cancel
    <3>1. PICK why \in {"timeout", "cancelled"} : kill(why)
      BY <2>5 DEF TimerFires, Cancel
    <3>2. UNCHANGED <<main, status, child>>
      BY <2>5 DEF TimerFires, Cancel, runVars, procVars
    <3> QED
      BY <3>1, <3>2 DEF kill
  <2>6. CASE guard_kill \/ ChildEnds
    BY <2>6 DEF guard_kill, ChildEnds, runVars, killVars
  <2>7. CASE WatcherDone \/ ChildForks \/ DaemonEnds \/ apply_job_output \/ Redelivered
             \/ UNCHANGED vars
    BY <2>7 DEF WatcherDone, ChildForks, DaemonEnds, apply_job_output, Redelivered, vars,
         runVars, procVars, killVars
  <2>8. CASE \E s \in Streams : pumpRead(s) \/ pumpSend(s) \/ ChildWrites(s)
    BY <2>8 DEF pumpRead, pumpSend, ChildWrites, runVars, procVars, killVars
  <2> QED
    BY <2>1, <2>2, <2>3, <2>4, <2>5, <2>6, <2>7, <2>8 DEF Next, Runner, Pumps, Script
<1> QED
  BY <1>1, <1>2, PTL DEF Spec
=============================================================================
