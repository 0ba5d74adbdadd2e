---------------------------- MODULE ScriptRunner ----------------------------
(***************************************************************************)
(* One script job from its staged body to its result: the runner, the      *)
(* goroutine that waits for the deadline, job.cancel, the two pumps and    *)
(* the sink they share, the script and a process it may leave behind with  *)
(* its pipes open, the acknowledged publish of the result, and the         *)
(* server's consumer that stores the output.                               *)
(*                                                                         *)
(* A frame of output is one read of a pipe, numbered by the sink.          *)
(***************************************************************************)
EXTENDS Integers, SequencesExt

CONSTANTS
  CapFrames,   \* MaxJobOutputBytes, in frames
  MaxFrames,   \* bound: frames the script and what it leaves behind write
  MaxFaults    \* bound: failed stores and lost acks, below MAX_DELIVER

ASSUME ScriptAssumption ==
  CapFrames \in Nat /\ MaxFrames \in Nat /\ MaxFaults \in Nat

Streams == {"stdout", "stderr"}

VARIABLES
  main,      \* Run: idle, wait, drain, clean, eof, publish, done
  staged,    \* the script's directory is on disk
  registered,  \* job.cancel finds the job
  child,     \* none, alive, or how it ended: ok, error, killed
  daemon,    \* a descendant outside the group holds the pipes
  frames,    \* frames written into the pipes so far
  pipe,      \* frames in each pipe
  readable,  \* the runner's ends of the pipes are open
  pump,      \* each pump: off, read, send, gone
  seq, written, truncated, stopped,  \* the sink
  ended,     \* streams whose end marker was sent
  reason,    \* why the job was killed, the first one
  killing,   \* the call that set it is about to kill
  watcher,   \* the goroutine that waits for the deadline: armed or gone
  status,    \* of the result
  stored,    \* the stream has the result
  queue,     \* frames the consumer has not been given yet
  again,     \* frames it will be given again, and whether they were stored
  high,      \* the highest frame stored of each stream
  faults,
  hit        \* history: the reason that found the script running

runVars == <<main, staged, registered, status>>
procVars == <<child, daemon, frames>>
pipeVars == <<pipe, readable, pump>>
sinkVars == <<seq, written, truncated, stopped, ended>>
killVars == <<reason, killing, watcher, hit>>
storeVars == <<queue, again, high, faults>>
vars == <<runVars, procVars, pipeVars, sinkVars, killVars, stored, storeVars>>

Init ==
  /\ main = "idle" /\ staged = FALSE /\ registered = FALSE /\ status = "none"
  /\ child = "none" /\ daemon = FALSE /\ frames = 0
  /\ pipe = [s \in Streams |-> 0] /\ readable = TRUE
  /\ pump = [s \in Streams |-> "off"]
  /\ seq = 0 /\ written = 0 /\ truncated = FALSE /\ stopped = FALSE
  /\ ended = {}
  /\ reason = "none" /\ killing = FALSE /\ watcher = "off" /\ hit = "none"
  /\ stored = FALSE
  /\ queue = <<>> /\ again = {} /\ high = [s \in Streams |-> 0] /\ faults = 0

-----------------------------------------------------------------------------
(* The sink.                                                               *)

send(s) == seq' = seq + 1 /\ queue' = Append(queue, [s |-> s, n |-> seq + 1])

\* Nothing after the cap, and nothing after stop.
write(s) ==
  IF truncated \/ stopped THEN UNCHANGED <<seq, written, truncated, queue>>
  ELSE IF written >= CapFrames
  THEN truncated' = TRUE /\ UNCHANGED <<seq, written, queue>>
  ELSE send(s) /\ written' = written + 1 /\ truncated' = truncated

eof(s) == send(s) /\ ended' = ended \cup {s}

-----------------------------------------------------------------------------
(* The runner.                                                             *)

\* No body, no interpreter, no directory, no pipes, no process: the reason goes
\* out as a frame, and the directory is removed again.
abort ==
  /\ main = "idle"
  /\ main' = "eof" /\ status' = "failed"
  /\ write("stderr")
  /\ UNCHANGED <<staged, registered, procVars, pipeVars, stopped, ended, killVars,
                 stored, again, high, faults>>

execute ==
  /\ main = "idle"
  /\ main' = "wait" /\ staged' = TRUE /\ registered' = TRUE
  /\ child' = "alive" /\ watcher' = "armed"
  /\ pump' = [s \in Streams |-> "read"]
  /\ UNCHANGED <<status, daemon, frames, pipe, readable, sinkVars, reason, killing,
                 hit, stored, storeVars>>

\* The script ends by itself, or forks something that outlives it.
ChildEnds ==
  /\ child = "alive"
  /\ child' \in {"ok", "error"}
  /\ UNCHANGED <<runVars, daemon, frames, pipeVars, sinkVars, killVars, stored,
                 storeVars>>

ChildForks ==
  /\ child = "alive" /\ ~daemon /\ daemon' = TRUE
  /\ UNCHANGED <<runVars, child, frames, pipeVars, sinkVars, killVars, stored,
                 storeVars>>

DaemonEnds ==
  /\ daemon /\ daemon' = FALSE
  /\ UNCHANGED <<runVars, child, frames, pipeVars, sinkVars, killVars, stored,
                 storeVars>>

PipesOpen == child = "alive" \/ daemon
ChildWrites(s) ==
  /\ PipesOpen /\ readable /\ frames < MaxFrames /\ pipe[s] = 0
  /\ pipe' = [pipe EXCEPT ![s] = 1] /\ frames' = frames + 1
  /\ UNCHANGED <<runVars, child, daemon, readable, pump, sinkVars, killVars,
                 stored, storeVars>>

\* kill: the first reason wins, and its caller kills.
kill(why) ==
  /\ reason' = IF reason = "none" THEN why ELSE reason
  /\ killing' = (killing \/ reason = "none")
  /\ hit' = IF reason = "none" /\ child = "alive" THEN why ELSE hit

\* The deadline, or the end of the job's context.  Once the script is gone the
\* goroutine may still find its timer first.
TimerFires ==
  /\ watcher = "armed" /\ watcher' = "gone"
  /\ \E why \in {"timeout", "cancelled"} : kill(why)
  /\ UNCHANGED <<runVars, procVars, pipeVars, sinkVars, stored, storeVars>>

WatcherDone ==
  /\ watcher = "armed" /\ main \notin {"idle", "wait"} /\ watcher' = "gone"
  /\ UNCHANGED <<runVars, procVars, pipeVars, sinkVars, reason, killing, hit,
                 stored, storeVars>>

Cancel ==
  /\ registered
  /\ kill("cancelled")
  /\ UNCHANGED <<runVars, procVars, pipeVars, sinkVars, watcher, stored,
                 storeVars>>

\* The whole group, which is not the daemon.
guard_kill ==
  /\ killing /\ killing' = FALSE
  /\ child' = IF child = "alive" THEN "killed" ELSE child
  /\ UNCHANGED <<runVars, daemon, frames, pipeVars, sinkVars, reason, watcher, hit,
                 stored, storeVars>>

\* One read of a pipe, and its end: the writers are gone, or the runner closed it.
ReadEnds(s) == ~readable \/ (pipe[s] = 0 /\ ~PipesOpen)
pumpRead(s) ==
  /\ pump[s] = "read"
  /\ \/ ReadEnds(s) /\ pump' = [pump EXCEPT ![s] = "gone"] /\ pipe' = pipe
     \/ /\ readable /\ pipe[s] > 0
        /\ pump' = [pump EXCEPT ![s] = "send"]
        /\ pipe' = [pipe EXCEPT ![s] = 0]
  /\ UNCHANGED <<runVars, procVars, readable, sinkVars, killVars, stored,
                 storeVars>>

pumpSend(s) ==
  /\ pump[s] = "send" /\ pump' = [pump EXCEPT ![s] = "read"]
  /\ write(s)
  /\ UNCHANGED <<runVars, procVars, pipe, readable, stopped, ended, killVars,
                 stored, again, high, faults>>

\* cmd.Wait reports the child, whatever the pipes do.
Wait ==
  /\ main = "wait" /\ child # "alive" /\ main' = "drain"
  /\ UNCHANGED <<staged, registered, status, procVars, pipeVars, sinkVars, killVars,
                 stored, storeVars>>

\* The bug of a result that waits for the end of the pipes.
drainToEof ==
  /\ main = "drain" /\ main' = "clean"
  /\ \A s \in Streams : pump[s] = "gone"
  /\ UNCHANGED <<staged, registered, status, procVars, pipeVars, sinkVars, killVars,
                 stored, storeVars>>

\* The pumps get a moment to deliver what is buffered; then nothing they still
\* hold may follow the end markers.
drain ==
  /\ main = "drain" /\ main' = "clean"
  /\ \/ (\A s \in Streams : pump[s] = "gone") /\ UNCHANGED <<stopped, readable>>
     \/ stopped' = TRUE /\ readable' = FALSE
  /\ UNCHANGED <<staged, registered, status, procVars, pipe, pump, seq, written,
                 truncated, ended, killVars, stored, storeVars>>

\* The status, then the deferred calls: unregister, closeAll, RemoveAll.
result ==
  /\ main = "clean" /\ main' = "eof"
  /\ status' = IF reason # "none" THEN reason
               ELSE IF child = "ok" THEN "succeeded" ELSE "failed"
  /\ registered' = FALSE /\ readable' = FALSE /\ staged' = FALSE
  /\ UNCHANGED <<procVars, pipe, pump, sinkVars, killVars, stored, storeVars>>

Run_eof ==
  /\ main = "eof"
  /\ IF ended = {} THEN eof("stdout") /\ main' = main
     ELSE eof("stderr") /\ main' = "publish"
  /\ UNCHANGED <<staged, registered, status, procVars, pipeVars, written, truncated,
                 stopped, killVars, stored, again, high, faults>>

\* Each of the attempts is stored or lost, and the stream drops a message id it
\* has; the runner gives up after the last, whatever it knows.
publishAck ==
  /\ main = "publish" /\ main' = "done"
  /\ stored' \in BOOLEAN
  /\ UNCHANGED <<staged, registered, status, procVars, pipeVars, sinkVars, killVars,
                 storeVars>>

-----------------------------------------------------------------------------
(* The server's consumer of the output.                                    *)

\* The next frame of the stream, or one that is due again.
Delivered(f) ==
  \/ queue # <<>> /\ f = Head(queue) /\ queue' = Tail(queue)
  \/ (\E a \in again : a.f = f) /\ queue' = queue
Due == {a.f : a \in again} \cup ToSet(queue)

\* The bug of a consumer that appends whatever it is given.
applyAll(f) == [high EXCEPT ![f.s] = f.n]

\* A chunk that is not above the highest one of its stream was applied before.
apply(f) == [high EXCEPT ![f.s] = IF f.n > @ THEN f.n ELSE @]
apply_job_output ==
  /\ \E f \in Due :
       /\ Delivered(f)
       /\ high' = apply(f) /\ again' = {a \in again : a.f # f}
  /\ UNCHANGED <<runVars, procVars, pipeVars, sinkVars, killVars, stored, faults>>

\* The transaction fails, or the ack after it does: the message comes again
\* later, and the ones behind it do not wait.
Redelivered ==
  /\ faults < MaxFaults /\ faults' = faults + 1
  /\ \E f \in Due, commits \in BOOLEAN :
       /\ Delivered(f)
       /\ high' = IF commits THEN apply(f) ELSE high
       /\ again' = {a \in again : a.f # f}
            \cup {[f |-> f, stored |-> commits \/ [f |-> f, stored |-> TRUE] \in again]}
  /\ UNCHANGED <<runVars, procVars, pipeVars, sinkVars, killVars, stored>>

-----------------------------------------------------------------------------
Runner == abort \/ execute \/ Wait \/ drain \/ result \/ Run_eof \/ publishAck
Pumps == \E s \in Streams : pumpRead(s) \/ pumpSend(s)
Script ==
  ChildEnds \/ ChildForks \/ DaemonEnds \/ \E s \in Streams : ChildWrites(s)
Next ==
  \/ Runner \/ Pumps \/ Script \/ TimerFires \/ WatcherDone \/ Cancel \/ guard_kill
  \/ apply_job_output \/ Redelivered

Spec == Init /\ [][Next]_vars

\* The runner's and the pumps' goroutines run, the deadline comes, and a killed
\* process is gone.  The script and its daemon owe nothing.
Fairness ==
  /\ WF_vars(Runner) /\ WF_vars(TimerFires) /\ WF_vars(guard_kill)
LiveSpec == Spec /\ Fairness

-----------------------------------------------------------------------------
\* Each stream of the run's record grows by frames the agent sent, in the order
\* it sent them and never one twice, whatever was redelivered: apply_job_output
\* with the numbers of the sink implements the abstract stream.
Out == INSTANCE OutputStream WITH
  made <- seq, last <- high["stdout"], watching <- TRUE
Err == INSTANCE OutputStream WITH
  made <- seq, last <- high["stderr"], watching <- TRUE
RecordInOrder == Out!Spec /\ Err!Spec

\* No pump sends a frame of a stream after the stream's end marker, also not one
\* that a daemon kept alive beyond the result (stop).
NothingAfterEof ==
  [][\A s \in ended : Len(queue') > Len(queue) => Last(queue').s # s]_vars

\* The record of a run is what its sinks sent, in order, up to the end marker
\* (send, eof, stop, apply_job_output).
StreamsRecorded == RecordInOrder /\ NothingAfterEof

\* A deadline or a cancel that found the script running is what the result
\* says, however the kill, the exit and the pumps interleave.
StoppedIsReported == status # "none" /\ hit # "none" => status = hit

\* A job that started is reported and leaves no script on disk, although its
\* script hangs or leaves a process behind that holds the pipes.
Reports == main # "idle" ~> (main = "done" /\ ~staged)

\* A job that started is reported, and as what ended it (execute, result).
EndIsReported == []StoppedIsReported /\ Reports

\* "Ignore a chunk we have already applied" (results.py): a frame that is due
\* again and was not stored can still be.
OutputComplete == \A a \in again : a.stored \/ a.f.n > high[a.f.s]
=============================================================================
