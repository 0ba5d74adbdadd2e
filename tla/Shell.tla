------------------------------- MODULE Shell -------------------------------
(***************************************************************************)
(* One remote shell session: the terminal and the goroutines around it on  *)
(* the device (pump, watcher, monitor, close), the two NATS subjects in    *)
(* each direction, and the server's bridge to the browser.                 *)
(*                                                                         *)
(* Output is counted in frames, numbered as the agent reads them.  How     *)
(* much time has passed is a choice at the monitor's tick.  The other      *)
(* sessions of the device are a number that stays as it is.                *)
(***************************************************************************)
EXTENDS Integers, Sequences

CONSTANTS
  PauseAbove,   \* flowPauseAbove, in frames
  ResumeBelow,  \* flowResumeBelow
  RingMax,      \* ringMaxBytes
  QueueMax,     \* QUEUE_MAXSIZE of the bridge
  MaxSessions,  \* sessions one device carries
  MaxFrames,    \* bound: frames the program's output makes
  MaxDrops      \* bound: losses of the agent's link

ASSUME FlowAssumption ==
  /\ PauseAbove \in Nat /\ ResumeBelow \in 0..PauseAbove
  /\ RingMax \in Nat \ {0, 1} /\ QueueMax \in Nat \ {0}
  /\ MaxSessions \in Nat \ {0}
ASSUME ShellBoundsAssumption ==
  MaxFrames \in Nat /\ MaxDrops \in Nat

Banner == 0    \* the line the bridge writes into the stream for a gap
Nothing == -1  \* no frame in hand

VARIABLES
  made,      \* frames of the program's output the agent has read
  child,     \* the shell process: none, running, exited
  master,    \* the agent's end of the terminal is open
  opener,    \* OpenSession: idle, locked (holds m.mu), opened, refused
  table,     \* the session is in the module's table
  others,    \* the other sessions in the table
  stopping,  \* the module refuses new sessions
  pump,      \* pumpOutput: off, gate, parked, read, emit, done
  chunk,     \* the frame the pump has read
  closer,    \* close: no, publish, teardown, forget, done
  unacked, paused,       \* flow control
  ring, gap, marked,     \* output kept while the link is down, and since when
  link,      \* the agent is connected
  drops,     \* losses of the link so far
  out, ctl,  \* frames and control events on their way to the server
  acks,      \* acknowledgements on their way to the agent
  bridge,    \* none, asking, live, leaving, done
  queue,     \* frames waiting for the browser
  told,      \* the bridge has seen the session close
  last,      \* the latest frame the browser has shown
  leaked     \* history: a frame or an acknowledgement was lost on the way

ptyVars == <<made, child, master>>
moduleVars == <<opener, table, others, stopping>>
flowVars == <<unacked, paused>>
keepVars == <<ring, gap, marked>>
wireVars == <<link, drops, out, ctl, acks, leaked>>
bridgeVars == <<bridge, queue, told, last>>
agentVars == <<ptyVars, moduleVars, pump, chunk, closer, flowVars, keepVars>>
vars == <<agentVars, wireVars, bridgeVars>>

Init ==
  /\ made = 0 /\ child = "none" /\ master = FALSE
  /\ opener = "idle" /\ table = FALSE /\ others \in {0, MaxSessions}
  /\ stopping = FALSE /\ pump = "off" /\ chunk = Nothing /\ closer = "no"
  /\ unacked = 0 /\ paused = FALSE
  /\ ring = <<>> /\ gap = FALSE /\ marked = FALSE
  /\ link = TRUE /\ drops = 0 /\ out = <<>> /\ ctl = <<>> /\ acks = 0
  /\ bridge = "none" /\ queue = <<>> /\ told = FALSE
  /\ last = 0 /\ leaked = FALSE

-----------------------------------------------------------------------------
(* Flow control and the ring.                                              *)

\* n more frames are published: the pump pauses above the limit.
sent(n) ==
  /\ unacked' = unacked + n
  /\ paused' = (paused \/ unacked + n > PauseAbove)

\* One frame was acknowledged.  Closing the gate lets a parked pump through,
\* whatever happens to the window before it runs.
ack ==
  LET left == IF unacked > 0 THEN unacked - 1 ELSE 0
      resume == paused /\ left <= ResumeBelow
  IN  /\ unacked' = left
      /\ paused' = (paused /\ ~resume)
      /\ pump' = IF resume /\ pump = "parked" THEN "read" ELSE pump

\* The bug of a buffer that grows with the outage.
ring_write_unbounded(f) == ring' = Append(ring, f) /\ gap' = gap

ring_write(f) ==
  IF Len(ring) < RingMax
  THEN ring' = Append(ring, f) /\ gap' = gap
  ELSE ring' = Append(Tail(ring), f) /\ gap' = TRUE

ring_drain == ring' = <<>> /\ gap' = FALSE

markDisconnected == marked' = TRUE

\* A message with no subscriber left is dropped where it arrives.
Onto(channel, msgs) == IF bridge = "done" THEN <<>> ELSE channel \o msgs

publishFrames(fs) == out' = Onto(out, fs) /\ sent(Len(fs))

\* The bug of new output overtaking what is still in the ring.
flushLockedLater(fs) ==
  IF fs = <<>>
  THEN /\ marked' = FALSE /\ ring_drain /\ publishFrames(ring)
       /\ ctl' = Onto(ctl, IF gap THEN <<"gap">> ELSE <<>>)
  ELSE publishFrames(fs) /\ UNCHANGED <<ctl, keepVars>>

\* What the link's absence kept goes first, then new output.  The gap event
\* precedes it on a subject of its own.  The code returns early when no loss is
\* marked: the ring is empty then, for emit marks the loss before it writes.
flushLocked(fs) ==
  /\ marked' = FALSE
  /\ ctl' = Onto(ctl, IF gap THEN <<"gap">> ELSE <<>>)
  /\ ring_drain
  /\ publishFrames(ring \o fs)

-----------------------------------------------------------------------------
(* The session on the device.                                              *)

\* Close of the terminal: its end is gone and the process group is killed.
pty_Close == master' = FALSE /\ child' = "exited" /\ UNCHANGED made

startPTY == master' = TRUE /\ child' = "running" /\ UNCHANGED made

\* A subscription that fails leaves nothing of the terminal behind.
closeAndReap == pty_Close

\* The limit that counts the sessions of the device, and the module's end.
Admits == ~stopping /\ others < MaxSessions

\* OpenSession keeps m.mu from its checks until the session is in the table.
OpenSession ==
  /\ bridge = "asking" /\ link /\ opener = "idle" /\ Admits
  /\ startPTY
  /\ opener' = "locked" /\ pump' = "gate"
  /\ UNCHANGED <<table, others, stopping, chunk, closer, flowVars, keepVars,
                 wireVars, bridgeVars>>

OpenInsert ==
  /\ opener = "locked"
  /\ opener' = "opened" /\ table' = TRUE
  /\ UNCHANGED <<ptyVars, others, stopping, pump, chunk, closer, flowVars,
                 keepVars, wireVars, bridgeVars>>

OpenRefused ==
  /\ bridge = "asking" /\ link /\ opener = "idle"
  /\ \/ ~Admits /\ UNCHANGED ptyVars
     \/ Admits /\ closeAndReap
  /\ opener' = "refused"
  /\ UNCHANGED <<table, others, stopping, pump, chunk, closer, flowVars,
                 keepVars, wireVars, bridgeVars>>

ChildExits ==
  /\ child = "running" /\ child' = "exited"
  /\ UNCHANGED <<made, master, moduleVars, pump, chunk, closer, flowVars,
                 keepVars, wireVars, bridgeVars>>

Cancelled == closer \in {"forget", "done"}

\* flow.wait: through when nothing is paused, else parked at the gate until an
\* acknowledgement or the end of the session opens it.
wait ==
  /\ pump = "gate"
  /\ pump' = IF paused THEN "parked" ELSE "read"
  /\ UNCHANGED <<ptyVars, moduleVars, chunk, closer, flowVars, keepVars,
                 wireVars, bridgeVars>>

\* A pump parked, or released at the same moment, may see the cancellation.
waitCancelled ==
  /\ pump \in {"gate", "parked"} /\ Cancelled
  /\ pump' = "done"
  /\ UNCHANGED <<ptyVars, moduleVars, chunk, closer, flowVars, keepVars,
                 wireVars, bridgeVars>>

\* A read returns output, which the terminal may still hold after the program's
\* end, or fails once there is no more.
pumpOutput ==
  /\ pump = "read"
  /\ \/ /\ master /\ made < MaxFrames
        /\ made' = made + 1 /\ chunk' = made + 1 /\ pump' = "emit"
     \/ /\ ~master \/ child = "exited"
        /\ pump' = "done" /\ UNCHANGED <<chunk, made>>
  /\ UNCHANGED <<child, master, moduleVars, closer, flowVars, keepVars,
                 wireVars, bridgeVars>>

emit ==
  /\ pump = "emit"
  /\ pump' = "gate" /\ chunk' = Nothing
  /\ \/ /\ ~link
        /\ markDisconnected /\ ring_write(chunk)
        /\ UNCHANGED <<flowVars, out, ctl>>
     \/ /\ link
        /\ flushLocked(<<chunk>>)
  /\ UNCHANGED <<ptyVars, moduleVars, closer, link, drops, acks, leaked,
                 bridgeVars>>

\* An acknowledgement, as long as the session listens.
onCtlAck ==
  /\ acks > 0 /\ link /\ ~Cancelled
  /\ acks' = acks - 1
  /\ ack
  /\ UNCHANGED <<ptyVars, moduleVars, chunk, closer, keepVars, link,
                 drops, out, ctl, leaked, bridgeVars>>

\* The first caller closes, any other returns at once.
close == closer' = IF closer = "no" THEN "publish" ELSE closer

\* One tick of the monitor.  checkTimeouts looks at the link first, so that a
\* link that is back clears the time of its loss before it is judged, then at
\* the time since the loss of the link, the last input and the last ping.
checkTimeouts ==
  /\ opener \in {"locked", "opened"} /\ ~Cancelled
  /\ \/ link /\ flushLocked(<<>>)
     \/ ~link /\ markDisconnected /\ UNCHANGED <<ring, gap, flowVars, out, ctl>>
  /\ UNCHANGED <<ptyVars, moduleVars, pump, chunk, link, drops, acks, leaked,
                 bridgeVars>>

monitor == checkTimeouts /\ closer' = closer

disconnected == checkTimeouts /\ marked' /\ marked /\ close

\* No input for idle_timeout_s.
idle == checkTimeouts /\ close

\* No ping within pingTimeout, or within firstPingGrace of the start.
server_gone == checkTimeouts /\ close

watchExit ==
  /\ opener \in {"locked", "opened"} /\ child = "exited" /\ closer = "no"
  /\ close
  /\ UNCHANGED <<ptyVars, moduleVars, pump, chunk, flowVars, keepVars,
                 wireVars, bridgeVars>>

\* The steps of close, which one goroutine takes in this order.
ClosePublish ==
  /\ closer = "publish" /\ closer' = "teardown"
  /\ ctl' = Onto(ctl, <<"closed">>)
  /\ UNCHANGED <<ptyVars, moduleVars, pump, chunk, flowVars, keepVars,
                 link, drops, out, acks, leaked, bridgeVars>>

release == paused' = FALSE /\ pump' = IF pump = "parked" THEN "gate" ELSE pump

\* unsubscribe, flow.release, the cancellation and the end of the terminal.
CloseTeardown ==
  /\ closer = "teardown" /\ closer' = "forget"
  /\ release
  /\ pty_Close
  /\ UNCHANGED <<moduleVars, chunk, unacked, keepVars, wireVars,
                 bridgeVars>>

\* The bug of a table that the session is put in after the lock is given up.
forgetEarly ==
  /\ closer = "forget"
  /\ closer' = "done" /\ table' = FALSE
  /\ UNCHANGED <<ptyVars, opener, others, stopping, pump, chunk, flowVars,
                 keepVars, wireVars, bridgeVars>>

\* forget waits for m.mu, which OpenSession may still hold.
forget ==
  /\ closer = "forget" /\ opener # "locked"
  /\ closer' = "done" /\ table' = FALSE
  /\ UNCHANGED <<ptyVars, opener, others, stopping, pump, chunk, flowVars,
                 keepVars, wireVars, bridgeVars>>

shutdown ==
  /\ ~stopping /\ opener # "locked"
  /\ stopping' = TRUE
  /\ IF table THEN close ELSE closer' = closer
  /\ UNCHANGED <<ptyVars, opener, table, others, pump, chunk, flowVars,
                 keepVars, wireVars, bridgeVars>>

-----------------------------------------------------------------------------
(* The link and the server's bridge.  The client buffers what it publishes *)
(* while the link is down; what was already on the wire is lost with it.   *)

LinkDown ==
  /\ link /\ drops < MaxDrops
  /\ link' = FALSE /\ drops' = drops + 1
  /\ \E i \in 0..Len(out), j \in 0..Len(ctl) :
       /\ out' = SubSeq(out, i + 1, Len(out))
       /\ ctl' = SubSeq(ctl, j + 1, Len(ctl))
       /\ leaked' = (leaked \/ i + j + acks > 0)
  /\ acks' = 0
  /\ UNCHANGED <<ptyVars, moduleVars, pump, chunk, closer, flowVars, keepVars,
                 bridgeVars>>

LinkUp ==
  /\ ~link /\ link' = TRUE
  /\ UNCHANGED <<drops, out, ctl, acks, leaked, ptyVars, moduleVars, pump,
                 chunk, closer, flowVars, keepVars, bridgeVars>>

\* The bridge acknowledges n frames; nobody hears it while the link is down.
bridge_ack(n) ==
  /\ acks' = IF link THEN acks + n ELSE acks
  /\ leaked' = (leaked \/ (~link /\ n > 0))

\* The request to open, and its answer, after which the bridge subscribes.
Ask ==
  /\ bridge = "none" /\ bridge' = "asking"
  /\ UNCHANGED <<agentVars, wireVars, queue, told, last>>

Subscribe ==
  /\ bridge = "asking" /\ link
  /\ \/ opener = "opened" /\ bridge' = "live"
     \/ opener = "refused" /\ bridge' = "done"
  /\ UNCHANGED <<agentVars, wireVars, queue, told, last>>

\* The bridge's subscriptions and its queue go with it.
Unsubscribe ==
  /\ bridge' = "done" /\ queue' = <<>> /\ told' = FALSE
  /\ out' = <<>> /\ ctl' = <<>>
  /\ UNCHANGED <<link, drops, acks, leaked, last>>

\* No answer in OPEN_TIMEOUT_S, or the server's process ends: nothing closes
\* the session on the device.
BridgeGone ==
  /\ bridge \in {"asking", "live", "leaving"}
  /\ Unsubscribe
  /\ UNCHANGED agentVars

\* What arrives while nobody subscribes is dropped by the message server.
Unheard ==
  /\ bridge = "asking" /\ link
  /\ \/ out # <<>> /\ out' = Tail(out) /\ ctl' = ctl
     \/ ctl # <<>> /\ ctl' = Tail(ctl) /\ out' = out
  /\ leaked' = TRUE
  /\ UNCHANGED <<agentVars, link, drops, acks, bridgeVars>>

\* The bug the comment in on_out warns of.
on_out_unacked ==
  /\ bridge \in {"live", "leaving"} /\ link /\ out # <<>>
  /\ out' = Tail(out)
  /\ IF Len(queue) < QueueMax
     THEN queue' = Append(queue, Head(out))
     ELSE queue' = Append(Tail(queue), Head(out))
  /\ bridge_ack(0)
  /\ UNCHANGED <<agentVars, link, drops, ctl, bridge, told, last>>

\* A frame arrives.  A full queue drops its oldest frame and acknowledges it.
on_out ==
  /\ bridge \in {"live", "leaving"} /\ link /\ out # <<>>
  /\ out' = Tail(out)
  /\ IF Len(queue) < QueueMax
     THEN queue' = Append(queue, Head(out)) /\ bridge_ack(0)
     ELSE queue' = Append(Tail(queue), Head(out)) /\ bridge_ack(1)
  /\ UNCHANGED <<agentVars, link, drops, ctl, bridge, told, last>>

\* A control event arrives.  A gap is shown as a line of its own, if there is
\* room for it.
on_ctl ==
  /\ bridge \in {"live", "leaving"} /\ link /\ ctl # <<>>
  /\ ctl' = Tail(ctl)
  /\ told' = (told \/ Head(ctl) = "closed")
  /\ queue' = IF Head(ctl) = "gap" /\ Len(queue) < QueueMax
              THEN Append(queue, Banner) ELSE queue
  /\ UNCHANGED <<agentVars, link, drops, out, acks, leaked, bridge,
                 last>>

\* pump_to_browser takes a frame, sends it, then acknowledges it.  The line for
\* a gap is acknowledged like the rest.
deliver ==
  /\ bridge = "live" /\ queue # <<>>
  /\ queue' = Tail(queue)
  /\ last' = IF Head(queue) = Banner THEN last ELSE Head(queue)
  /\ bridge_ack(1)
  /\ UNCHANGED <<agentVars, link, drops, out, ctl, bridge, told>>

\* The bridge ends when the browser leaves or the drained session is closed.
BridgeEnds ==
  /\ bridge = "live" /\ bridge' = "leaving"
  /\ UNCHANGED <<agentVars, wireVars, queue, told, last>>

Drained == told /\ queue = <<>>

BridgeDrained == Drained /\ BridgeEnds

\* shell.close, the request that ends the bridge.
CloseRequest ==
  /\ bridge = "leaving" /\ link /\ opener # "locked"
  /\ Unsubscribe
  /\ IF table THEN close ELSE closer' = closer
  /\ UNCHANGED <<ptyVars, moduleVars, pump, chunk, flowVars, keepVars>>

-----------------------------------------------------------------------------
(* The goroutines of the device and the callbacks of the bridge.           *)
Opening == OpenSession \/ OpenInsert \/ OpenRefused
Pumping == wait \/ waitCancelled \/ emit
Closing == ClosePublish \/ CloseTeardown \/ forget
Device ==
  \/ Opening \/ Pumping \/ pumpOutput \/ onCtlAck \/ monitor \/ disconnected \/ idle
  \/ server_gone \/ watchExit \/ Closing
Receiving == on_out \/ on_ctl
Server == Subscribe \/ Unheard \/ Receiving \/ deliver \/ BridgeDrained
Environment ==
  \/ Ask \/ ChildExits \/ shutdown \/ LinkDown \/ LinkUp
  \/ BridgeGone \/ BridgeEnds \/ CloseRequest

Next == Device \/ Server \/ Environment

Spec == Init /\ [][Next]_vars

\* Goroutines and callbacks run, and what is on a live link arrives.  Nobody
\* pings a session whose bridge is gone or whose link is down, so that limit
\* passes.
Fairness ==
  /\ WF_vars(Opening) /\ WF_vars(Pumping) /\ WF_vars(Closing)
  /\ WF_vars(onCtlAck) /\ WF_vars(monitor) /\ WF_vars(watchExit)
  /\ WF_vars(Subscribe) /\ WF_vars(on_out) /\ WF_vars(on_ctl)
  /\ WF_vars(deliver) /\ WF_vars(BridgeDrained)
  /\ WF_vars(bridge = "leaving" /\ (CloseRequest \/ BridgeGone))
  /\ WF_vars((bridge = "done" \/ ~link) /\ server_gone)

LiveSpec == Spec /\ Fairness

-----------------------------------------------------------------------------
\* The browser shows what the program wrote, in its order and never twice,
\* although the pump, the monitor's flush of the ring, the bridge's full queue
\* and the closing session all touch the stream.
Stream == INSTANCE OutputStream WITH
  made <- made, last <- last, watching <- bridge \in {"none", "asking", "live"}
ShowsInOrder == Stream!Spec

\* However the link comes and goes, the agent never has more than its window,
\* the ring of one outage and the frame the pump had in hand unacknowledged:
\* the flush of the ring does not wait for flow control, so this is not the
\* window alone.
WindowBound == ~Cancelled => unacked <= PauseAbove + RingMax + 1

\* A pump that flow control has paused goes on or its session ends, as long as
\* no frame and no acknowledgement was lost on the way: what the bridge drops
\* it acknowledges.
PausedResumes == paused ~> (~paused \/ closer # "no" \/ leaked)

Gone == ~master /\ child # "running" /\ ~table

\* Neither end is left with the other gone.  A session whose bridge ended, died
\* or never attached is torn down and leaves the table; a bridge whose session
\* is gone ends, unless the event that says so was lost or its link is down.
BothEnd ==
  /\ (bridge = "done") ~> [](closer = "done" \/ opener \in {"idle", "refused"})
  /\ [](closer = "done" => Gone)
  /\ (closer = "done") ~> (bridge = "done" \/ leaked \/ ~link)
=============================================================================
