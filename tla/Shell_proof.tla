---------------------------- MODULE Shell_proof ----------------------------
(***************************************************************************)
(* A shell session, for every window, ring and queue and for any number of *)
(* losses of the link: the bound on what it has unacknowledged, and that   *)
(* it implements the abstract stream, so that the browser shows what the   *)
(* program wrote, in its order and never twice.                            *)
(***************************************************************************)
EXTENDS Shell, TLAPS

-----------------------------------------------------------------------------
(* The window.                                                             *)

\* The frame the pump may still add although the window is full: it has passed
\* the gate.
InHand == IF pump \in {"read", "emit"} THEN 1 ELSE 0

WindowType ==
  /\ unacked \in Nat /\ paused \in BOOLEAN /\ made \in Nat /\ chunk \in Int
  /\ ring \in Seq(Int)
  /\ pump \in {"off", "gate", "parked", "read", "emit", "done"}
  /\ closer \in {"no", "publish", "teardown", "forget", "done"}

\* The pump passes the gate only with the window open, so that a full window
\* finds at most one ring and one frame still to come.
WindowInv ==
  /\ WindowType
  /\ Len(ring) <= RingMax
  /\ ~Cancelled => /\ paused \/ unacked <= PauseAbove
                   /\ unacked + Len(ring) + InHand <= PauseAbove + RingMax + 1

USE FlowAssumption DEF WindowInv, WindowType, InHand, Cancelled

\* The empty ring has no frame.
LEMMA EmptyFacts == <<>> \in Seq(Int) /\ Len(<<>>) = 0
  OBVIOUS

\* A session starts with nothing published and nothing kept (start).
LEMMA WindowInit == Init => WindowInv
<1> SUFFICES ASSUME Init PROVE WindowInv
  OBVIOUS
<1>1. /\ made = 0 /\ unacked = 0 /\ paused = FALSE /\ ring = <<>>
      /\ chunk = -1 /\ pump = "off" /\ closer = "no"
  BY DEF Init, Nothing
<1>2. paused \in BOOLEAN
  BY <1>1, Zenon
<1> QED
  BY <1>1, <1>2, EmptyFacts

\* A write into the ring never makes it longer than its limit, and drops the
\* oldest frame when it is full.
LEMMA RingWrite ==
  ASSUME WindowInv, ring_write(chunk)
  PROVE  /\ ring' \in Seq(Int)
         /\ Len(ring') <= RingMax /\ Len(ring') <= Len(ring) + 1
<1>1. CASE Len(ring) < RingMax
  BY <1>1 DEF ring_write
<1>2. CASE ~(Len(ring) < RingMax)
  <2>1. ring # <<>>
    BY <1>2
  <2>2. Tail(ring) \in Seq(Int) /\ Len(Tail(ring)) = Len(ring) - 1
    BY <2>1
  <2>3. ring' = Append(Tail(ring), chunk)
    BY <1>2 DEF ring_write
  <2> QED
    BY <2>2, <2>3
<1> QED
  BY <1>1, <1>2

\* Flushing moves the ring into the window, and the window knows it is full.
LEMMA Flush ==
  ASSUME WindowInv, NEW fs \in Seq(Int), flushLocked(fs)
  PROVE  /\ ring' = <<>>
         /\ unacked' = unacked + Len(ring) + Len(fs)
         /\ unacked' \in Nat /\ paused' \in BOOLEAN
         /\ paused' \/ unacked' <= PauseAbove
<1>1. ring \o fs \in Seq(Int) /\ Len(ring \o fs) = Len(ring) + Len(fs)
  OBVIOUS
<1>2. /\ ring' = <<>> /\ unacked' = unacked + Len(ring \o fs)
      /\ paused' = (paused \/ unacked + Len(ring \o fs) > PauseAbove)
  BY DEF flushLocked, ring_drain, publishFrames, sent
<1>3. unacked' \in Nat /\ unacked' = unacked + Len(ring) + Len(fs)
  BY <1>1, <1>2
<1>4. paused' = (paused \/ unacked' > PauseAbove) /\ paused' \in BOOLEAN
  BY <1>2, Zenon
<1>5. CASE unacked' > PauseAbove
  BY <1>2, <1>3, <1>4, <1>5
<1>6. CASE ~(unacked' > PauseAbove)
  BY <1>2, <1>3, <1>4, <1>6
<1> QED
  BY <1>5, <1>6

\* No step of the pump, the flush, the ring or an acknowledgement leaves the
\* window's invariant (emit, flushLocked, ring_write, ack).
LEMMA WindowStep == WindowInv /\ [Next]_vars => WindowInv'
<1> SUFFICES ASSUME WindowInv, [Next]_vars PROVE WindowInv'
  OBVIOUS
<1>1. CASE UNCHANGED vars
  BY <1>1 DEF vars, agentVars, flowVars, keepVars, ptyVars
<1>2. CASE Opening \/ watchExit \/ Closing \/ shutdown \/ CloseRequest
  <2>1. CASE OpenSession
    BY <2>1 DEF OpenSession, startPTY, flowVars, keepVars
  <2>2. CASE OpenInsert \/ OpenRefused
    BY <2>2 DEF OpenInsert, OpenRefused, closeAndReap, pty_Close, flowVars,
         keepVars, ptyVars
  <2>3. CASE watchExit \/ shutdown \/ CloseRequest
    BY <2>3 DEF watchExit, shutdown, CloseRequest, close, flowVars, keepVars,
         ptyVars
  <2>4. CASE ClosePublish \/ forget
    BY <2>4 DEF ClosePublish, forget, flowVars, keepVars, ptyVars
  <2>5. CASE CloseTeardown
    <3>1. /\ closer' = "forget" /\ paused' = FALSE /\ pump' \in {pump, "gate"}
          /\ UNCHANGED <<made, chunk, unacked, ring>>
      BY <2>5 DEF CloseTeardown, release, pty_Close, keepVars
    <3> QED
      BY <3>1
  <2> QED
    BY <1>2, <2>1, <2>2, <2>3, <2>4, <2>5 DEF Opening, Closing
<1>3. CASE wait \/ waitCancelled \/ pumpOutput
  BY <1>3 DEF wait, waitCancelled, pumpOutput, flowVars, keepVars, ptyVars
<1>4. CASE emit
  <2>1. CASE ~link
    <3>1. ring_write(chunk) /\ UNCHANGED <<unacked, paused, closer, made>>
      BY <1>4, <2>1 DEF emit, flowVars, ptyVars
    <3>2. pump = "emit" /\ pump' = "gate" /\ chunk' = Nothing
      BY <1>4 DEF emit
    <3> QED
      BY <3>1, <3>2, RingWrite DEF Nothing
  <2>2. CASE link
    <3>1. flushLocked(<<chunk>>) /\ UNCHANGED <<closer, made>>
      BY <1>4, <2>2 DEF emit, ptyVars
    <3>2. pump = "emit" /\ pump' = "gate" /\ chunk' = Nothing
      BY <1>4 DEF emit
    <3>3. <<chunk>> \in Seq(Int) /\ Len(<<chunk>>) = 1
      OBVIOUS
    <3>4. /\ ring' = <<>> /\ unacked' = unacked + Len(ring) + 1
          /\ unacked' \in Nat /\ paused' \in BOOLEAN
          /\ paused' \/ unacked' <= PauseAbove
      BY <3>1, <3>3, Flush
    <3> QED
      BY <3>1, <3>2, <3>4, EmptyFacts DEF Nothing
  <2> QED
    BY <2>1, <2>2
<1>5. CASE monitor \/ disconnected \/ idle \/ server_gone
  <2>1. checkTimeouts /\ (closer' = closer \/ close)
    BY <1>5 DEF monitor, disconnected, idle, server_gone
  <2>2. /\ ~Cancelled /\ UNCHANGED <<pump, chunk, made>>
        /\ closer' \in {"no", "publish", "teardown"}
    BY <2>1 DEF checkTimeouts, close, ptyVars
  <2>3. CASE link
    <3>1. flushLocked(<<>>) /\ <<>> \in Seq(Int) /\ Len(<<>>) = 0
      BY <2>1, <2>3, EmptyFacts DEF checkTimeouts
    <3>2. /\ ring' = <<>> /\ unacked' = unacked + Len(ring) + Len(<<>>)
          /\ unacked' \in Nat /\ paused' \in BOOLEAN
          /\ paused' \/ unacked' <= PauseAbove
      BY <3>1, Flush, Zenon
    <3> QED
      BY <2>2, <3>1, <3>2
  <2>4. CASE ~link
    BY <2>1, <2>2, <2>4 DEF checkTimeouts, flowVars
  <2> QED
    BY <2>3, <2>4
<1>6. CASE onCtlAck
  <2> DEFINE left == IF unacked > 0 THEN unacked - 1 ELSE 0
             resume == paused /\ left <= ResumeBelow
  <2>1. /\ unacked' = left /\ paused' = (paused /\ ~resume)
        /\ pump' = IF resume /\ pump = "parked" THEN "read" ELSE pump
        /\ UNCHANGED <<made, chunk, ring, closer>>
    BY <1>6 DEF onCtlAck, ack, ptyVars, keepVars
  <2>2. left \in Nat /\ left <= unacked
    OBVIOUS
  <2>3. paused' \in BOOLEAN
    BY <2>1, Zenon
  <2>4. CASE resume
    <3>1. unacked' <= PauseAbove /\ pump' \in {pump, "read"}
      BY <2>1, <2>2, <2>4
    <3> HIDE DEF left, resume
    <3> QED
      BY <2>1, <2>2, <2>3, <3>1
  <2>5. CASE ~resume
    <3>1. paused' = paused /\ pump' = pump
      BY <2>1, <2>5, Zenon
    <3> HIDE DEF left, resume
    <3> QED
      BY <2>1, <2>2, <2>3, <3>1
  <2> QED
    BY <2>4, <2>5
<1>7. CASE Server
  BY <1>7 DEF Server, Subscribe, Unheard, Receiving, on_out, on_ctl, deliver,
       BridgeDrained, BridgeEnds, agentVars, flowVars, keepVars, ptyVars
<1>8. CASE Ask \/ ChildExits \/ LinkDown \/ LinkUp \/ BridgeGone \/ BridgeEnds
  BY <1>8 DEF Ask, ChildExits, LinkDown, LinkUp, BridgeGone, BridgeEnds,
       agentVars, flowVars, keepVars, ptyVars
<1> QED
  BY <1>1, <1>2, <1>3, <1>4, <1>5, <1>6, <1>7, <1>8
  DEF Next, Device, Server, Environment, Pumping

\* No number of outages lets a session have more than its window, one ring and
\* one frame unacknowledged (flow.go and ring.go with pumpOutput and monitor).
THEOREM WindowBounded == Spec => []WindowBound
<1>1. WindowInv => WindowBound
  BY DEF WindowBound
<1> QED
  BY <1>1, WindowInit, WindowStep, PTL DEF Spec

-----------------------------------------------------------------------------
(* The frames on their way: those in the bridge's queue q before those on  *)
(* the wire o before those in the ring r, all of them after the frame l    *)
(* that was shown last and none after m, the latest one that left the      *)
(* pump.  The lines for gaps (0) stand anywhere in the queue.              *)

Queued(q, l, m) ==
  /\ q \in Seq(Nat)
  /\ \A i \in 1..Len(q) : q[i] = 0 \/ (l < q[i] /\ q[i] <= m)
  /\ \A i, j \in 1..Len(q) : i < j => q[j] = 0 \/ q[i] < q[j]
Rising(s, l, m) ==
  /\ s \in Seq(Nat)
  /\ \A i \in 1..Len(s) : l < s[i] /\ s[i] <= m
  /\ \A i, j \in 1..Len(s) : i < j => s[i] < s[j]
Below(s, t) == \A i \in 1..Len(s), j \in 1..Len(t) : s[i] < t[j]

Feed(q, o, r, l, m) ==
  /\ l \in Nat /\ m \in Nat /\ l <= m
  /\ Queued(q, l, m) /\ Rising(o, l, m) /\ Rising(r, l, m)
  /\ Below(q, o) /\ Below(q, r) /\ Below(o, r)

\* t is what is left of s when frames at its ends are dropped.
Part(t, s) ==
  /\ t \in Seq(Nat)
  /\ \E n \in Nat : \A i \in 1..Len(t) : i + n \in 1..Len(s) /\ t[i] = s[i + n]

\* The parts the model takes: nothing, everything, all but the first, and what the
\* loss of the link leaves.
LEMMA Parts ==
  ASSUME NEW s \in Seq(Nat)
  PROVE  /\ Part(<<>>, s) /\ Part(s, s)
         /\ s # <<>> => Part(Tail(s), s)
         /\ \A n \in 0..Len(s) : Part(SubSeq(s, n + 1, Len(s)), s)
<1>1. Part(<<>>, s)
  BY DEF Part
<1>2. Part(s, s)
  <2>1. \A i \in 1..Len(s) : i + 0 \in 1..Len(s) /\ s[i] = s[i + 0]
    OBVIOUS
  <2> QED
    BY <2>1 DEF Part
<1>3. ASSUME s # <<>> PROVE Part(Tail(s), s)
  <2>1. Tail(s) \in Seq(Nat) /\ Len(Tail(s)) = Len(s) - 1
    BY <1>3
  <2>2. \A i \in 1..Len(Tail(s)) : i + 1 \in 1..Len(s) /\ Tail(s)[i] = s[i + 1]
    BY <1>3, <2>1
  <2> QED
    BY <2>1, <2>2 DEF Part
<1>4. ASSUME NEW n \in 0..Len(s) PROVE Part(SubSeq(s, n + 1, Len(s)), s)
  <2> DEFINE t == SubSeq(s, n + 1, Len(s))
  <2>1. t \in Seq(Nat) /\ Len(t) = Len(s) - n
    OBVIOUS
  <2>2. ASSUME NEW i \in 1..Len(t) PROVE i + n \in 1..Len(s) /\ t[i] = s[i + n]
    <3>1. i \in 1..(Len(s) - n)
      BY <2>1
    <3>2. t[i] = s[(n + 1) + i - 1]
      BY <3>1
    <3> QED
      BY <3>1, <3>2
  <2>3. n \in Nat
    OBVIOUS
  <2> HIDE DEF t
  <2>4. Part(t, s)
    BY <2>1, <2>2, <2>3 DEF Part
  <2> QED
    BY <2>4 DEF t
<1> QED
  BY <1>1, <1>2, <1>3, <1>4

\* A part of a rising sequence rises.
LEMMA RisingPart ==
  ASSUME NEW s, NEW t, NEW l, NEW m, l \in Nat, m \in Nat, Rising(s, l, m), Part(t, s)
  PROVE  Rising(t, l, m)
<1>0. s \in Seq(Nat) /\ t \in Seq(Nat)
  BY DEF Rising, Part
<1>1. PICK n \in Nat : \A i \in 1..Len(t) : i + n \in 1..Len(s) /\ t[i] = s[i + n]
  BY DEF Part
<1>2. ASSUME NEW i \in 1..Len(t), NEW j \in 1..Len(t), i < j
      PROVE  t[i] < t[j]
  <2>1. i + n \in 1..Len(s) /\ j + n \in 1..Len(s) /\ i + n < j + n
    BY <1>0, <1>1, <1>2
  <2>2. s[i + n] < s[j + n]
    BY <2>1 DEF Rising
  <2> QED
    BY <1>1, <2>2
<1>3. \A i \in 1..Len(t) : l < t[i] /\ t[i] <= m
  BY <1>0, <1>1 DEF Rising
<1> QED
  BY <1>0, <1>2, <1>3 DEF Rising

\* Dropping frames keeps the order.
LEMMA Drops ==
  ASSUME NEW q, NEW o, NEW r, NEW l, NEW m, Feed(q, o, r, l, m),
         NEW q2, NEW o2, NEW r2, Part(q2, q), Part(o2, o), Part(r2, r)
  PROVE  Feed(q2, o2, r2, l, m)
<1>0. /\ q \in Seq(Nat) /\ o \in Seq(Nat) /\ r \in Seq(Nat)
      /\ q2 \in Seq(Nat) /\ o2 \in Seq(Nat) /\ r2 \in Seq(Nat)
  BY DEF Feed, Queued, Rising, Part
<1>1. PICK a \in Nat : \A i \in 1..Len(q2) : i + a \in 1..Len(q) /\ q2[i] = q[i + a]
  BY DEF Part
<1>2. PICK b \in Nat : \A i \in 1..Len(o2) : i + b \in 1..Len(o) /\ o2[i] = o[i + b]
  BY DEF Part
<1>3. PICK c \in Nat : \A i \in 1..Len(r2) : i + c \in 1..Len(r) /\ r2[i] = r[i + c]
  BY DEF Part
<1>4. Queued(q2, l, m)
  <2>1. ASSUME NEW i \in 1..Len(q2), NEW j \in 1..Len(q2), i < j
        PROVE  q2[j] = 0 \/ q2[i] < q2[j]
    <3>1. i + a \in 1..Len(q) /\ j + a \in 1..Len(q) /\ i + a < j + a
      BY <1>0, <1>1, <2>1
    <3>2. q[j + a] = 0 \/ q[i + a] < q[j + a]
      BY <3>1 DEF Feed, Queued
    <3> QED
      BY <1>1, <3>2
  <2>2. \A i \in 1..Len(q2) : q2[i] = 0 \/ (l < q2[i] /\ q2[i] <= m)
    BY <1>0, <1>1 DEF Feed, Queued
  <2> QED
    BY <1>0, <2>1, <2>2 DEF Queued
<1>5. Rising(o2, l, m) /\ Rising(r2, l, m)
  BY RisingPart DEF Feed
<1>6. Below(q2, o2) /\ Below(q2, r2) /\ Below(o2, r2)
  BY <1>1, <1>2, <1>3 DEF Feed, Below
<1> QED
  BY <1>4, <1>5, <1>6 DEF Feed

\* A frame behind all the others keeps a sequence rising.
LEMMA RisingAppend ==
  ASSUME NEW s, NEW l \in Nat, NEW m \in Nat, l <= m, Rising(s, l, m)
  PROVE  Rising(Append(s, m + 1), l, m + 1)
<1> DEFINE t == Append(s, m + 1)
<1>0. s \in Seq(Nat) /\ Len(s) \in Nat
  BY DEF Rising
<1>1. /\ t \in Seq(Nat) /\ Len(t) = Len(s) + 1
      /\ \A i \in 1..Len(s) : t[i] = s[i]
      /\ t[Len(s) + 1] = m + 1
  BY <1>0
<1> HIDE DEF t
<1>2. ASSUME NEW i \in 1..Len(t) PROVE i \in 1..Len(s) \/ i = Len(s) + 1
  BY <1>0, <1>1
<1>3. ASSUME NEW i \in 1..Len(t) PROVE l < t[i] /\ t[i] <= m + 1
  <2>1. CASE i \in 1..Len(s)
    <3>1. s[i] \in Nat /\ l < s[i] /\ s[i] <= m
      BY <1>0, <2>1 DEF Rising
    <3> QED
      BY <1>1, <2>1, <3>1
  <2>2. CASE i = Len(s) + 1
    BY <1>1, <2>2
  <2> QED
    BY <1>2, <2>1, <2>2
<1>4. ASSUME NEW i \in 1..Len(t), NEW j \in 1..Len(t), i < j PROVE t[i] < t[j]
  <2>1. i \in 1..Len(s)
    BY <1>0, <1>1, <1>4
  <2>2. s[i] \in Nat /\ s[i] <= m /\ t[i] = s[i]
    <3>1. s[i] \in Nat
      BY ONLY <1>0, <2>1
    <3>2. s[i] <= m
      BY ONLY Rising(s, l, m), <2>1 DEF Rising
    <3>3. t[i] = s[i]
      BY ONLY <1>1, <2>1
    <3> QED
      BY <3>1, <3>2, <3>3
  <2>3. CASE j \in 1..Len(s)
    <3>1. s[i] < s[j]
      BY <1>4, <2>1, <2>3 DEF Rising
    <3> QED
      BY <1>1, <2>2, <2>3, <3>1
  <2>4. CASE j = Len(s) + 1
    BY <1>1, <2>2, <2>4
  <2> QED
    BY <1>2, <2>3, <2>4
<1>5. Rising(t, l, m + 1)
  BY <1>1, <1>3, <1>4 DEF Rising
<1> QED
  BY <1>5 DEF t

\* A new frame goes behind everything in the ring (ring_write).
LEMMA RingAdds ==
  ASSUME NEW q, NEW o, NEW r, NEW l, NEW m, Feed(q, o, r, l, m)
  PROVE  Feed(q, o, Append(r, m + 1), l, m + 1)
<1> DEFINE t == Append(r, m + 1)
<1>0. /\ q \in Seq(Nat) /\ o \in Seq(Nat) /\ r \in Seq(Nat)
      /\ l \in Nat /\ m \in Nat /\ l <= m
  BY DEF Feed, Queued, Rising
<1>1. /\ Len(t) = Len(r) + 1 /\ t[Len(r) + 1] = m + 1
      /\ \A i \in 1..Len(r) : t[i] = r[i]
  BY <1>0
<1>2. Rising(t, l, m + 1)
  BY <1>0, RisingAppend DEF Feed
<1> HIDE DEF t
<1>3. Rising(o, l, m + 1)
  BY <1>0 DEF Feed, Rising
<1>4. Queued(q, l, m + 1)
  <2>1. ASSUME NEW i \in 1..Len(q) PROVE q[i] = 0 \/ (l < q[i] /\ q[i] <= m + 1)
    <3>1. q[i] \in Nat /\ (q[i] = 0 \/ (l < q[i] /\ q[i] <= m))
      BY <1>0 DEF Feed, Queued
    <3> QED
      BY <1>0, <3>1
  <2> QED
    BY <2>1 DEF Feed, Queued
<1>5. ASSUME NEW j \in 1..Len(t) PROVE j \in 1..Len(r) \/ (j = Len(r) + 1 /\ t[j] = m + 1)
  BY <1>0, <1>1
<1>6. Below(q, t)
  <2>1. ASSUME NEW i \in 1..Len(q), NEW j \in 1..Len(t) PROVE q[i] < t[j]
    <3>1. q[i] \in Nat /\ (q[i] = 0 \/ q[i] <= m)
      BY <1>0 DEF Feed, Queued
    <3>2. CASE j \in 1..Len(r)
      BY <1>1, <3>2 DEF Feed, Below
    <3>3. CASE t[j] = m + 1
      BY <1>0, <3>1, <3>3
    <3> QED
      BY <1>5, <3>2, <3>3
  <2> QED
    BY <2>1 DEF Below
<1>7. Below(o, t)
  <2>1. ASSUME NEW i \in 1..Len(o), NEW j \in 1..Len(t) PROVE o[i] < t[j]
    <3>1. o[i] \in Nat /\ o[i] <= m
      BY <1>0 DEF Feed, Rising
    <3>2. CASE j \in 1..Len(r)
      BY <1>1, <3>2 DEF Feed, Below
    <3>3. CASE t[j] = m + 1
      BY <1>0, <3>1, <3>3
    <3> QED
      BY <1>5, <3>2, <3>3
  <2> QED
    BY <2>1 DEF Below
<1>8. Feed(q, o, t, l, m + 1)
  BY <1>0, <1>2, <1>3, <1>4, <1>6, <1>7 DEF Feed
<1> QED
  BY <1>8 DEF t

\* The ring goes behind what is on the wire (flushLocked).
LEMMA Joins ==
  ASSUME NEW q, NEW o, NEW r, NEW l, NEW m, Feed(q, o, r, l, m)
  PROVE  Feed(q, o \o r, <<>>, l, m)
<1> DEFINE t == o \o r
<1>0. /\ q \in Seq(Nat) /\ o \in Seq(Nat) /\ r \in Seq(Nat)
      /\ Len(o) \in Nat /\ Len(r) \in Nat /\ l \in Nat /\ m \in Nat /\ l <= m
  BY DEF Feed, Queued, Rising
<1>1. /\ t \in Seq(Nat) /\ Len(t) = Len(o) + Len(r)
      /\ \A i \in 1..Len(t) : t[i] = IF i <= Len(o) THEN o[i] ELSE r[i - Len(o)]
  BY <1>0
<1> HIDE DEF t
<1>2. ASSUME NEW i \in 1..Len(t)
      PROVE  \/ i \in 1..Len(o) /\ t[i] = o[i]
             \/ i - Len(o) \in 1..Len(r) /\ t[i] = r[i - Len(o)] /\ i > Len(o)
  <2>1. i \in 1..(Len(o) + Len(r))
    BY <1>1
  <2>2. t[i] = IF i <= Len(o) THEN o[i] ELSE r[i - Len(o)]
    BY <1>1
  <2>3. CASE i <= Len(o)
    <3>1. i \in 1..Len(o)
      BY <1>0, <2>1, <2>3
    <3> QED
      BY <2>2, <2>3, <3>1
  <2>4. CASE ~(i <= Len(o))
    <3>1. i - Len(o) \in 1..Len(r) /\ i > Len(o)
      BY <1>0, <2>1, <2>4
    <3> QED
      BY <2>2, <2>4, <3>1
  <2> QED
    BY <2>3, <2>4
<1>3. ASSUME NEW i \in 1..Len(t) PROVE l < t[i] /\ t[i] <= m
  BY <1>2 DEF Feed, Rising
<1>4. ASSUME NEW i \in 1..Len(t), NEW j \in 1..Len(t), i < j PROVE t[i] < t[j]
  <2>1. CASE j \in 1..Len(o) /\ t[j] = o[j]
    <3>1. i \in 1..Len(o) /\ t[i] = o[i]
      BY <1>0, <1>1, <1>4, <2>1
    <3> QED
      BY <1>4, <2>1, <3>1 DEF Feed, Rising
  <2>2. CASE j - Len(o) \in 1..Len(r) /\ t[j] = r[j - Len(o)]
    <3>1. CASE i \in 1..Len(o) /\ t[i] = o[i]
      BY <2>2, <3>1 DEF Feed, Below
    <3>2. CASE i - Len(o) \in 1..Len(r) /\ t[i] = r[i - Len(o)]
      <4>1. i - Len(o) < j - Len(o)
        BY <1>0, <1>1, <1>4
      <4>2. r[i - Len(o)] < r[j - Len(o)]
        BY <2>2, <3>2, <4>1 DEF Feed, Rising
      <4> QED
        BY <2>2, <3>2, <4>2
    <3> QED
      BY <1>2, <3>1, <3>2
  <2> QED
    BY <1>2, <2>1, <2>2
<1>5. Rising(t, l, m)
  BY <1>1, <1>3, <1>4 DEF Rising
<1>6. Below(q, t)
  <2>1. ASSUME NEW i \in 1..Len(q), NEW j \in 1..Len(t) PROVE q[i] < t[j]
    BY <1>2 DEF Feed, Below
  <2> QED
    BY <2>1 DEF Below
<1>7. Rising(<<>>, l, m) /\ Below(q, <<>>) /\ Below(t, <<>>)
  BY DEF Rising, Below
<1>8. Feed(q, t, <<>>, l, m)
  BY <1>0, <1>5, <1>6, <1>7 DEF Feed
<1> QED
  BY <1>8 DEF t

\* A frame, or the line for a gap, goes to the end of the queue (on_out, on_ctl).
LEMMA QueueAppend ==
  ASSUME NEW q, NEW l \in Nat, NEW m \in Nat, l <= m, Queued(q, l, m), NEW x \in Nat,
         x = 0 \/ (l < x /\ x <= m /\ \A i \in 1..Len(q) : q[i] < x)
  PROVE  Queued(Append(q, x), l, m)
<1> DEFINE t == Append(q, x)
<1>0. q \in Seq(Nat) /\ Len(q) \in Nat
  BY DEF Queued
<1>1. /\ t \in Seq(Nat) /\ Len(t) = Len(q) + 1
      /\ \A i \in 1..Len(q) : t[i] = q[i]
      /\ t[Len(q) + 1] = x
  BY <1>0
<1> HIDE DEF t
<1>2. ASSUME NEW i \in 1..Len(t) PROVE i \in 1..Len(q) \/ i = Len(q) + 1
  BY <1>0, <1>1
<1>3. ASSUME NEW i \in 1..Len(t) PROVE t[i] = 0 \/ (l < t[i] /\ t[i] <= m)
  <2>1. CASE i \in 1..Len(q)
    BY <1>1, <2>1 DEF Queued
  <2>2. CASE i = Len(q) + 1
    BY <1>1, <2>2
  <2> QED
    BY <1>2, <2>1, <2>2
<1>4. ASSUME NEW i \in 1..Len(t), NEW j \in 1..Len(t), i < j
      PROVE  t[j] = 0 \/ t[i] < t[j]
  <2>1. i \in 1..Len(q)
    BY <1>0, <1>1, <1>4
  <2>2. CASE j \in 1..Len(q)
    <3>1. q[j] = 0 \/ q[i] < q[j]
      BY <1>4, <2>1, <2>2 DEF Queued
    <3> QED
      BY <1>1, <2>1, <2>2, <3>1
  <2>3. CASE j = Len(q) + 1
    BY <1>1, <2>1, <2>3
  <2> QED
    BY <1>2, <2>2, <2>3
<1>5. Queued(t, l, m)
  BY <1>1, <1>3, <1>4 DEF Queued
<1> QED
  BY <1>5 DEF t

\* What is below a frame and in the queue before it stays below what follows.
LEMMA BelowAppend ==
  ASSUME NEW q \in Seq(Nat), NEW s \in Seq(Nat), NEW x \in Nat, Below(q, s),
         \A j \in 1..Len(s) : x < s[j]
  PROVE  Below(Append(q, x), s)
<1> DEFINE t == Append(q, x)
<1>1. /\ Len(t) = Len(q) + 1 /\ Len(q) \in Nat
      /\ \A i \in 1..Len(q) : t[i] = q[i]
      /\ t[Len(q) + 1] = x
  OBVIOUS
<1> HIDE DEF t
<1>2. ASSUME NEW i \in 1..Len(t), NEW j \in 1..Len(s) PROVE t[i] < s[j]
  <2>1. CASE i \in 1..Len(q)
    BY <1>1, <2>1 DEF Below
  <2>2. CASE i = Len(q) + 1
    BY <1>1, <2>2
  <2>3. i \in 1..Len(q) \/ i = Len(q) + 1
    BY <1>1
  <2> QED
    BY <2>1, <2>2, <2>3
<1>3. Below(t, s)
  BY <1>2 DEF Below
<1> QED
  BY <1>3 DEF t

\* A frame that arrives moves from the wire into the queue (on_out).
LEMMA Arrives ==
  ASSUME NEW q, NEW o, NEW r, NEW l, NEW m, Feed(q, o, r, l, m), o # <<>>
  PROVE  Feed(Append(q, Head(o)), Tail(o), r, l, m)
<1> DEFINE x == Head(o)
           t == Tail(o)
<1>0. /\ q \in Seq(Nat) /\ o \in Seq(Nat) /\ r \in Seq(Nat)
      /\ l \in Nat /\ m \in Nat /\ l <= m
  BY DEF Feed, Queued, Rising
<1>1. Part(t, o) /\ Part(q, q) /\ Part(r, r)
  BY <1>0, Parts
<1>2. Feed(q, t, r, l, m)
  BY <1>1, Drops
<1>3. /\ Len(o) \in Nat /\ 1 \in 1..Len(o) /\ x = o[1] /\ x \in Nat
      /\ Len(t) = Len(o) - 1 /\ \A j \in 1..Len(t) : t[j] = o[j + 1]
  BY <1>0
<1> HIDE DEF x, t
<1>4. l < x /\ x <= m /\ (\A i \in 1..Len(q) : q[i] < x) /\ (\A j \in 1..Len(r) : x < r[j])
  BY <1>3 DEF Feed, Rising, Below
<1>5. ASSUME NEW j \in 1..Len(t) PROVE x < t[j]
  <2>1. j + 1 \in 1..Len(o) /\ 1 < j + 1
    BY <1>3
  <2>2. o[1] < o[j + 1]
    BY <1>3, <2>1 DEF Feed, Rising
  <2> QED
    BY <1>3, <2>2
<1>6. Queued(Append(q, x), l, m)
  BY <1>0, <1>3, <1>4, QueueAppend DEF Feed
<1>7. t \in Seq(Nat) /\ Below(q, t) /\ Below(q, r)
  BY <1>2 DEF Feed, Rising
<1>8. Below(Append(q, x), t) /\ Below(Append(q, x), r)
  BY <1>0, <1>3, <1>4, <1>5, <1>7, BelowAppend
<1>9. Feed(Append(q, x), t, r, l, m)
  BY <1>2, <1>6, <1>8 DEF Feed
<1> QED
  BY <1>9 DEF x, t

\* The line for a gap goes into the queue (on_ctl).
LEMMA GapLine ==
  ASSUME NEW q, NEW o, NEW r, NEW l, NEW m, Feed(q, o, r, l, m)
  PROVE  Feed(Append(q, Banner), o, r, l, m)
<1>0. /\ q \in Seq(Nat) /\ o \in Seq(Nat) /\ r \in Seq(Nat)
      /\ l \in Nat /\ m \in Nat /\ l <= m /\ Banner = 0 /\ Banner \in Nat
  BY DEF Feed, Queued, Rising, Banner
<1>1. Queued(Append(q, Banner), l, m)
  BY <1>0, QueueAppend DEF Feed
<1>2. (\A j \in 1..Len(o) : Banner < o[j]) /\ (\A j \in 1..Len(r) : Banner < r[j])
  <2>1. \A j \in 1..Len(o) : o[j] \in Nat /\ l < o[j]
    BY <1>0 DEF Feed, Rising
  <2>2. \A j \in 1..Len(r) : r[j] \in Nat /\ l < r[j]
    BY <1>0 DEF Feed, Rising
  <2> QED
    BY <1>0, <2>1, <2>2
<1>3. Below(Append(q, Banner), o) /\ Below(Append(q, Banner), r)
  BY <1>0, <1>2, BelowAppend DEF Feed
<1> QED
  BY <1>1, <1>3 DEF Feed

\* The first of the queue is shown (deliver).
LEMMA Shows ==
  ASSUME NEW q, NEW o, NEW r, NEW l, NEW m, Feed(q, o, r, l, m), q # <<>>, Head(q) # 0
  PROVE  /\ Feed(Tail(q), o, r, Head(q), m)
         /\ Head(q) \in (l + 1)..m
<1> DEFINE x == Head(q)
           t == Tail(q)
<1>0. /\ q \in Seq(Nat) /\ o \in Seq(Nat) /\ r \in Seq(Nat)
      /\ l \in Nat /\ m \in Nat /\ l <= m
  BY DEF Feed, Queued, Rising
<1>1. Part(t, q) /\ Part(o, o) /\ Part(r, r)
  BY <1>0, Parts
<1>2. Feed(t, o, r, l, m)
  BY <1>1, Drops
<1>3. /\ Len(q) \in Nat /\ 1 \in 1..Len(q) /\ x = q[1] /\ x \in Nat /\ x # 0
      /\ Len(t) = Len(q) - 1 /\ \A j \in 1..Len(t) : t[j] = q[j + 1]
  BY <1>0
<1> HIDE DEF x, t
<1>4. /\ l < x /\ x <= m
      /\ \A j \in 1..Len(o) : x < o[j]
      /\ \A j \in 1..Len(r) : x < r[j]
  BY <1>3 DEF Feed, Queued, Below
<1>5. ASSUME NEW j \in 1..Len(t) PROVE t[j] = 0 \/ x < t[j]
  <2>1. j + 1 \in 1..Len(q) /\ 1 < j + 1
    BY <1>3
  <2>2. q[j + 1] = 0 \/ q[1] < q[j + 1]
    BY <1>3, <2>1 DEF Feed, Queued
  <2> QED
    BY <1>3, <2>2
<1>6. Queued(t, x, m)
  BY <1>2, <1>5 DEF Feed, Queued
<1>7. Rising(o, x, m) /\ Rising(r, x, m)
  BY <1>4 DEF Feed, Rising
<1>8. Feed(t, o, r, x, m) /\ x \in (l + 1)..m
  BY <1>0, <1>2, <1>3, <1>4, <1>6, <1>7 DEF Feed
<1> QED
  BY <1>8 DEF x, t

-----------------------------------------------------------------------------
(* The session.                                                            *)

\* The latest frame that has left the pump.
Sofar == IF pump = "emit" THEN made - 1 ELSE made

OrderInv ==
  /\ made \in Nat
  /\ pump = "emit" => chunk = made /\ made # 0
  /\ Feed(queue, out, ring, last, Sofar)

\* The pump starts with the session.
IdleInv == opener = "idle" => pump = "off"

\* No action moves a pump that has not been started (OpenSession).
LEMMA IdleInvariant == Spec => []IdleInv
<1>1. Init => IdleInv
  BY DEF Init, IdleInv
<1>2. IdleInv /\ [Next]_vars => IdleInv'
  BY DEF IdleInv, vars, agentVars, moduleVars, Next, Device, Server, Environment, Opening,
     OpenSession, OpenInsert, OpenRefused, Pumping, wait, waitCancelled, emit, pumpOutput,
     onCtlAck, ack, monitor, disconnected, idle, server_gone, checkTimeouts, watchExit,
     Closing, ClosePublish, CloseTeardown, release, forget, Receiving, on_out, on_ctl, Subscribe,
     Unheard, deliver, BridgeDrained, BridgeEnds, Ask, ChildExits, shutdown, LinkDown,
     LinkUp, BridgeGone, CloseRequest
<1> QED
  BY <1>1, <1>2, PTL DEF Spec

\* The sequences and numbers of a feed have their types.
LEMMA FeedTypes ==
  OrderInv => /\ queue \in Seq(Nat) /\ out \in Seq(Nat) /\ ring \in Seq(Nat)
              /\ last \in Nat /\ Sofar \in Nat /\ last <= Sofar /\ Sofar <= made
  BY DEF OrderInv, Feed, Queued, Rising, Sofar

\* A flush puts the ring and new output on the wire, or drops them with the
\* bridge gone (flushLocked, Onto).
LEMMA Flushes ==
  ASSUME NEW m, NEW t, Feed(queue, out, t, last, m), NEW fs,
         t = ring \o fs, flushLocked(fs)
  PROVE  Feed(queue, out', ring', last, m)
<1>1. ring' = <<>> /\ out' = IF bridge = "done" THEN <<>> ELSE out \o t
  BY DEF flushLocked, ring_drain, publishFrames, Onto
<1>2. Feed(queue, out \o t, <<>>, last, m)
  BY Joins
<1>3. queue \in Seq(Nat) /\ out \in Seq(Nat) /\ t \in Seq(Nat)
  BY DEF Feed, Queued, Rising
<1>4. Part(queue, queue) /\ Part(<<>>, out) /\ Part(<<>>, t)
  BY <1>3, Parts
<1>5. Feed(queue, <<>>, <<>>, last, m)
  BY <1>4, Drops
<1> QED
  BY <1>1, <1>2, <1>5

\* No step of the pump, the flush, the bridge or the link breaks the order.
LEMMA OrderStep == IdleInv /\ OrderInv /\ [Next]_vars => OrderInv'
<1> SUFFICES ASSUME IdleInv, OrderInv, [Next]_vars PROVE OrderInv'
  OBVIOUS
<1>0. /\ queue \in Seq(Nat) /\ out \in Seq(Nat) /\ ring \in Seq(Nat)
      /\ last \in Nat /\ Sofar \in Nat
  BY FeedTypes
<1>1. ASSUME UNCHANGED <<made, chunk, queue, out, ring, last>>,
             pump' = pump \/ (pump # "emit" /\ pump' # "emit")
      PROVE  OrderInv'
  BY <1>1 DEF OrderInv, Sofar
<1>2. CASE UNCHANGED vars
  BY <1>1, <1>2 DEF vars, agentVars, ptyVars, keepVars, wireVars, bridgeVars
<1>3. CASE Opening \/ Closing \/ watchExit \/ shutdown \/ wait \/ waitCancelled
  <2>1. CASE OpenInsert \/ OpenRefused \/ ClosePublish \/ forget \/ watchExit \/ shutdown
    BY <1>1, <2>1 DEF OpenInsert, OpenRefused, closeAndReap, pty_Close, ClosePublish, forget,
         watchExit, shutdown, ptyVars, keepVars, wireVars, bridgeVars
  <2>2. CASE wait \/ waitCancelled \/ CloseTeardown
    <3>1. pump' = pump \/ (pump # "emit" /\ pump' # "emit")
      BY <2>2 DEF wait, waitCancelled, CloseTeardown, release
    <3> QED
      BY <1>1, <2>2, <3>1 DEF wait, waitCancelled, CloseTeardown, release, pty_Close, ptyVars,
           keepVars, wireVars, bridgeVars
  <2>3. CASE OpenSession
    <3>1. pump = "off" /\ pump' = "gate"
      BY <2>3 DEF OpenSession, IdleInv
    <3> QED
      BY <1>1, <2>3, <3>1 DEF OpenSession, startPTY, keepVars, wireVars, bridgeVars
  <2> QED
    BY <1>3, <2>1, <2>2, <2>3 DEF Opening, Closing
<1>4. CASE pumpOutput
  <2>1. UNCHANGED <<queue, out, ring, last>> /\ pump = "read"
    BY <1>4 DEF pumpOutput, keepVars, wireVars, bridgeVars
  <2>2. \/ made' = made + 1 /\ chunk' = made + 1 /\ pump' = "emit"
        \/ pump' = "done" /\ UNCHANGED <<chunk, made>>
    BY <1>4 DEF pumpOutput
  <2>3. Sofar = made /\ Sofar' = made
    BY <2>1, <2>2 DEF Sofar, OrderInv
  <2> QED
    BY <2>1, <2>2, <2>3 DEF OrderInv
<1>5. CASE emit
  <2>1. /\ pump = "emit" /\ pump' = "gate" /\ UNCHANGED <<made, queue, last>>
        /\ chunk = made /\ made # 0 /\ made \in Nat
    BY <1>5 DEF emit, ptyVars, bridgeVars, OrderInv
  <2>2. Sofar = made - 1 /\ Sofar' = made /\ made = Sofar + 1
    BY <2>1 DEF Sofar
  <2>3. Feed(queue, out, ring, last, Sofar)
    BY DEF OrderInv
  <2>4. Feed(queue, out, Append(ring, made), last, made)
    BY <2>2, <2>3, RingAdds
  <2>5. CASE ~link
    <3>1. ring_write(chunk) /\ out' = out
      BY <1>5, <2>5 DEF emit
    <3>2. CASE Len(ring) < RingMax
      BY <2>1, <2>2, <2>4, <3>1, <3>2 DEF ring_write, OrderInv
    <3>3. CASE ~(Len(ring) < RingMax)
      <4>1. ring # <<>>
        BY <1>0, <3>3, FlowAssumption
      <4>2. Part(queue, queue) /\ Part(out, out) /\ Part(Tail(ring), ring)
        BY <1>0, <4>1, Parts
      <4>3. Feed(queue, out, Tail(ring), last, Sofar)
        BY <2>3, <4>2, Drops
      <4>4. Feed(queue, out, Append(Tail(ring), made), last, made)
        BY <2>2, <4>3, RingAdds
      <4> QED
        BY <2>1, <2>2, <3>1, <3>3, <4>4 DEF ring_write, OrderInv
    <3> QED
      BY <3>2, <3>3
  <2>6. CASE link
    <3>1. flushLocked(<<made>>)
      BY <1>5, <2>1, <2>6 DEF emit
    <3>2. Append(ring, made) = ring \o <<made>>
      BY <1>0, <2>1
    <3>3. Feed(queue, out', ring', last, made)
      BY <2>4, <3>1, <3>2, Flushes
    <3> QED
      BY <2>1, <2>2, <3>3 DEF OrderInv
  <2> QED
    BY <2>5, <2>6
<1>6. CASE monitor \/ disconnected \/ idle \/ server_gone
  <2>1. checkTimeouts
    BY <1>6 DEF monitor, disconnected, idle, server_gone
  <2>2. UNCHANGED <<made, chunk, queue, last, pump>>
    BY <2>1 DEF checkTimeouts, ptyVars, bridgeVars
  <2>3. CASE ~link
    BY <1>1, <2>1, <2>2, <2>3 DEF checkTimeouts
  <2>4. CASE link
    <3>1. flushLocked(<<>>)
      BY <2>1, <2>4 DEF checkTimeouts
    <3>2. ring = ring \o <<>>
      BY <1>0
    <3>3. Feed(queue, out, ring, last, Sofar)
      BY DEF OrderInv
    <3>4. Feed(queue, out', ring', last, Sofar)
      BY <3>1, <3>2, <3>3, Flushes
    <3> QED
      BY <2>2, <3>4 DEF OrderInv, Sofar
  <2> QED
    BY <2>3, <2>4
<1>7. CASE onCtlAck
  <2>1. UNCHANGED <<made, chunk, queue, out, ring, last>>
    BY <1>7 DEF onCtlAck, ptyVars, keepVars, bridgeVars
  <2>2. pump' = pump \/ (pump = "parked" /\ pump' = "read")
    BY <1>7 DEF onCtlAck, ack
  <2> QED
    BY <1>1, <2>1, <2>2
<1> DEFINE Fixed == UNCHANGED <<made, chunk, pump, ring>>
<1>8. ASSUME Fixed, last' = last, Part(queue', queue), Part(out', out)
      PROVE  OrderInv'
  <2>1. Part(ring, ring) /\ Feed(queue, out, ring, last, Sofar)
    BY <1>0, Parts DEF OrderInv
  <2>2. Feed(queue', out', ring, last, Sofar)
    BY <1>8, <2>1, Drops
  <2> QED
    BY <1>8, <2>2 DEF OrderInv, Sofar
<1>9. CASE LinkDown
  <2>1. PICK i \in 0..Len(out) : out' = SubSeq(out, i + 1, Len(out))
    BY <1>9 DEF LinkDown
  <2>2. Part(out', out) /\ Part(queue, queue)
    BY <1>0, <2>1, Parts
  <2>3. Fixed /\ UNCHANGED <<queue, last>>
    BY <1>9 DEF LinkDown, ptyVars, keepVars, bridgeVars
  <2> QED
    BY <1>8, <2>2, <2>3
<1>10. CASE LinkUp \/ Ask \/ Subscribe \/ ChildExits \/ BridgeEnds \/ BridgeDrained
  BY <1>1, <1>10 DEF LinkUp, Ask, Subscribe, ChildExits, BridgeEnds, BridgeDrained, agentVars,
       ptyVars, keepVars, wireVars, bridgeVars
<1>11. CASE BridgeGone \/ CloseRequest
  <2>1. Fixed /\ last' = last /\ queue' = <<>> /\ out' = <<>>
    BY <1>11 DEF BridgeGone, CloseRequest, Unsubscribe, agentVars, ptyVars, keepVars
  <2> QED
    BY <1>0, <1>8, <2>1, Parts
<1>12. CASE Unheard
  <2>1. Fixed /\ UNCHANGED <<queue, last>> /\ (out' = out \/ (out # <<>> /\ out' = Tail(out)))
    BY <1>12 DEF Unheard, agentVars, ptyVars, keepVars, bridgeVars
  <2> QED
    BY <1>0, <1>8, <2>1, Parts
<1>13. CASE on_out
  <2>1. Fixed /\ last' = last /\ out # <<>> /\ out' = Tail(out)
    BY <1>13 DEF on_out, agentVars, ptyVars, keepVars
  <2>2. Feed(queue, out, ring, last, Sofar) /\ Part(out, out) /\ Part(ring, ring)
    BY <1>0, Parts DEF OrderInv
  <2>3. CASE queue' = Append(queue, Head(out))
    <3>1. Feed(queue', out', ring, last, Sofar)
      BY <2>1, <2>2, <2>3, Arrives
    <3> QED
      BY <2>1, <3>1 DEF OrderInv, Sofar
  <2>4. CASE ~(Len(queue) < QueueMax) /\ queue' = Append(Tail(queue), Head(out))
    <3>1. queue # <<>>
      BY <1>0, <2>4, FlowAssumption
    <3>2. Part(Tail(queue), queue)
      BY <1>0, <3>1, Parts
    <3>3. Feed(Tail(queue), out, ring, last, Sofar)
      BY <2>2, <3>2, Drops
    <3>4. Feed(queue', out', ring, last, Sofar)
      BY <2>1, <2>4, <3>3, Arrives
    <3> QED
      BY <2>1, <3>4 DEF OrderInv, Sofar
  <2> QED
    BY <1>13, <2>3, <2>4 DEF on_out
<1>14. CASE on_ctl
  <2>1. Fixed /\ UNCHANGED <<out, last>> /\ queue' \in {queue, Append(queue, Banner)}
    BY <1>14 DEF on_ctl, agentVars, ptyVars, keepVars
  <2>2. CASE queue' = queue
    BY <1>1, <2>1, <2>2
  <2>3. CASE queue' = Append(queue, Banner)
    <3>1. Feed(queue', out, ring, last, Sofar)
      BY <2>3, GapLine DEF OrderInv
    <3> QED
      BY <2>1, <3>1 DEF OrderInv, Sofar
  <2> QED
    BY <2>1, <2>2, <2>3
<1>15. CASE deliver
  <2>1. /\ Fixed /\ out' = out /\ queue # <<>> /\ queue' = Tail(queue)
        /\ last' = IF Head(queue) = 0 THEN last ELSE Head(queue)
    BY <1>15 DEF deliver, agentVars, ptyVars, keepVars, Banner
  <2>2. CASE Head(queue) = 0
    BY <1>0, <1>8, <2>1, <2>2, Parts
  <2>3. CASE Head(queue) # 0
    <3>1. Feed(Tail(queue), out, ring, Head(queue), Sofar)
      BY <2>1, <2>3, Shows DEF OrderInv
    <3> QED
      BY <2>1, <2>3, <3>1 DEF OrderInv, Sofar
  <2> QED
    BY <2>2, <2>3
<1> QED
  BY <1>2, <1>3, <1>4, <1>5, <1>6, <1>7, <1>9, <1>10, <1>11, <1>12, <1>13, <1>14, <1>15
  DEF Next, Device, Server, Environment, Pumping, Receiving

\* The frames are in order in every reachable state.
LEMMA OrderInvariant == Spec => []OrderInv
<1>1. Init => OrderInv
  <2> SUFFICES ASSUME Init PROVE OrderInv
    OBVIOUS
  <2>1. /\ made = 0 /\ last = 0 /\ pump = "off" /\ Sofar = 0
        /\ queue = <<>> /\ out = <<>> /\ ring = <<>>
    BY DEF Init, Sofar
  <2>2. Feed(<<>>, <<>>, <<>>, 0, 0)
    BY DEF Feed, Queued, Rising, Below
  <2> QED
    BY <2>1, <2>2 DEF OrderInv
<1> QED
  BY <1>1, OrderStep, IdleInvariant, PTL DEF Spec

\* The browser shows what the program wrote, in its order and never twice,
\* although the pump, the monitor's flush of the ring, the bridge's full queue,
\* the losses of the link and the closing session all touch the stream: a
\* session implements the abstract stream.
THEOREM ShowsWhatWasWritten == Spec => ShowsInOrder
<1>1. Init => Stream!Init
  BY DEF Init, Stream!Init
<1>2. OrderInv /\ [Next]_vars => [Stream!Next]_(Stream!vars)
  <2> SUFFICES ASSUME OrderInv, [Next]_vars PROVE [Stream!Next]_(Stream!vars)
    OBVIOUS
  <2> USE DEF Stream!Next, Stream!vars, Stream!Write, Stream!Show, Stream!Leave
  <2>1. CASE deliver
    <3>1. made' = made /\ bridge = "live" /\ bridge' = "live" /\ queue # <<>>
          /\ last' = IF Head(queue) = 0 THEN last ELSE Head(queue)
      BY <2>1 DEF deliver, agentVars, ptyVars, Banner
    <3>2. CASE Head(queue) # 0
      <4>1. Head(queue) \in (last + 1)..Sofar
        BY <3>1, <3>2, Shows DEF OrderInv
      <4>2. Head(queue) \in (last + 1)..made
        BY <4>1, FeedTypes DEF OrderInv
      <4> QED
        BY <3>1, <3>2, <4>2
    <3> QED
      BY <3>1, <3>2
  <2>2. CASE pumpOutput
    BY <2>2 DEF pumpOutput, bridgeVars
  <2>3. CASE Opening \/ Closing \/ Pumping \/ onCtlAck \/ monitor \/ disconnected \/ idle
             \/ server_gone \/ watchExit \/ shutdown \/ ChildExits \/ LinkDown \/ LinkUp
             \/ Unheard \/ Receiving \/ UNCHANGED vars
    <3>1. UNCHANGED <<made, last, bridge>>
      BY <2>3 DEF Opening, OpenSession, OpenInsert, OpenRefused, startPTY, closeAndReap,
           pty_Close, Closing, ClosePublish, CloseTeardown, release, forget, Pumping, wait,
           waitCancelled, emit, onCtlAck, monitor, disconnected, idle, server_gone,
           checkTimeouts, watchExit, shutdown, ChildExits, LinkDown, LinkUp, Unheard,
           Receiving, on_out, on_ctl, vars, agentVars, ptyVars, bridgeVars
    <3> QED
      BY <3>1
  <2>4. CASE Ask \/ Subscribe \/ BridgeEnds \/ BridgeDrained \/ BridgeGone \/ CloseRequest
    BY <2>4 DEF Ask, Subscribe, BridgeEnds, BridgeDrained, BridgeGone, CloseRequest,
         Unsubscribe, agentVars, ptyVars
  <2> QED
    BY <2>1, <2>2, <2>3, <2>4 DEF Next, Device, Server, Environment
<1> QED
  BY <1>1, <1>2, OrderInvariant, PTL DEF Spec, ShowsInOrder, Stream!Spec
=============================================================================
