-------------------------- MODULE AgentJobs_proof --------------------------
(***************************************************************************)
(* Theorems about AgentJobs for any set of messages, firings and commands, *)
(* any number of slots, deliveries and process lives.                      *)
(***************************************************************************)
EXTENDS AgentJobs, FiniteSetTheorems, TLAPS

\* Every taken slot is at least covered by a token: the attempts that hold a
\* slot are finitely many and no more than the tokens in m.slots.  It is an
\* inequality because the errJobDone return leaves its token behind.
HoldersBound == IsFiniteSet(Holders) /\ Cardinality(Holders) <= slots

\* An attempt is a delivery, a scheduled firing or a command (reserve's callers).
LEMMA AttemptFacts ==
  /\ Deliveries \subseteq Attempts
  /\ \A f \in Fires \cup Updates : <<f, 1>> \in Attempts
  /\ \A a \in Attempts : Job(a) \in Jobs
  /\ \A d \in Deliveries : d[1] \in Msgs /\ d[2] \in 1..MaxDeliver
BY RequestsAssumption, BoundsAssumption DEF Attempts, Deliveries, Requests, Job

\* The buffers of deliveries start as sequences (consume).
LEMMA SeqFacts ==
  ASSUME NEW S
  PROVE  /\ <<>> \in Seq(S)
         /\ \A s \in Seq(S), e \in S : Append(s, e) \in Seq(S)
         /\ \A s \in Seq(S), e \in S : Tail(Append(s, e)) \in Seq(S)
OBVIOUS

\* A fetched delivery joins the end of its buffer (consume).
LEMMA AppendFacts ==
  ASSUME NEW S, NEW s \in Seq(S), NEW e \in S
  PROVE  /\ DOMAIN Append(s, e) = DOMAIN s \cup {Len(s) + 1}
         /\ \A i \in DOMAIN s : i \in Nat /\ i <= Len(s) /\ Append(s, e)[i] = s[i]
         /\ Append(s, e)[Len(s) + 1] = e
         /\ Len(s) \in Nat
<1>1. Len(s) \in Nat /\ DOMAIN s = 1..Len(s)
  OBVIOUS
<1>2. DOMAIN Append(s, e) = 1..(Len(s) + 1)
  OBVIOUS
<1>3. 1..(Len(s) + 1) = (1..Len(s)) \cup {Len(s) + 1}
  BY <1>1
<1>4. \A i \in 1..Len(s) : Append(s, e)[i] = s[i]
  OBVIOUS
<1>5. Append(s, e)[Len(s) + 1] = e
  OBVIOUS
<1> QED BY <1>1, <1>2, <1>3, <1>4, <1>5

\* Taking the first delivery leaves a shorter buffer of the same kind (handleJob).
LEMMA TailFacts ==
  ASSUME NEW S, NEW s \in Seq(S), s # <<>>
  PROVE  /\ Head(s) = s[1] /\ 1 \in DOMAIN s /\ s[1] \in S
         /\ \A i \in DOMAIN Tail(s) :
              i \in Nat \ {0} /\ i + 1 \in DOMAIN s /\ Tail(s)[i] = s[i + 1]
<1>1. Len(s) \in Nat \ {0} /\ DOMAIN s = 1..Len(s) /\ Head(s) = s[1]
  OBVIOUS
<1>2. DOMAIN Tail(s) = 1..(Len(s) - 1)
  OBVIOUS
<1>3. \A i \in 1..(Len(s) - 1) : Tail(s)[i] = s[i + 1]
  OBVIOUS
<1> QED BY <1>1, <1>2, <1>3

\* The process starts with every slot free and nobody registered.
LEMMA InitTypeOK == Init => TypeOK /\ HoldersBound
<1> SUFFICES ASSUME Init PROVE TypeOK /\ HoldersBound
    OBVIOUS
<1>1. TypeOK
  BY BoundsAssumption, SeqFacts DEF Init, TypeOK, PCs, Lives
<1>2. Holders = {}
  BY DEF Init, Holders, At
<1> QED BY <1>1, <1>2, FS_EmptySet DEF HoldersBound, Init

\* How the set of slot holders moves when one attempt changes its phase.
LEMMA HoldersMove ==
  ASSUME TypeOK, HoldersBound, NEW a \in Attempts, NEW p \in PCs,
         pc' = [pc EXCEPT ![a] = p]
  PROVE  LET HolderPCs == {"recheck", "running", "published", "marked", "releasing"}
         IN  /\ IsFiniteSet(Holders')
             /\ p \in HolderPCs /\ pc[a] \in HolderPCs => Holders' = Holders
             /\ p \notin HolderPCs /\ pc[a] \notin HolderPCs => Holders' = Holders
             /\ p \in HolderPCs /\ pc[a] \notin HolderPCs =>
                  Cardinality(Holders') = Cardinality(Holders) + 1
             /\ p \notin HolderPCs /\ pc[a] \in HolderPCs =>
                  /\ Cardinality(Holders') = Cardinality(Holders) - 1
                  /\ Cardinality(Holders) >= 1
<1> DEFINE HP == {"recheck", "running", "published", "marked", "releasing"}
<1>1. Holders' = IF p \in HP THEN Holders \cup {a} ELSE Holders \ {a}
  BY DEF Holders, At, TypeOK
<1>2. a \in Holders <=> pc[a] \in HP
  BY DEF Holders, At
<1>3. /\ IsFiniteSet(Holders \cup {a})
      /\ Cardinality(Holders \cup {a}) =
           IF a \in Holders THEN Cardinality(Holders) ELSE Cardinality(Holders) + 1
  BY FS_AddElement DEF HoldersBound
<1>4. /\ IsFiniteSet(Holders \ {a})
      /\ Cardinality(Holders \ {a}) =
           IF a \in Holders THEN Cardinality(Holders) - 1 ELSE Cardinality(Holders)
      /\ Cardinality(Holders \ {a}) \in Nat /\ Cardinality(Holders) \in Nat
  BY FS_RemoveElement, FS_CardinalityType DEF HoldersBound
<1> QED BY <1>1, <1>2, <1>3, <1>4

\* The steps of the JetStream consumer, of the callers and of shutdown that
\* leave every slot where it is.
LEMMA TypeStep ==
  ASSUME TypeOK, HoldersBound, [Next]_vars
  PROVE  TypeOK' /\ HoldersBound'
<1> USE AttemptFacts, BoundsAssumption
<1>0. Cardinality(Holders) \in Nat
  BY FS_CardinalityType DEF HoldersBound
<1>1. CASE UNCHANGED vars
  <2>1. Holders' = Holders
    BY <1>1 DEF vars, Holders, At
  <2> QED BY <1>1, <2>1 DEF vars, TypeOK, HoldersBound
<1>2. ASSUME NEW m \in Msgs, Deliver(m) \/ AckWaitExpires(m) PROVE TypeOK' /\ HoldersBound'
  <2>1. Holders' = Holders
    BY <1>2 DEF Deliver, AckWaitExpires, Holders, At
  <2>2. CASE Deliver(m)
    <3>1. <<m, ndel[m] + 1>> \in Deliveries
      BY <2>2 DEF Deliver, TypeOK, Deliveries
    <3>2. buffer' \in Seq(Deliveries)
      BY <2>2, <3>1 DEF Deliver, TypeOK
    <3>3. ndel' \in [Msgs -> 0..MaxDeliver]
      BY <2>2 DEF Deliver, TypeOK
    <3> QED BY <2>2, <2>1, <3>2, <3>3, SMTT(60) DEF Deliver, TypeOK, HoldersBound, reg, stop, hist
  <2>3. CASE AckWaitExpires(m)
    BY <2>3, <2>1 DEF AckWaitExpires, Returned, TypeOK, HoldersBound, reg, stop, hist
  <2> QED BY <1>2, <2>2, <2>3
<1>3. CASE HandleJob
  <2> DEFINE d == Head(buffer)
  <2>1. d \in Deliveries /\ Tail(buffer) \in Seq(Deliveries)
    BY <1>3 DEF HandleJob, TypeOK
  <2>2. \E p \in {"over", "enter"} : pc' = [pc EXCEPT ![d] = p]
    BY <1>3 DEF HandleJob
  <2>3. TypeOK'
    BY <1>3, <2>1, <2>2, Zenon DEF HandleJob, Ack, TypeOK, PCs, reg, stop, hist
  <2>4. Holders' \subseteq Holders
    BY <2>1, <2>2 DEF Holders, At, TypeOK
  <2>5. IsFiniteSet(Holders') /\ Cardinality(Holders') <= Cardinality(Holders)
    BY <2>4, FS_Subset DEF HoldersBound
  <2>6. Cardinality(Holders') \in Nat
    BY <2>5, FS_CardinalityType
  <2>7. slots' = slots
    BY <1>3 DEF HandleJob, reg
  <2>8. Cardinality(Holders) <= slots /\ slots \in Nat
    BY DEF HoldersBound, TypeOK
  <2>9. HoldersBound'
    BY <2>5, <2>6, <2>7, <2>8, <1>0 DEF HoldersBound
  <2> QED BY <2>3, <2>9
<1>4. CASE AckStarted
  <2>1. Holders' = Holders
    BY <1>4 DEF AckStarted, Holders, At
  <2>2. callback[1] \in Msgs
    BY <1>4 DEF AckStarted, TypeOK
  <2> QED BY <1>4, <2>1, <2>2, SMTT(60) DEF AckStarted, Ack, TypeOK, HoldersBound, reg, stop, hist
<1>5. ASSUME NEW r \in Fires \cup Updates, RunScheduled(r) \/ CmdAgentUpdate(r)
      PROVE TypeOK' /\ HoldersBound'
  <2>1. <<r, 1>> \in Attempts /\ pc[<<r, 1>>] = "new" /\ pc' = [pc EXCEPT ![<<r, 1>>] = "enter"]
    BY <1>5 DEF RunScheduled, CmdAgentUpdate
  <2>2. Holders' = Holders
    BY <2>1, HoldersMove, Zenon DEF PCs
  <2> QED
    BY <1>5, <2>1, <2>2, SMTT(60) DEF RunScheduled, CmdAgentUpdate, TypeOK, HoldersBound, PCs,
       js, reg, stop, hist
<1>6. ASSUME NEW j \in Jobs, CmdJobCancel(j) \/ ReportInterrupted(j)
      PROVE TypeOK' /\ HoldersBound'
  <2>1. Holders' = Holders
    BY <1>6 DEF CmdJobCancel, ReportInterrupted, Holders, At
  <2>3. CASE CmdJobCancel(j)
    BY <2>3, <2>1 DEF CmdJobCancel, TypeOK, HoldersBound, js, reg, stop, hist
  <2>4. CASE ReportInterrupted(j)
    <3>1. Append(results[j], "interrupted") \in Seq({"own", "interrupted"})
      BY SeqFacts DEF TypeOK
    <3>2. results' \in [Jobs -> Seq({"own", "interrupted"})]
      BY <2>4, <3>1 DEF ReportInterrupted, TypeOK
    <3> QED BY <2>4, <2>1, <3>2, SMTT(60) DEF ReportInterrupted, TypeOK, HoldersBound, js, reg
  <2> QED BY <1>6, <2>3, <2>4
<1>7. ASSUME NEW a \in Attempts, ReserveCheck(a) \/ WaitAborted(a)
      PROVE TypeOK' /\ HoldersBound'
  <2>1. PICK p \in {"over", "slot"} : pc' = [pc EXCEPT ![a] = p]
    BY <1>7 DEF ReserveCheck, WaitAborted, RefuseStopping, RefuseDuplicate
  <2>2. pc[a] \in {"enter", "slot"}
    BY <1>7 DEF ReserveCheck, WaitAborted
  <2>3. Holders' = Holders
    BY <2>1, <2>2, HoldersMove, Zenon DEF PCs
  <2>4. /\ stream' \in [Msgs -> {"stored", "pending", "acked", "dropped"}]
        /\ callback' \in Deliveries \cup {NoAttempt}
    BY <1>7, ZenonT(60) DEF ReserveCheck, WaitAborted, RefuseStopping, RefuseDuplicate, Ack, Nak,
       Returned, TypeOK
  <2>5. UNCHANGED <<ndel, buffer, reg, stop, cancelled, hist, lives>>
    BY <1>7 DEF ReserveCheck, WaitAborted
  <2> QED
    BY <2>1, <2>3, <2>4, <2>5, SMTT(60) DEF TypeOK, HoldersBound, PCs, reg, stop, hist
<1>8. ASSUME NEW a \in Attempts, TakeSlot(a) PROVE TypeOK' /\ HoldersBound'
  <2>1. IsFiniteSet(Holders') /\ Cardinality(Holders') = Cardinality(Holders) + 1
    BY <1>8, HoldersMove, Zenon DEF TakeSlot, PCs
  <2>2. slots' \in 0..MaxConcurrent /\ HoldersBound'
    BY <1>8, <2>1, <1>0, SMTT(60) DEF TakeSlot, TypeOK, HoldersBound
  <2>3. pc' \in [Attempts -> PCs]
    BY <1>8, Zenon DEF TakeSlot, TypeOK, PCs
  <2> QED
    BY <1>8, <2>2, <2>3, SMTT(60) DEF TakeSlot, TypeOK, js, stop, hist
<1>9. ASSUME NEW a \in Attempts, ReserveRefuse(a) PROVE TypeOK' /\ HoldersBound'
  <2>1. pc[a] = "recheck" /\ pc' = [pc EXCEPT ![a] = "over"]
    BY <1>9 DEF ReserveRefuse, RefuseStopping, RefuseDuplicate
  <2>2. /\ IsFiniteSet(Holders') /\ Cardinality(Holders') = Cardinality(Holders) - 1
        /\ Cardinality(Holders) >= 1
    BY <2>1, HoldersMove, Zenon DEF PCs
  <2>3. slots' \in {slots, slots - 1}
    BY <1>9 DEF ReserveRefuse
  <2>4. slots' \in 0..MaxConcurrent /\ HoldersBound'
    BY <2>2, <2>3, <1>0 DEF HoldersBound, TypeOK
  <2>5. stream' \in [Msgs -> {"stored", "pending", "acked", "dropped"}]
        /\ callback' \in Deliveries \cup {NoAttempt}
    BY <1>9, Zenon DEF ReserveRefuse, RefuseStopping, RefuseDuplicate, Ack, Nak, Returned, TypeOK
  <2> QED
    BY <1>9, <2>1, <2>4, <2>5, Zenon DEF ReserveRefuse, TypeOK, PCs, stop, hist
<1>10. ASSUME NEW a \in Attempts, ReserveRegister(a) \/ RunJob(a) \/ MarkDone(a) \/ Unregister(a)
       PROVE TypeOK' /\ HoldersBound'
  <2>1. PICK p \in {"running", "published", "marked", "releasing"} : pc' = [pc EXCEPT ![a] = p]
    BY <1>10 DEF ReserveRegister, RunJob, MarkDone, Unregister
  <2>2. pc[a] \in {"recheck", "running", "published", "marked"}
    BY <1>10 DEF ReserveRegister, RunJob, MarkDone, Unregister
  <2>3. Holders' = Holders
    BY <2>1, <2>2, HoldersMove, Zenon DEF PCs
  <2>4. Job(a) \in Jobs
    OBVIOUS
  <2>5. CASE ReserveRegister(a)
    BY <2>5, <2>1, <2>3, <2>4 DEF ReserveRegister, TypeOK, HoldersBound, PCs, js, stop
  <2>6. CASE RunJob(a)
    BY <2>6, <2>1, <2>3, <2>4 DEF RunJob, TypeOK, HoldersBound, PCs, js, reg, stop
  <2>7. CASE MarkDone(a)
    <3>1. Remembered(doneOrder, Job(a)) \in Seq(Jobs)
      BY <2>4, SeqFacts, Zenon DEF Remembered, TypeOK
    <3> QED BY <2>7, <2>1, <2>3, <3>1, SMTT(60) DEF MarkDone, TypeOK, HoldersBound, PCs, js, stop, hist
  <2>8. CASE Unregister(a)
    BY <2>8, <2>1, <2>3 DEF Unregister, TypeOK, HoldersBound, PCs, js, stop, hist
  <2> QED BY <1>10, <2>5, <2>6, <2>7, <2>8
<1>11. ASSUME NEW a \in Attempts, FreeSlot(a) PROVE TypeOK' /\ HoldersBound'
  <2>1. /\ IsFiniteSet(Holders') /\ Cardinality(Holders') = Cardinality(Holders) - 1
        /\ Cardinality(Holders) >= 1
    BY <1>11, HoldersMove, Zenon DEF FreeSlot, PCs
  <2>2. slots' \in 0..MaxConcurrent /\ HoldersBound'
    BY <1>11, <2>1, <1>0, SMTT(60) DEF FreeSlot, TypeOK, HoldersBound
  <2>3. pc' \in [Attempts -> PCs]
    BY <1>11, Zenon DEF FreeSlot, TypeOK, PCs
  <2> QED
    BY <1>11, <2>2, <2>3, SMTT(60) DEF FreeSlot, TypeOK, js, stop, hist
<1>12. CASE ConsumerStops \/ DrainJobs \/ GraceExpired \/ CancelGraceExpired \/ DrainReturns \/ StartJobs
  <2>1. Holders' = Holders
    BY <1>12 DEF ConsumerStops, DrainJobs, GraceExpired, CancelGraceExpired, DrainReturns, StartJobs, Holders, At
  <2>2. buffer' \in Seq(Deliveries)
    BY <1>12, SeqFacts, Zenon DEF ConsumerStops, DrainJobs, GraceExpired, CancelGraceExpired, DrainReturns,
       StartJobs, TypeOK
  <2>3. results' \in [Jobs -> Seq({"own", "interrupted"})]
    BY <1>12, SeqFacts, ZenonT(60) DEF ConsumerStops, DrainJobs, GraceExpired, CancelGraceExpired, DrainReturns,
       StartJobs, TypeOK, hist
  <2>4. starts' \in [Jobs -> Nat] /\ lives' \in 1..MaxLives /\ toReport' \subseteq Jobs
    BY <1>12 DEF ConsumerStops, DrainJobs, GraceExpired, CancelGraceExpired, DrainReturns, StartJobs,
       TypeOK, hist, stop
  <2>5. UNCHANGED <<js, callback, pc, reg, cancelled, everRan>>
    BY <1>12 DEF ConsumerStops, DrainJobs, GraceExpired, CancelGraceExpired, DrainReturns, StartJobs, hist
  <2>6. life' \in Lives /\ base' \in {"live", "cancelled"}
    BY <1>12 DEF ConsumerStops, DrainJobs, GraceExpired, CancelGraceExpired, DrainReturns, StartJobs,
       TypeOK, Lives, stop
  <2> QED
    BY <2>1, <2>2, <2>3, <2>4, <2>5, <2>6, Zenon DEF TypeOK, HoldersBound, js, reg
<1>13. CASE Exit \/ Crash
  <2>1. Gone /\ UNCHANGED <<js, hist, lives>>
    BY <1>13 DEF Exit, Crash
  <2>2. Holders' = {}
    BY <2>1 DEF Gone, Holders, At
  <2>3. buffer' \in Seq(Deliveries) /\ doneOrder' \in Seq(Jobs)
    BY <2>1, SeqFacts DEF Gone
  <2>4. pc' \in [Attempts -> PCs]
    BY <2>1 DEF Gone, PCs
  <2> QED
    BY <2>1, <2>2, <2>3, <2>4, FS_EmptySet DEF Gone, TypeOK, HoldersBound, Lives, js, hist
<1> QED
  BY <1>1, <1>2, <1>3, <1>4, <1>5, <1>6, <1>7, <1>8, <1>9, <1>10, <1>11, <1>12, <1>13, SMTT(60) DEF Next

\* Type correctness of the whole module.  The interesting part is the range of
\* slots: no path takes a token out of m.slots that nobody put in, and none
\* puts in more than maxConcurrentJobs.
THEOREM TypeCorrect == Spec => []TypeOK
<1>1. TypeOK /\ HoldersBound /\ [Next]_vars => TypeOK' /\ HoldersBound'
  BY TypeStep
<1> QED BY InitTypeOK, <1>1, PTL DEF Spec

\* At most maxConcurrentJobs jobs run at once, for every mix of deliveries,
\* firings and commands and every interleaving of reserve and release.
THEOREM ConcurrencyBounded == Spec => []ConcurrencyBound
<1>1. TypeOK /\ HoldersBound => ConcurrencyBound
  <2> SUFFICES ASSUME TypeOK, HoldersBound PROVE ConcurrencyBound
      OBVIOUS
  <2>1. WaitGroup \in SUBSET Holders
    BY DEF WaitGroup, Holders, At
  <2>2. /\ Cardinality(WaitGroup) <= Cardinality(Holders)
        /\ Cardinality(WaitGroup) \in Nat /\ Cardinality(Holders) \in Nat
    BY <2>1, FS_Subset, FS_CardinalityType DEF HoldersBound
  <2> QED BY <2>2, BoundsAssumption DEF TypeOK, HoldersBound, ConcurrencyBound
<1>2. TypeOK /\ HoldersBound /\ [Next]_vars => TypeOK' /\ HoldersBound'
  BY TypeStep
<1> QED BY InitTypeOK, <1>1, <1>2, PTL DEF Spec

-----------------------------------------------------------------------------
(* The registry.  An attempt is handled once: a buffered delivery has not  *)
(* begun, is in the buffer once, and carries a delivery count the consumer *)
(* has already reached; later deliveries do not exist yet.                 *)

BufferedIsNew ==
  /\ \A i \in DOMAIN buffer : pc[buffer[i]] = "new" /\ buffer[i][2] <= ndel[buffer[i][1]]
  /\ \A i, k \in DOMAIN buffer : buffer[i] = buffer[k] => i = k
  /\ \A d \in Deliveries : d[2] > ndel[d[1]] => pc[d] = "new"

\* Nothing is buffered at the start.
LEMMA InitBuffered == Init => BufferedIsNew
BY AttemptFacts DEF Init, BufferedIsNew

\* A step that moves one attempt which has already begun, or is none of the
\* deliveries, disturbs none of this.
LEMMA BufferedMove ==
  ASSUME TypeOK, BufferedIsNew, NEW a \in Attempts, NEW p \in PCs,
         pc[a] # "new" \/ a \notin Deliveries,
         pc' = [pc EXCEPT ![a] = p], UNCHANGED <<ndel, buffer>>
  PROVE  BufferedIsNew'
BY AttemptFacts, SMTT(60) DEF TypeOK, BufferedIsNew

\* A buffered delivery has not been processed, whatever the other callers do.
LEMMA BufferedStep ==
  ASSUME TypeOK, BufferedIsNew, [Next]_vars
  PROVE  BufferedIsNew'
<1> USE AttemptFacts, BoundsAssumption
<1>1. CASE UNCHANGED vars
  BY <1>1, ZenonT(60) DEF vars, BufferedIsNew
<1>2. ASSUME NEW m \in Msgs, Deliver(m) PROVE BufferedIsNew'
  <2> DEFINE d == <<m, ndel[m] + 1>>
  <2>1. d \in Deliveries /\ d[1] = m /\ d[2] = ndel[m] + 1
    BY <1>2, SMTT(60) DEF Deliver, TypeOK, Deliveries
  <2>2. pc[d] = "new" /\ \A i \in DOMAIN buffer : buffer[i] # d
    <3>1. ndel[m] \in Nat
      BY DEF TypeOK
    <3> HIDE DEF d
    <3>2. d[2] > ndel[d[1]]
      BY ONLY <2>1, <3>1
    <3>3. pc[d] = "new"
      BY ONLY BufferedIsNew, <2>1, <3>2 DEF BufferedIsNew
    <3>4. ASSUME NEW i \in DOMAIN buffer PROVE buffer[i] # d
      <4>1. buffer[i][2] <= ndel[buffer[i][1]]
        BY ONLY BufferedIsNew, i \in DOMAIN buffer DEF BufferedIsNew
      <4> QED BY ONLY <2>1, <3>1, <4>1
    <3> QED BY <3>3, <3>4
  <2>3. /\ DOMAIN buffer' = DOMAIN buffer \cup {Len(buffer) + 1}
        /\ \A i \in DOMAIN buffer : buffer'[i] = buffer[i]
        /\ buffer'[Len(buffer) + 1] = d
        /\ \A i \in DOMAIN buffer : i \in Nat /\ i <= Len(buffer)
        /\ Len(buffer) \in Nat
    <3>1. buffer' = Append(buffer, d) /\ buffer \in Seq(Deliveries)
      BY <1>2 DEF Deliver, TypeOK
    <3>2. /\ DOMAIN Append(buffer, d) = DOMAIN buffer \cup {Len(buffer) + 1}
          /\ \A i \in DOMAIN buffer : i \in Nat /\ i <= Len(buffer) /\ Append(buffer, d)[i] = buffer[i]
          /\ Append(buffer, d)[Len(buffer) + 1] = d
          /\ Len(buffer) \in Nat
      <4> HIDE DEF d
      <4> QED BY ONLY <3>1, <2>1, AppendFacts, Zenon
    <3> HIDE DEF d
    <3> QED BY ONLY <3>1, <3>2
  <2>4. \A x \in Msgs : ndel'[x] = IF x = m THEN ndel[m] + 1 ELSE ndel[x]
    BY <1>2 DEF Deliver, TypeOK
  <2>5. \A i \in DOMAIN buffer : buffer[i] \in Deliveries
    BY DEF TypeOK
  <2>6. pc' = pc
    BY <1>2 DEF Deliver
  <2>7. \A x \in Msgs : ndel[x] \in Nat
    BY DEF TypeOK
  <2>8. \A i \in DOMAIN buffer' : pc'[buffer'[i]] = "new" /\ buffer'[i][2] <= ndel'[buffer'[i][1]]
    <3>1. ASSUME NEW i \in DOMAIN buffer
          PROVE  pc'[buffer'[i]] = "new" /\ buffer'[i][2] <= ndel'[buffer'[i][1]]
      <4>1. /\ buffer[i] \in Deliveries /\ buffer'[i] = buffer[i] /\ pc[buffer[i]] = "new"
            /\ buffer[i][1] \in Msgs /\ buffer[i][2] \in Nat
            /\ buffer[i][2] <= ndel[buffer[i][1]]
        BY <2>3, <2>5, SMTT(60) DEF BufferedIsNew
      <4> QED BY <4>1, <2>4, <2>6, <2>7, SMTT(60)
    <3>2. pc'[d] = "new" /\ d[2] <= ndel'[d[1]]
      BY <2>1, <2>2, <2>4, <2>6, <2>7, SMTT(60)
    <3> QED BY <2>3, <3>1, <3>2
  <2>9. \A i, k \in DOMAIN buffer' : buffer'[i] = buffer'[k] => i = k
    BY <2>2, <2>3 DEF BufferedIsNew
  <2>10. \A x \in Deliveries : x[2] > ndel'[x[1]] => pc'[x] = "new"
    BY <2>4, <2>6, <2>7, SMTT(60) DEF BufferedIsNew
  <2> QED BY <2>8, <2>9, <2>10 DEF BufferedIsNew
<1>3. CASE HandleJob
  <2> DEFINE d == Head(buffer)
  <2>1. /\ d = buffer[1] /\ 1 \in DOMAIN buffer /\ d \in Deliveries
        /\ \A i \in DOMAIN Tail(buffer) : i + 1 \in DOMAIN buffer /\ Tail(buffer)[i] = buffer[i + 1]
        /\ \A i \in DOMAIN Tail(buffer) : i \in Nat \ {0}
    <3>1. buffer \in Seq(Deliveries) /\ buffer # <<>>
      BY <1>3 DEF HandleJob, TypeOK
    <3> QED BY ONLY <3>1, TailFacts
  <2>2. \A i \in DOMAIN Tail(buffer) : Tail(buffer)[i] # d
    BY <2>1 DEF BufferedIsNew
  <2>3. PICK p \in {"over", "enter"} : pc' = [pc EXCEPT ![d] = p]
    BY <1>3 DEF HandleJob
  <2>4. \A x \in Attempts : x # d => pc'[x] = pc[x]
    BY <2>3, <2>1 DEF TypeOK
  <2>5. \A i \in DOMAIN Tail(buffer) : Tail(buffer)[i] \in Deliveries
    BY <2>1 DEF TypeOK
  <2>6. buffer' = Tail(buffer) /\ ndel' = ndel
    BY <1>3 DEF HandleJob
  <2>7. ~(d[2] > ndel[d[1]])
    <3>1. d[2] \in Nat /\ ndel[d[1]] \in Nat
      BY <2>1 DEF TypeOK
    <3>2. buffer[1][2] <= ndel[buffer[1][1]]
      BY ONLY BufferedIsNew, <2>1 DEF BufferedIsNew
    <3> HIDE DEF d
    <3> QED BY ONLY <2>1, <3>1, <3>2
  <2>8. \A i \in DOMAIN buffer' : pc'[buffer'[i]] = "new" /\ buffer'[i][2] <= ndel'[buffer'[i][1]]
    BY <2>1, <2>2, <2>4, <2>5, <2>6 DEF BufferedIsNew
  <2>9. \A i, k \in DOMAIN buffer' : buffer'[i] = buffer'[k] => i = k
    BY <2>1, <2>6 DEF BufferedIsNew
  <2>10. \A x \in Deliveries : x[2] > ndel'[x[1]] => pc'[x] = "new"
    BY <2>4, <2>6, <2>7, SMTT(60) DEF BufferedIsNew
  <2> QED BY <2>8, <2>9, <2>10 DEF BufferedIsNew
<1>4. ASSUME NEW r \in Fires \cup Updates, RunScheduled(r) \/ CmdAgentUpdate(r)
      PROVE BufferedIsNew'
  <2>1. <<r, 1>> \in Attempts /\ <<r, 1>> \notin Deliveries
    BY RequestsAssumption DEF Deliveries
  <2>2. pc' = [pc EXCEPT ![<<r, 1>>] = "enter"] /\ UNCHANGED <<ndel, buffer>>
    BY <1>4 DEF RunScheduled, CmdAgentUpdate, js
  <2> QED BY <2>1, <2>2, BufferedMove, Zenon DEF PCs
<1>5. ASSUME NEW a \in Attempts,
             \/ ReserveCheck(a) \/ TakeSlot(a) \/ WaitAborted(a)
             \/ ReserveRefuse(a) \/ ReserveRegister(a)
             \/ RunJob(a) \/ MarkDone(a) \/ Unregister(a) \/ FreeSlot(a)
      PROVE BufferedIsNew'
  <2>1. pc[a] # "new"
    BY <1>5 DEF ReserveCheck, TakeSlot, WaitAborted, ReserveRefuse, ReserveRegister,
       RunJob, MarkDone, Unregister, FreeSlot
  <2>2. \E p \in PCs : pc' = [pc EXCEPT ![a] = p]
    BY <1>5 DEF ReserveCheck, TakeSlot, WaitAborted, ReserveRefuse, ReserveRegister,
       RunJob, MarkDone, Unregister, FreeSlot, RefuseStopping, RefuseDuplicate, PCs
  <2>3. UNCHANGED <<ndel, buffer>>
    BY <1>5, SMTT(60) DEF ReserveCheck, TakeSlot, WaitAborted, ReserveRefuse, ReserveRegister,
       RunJob, MarkDone, Unregister, FreeSlot, js
  <2> QED BY <2>1, <2>2, <2>3, BufferedMove, Zenon
<1>6. CASE \/ AckStarted \/ GraceExpired \/ CancelGraceExpired \/ DrainReturns \/ StartJobs
           \/ \E m \in Msgs : AckWaitExpires(m)
           \/ \E j \in Jobs : CmdJobCancel(j) \/ ReportInterrupted(j)
  <2>1. UNCHANGED <<ndel, buffer, pc>>
    BY ONLY <1>6, ZenonT(60) DEF AckStarted, GraceExpired, CancelGraceExpired, DrainReturns, StartJobs,
       AckWaitExpires, CmdJobCancel, ReportInterrupted, js
  <2> QED BY <2>1, SMTT(60) DEF BufferedIsNew
<1>7. CASE ConsumerStops \/ DrainJobs
  <2>1. buffer' = <<>> /\ UNCHANGED <<ndel, pc>>
    BY <1>7 DEF ConsumerStops, DrainJobs, js
  <2>2. DOMAIN buffer' = {}
    BY ONLY <2>1
  <2> QED BY <2>1, <2>2, Zenon DEF BufferedIsNew
<1>8. CASE Exit \/ Crash
  <2>1. /\ buffer' = <<>> /\ ndel' = ndel
        /\ pc' = [a \in Attempts |-> IF pc[a] = "new" THEN "new" ELSE "over"]
    BY ONLY <1>8 DEF Exit, Crash, Gone, js
  <2>2. DOMAIN buffer' = {}
    BY ONLY <2>1
  <2>3. \A d \in Deliveries : pc[d] = "new" => pc'[d] = "new"
    BY ONLY <2>1, AttemptFacts
  <2> QED BY ONLY BufferedIsNew, <2>1, <2>2, <2>3, Zenon DEF BufferedIsNew
<1> QED
  BY <1>1, <1>2, <1>3, <1>4, <1>5, <1>6, <1>7, <1>8 DEF Next

\* Moving one attempt between two phases outside the registry, or two inside.
LEMMA RegisteredMove ==
  ASSUME TypeOK, NEW a \in Attempts, NEW p \in PCs, pc' = [pc EXCEPT ![a] = p]
  PROVE  /\ p \in {"running", "published", "marked"} => Registered' = Registered \cup {a}
         /\ p \notin {"running", "published", "marked"} => Registered' = Registered \ {a}
BY DEF TypeOK, Registered, At

\* The registry stays equal to the jobs with a body (reserve, release).
LEMMA RegistryStep ==
  ASSUME TypeOK, BufferedIsNew, OneBodyPerJob, [Next]_vars
  PROVE  OneBodyPerJob'
<1> USE AttemptFacts
<1>1. CASE \/ UNCHANGED vars \/ AckStarted \/ ConsumerStops \/ DrainJobs \/ GraceExpired
           \/ CancelGraceExpired \/ DrainReturns \/ StartJobs
           \/ \E m \in Msgs : Deliver(m) \/ AckWaitExpires(m)
           \/ \E j \in Jobs : CmdJobCancel(j) \/ ReportInterrupted(j)
  <2>1. UNCHANGED <<pc, inflight>>
    BY <1>1, Zenon DEF vars, AckStarted, ConsumerStops, DrainJobs, GraceExpired, CancelGraceExpired, DrainReturns,
       StartJobs, Deliver, AckWaitExpires, CmdJobCancel, ReportInterrupted, reg
  <2>2. Registered' = Registered
    BY <2>1, SMTT(60) DEF Registered, At
  <2> QED BY <2>1, <2>2 DEF OneBodyPerJob, Job
<1>2. CASE HandleJob
  <2> DEFINE d == Head(buffer)
  <2>1. d = buffer[1] /\ 1 \in DOMAIN buffer /\ d \in Deliveries
    <3>1. buffer \in Seq(Deliveries) /\ buffer # <<>>
      BY <1>2 DEF HandleJob, TypeOK
    <3> QED BY ONLY <3>1, TailFacts
  <2>2. pc[d] = "new"
    BY <2>1 DEF BufferedIsNew
  <2>3. PICK p \in {"over", "enter"} : pc' = [pc EXCEPT ![d] = p]
    BY <1>2 DEF HandleJob
  <2>4. Registered' = Registered
    <3>1. d \notin Registered
      BY <2>2 DEF Registered, At
    <3>2. Registered' = Registered \ {d}
      <4>1. p \in PCs /\ p \notin {"running", "published", "marked"} /\ d \in Attempts
        BY <2>1 DEF PCs
      <4> QED BY <2>3, <4>1, RegisteredMove, Zenon
    <3> QED BY <3>1, <3>2
  <2>5. inflight' = inflight
    BY <1>2 DEF HandleJob, reg
  <2> QED BY <2>4, <2>5 DEF OneBodyPerJob, Job
<1>3. ASSUME NEW a \in Attempts,
             \/ a[1] \in Fires /\ a = <<a[1], 1>> /\ RunScheduled(a[1])
             \/ a[1] \in Updates /\ a = <<a[1], 1>> /\ CmdAgentUpdate(a[1])
             \/ ReserveCheck(a) \/ TakeSlot(a) \/ WaitAborted(a) \/ ReserveRefuse(a)
             \/ FreeSlot(a)
      PROVE OneBodyPerJob'
  <2>1. pc[a] \in {"new", "enter", "slot", "recheck", "releasing"} /\ inflight' = inflight
    BY <1>3 DEF RunScheduled, CmdAgentUpdate, ReserveCheck, TakeSlot, WaitAborted,
       ReserveRefuse, FreeSlot, reg
  <2>2. PICK p \in {"enter", "slot", "recheck", "over"} : pc' = [pc EXCEPT ![a] = p]
    BY <1>3 DEF RunScheduled, CmdAgentUpdate, ReserveCheck, TakeSlot, WaitAborted,
       ReserveRefuse, FreeSlot, RefuseStopping, RefuseDuplicate
  <2>3. a \notin Registered
    BY <2>1 DEF Registered, At
  <2>4. Registered' = Registered \ {a}
    <3>1. p \in PCs /\ p \notin {"running", "published", "marked"}
      BY DEF PCs
    <3> QED BY <2>2, <3>1, RegisteredMove, Zenon
  <2>5. Registered' = Registered
    BY <2>3, <2>4
  <2> QED BY <2>1, <2>5 DEF OneBodyPerJob, Job
<1>4. ASSUME NEW a \in Attempts, ReserveRegister(a) PROVE OneBodyPerJob'
  <2>1. Registered' = Registered \cup {a}
    BY <1>4, RegisteredMove, Zenon DEF ReserveRegister, PCs
  <2>2. Job(a) \notin inflight /\ inflight' = inflight \cup {Job(a)}
    BY <1>4, SMTT(60) DEF ReserveRegister
  <2> QED BY <2>1, <2>2 DEF OneBodyPerJob, Job
<1>5. ASSUME NEW a \in Attempts, RunJob(a) \/ MarkDone(a) PROVE OneBodyPerJob'
  <2>1. pc[a] \in {"running", "published"} /\ inflight' = inflight
    BY <1>5 DEF RunJob, MarkDone, reg
  <2>2. PICK p \in {"published", "marked"} : pc' = [pc EXCEPT ![a] = p]
    BY <1>5 DEF RunJob, MarkDone
  <2>3. a \in Registered
    BY <2>1 DEF Registered, At
  <2>4. Registered' = Registered \cup {a}
    <3>1. p \in PCs /\ p \in {"running", "published", "marked"}
      BY DEF PCs
    <3> QED BY <2>2, <3>1, RegisteredMove, Zenon
  <2>5. Registered' = Registered
    BY <2>3, <2>4
  <2> QED BY <2>1, <2>5 DEF OneBodyPerJob, Job
<1>6. ASSUME NEW a \in Attempts, Unregister(a) PROVE OneBodyPerJob'
  <2>1. a \in Registered /\ inflight' = inflight \ {Job(a)}
    BY <1>6 DEF Unregister, Registered, At
  <2>2. Registered' = Registered \ {a}
    BY <1>6, RegisteredMove, Zenon DEF Unregister, PCs
  <2>3. \A b \in Registered \ {a} : Job(b) # Job(a)
    BY <2>1 DEF OneBodyPerJob
  <2> QED BY <2>1, <2>2, <2>3 DEF OneBodyPerJob, Job
<1>7. CASE Exit \/ Crash
  <2>1. inflight' = {} /\ Registered' = {}
    BY <1>7 DEF Exit, Crash, Gone, Registered, At
  <2> QED BY <2>1 DEF OneBodyPerJob
<1>8. ASSUME NEW r \in Fires \cup Updates
      PROVE <<r, 1>> \in Attempts /\ <<r, 1>>[1] = r
  OBVIOUS
<1> QED
  BY <1>1, <1>2, <1>3, <1>4, <1>5, <1>6, <1>7, <1>8, ZenonT(60) DEF Next

\* A job id never has two bodies at once and the registry names exactly the
\* jobs with a body, for every interleaving of the three callers of reserve.
THEOREM OneBody == Spec => []OneBodyPerJob
<1>1. Init => TypeOK /\ HoldersBound /\ BufferedIsNew /\ OneBodyPerJob
  <2>1. Init => Registered = {} /\ inflight = {}
    BY DEF Init, Registered, At
  <2> QED BY <2>1, InitTypeOK, InitBuffered DEF OneBodyPerJob
<1>2. TypeOK /\ HoldersBound /\ BufferedIsNew /\ OneBodyPerJob /\ [Next]_vars
      => (TypeOK /\ HoldersBound /\ BufferedIsNew /\ OneBodyPerJob)'
  BY TypeStep, BufferedStep, RegistryStep, SMTT(60)
<1> QED BY <1>1, <1>2, PTL DEF Spec

-----------------------------------------------------------------------------
(* Acknowledged work was started.                                          *)

\* What is registered, remembered as done, or past reserve in the callback has
\* been started.
KnownWasStarted ==
  /\ inflight \subseteq everRan
  /\ Done \subseteq everRan
  /\ callback # NoAttempt =>
       pc[callback] \in {"enter", "slot", "recheck"} \/ Job(callback) \in everRan

\* What the remembered ids are after a job is added to them (markDone).
LEMMA RememberedFacts ==
  ASSUME NEW order \in Seq(Jobs), NEW j \in Jobs
  PROVE  \A i \in DOMAIN Remembered(order, j) :
           Remembered(order, j)[i] = j \/ \E k \in DOMAIN order : Remembered(order, j)[i] = order[k]
<1>1. CASE \E i \in DOMAIN order : order[i] = j
  BY <1>1 DEF Remembered
<1>2. CASE ~\E i \in DOMAIN order : order[i] = j
  <2> DEFINE grown == Append(order, j)
  <2>1. /\ DOMAIN grown = DOMAIN order \cup {Len(order) + 1}
        /\ \A i \in DOMAIN order : grown[i] = order[i]
        /\ grown[Len(order) + 1] = j
    BY AppendFacts
  <2>2. grown \in Seq(Jobs) /\ grown # <<>>
    BY SeqFacts, <2>1
  <2>3. \A i \in DOMAIN Tail(grown) : i + 1 \in DOMAIN grown /\ Tail(grown)[i] = grown[i + 1]
    BY ONLY <2>2, TailFacts
  <2>4. Remembered(order, j) \in {grown, Tail(grown)}
    BY <1>2, SMTT(60) DEF Remembered
  <2> QED BY <2>1, <2>3, <2>4, SMTT(60)
<1> QED BY <1>1, <1>2

\* The ids the process knows are those it has started (reserve, markDone).
LEMMA KnownStep ==
  ASSUME TypeOK, OneBodyPerJob, KnownWasStarted, [Next]_vars
  PROVE  KnownWasStarted'
<1> USE AttemptFacts
<1>1. CASE \/ UNCHANGED vars \/ ConsumerStops \/ DrainJobs \/ GraceExpired \/ CancelGraceExpired
           \/ DrainReturns \/ StartJobs
           \/ \E m \in Msgs : Deliver(m) \/ AckWaitExpires(m)
           \/ \E j \in Jobs : CmdJobCancel(j) \/ ReportInterrupted(j)
  <2>1. UNCHANGED <<inflight, doneOrder, everRan, callback, pc>>
    BY <1>1, Zenon DEF vars, ConsumerStops, DrainJobs, GraceExpired, CancelGraceExpired, DrainReturns, StartJobs,
       Deliver, AckWaitExpires, CmdJobCancel, ReportInterrupted, reg, hist
  <2> QED BY ONLY KnownWasStarted, <2>1, Zenon DEF KnownWasStarted, Done, Job
<1>2. CASE AckStarted
  BY <1>2, Zenon DEF AckStarted, KnownWasStarted, Done, reg, hist
<1>3. CASE HandleJob
  <2>1. UNCHANGED <<inflight, doneOrder, everRan>>
    BY <1>3 DEF HandleJob, reg, hist
  <2>2. callback' # NoAttempt => pc'[callback'] = "enter"
    <3>1. Head(buffer) \in Deliveries
      BY <1>3 DEF HandleJob, TypeOK
    <3> QED BY <1>3, <3>1 DEF HandleJob, TypeOK
  <2> QED BY <2>1, <2>2 DEF KnownWasStarted, Done
<1>4. ASSUME NEW a \in Attempts, NEW p \in PCs,
             pc' = [pc EXCEPT ![a] = p],
             p \in {"enter", "slot", "recheck"} \/ Job(a) \in everRan',
             callback' \in {callback, NoAttempt},
             inflight' \subseteq everRan', Done' \subseteq everRan', everRan \subseteq everRan'
      PROVE KnownWasStarted'
  <2>1. CASE callback' = NoAttempt
    BY <1>4, <2>1, SMTT(60) DEF KnownWasStarted
  <2>2. CASE callback' = callback /\ callback # NoAttempt
    <3>1. callback \in Attempts
      BY <2>2 DEF TypeOK
    <3>2. Job(callback)' = Job(callback)
      BY <2>2 DEF Job
    <3> QED BY <1>4, <2>2, <3>1, <3>2 DEF KnownWasStarted, TypeOK
  <2> QED BY <1>4, <2>1, <2>2
<1>5. ASSUME NEW r \in Fires \cup Updates, RunScheduled(r) \/ CmdAgentUpdate(r)
      PROVE KnownWasStarted'
  <2>1. <<r, 1>> \in Attempts /\ pc' = [pc EXCEPT ![<<r, 1>>] = "enter"]
    BY <1>5 DEF RunScheduled, CmdAgentUpdate
  <2>2. UNCHANGED <<inflight, doneOrder, everRan, callback>>
    BY <1>5 DEF RunScheduled, CmdAgentUpdate, reg, hist
  <2>3. Done' = Done
    BY <2>2 DEF Done
  <2>4. "enter" \in PCs
    BY DEF PCs
  <2> QED BY <2>1, <2>2, <2>3, <2>4, <1>4 DEF KnownWasStarted
<1>6. ASSUME NEW a \in Attempts, ReserveCheck(a) \/ TakeSlot(a) \/ WaitAborted(a) \/ ReserveRefuse(a)
      PROVE KnownWasStarted'
  <2>1. UNCHANGED <<inflight, doneOrder, everRan>> /\ callback' \in {callback, NoAttempt}
    BY <1>6 DEF ReserveCheck, TakeSlot, WaitAborted, ReserveRefuse, RefuseStopping,
       RefuseDuplicate, reg, hist
  <2>2. Done' = Done
    BY <2>1 DEF Done
  <2>3. CASE pc' = [pc EXCEPT ![a] = "slot"] \/ pc' = [pc EXCEPT ![a] = "recheck"]
    <3>1. {"slot", "recheck"} \subseteq PCs
      BY DEF PCs
    <3> QED BY <2>1, <2>2, <2>3, <3>1, <1>4 DEF KnownWasStarted
  <2>4. CASE pc' = [pc EXCEPT ![a] = "over"] /\ (a \in Deliveries => callback' = NoAttempt)
    <3>1. CASE callback' = NoAttempt
      BY <2>1, <2>2, <3>1, SMTT(60) DEF KnownWasStarted
    <3>2. CASE callback' # NoAttempt
      <4>1. callback' = callback /\ callback \in Deliveries /\ a \notin Deliveries
        BY <2>1, <2>4, <3>2 DEF TypeOK
      <4>2. pc'[callback] = pc[callback]
        BY <2>4, <4>1 DEF TypeOK
      <4>3. Job(callback)' = Job(callback)
        BY <4>1 DEF Job
      <4> QED BY <2>1, <2>2, <3>2, <4>1, <4>2, <4>3, SMTT(60) DEF KnownWasStarted
    <3> QED BY <3>1, <3>2
  <2> QED
    BY <1>6, <2>3, <2>4 DEF ReserveCheck, TakeSlot, WaitAborted, ReserveRefuse,
       RefuseStopping, RefuseDuplicate
<1>7. ASSUME NEW a \in Attempts, ReserveRegister(a) PROVE KnownWasStarted'
  <2>1. /\ pc' = [pc EXCEPT ![a] = "running"] /\ callback' = callback /\ Done' = Done
        /\ inflight' = inflight \cup {Job(a)} /\ everRan' = everRan \cup {Job(a)}
    BY <1>7 DEF ReserveRegister, Done
  <2>2. "running" \in PCs
    BY DEF PCs
  <2> QED BY <2>1, <2>2, <1>4, SMTT(60) DEF KnownWasStarted
<1>8. ASSUME NEW a \in Attempts, RunJob(a) \/ MarkDone(a) \/ Unregister(a)
      PROVE KnownWasStarted'
  <2>1. a \in Registered
    BY <1>8 DEF RunJob, MarkDone, Unregister, Registered, At
  <2>2. Job(a) \in everRan
    BY <2>1, SMTT(60) DEF OneBodyPerJob, KnownWasStarted
  <2>3. everRan' = everRan /\ callback' = callback /\ inflight' \subseteq inflight
    BY <1>8 DEF RunJob, MarkDone, Unregister, reg, hist
  <2>4. Done' \subseteq Done \cup {Job(a)}
    <3>1. CASE MarkDone(a)
      <4>1. doneOrder' = Remembered(doneOrder, Job(a)) /\ doneOrder \in Seq(Jobs)
        BY ONLY TypeOK, <3>1, Zenon DEF MarkDone, TypeOK
      <4>2. \A i \in DOMAIN doneOrder' :
              doneOrder'[i] = Job(a) \/ \E k \in DOMAIN doneOrder : doneOrder'[i] = doneOrder[k]
        BY <4>1, RememberedFacts, Zenon
      <4> QED BY <4>2 DEF Done
    <3>2. CASE RunJob(a) \/ Unregister(a)
      <4>1. doneOrder' = doneOrder
        BY ONLY <3>2, ZenonT(60) DEF RunJob, Unregister, reg
      <4> QED BY ONLY <4>1, Zenon DEF Done
    <3> QED BY <1>8, <3>1, <3>2
  <2>5. PICK p \in PCs : pc' = [pc EXCEPT ![a] = p]
    BY <1>8, SMTT(60) DEF RunJob, MarkDone, Unregister, PCs
  <2>6. inflight' \subseteq everRan' /\ Done' \subseteq everRan'
    BY <2>2, <2>3, <2>4 DEF KnownWasStarted
  <2> QED BY <2>2, <2>3, <2>5, <2>6, <1>4, Zenon
<1>9. ASSUME NEW a \in Attempts, FreeSlot(a) PROVE KnownWasStarted'
  <2>1. /\ pc[a] = "releasing" /\ pc' = [pc EXCEPT ![a] = "over"] /\ Done' = Done
        /\ UNCHANGED <<inflight, everRan, callback>>
    BY <1>9, Zenon DEF FreeSlot, Done, hist
  <2>2. CASE callback # NoAttempt
    <3>1. callback \in Attempts /\ Job(callback)' = Job(callback)
      BY <2>1, <2>2 DEF TypeOK, Job
    <3>2. callback = a => Job(callback) \in everRan
      BY <2>1, <2>2 DEF KnownWasStarted
    <3> QED BY <2>1, <2>2, <3>1, <3>2, SMTT(60) DEF KnownWasStarted, TypeOK
  <2>3. CASE callback = NoAttempt
    BY <2>1, <2>3, SMTT(60) DEF KnownWasStarted
  <2> QED BY <2>2, <2>3, SMTT(60)
<1>10. CASE Exit \/ Crash
  BY <1>10 DEF Exit, Crash, Gone, KnownWasStarted, Done
<1> QED
  BY <1>1, <1>2, <1>3, <1>5, <1>6, <1>7, <1>8, <1>9, <1>10, SMTT(60) DEF Next

\* No step acknowledges a delivery whose job has not been started (handleJob).
LEMMA AckStep ==
  ASSUME TypeOK, KnownWasStarted, AckedWasStarted, [Next]_vars
  PROVE  AckedWasStarted'
<1> USE AttemptFacts
<1>1. ASSUME everRan \subseteq everRan',
             \A m \in Msgs \ Poison : stream'[m] = "acked" => stream[m] = "acked"
      PROVE AckedWasStarted'
  BY <1>1, SMTT(60) DEF AckedWasStarted
<1>2. ASSUME NEW m \in Msgs, Ack(m), m \in Poison \/ JobOf[m] \in everRan,
             everRan' = everRan
      PROVE AckedWasStarted'
  BY <1>2, SMTT(60) DEF AckedWasStarted, Ack, TypeOK
<1>3. ASSUME NEW m \in Msgs, Nak(m), everRan' = everRan
      PROVE AckedWasStarted'
  BY <1>3, <1>1 DEF Nak, Returned, TypeOK
<1>4. CASE \/ UNCHANGED vars \/ ConsumerStops \/ DrainJobs \/ GraceExpired \/ CancelGraceExpired
           \/ DrainReturns \/ StartJobs \/ Exit \/ Crash
           \/ \E j \in Jobs : CmdJobCancel(j) \/ ReportInterrupted(j)
           \/ \E f \in Fires : RunScheduled(f)
           \/ \E u \in Updates : CmdAgentUpdate(u)
           \/ \E a \in Attempts : \/ TakeSlot(a) \/ ReserveRegister(a) \/ RunJob(a)
                                 \/ MarkDone(a) \/ Unregister(a) \/ FreeSlot(a)
  <2>1. stream' = stream /\ everRan \subseteq everRan'
    BY <1>4, ZenonT(60) DEF vars, js, hist, ConsumerStops, DrainJobs, GraceExpired, CancelGraceExpired, DrainReturns,
       StartJobs, Exit, Crash, CmdJobCancel, ReportInterrupted, RunScheduled, CmdAgentUpdate,
       TakeSlot, ReserveRegister, RunJob, MarkDone, Unregister, FreeSlot
  <2> QED BY <2>1, <1>1, SMTT(60)
<1>5. ASSUME NEW m \in Msgs, Deliver(m) \/ AckWaitExpires(m)
      PROVE AckedWasStarted'
  BY <1>5, <1>1 DEF Deliver, AckWaitExpires, Returned, hist, TypeOK
<1>6. CASE HandleJob
  <2>1. Head(buffer) \in Deliveries
    BY <1>6 DEF HandleJob, TypeOK
  <2>2. everRan' = everRan
    BY <1>6 DEF HandleJob, hist
  <2>3. CASE Head(buffer)[1] \in Poison
    BY <1>6, <2>1, <2>2, <2>3, <1>2, SMTT(60) DEF HandleJob
  <2>4. CASE Head(buffer)[1] \notin Poison
    BY <1>6, <2>2, <2>4, <1>1, SMTT(60) DEF HandleJob
  <2> QED BY <2>3, <2>4, SMTT(60)
<1>7. CASE AckStarted
  <2>1. callback \in Deliveries /\ Ack(callback[1]) /\ everRan' = everRan
    BY <1>7, SMTT(60) DEF AckStarted, TypeOK, hist
  <2>2. JobOf[callback[1]] \in everRan
    BY <1>7 DEF AckStarted, KnownWasStarted, Job
  <2> QED BY <2>1, <2>2, <1>2, SMTT(60)
<1>8. ASSUME NEW a \in Attempts, ReserveCheck(a) \/ WaitAborted(a) \/ ReserveRefuse(a)
      PROVE AckedWasStarted'
  <2>1. everRan' = everRan
    BY <1>8 DEF ReserveCheck, WaitAborted, ReserveRefuse, hist
  <2>2. CASE RefuseStopping(a)
    BY <2>1, <2>2, <1>1, <1>3, SMTT(60) DEF RefuseStopping
  <2>3. CASE RefuseDuplicate(a) /\ Job(a) \in inflight \cup Done
    BY <2>1, <2>3, <1>1, <1>2 DEF RefuseDuplicate, KnownWasStarted, Job
  <2>4. CASE stream' = stream
    BY <2>1, <2>4, <1>1
  <2> QED
    BY <1>8, <2>2, <2>3, <2>4 DEF ReserveCheck, WaitAborted, ReserveRefuse
<1> QED
  BY <1>4, <1>5, <1>6, <1>7, <1>8, SMTT(60) DEF Next

\* Whatever the redeliveries, refusals, lost acknowledgements, shutdowns and
\* crashes, handleJob never lets a decodable message go for good before its job
\* has been started.
THEOREM AckedStarted == Spec => []AckedWasStarted
<1>1. Init => KnownWasStarted /\ AckedWasStarted
  BY DEF Init, KnownWasStarted, AckedWasStarted, Done
<1>2. /\ TypeOK /\ OneBodyPerJob /\ KnownWasStarted /\ AckedWasStarted /\ [Next]_vars
      => KnownWasStarted' /\ AckedWasStarted'
  BY KnownStep, AckStep, SMTT(60)
<1> QED
  BY <1>1, <1>2, TypeCorrect, OneBody, PTL DEF Spec

-----------------------------------------------------------------------------
(* After drainJobs every started job has a terminal result.                *)

\* A started job without a result still runs; and once RunningJobs has been
\* read, it is among the jobs to report.
UnreportedIsRunning ==
  /\ Alive => \A j \in Jobs :
       starts[j] > 0 /\ results[j] = <<>> => j \in {Job(a) : a \in At({"running"})}
  /\ life = "reporting" => \A j \in Jobs :
       starts[j] > 0 /\ results[j] = <<>> => j \in toReport

\* RunningJobs is read under OneBodyPerJob, so the registry it reads holds every
\* job that has no result yet, and drainJobs has already refused new ones.
LEMMA ReportStep ==
  ASSUME TypeOK, BufferedIsNew, OneBodyPerJob, UnreportedIsRunning, DrainedIsReported,
         [Next]_vars
  PROVE  UnreportedIsRunning' /\ DrainedIsReported'
<1> USE AttemptFacts
<1> DEFINE Running == {Job(a) : a \in At({"running"})}
<1>0. \A j \in Jobs, r \in {"own", "interrupted"} : Append(results[j], r) # <<>>
  <2>1. \A s \in Seq({"own", "interrupted"}), r \in {"own", "interrupted"} : Append(s, r) # <<>>
    OBVIOUS
  <2> QED BY <2>1, ZenonT(60) DEF TypeOK
<1>1. ASSUME UNCHANGED <<starts, results>>, Running \subseteq Running',
             life' = life /\ toReport' = toReport
      PROVE UnreportedIsRunning' /\ DrainedIsReported'
  BY <1>1, Zenon DEF UnreportedIsRunning, DrainedIsReported, Alive
<1>a. ASSUME starts' = starts, life' = life,
             \A j \in Jobs : results'[j] = <<>> =>
               /\ results[j] = <<>>
               /\ j \in Running => j \in Running'
               /\ j \in toReport => j \in toReport'
      PROVE UnreportedIsRunning' /\ DrainedIsReported'
  BY ONLY <1>a, UnreportedIsRunning, DrainedIsReported, Zenon
     DEF UnreportedIsRunning, DrainedIsReported, Alive
<1>2. CASE \/ UNCHANGED vars
           \/ \E m \in Msgs : Deliver(m) \/ AckWaitExpires(m)
           \/ \E j \in Jobs : CmdJobCancel(j)
           \/ ConsumerStops \/ AckStarted
  <2>1. UNCHANGED <<starts, results, pc, life, toReport>>
    BY <1>2, Zenon DEF vars, Deliver, AckWaitExpires, CmdJobCancel, ConsumerStops,
       AckStarted, hist, stop
  <2> QED BY <2>1, <1>1, ZenonT(60) DEF At, Job
<1>3. ASSUME NEW a \in Attempts, NEW p \in PCs, pc' = [pc EXCEPT ![a] = p], pc[a] # "running",
             UNCHANGED <<starts, results, life, toReport>>
      PROVE UnreportedIsRunning' /\ DrainedIsReported'
  <2>1. Running \subseteq Running'
    BY <1>3, Zenon DEF At, Job, TypeOK
  <2> QED BY <2>1, <1>3, <1>1, SMTT(60)
<1>4. CASE HandleJob
  <2> DEFINE d == Head(buffer)
  <2>1. d \in Deliveries /\ d = buffer[1] /\ 1 \in DOMAIN buffer
    <3>1. buffer # <<>> /\ buffer \in Seq(Deliveries)
      BY <1>4, Zenon DEF HandleJob, TypeOK
    <3> QED BY ONLY <3>1, TailFacts, SMTT(60)
  <2>2. pc[d] = "new"
    BY <2>1 DEF BufferedIsNew
  <2>3. PICK p \in PCs : pc' = [pc EXCEPT ![d] = p]
    BY <1>4 DEF HandleJob, PCs
  <2>4. UNCHANGED <<starts, results, life, toReport>>
    BY <1>4 DEF HandleJob, hist, stop
  <2>5. pc[d] # "running" /\ d \in Attempts
    BY <2>1, <2>2
  <2> HIDE DEF d
  <2> QED BY <2>3, <2>4, <2>5, <1>3, Zenon
<1>5. ASSUME NEW r \in Fires \cup Updates, RunScheduled(r) \/ CmdAgentUpdate(r)
      PROVE UnreportedIsRunning' /\ DrainedIsReported'
  <2> DEFINE a == <<r, 1>>
  <2>1. a \in Attempts /\ pc[a] # "running" /\ "enter" \in PCs
    BY <1>5, SMTT(60) DEF RunScheduled, CmdAgentUpdate, PCs
  <2>2. pc' = [pc EXCEPT ![a] = "enter"] /\ UNCHANGED <<starts, results, life, toReport>>
    BY <1>5 DEF RunScheduled, CmdAgentUpdate, hist, stop
  <2> HIDE DEF a
  <2> QED BY <2>1, <2>2, <1>3, Zenon
<1>6. ASSUME NEW a \in Attempts,
             \/ ReserveCheck(a) \/ TakeSlot(a) \/ WaitAborted(a) \/ ReserveRefuse(a)
             \/ MarkDone(a) \/ Unregister(a) \/ FreeSlot(a)
      PROVE UnreportedIsRunning' /\ DrainedIsReported'
  <2>1. pc[a] # "running"
    BY <1>6 DEF ReserveCheck, TakeSlot, WaitAborted, ReserveRefuse, MarkDone, Unregister, FreeSlot
  <2>2. UNCHANGED <<starts, results, life, toReport>>
    BY <1>6 DEF ReserveCheck, TakeSlot, WaitAborted, ReserveRefuse, MarkDone, Unregister,
       FreeSlot, hist, stop
  <2>3. PICK p \in PCs : pc' = [pc EXCEPT ![a] = p]
    BY <1>6 DEF ReserveCheck, TakeSlot, WaitAborted, ReserveRefuse, MarkDone, Unregister,
       FreeSlot, RefuseStopping, RefuseDuplicate, PCs
  <2> QED BY <2>1, <2>2, <2>3, <1>3, Zenon
<1>7. ASSUME NEW a \in Attempts, ReserveRegister(a)
      PROVE UnreportedIsRunning' /\ DrainedIsReported'
  <2>1. /\ ~Stopping /\ pc[a] = "recheck" /\ pc' = [pc EXCEPT ![a] = "running"]
        /\ starts' = [starts EXCEPT ![Job(a)] = @ + 1]
        /\ UNCHANGED <<results, life, toReport>>
    BY <1>7, SMTT(60) DEF ReserveRegister, stop
  <2>2. Running \cup {Job(a)} \subseteq Running'
    <3>1. pc'[a] = "running" /\ \A b \in Attempts : b # a => pc'[b] = pc[b]
      BY ONLY TypeOK, a \in Attempts, <2>1 DEF TypeOK
    <3> QED BY <3>1, Zenon DEF At, Job
  <2>3. \A j \in Jobs : j # Job(a) => starts'[j] = starts[j]
    BY ONLY TypeOK, <2>1 DEF TypeOK
  <2> QED BY <2>1, <2>2, <2>3, ZenonT(60) DEF UnreportedIsRunning, DrainedIsReported, Stopping, Alive
<1>8. ASSUME NEW a \in Attempts, RunJob(a)
      PROVE UnreportedIsRunning' /\ DrainedIsReported'
  <2>1. /\ pc[a] = "running" /\ pc' = [pc EXCEPT ![a] = "published"]
        /\ results' = [results EXCEPT ![Job(a)] = Append(@, "own")]
        /\ UNCHANGED <<starts, life, toReport>>
    BY <1>8, SMTT(60) DEF RunJob, stop
  <2>2. Running \ {Job(a)} \subseteq Running'
    <3>1. \A b \in Attempts : b # a => pc'[b] = pc[b]
      BY <2>1 DEF TypeOK
    <3> QED BY <3>1, Zenon DEF At
  <2>3. \A j \in Jobs : results'[j] = <<>> => j # Job(a) /\ results[j] = <<>>
    BY <2>1, <1>0, ZenonT(60) DEF TypeOK
  <2> QED BY ONLY <2>1, <2>2, <2>3, <1>a, Zenon
<1>9. ASSUME NEW j \in Jobs, ReportInterrupted(j)
      PROVE UnreportedIsRunning' /\ DrainedIsReported'
  <2>1. /\ results' = [results EXCEPT ![j] = Append(@, "interrupted")]
        /\ toReport' = toReport \ {j}
        /\ UNCHANGED <<starts, life, pc>>
    BY <1>9 DEF ReportInterrupted
  <2>2. Running' = Running
    BY <2>1, ZenonT(60) DEF At, Job
  <2>3. \A k \in Jobs : results'[k] = <<>> => k # j /\ results[k] = <<>>
    BY <2>1, <1>0, ZenonT(60) DEF TypeOK
  <2> QED BY ONLY <2>1, <2>2, <2>3, <1>a, Zenon
<1>10. CASE DrainJobs \/ GraceExpired \/ CancelGraceExpired \/ DrainReturns
  <2>1. UNCHANGED <<starts, results, pc>> /\ Alive /\ life' # life
    BY ONLY <1>10, SMTT(60) DEF DrainJobs, GraceExpired, CancelGraceExpired, DrainReturns, hist,
       Alive, Stopping
  <2>2. Running' = Running /\ Running \subseteq inflight
    <3>1. Running' = Running
      BY <2>1, Zenon DEF At, Job
    <3>2. At({"running"}) \subseteq Registered
      BY Zenon DEF At, Registered
    <3>3. Running \subseteq inflight
      BY <3>2, Zenon DEF OneBodyPerJob
    <3> QED BY <3>1, <3>3
  <2>3. life' = "reporting" => toReport' = inflight
    BY ONLY <1>10, SMTT(60) DEF DrainJobs, GraceExpired, CancelGraceExpired, DrainReturns
  <2>4. life' = "drained" => Running = {} \/ (life = "reporting" /\ toReport = {})
    <3>1. life' = "drained" => WaitGroup = {} \/ (life = "reporting" /\ toReport = {})
      BY ONLY <1>10 DEF DrainJobs, GraceExpired, CancelGraceExpired, DrainReturns
    <3>2. At({"running"}) \subseteq WaitGroup
      BY ONLY Zenon DEF At, WaitGroup
    <3> QED BY ONLY <3>1, <3>2, Zenon
  <2>5. \A j \in Jobs : starts'[j] > 0 /\ results'[j] = <<>> => j \in Running
    BY ONLY UnreportedIsRunning, <2>1, Zenon DEF UnreportedIsRunning
  <2>6. UnreportedIsRunning'
    BY ONLY <2>2, <2>3, <2>5, Zenon DEF UnreportedIsRunning
  <2>7. DrainedIsReported'
    BY ONLY UnreportedIsRunning, <2>1, <2>4, <2>5, Zenon DEF UnreportedIsRunning, DrainedIsReported
  <2> QED BY ONLY <2>6, <2>7
<1>11. CASE Exit \/ Crash
  <2>1. life' = "down"
    BY ONLY <1>11 DEF Exit, Crash, Gone
  <2> QED BY ONLY <2>1 DEF UnreportedIsRunning, DrainedIsReported, Alive
<1>12. CASE StartJobs
  <2>1. life' = "up" /\ \A j \in Jobs : ~(starts'[j] > 0)
    BY ONLY <1>12 DEF StartJobs
  <2> QED BY ONLY <2>1 DEF UnreportedIsRunning, DrainedIsReported
<1> QED
  BY ONLY [Next]_vars, <1>2, <1>4, <1>5, <1>6, <1>7, <1>8, <1>9, <1>10, <1>11, <1>12, SMTT(60) DEF Next

\* When drainJobs returns, every job of this process has a terminal result, even
\* the ones that never ended.
THEOREM DrainReports == Spec => []DrainedIsReported
<1>1. Init => UnreportedIsRunning /\ DrainedIsReported
  BY DEF Init, UnreportedIsRunning, DrainedIsReported
<1>2. /\ TypeOK /\ BufferedIsNew /\ OneBodyPerJob /\ UnreportedIsRunning /\ DrainedIsReported
      /\ [Next]_vars
      => UnreportedIsRunning' /\ DrainedIsReported'
  BY ReportStep
<1>3. TypeOK /\ BufferedIsNew /\ [Next]_vars => BufferedIsNew'
  BY BufferedStep
<1> QED
  BY <1>1, <1>2, <1>3, InitBuffered, TypeCorrect, OneBody, PTL DEF Spec

-----------------------------------------------------------------------------
(* Once in a process life.                                                 *)

MsgJobs == {JobOf[m] : m \in Msgs}

\* The recently-done set has room for every job of the stream, and no firing or
\* command carries the id of one of them.  Beyond that markDone forgets the oldest
\* id, and a copy of its message that is still on the way starts the job again.
MemorySuffices ==
  /\ IsFiniteSet(MsgJobs) /\ Cardinality(MsgJobs) <= RecentlyDoneCap
  /\ \A r \in Fires \cup Updates : JobOf[r] \notin MsgJobs

\* The ids of a sequence, and that each is of the stream and there once.
IdsOf(order) == {order[i] : i \in DOMAIN order}
OnceEach(order) ==
  /\ \A i \in DOMAIN order : order[i] \in MsgJobs
  /\ \A i, k \in DOMAIN order : order[i] = order[k] => i = k

\* A job of the stream that was started in this life is registered or remembered as
\* done: it is remembered before it leaves the registry, and each id only once, so
\* the set never has to drop one.
StartedIsKnown ==
  /\ life = "down" => \A a \in Attempts : pc[a] \in {"new", "over"}
  /\ Alive => \A j \in MsgJobs : starts[j] > 0 => j \in inflight \cup Done
  /\ \A a \in Attempts : pc[a] = "marked" => a \in Deliveries /\ Job(a) \in Done
  /\ OnceEach(doneOrder)

\* An id is added to the remembered ones at most once, and none is dropped while
\* there is room for all of them (markDone).
LEMMA RememberedKeeps ==
  ASSUME MemorySuffices, NEW order \in Seq(Jobs), NEW j \in MsgJobs, j \in Jobs,
         OnceEach(order)
  PROVE  /\ IdsOf(Remembered(order, j)) = IdsOf(order) \cup {j}
         /\ OnceEach(Remembered(order, j))
<1>1. CASE \E i \in DOMAIN order : order[i] = j
  <2>1. Remembered(order, j) = order
    BY <1>1 DEF Remembered
  <2> QED BY <1>1, <2>1 DEF IdsOf
<1>2. CASE ~\E i \in DOMAIN order : order[i] = j
  <2> DEFINE grown == Append(order, j)
             n == Len(order) + 1
  <2>1. /\ DOMAIN grown = DOMAIN order \cup {n}
        /\ \A i \in DOMAIN order : i \in Nat /\ i < n /\ grown[i] = order[i]
        /\ grown[n] = j /\ Len(order) \in Nat
    BY AppendFacts
  <2>2. DOMAIN grown = 1..n /\ Len(grown) = n /\ n \in Nat
    <3>1. order \in Seq(Jobs) /\ j \in Jobs
      OBVIOUS
    <3> QED BY ONLY <3>1
  <2>3. \A i, k \in DOMAIN grown : grown[i] = grown[k] => i = k
    <3> HIDE DEF grown, n
    <3> QED BY <1>2, <2>1 DEF OnceEach
  <2>4. \A i \in DOMAIN grown : grown[i] \in MsgJobs
    <3> HIDE DEF grown, n
    <3> QED BY <2>1 DEF OnceEach
  <2>5. n <= RecentlyDoneCap
    <3>1. IsFiniteSet(1..n) /\ Cardinality(1..n) = n
      <4> HIDE DEF n
      <4> QED BY <2>2, <2>1, FS_Interval
    <3>2. Cardinality(MsgJobs) \in Nat
      BY FS_CardinalityType DEF MemorySuffices
    <3>3. ASSUME Cardinality(MsgJobs) < n PROVE FALSE
      <4> DEFINE f == [i \in 1..n |-> grown[i]]
      <4>1. f \in [1..n -> MsgJobs]
        BY <2>2, <2>4
      <4>2. \E x, y \in 1..n : x # y /\ f[x] = f[y]
        <5> HIDE DEF f, n
        <5>1. IsFiniteSet(MsgJobs)
          BY DEF MemorySuffices
        <5>2. Cardinality(MsgJobs) < Cardinality(1..n)
          BY <3>1, <3>3
        <5> QED BY ONLY <3>1, <4>1, <5>1, <5>2, FS_PigeonHole, Zenon
      <4> QED BY <2>2, <2>3, <4>2
    <3> QED BY <2>2, <3>2, <3>3, BoundsAssumption DEF MemorySuffices
  <2>6. Remembered(order, j) = grown
    BY <1>2, <2>2, <2>5, BoundsAssumption DEF Remembered
  <2>7. {grown[i] : i \in DOMAIN grown} = {order[i] : i \in DOMAIN order} \cup {j}
    <3> HIDE DEF grown, n
    <3> QED BY <2>1
  <2> HIDE DEF grown
  <2>8. OnceEach(grown)
    BY <2>3, <2>4, Zenon DEF OnceEach
  <2>9. IdsOf(grown) = IdsOf(order) \cup {j}
    BY ONLY <2>7 DEF IdsOf
  <2> QED BY ONLY <2>6, <2>8, <2>9
<1> QED BY <1>1, <1>2, Zenon

\* A started job of the stream stays known, through every step.
LEMMA KnownOnceStep ==
  ASSUME MemorySuffices, TypeOK, BufferedIsNew, StartedIsKnown, StartedOncePerLife, [Next]_vars
  PROVE  StartedIsKnown' /\ StartedOncePerLife'
<1> USE AttemptFacts
<1>0. \A m \in Msgs : JobOf[m] \in MsgJobs
  BY DEF MsgJobs
<1>j. MsgJobs \subseteq Jobs
  BY RequestsAssumption DEF MsgJobs, Requests
<1>d. \A d \in Deliveries : Job(d) \in MsgJobs
  BY DEF MsgJobs, Job
<1>o. \A a \in Attempts \ Deliveries : Job(a) \notin MsgJobs
  BY DEF MemorySuffices, Attempts, Deliveries, Requests, Job
<1>1. CASE \/ UNCHANGED vars \/ AckStarted \/ ConsumerStops \/ DrainJobs \/ GraceExpired
           \/ CancelGraceExpired \/ DrainReturns
           \/ \E m \in Msgs : Deliver(m) \/ AckWaitExpires(m)
           \/ \E j \in Jobs : CmdJobCancel(j) \/ ReportInterrupted(j)
  <2>1. UNCHANGED <<starts, inflight, doneOrder, pc>>
    BY <1>1, Zenon DEF vars, AckStarted, ConsumerStops, DrainJobs, GraceExpired,
       CancelGraceExpired, DrainReturns, Deliver, AckWaitExpires, CmdJobCancel,
       ReportInterrupted, reg, hist
  <2>2. life' = "down" <=> life = "down"
    BY <1>1, Zenon DEF vars, AckStarted, ConsumerStops, DrainJobs, GraceExpired,
       CancelGraceExpired, DrainReturns, Deliver, AckWaitExpires, CmdJobCancel,
       ReportInterrupted, stop
  <2> QED BY <2>1, <2>2, Zenon DEF StartedIsKnown, StartedOncePerLife, Alive, Done, Job
<1>2. ASSUME NEW a \in Attempts, NEW p \in PCs \ {"marked"}, pc' = [pc EXCEPT ![a] = p],
             life' = life, life # "down", UNCHANGED <<starts, inflight, doneOrder>>
      PROVE  StartedIsKnown' /\ StartedOncePerLife'
  <2>1. \A b \in Attempts : pc'[b] = "marked" => pc[b] = "marked"
    BY <1>2 DEF TypeOK
  <2> QED BY <1>2, <2>1, Zenon DEF StartedIsKnown, StartedOncePerLife, Alive, Done, Job
<1>3. CASE HandleJob
  <2>1. Head(buffer) \in Deliveries
    BY <1>3 DEF HandleJob, TypeOK
  <2>2. \E p \in {"over", "enter"} : pc' = [pc EXCEPT ![Head(buffer)] = p]
    BY <1>3 DEF HandleJob
  <2>3. life' = life /\ life # "down" /\ UNCHANGED <<starts, inflight, doneOrder>>
    BY <1>3 DEF HandleJob, reg, stop, hist
  <2> QED BY <1>2, <2>1, <2>2, <2>3, Zenon DEF PCs
<1>4. ASSUME NEW r \in Fires \cup Updates, RunScheduled(r) \/ CmdAgentUpdate(r)
      PROVE  StartedIsKnown' /\ StartedOncePerLife'
  <2>1. /\ <<r, 1>> \in Attempts /\ pc' = [pc EXCEPT ![<<r, 1>>] = "enter"]
        /\ life' = life /\ life # "down" /\ UNCHANGED <<starts, inflight, doneOrder>>
    BY <1>4 DEF RunScheduled, CmdAgentUpdate, Alive, reg, stop, hist
  <2> QED BY <1>2, <2>1, Zenon DEF PCs
<1>5. ASSUME NEW a \in Attempts,
             \/ ReserveCheck(a) \/ TakeSlot(a) \/ WaitAborted(a) \/ ReserveRefuse(a)
             \/ RunJob(a) \/ FreeSlot(a)
      PROVE  StartedIsKnown' /\ StartedOncePerLife'
  <2>1. pc[a] \notin {"new", "over"} /\ life' = life /\ UNCHANGED <<starts, inflight, doneOrder>>
    BY <1>5 DEF ReserveCheck, TakeSlot, WaitAborted, ReserveRefuse, RunJob, FreeSlot, reg,
       stop, hist
  <2>2. \E p \in PCs \ {"marked"} : pc' = [pc EXCEPT ![a] = p]
    BY <1>5 DEF ReserveCheck, TakeSlot, WaitAborted, ReserveRefuse, RunJob, FreeSlot,
       RefuseStopping, RefuseDuplicate, PCs
  <2>3. life # "down"
    BY <2>1 DEF StartedIsKnown
  <2> QED BY <1>2, <2>1, <2>2, <2>3, Zenon
<1>6. ASSUME NEW a \in Attempts, ReserveRegister(a)
      PROVE  StartedIsKnown' /\ StartedOncePerLife'
  <2>1. /\ pc[a] = "recheck" /\ pc' = [pc EXCEPT ![a] = "running"] /\ life' = life
        /\ Job(a) \notin inflight /\ Job(a) \notin Done
        /\ inflight' = inflight \cup {Job(a)} /\ doneOrder' = doneOrder
        /\ starts' = [starts EXCEPT ![Job(a)] = @ + 1]
    BY <1>6 DEF ReserveRegister, stop
  <2>2. life # "down"
    BY <2>1 DEF StartedIsKnown
  <2>3. \A j \in MsgJobs : starts'[j] = IF j = Job(a) THEN starts[j] + 1 ELSE starts[j]
    BY <2>1, <1>j DEF TypeOK
  <2>4. \A j \in MsgJobs : starts[j] \in Nat /\ (j = Job(a) => starts[j] = 0)
    BY <2>1, <2>2, <1>j DEF StartedIsKnown, Alive, TypeOK
  <2>5. StartedOncePerLife'
    BY <1>0, <2>3, <2>4 DEF StartedOncePerLife
  <2>6. \A b \in Attempts : pc'[b] = "marked" => pc[b] = "marked"
    BY <2>1 DEF TypeOK
  <2>7. \A j \in MsgJobs : starts'[j] > 0 => j \in inflight' \cup Done
    BY <2>1, <2>2, <2>3 DEF StartedIsKnown, Alive
  <2>8. Done' = Done
    BY <2>1 DEF Done
  <2> QED BY <2>1, <2>2, <2>5, <2>6, <2>7, <2>8, Zenon DEF StartedIsKnown, Alive, Job
<1>7. ASSUME NEW a \in Attempts, MarkDone(a)
      PROVE  StartedIsKnown' /\ StartedOncePerLife'
  <2>1. /\ pc[a] = "published" /\ a \in Deliveries /\ pc' = [pc EXCEPT ![a] = "marked"]
        /\ doneOrder' = Remembered(doneOrder, Job(a))
        /\ life' = life /\ UNCHANGED <<starts, inflight>>
    BY <1>7 DEF MarkDone, stop, hist
  <2>2. life # "down"
    BY <2>1 DEF StartedIsKnown
  <2>3. Done' = Done \cup {Job(a)} /\ OnceEach(doneOrder')
    <3>1. Job(a) \in MsgJobs /\ Job(a) \in Jobs /\ doneOrder \in Seq(Jobs)
      BY <2>1, <1>d, <1>j DEF TypeOK
    <3>2. OnceEach(doneOrder)
      BY DEF StartedIsKnown
    <3>3. IdsOf(doneOrder') = IdsOf(doneOrder) \cup {Job(a)} /\ OnceEach(doneOrder')
      BY ONLY MemorySuffices, <2>1, <3>1, <3>2, RememberedKeeps, Zenon
    <3> QED BY <3>3, Zenon DEF Done, IdsOf
  <2>4. \A b \in Attempts : pc'[b] = "marked" => b = a \/ pc[b] = "marked"
    BY <2>1 DEF TypeOK
  <2>5. \A b \in Attempts : pc'[b] = "marked" => b \in Deliveries /\ Job(b) \in Done'
    BY <2>1, <2>3, <2>4, Zenon DEF StartedIsKnown
  <2> QED BY <2>1, <2>2, <2>3, <2>5, Zenon DEF StartedIsKnown, StartedOncePerLife, Alive, Job
<1>8. ASSUME NEW a \in Attempts, Unregister(a)
      PROVE  StartedIsKnown' /\ StartedOncePerLife'
  <2>1. /\ pc[a] = IF a \in Deliveries THEN "marked" ELSE "published"
        /\ inflight' = inflight \ {Job(a)} /\ pc' = [pc EXCEPT ![a] = "releasing"]
        /\ life' = life /\ UNCHANGED <<starts, doneOrder>>
    BY <1>8 DEF Unregister, stop, hist
  <2>2. life # "down"
    BY <2>1 DEF StartedIsKnown
  <2>3. Job(a) \in MsgJobs => Job(a) \in Done
    BY <1>o, <2>1 DEF StartedIsKnown
  <2>4. \A b \in Attempts : pc'[b] = "marked" => pc[b] = "marked"
    BY <2>1 DEF TypeOK
  <2>5. \A j \in MsgJobs : starts[j] > 0 => j \in inflight' \cup Done
    BY <2>1, <2>2, <2>3 DEF StartedIsKnown, Alive
  <2>6. Done' = Done
    BY <2>1 DEF Done
  <2> QED BY <2>1, <2>2, <2>4, <2>5, <2>6, Zenon DEF StartedIsKnown, StartedOncePerLife, Alive, Job
<1>9. CASE Exit \/ Crash
  <2>1. /\ life' = "down" /\ doneOrder' = <<>> /\ starts' = starts
        /\ pc' = [a \in Attempts |-> IF pc[a] = "new" THEN "new" ELSE "over"]
    BY <1>9 DEF Exit, Crash, Gone, hist
  <2>2. \A a \in Attempts : pc'[a] \in {"new", "over"}
    BY <2>1
  <2>3. DOMAIN doneOrder' = {}
    BY <2>1
  <2> QED BY <2>1, <2>2, <2>3 DEF StartedIsKnown, StartedOncePerLife, Alive, OnceEach
<1>10. CASE StartJobs
  <2>1. /\ life = "down" /\ life' = "up" /\ starts' = [j \in Jobs |-> 0]
        /\ UNCHANGED <<pc, doneOrder>>
    BY <1>10 DEF StartJobs, reg
  <2>2. \A j \in MsgJobs : starts'[j] = 0
    BY <2>1, <1>j
  <2>3. \A a \in Attempts : pc'[a] # "marked"
    BY <2>1 DEF StartedIsKnown
  <2>4. StartedOncePerLife'
    BY <1>0, <2>2 DEF StartedOncePerLife
  <2>5. \A j \in MsgJobs : ~(starts'[j] > 0)
    BY <2>2
  <2>6. life' # "down" /\ OnceEach(doneOrder')
    BY <2>1 DEF StartedIsKnown
  <2> QED BY <2>3, <2>4, <2>5, <2>6, Zenon DEF StartedIsKnown
<1> QED
  BY <1>1, <1>3, <1>4, <1>5, <1>6, <1>7, <1>8, <1>9, <1>10, Zenon DEF Next

\* However often a message is redelivered and however long its copies sat in the
\* client's buffer or in reserve, its job starts at most once in a process life, as
\* long as the recently-done set holds the jobs of the stream (reserve, markDone).
THEOREM StartsOnce ==
  ASSUME MemorySuffices
  PROVE  Spec => []StartedOncePerLife
<1>1. Init => StartedIsKnown /\ StartedOncePerLife
  BY RequestsAssumption DEF Init, StartedIsKnown, StartedOncePerLife, Alive, MsgJobs, Requests, OnceEach
<1>2. TypeOK /\ BufferedIsNew /\ StartedIsKnown /\ StartedOncePerLife /\ [Next]_vars
      => StartedIsKnown' /\ StartedOncePerLife'
  BY KnownOnceStep
<1>3. TypeOK /\ BufferedIsNew /\ [Next]_vars => BufferedIsNew'
  BY BufferedStep
<1> QED
  BY <1>1, <1>2, <1>3, InitBuffered, TypeCorrect, PTL DEF Spec
=============================================================================
