--------------------------- MODULE PatchRun_proof ---------------------------
(***************************************************************************)
(* For any number of jobs, updates and backends: the install gate and the  *)
(* work agree, and what is reported installed is on the disk.              *)
(***************************************************************************)
EXTENDS PatchRun, TLAPS

-----------------------------------------------------------------------------
(* The invariants.                                                         *)

Stages == {"idle", "gate", "scan", "run", "comDo", "com", "wait", "verify",
           "refresh", "done"}
Holding == {"scan", "run", "comDo", "com", "wait", "verify"}
Txn == [job : Jobs, all : SUBSET Updates, todo : SUBSET Updates, left : BOOLEAN]

TypeInv ==
  /\ st \in [Jobs -> Stages] /\ gate \in Jobs \cup {NoJob} /\ txns \in Seq(Txn)
  /\ plan \in [Jobs -> SUBSET Updates] /\ cur \in [Jobs -> SUBSET Updates]

\* Every run has something to do, so the choice of an update on macOS is one.
PlanInv ==
  /\ \A j \in Jobs : st[j] = "run" => plan[j] # {}
  /\ \A j \in Jobs : st[j] = "verify" => cur[j] # {}
  /\ \A i \in 1..Len(txns) :
       backend # "wua" /\ ~txns[i].left => cur[txns[i].job] # {}

\* Who is past the gate holds it, and waits exactly as long as a package manager
\* runs that was not left.  Who gave up a call on the COM thread is past the install.
GateInv ==
  /\ \A j \in Jobs : st[j] \in Holding => gate = j
  /\ \A j \in Jobs : st[j] \in {"scan", "run", "verify"} => backend # "wua"
  /\ \A j \in Jobs : st[j] \in {"comDo", "com"} => backend = "wua"
  /\ \A i \in 1..Len(txns) : ~txns[i].left => st[txns[i].job] = "wait"
  /\ \A j \in Jobs : st[j] = "wait" =>
       \E i \in 1..Len(txns) : txns[i].job = j /\ ~txns[i].left
  /\ \A i, k \in 1..Len(txns) : ~txns[i].left /\ ~txns[k].left => i = k
  /\ backend = "wua" => \A i \in 1..Len(txns) :
       txns[i].left => st[txns[i].job] \in {"refresh", "done"}
  /\ backend = "wua" => /\ Len(txns) <= 1
                        /\ \A i \in 1..Len(txns) : gate = txns[i].job
  /\ gate # NoJob =>
       \/ st[gate] \in Holding
       \/ backend = "wua" /\ \E i \in 1..Len(txns) : txns[i].job = gate

\* What is told of the install.
Reasons == {"no", "failed", "timeout", "unknown"}
ResInv ==
  /\ code \in [Jobs -> {"none", "ok", "bad", "locked", "left", "unstarted"}]
  /\ installed \in [Jobs -> SUBSET Updates]
  /\ failed \in [Jobs -> [Updates -> Reasons]]

\* What a transaction no longer has to do is on the disk; who waits for it tries
\* its ids; and on macOS a good exit means that they are there.
DiskInv ==
  /\ \A i \in 1..Len(txns) : txns[i].all \ txns[i].todo \subseteq disk
  /\ \A i \in 1..Len(txns) :
       backend # "wua" /\ ~txns[i].left => cur[txns[i].job] = txns[i].all
  /\ \A j \in Jobs : backend = "softwareupdate" /\ st[j] = "verify" /\ code[j] = "ok"
       => cur[j] \subseteq disk
  /\ InstalledIsInstalled

\* An id that is still to be tried, or being tried, has no verdict yet.
Fresh(j, u) ==
  \/ st[j] = "idle"
  \/ st[j] \in Holding \cup {"gate"} /\ u \in plan[j]
  \/ st[j] \in {"wait", "verify"} /\ backend # "wua" /\ u \in cur[j]
FreshInv ==
  /\ \A j \in Jobs, u \in Updates : Fresh(j, u) => failed[j][u] = "no"
  /\ \A j \in Jobs : st[j] \in {"wait", "verify"} /\ backend # "wua"
       => plan[j] \cap cur[j] = {}
  /\ \A i \in 1..Len(txns) :
       /\ txns[i].todo \subseteq txns[i].all
       /\ backend = "wua" /\ ~txns[i].left => txns[i].all \subseteq plan[txns[i].job]

\* The job says of an id that it is installed or that the wait was cut short, or
\* is about to.
Told(j, u) ==
  \/ backend # "wua" /\ u \in installed[j]
  \/ failed[j][u] \in {"timeout", "unknown"}
  \/ st[j] = "verify" /\ code[j] = "left" /\ u \in cur[j] /\ failed[j][u] = "no"

\* So it is for every id of a transaction that was left, before it lands and after.
Owed(j, u) ==
  \/ \E i \in 1..Len(txns) : txns[i].left /\ txns[i].job = j /\ u \in txns[i].all
  \/ <<j, u>> \in late
LateInv ==
  /\ late \in SUBSET (Jobs \X Updates)
  /\ backend # "apt" => \A j \in Jobs, u \in Updates : Owed(j, u) => Told(j, u)

-----------------------------------------------------------------------------
(* The sequence of transactions.                                           *)

\* The COM thread has one call at a time (comStarts).
LEMMA Single ==
  ASSUME NEW e
  PROVE  \A i \in 1..Len(<<e>>) : <<e>>[i] = e
  OBVIOUS

\* A new one goes to the end (runCmd).
LEMMA Added ==
  ASSUME NEW T, NEW s \in Seq(T), NEW e \in T
  PROVE  /\ Append(s, e) \in Seq(T) /\ Len(Append(s, e)) = Len(s) + 1
         /\ \A i \in 1..Len(s) : Append(s, e)[i] = s[i]
         /\ Append(s, e)[Len(s) + 1] = e
  OBVIOUS

\* One that ends leaves the others in their order (TxnEnds, comCompleted).
LEMMA Removed ==
  ASSUME NEW T, NEW s \in Seq(T), NEW i \in 1..Len(s)
  PROVE  /\ RemoveAt(s, i) \in Seq(T) /\ Len(RemoveAt(s, i)) = Len(s) - 1
         /\ \A k \in 1..(Len(s) - 1) :
              RemoveAt(s, i)[k] = s[IF k < i THEN k ELSE k + 1]
<1> DEFINE a == SubSeq(s, 1, i - 1)
           b == SubSeq(s, i + 1, Len(s))
<1>0. Len(s) \in Nat /\ i \in Nat /\ 1 <= i /\ i <= Len(s)
  OBVIOUS
<1>1. /\ a \in Seq(T) /\ Len(a) = i - 1
      /\ \A k \in 1..(i - 1) : a[k] = s[k]
  BY <1>0
<1>2. /\ b \in Seq(T) /\ Len(b) = Len(s) - i
      /\ \A k \in 1..(Len(s) - i) : b[k] = s[k + i]
  BY <1>0
<1> HIDE DEF a, b
<1>3. /\ a \o b \in Seq(T) /\ Len(a \o b) = Len(s) - 1
      /\ \A k \in 1..(Len(s) - 1) :
           (a \o b)[k] = IF k <= i - 1 THEN a[k] ELSE b[k - (i - 1)]
  <2>0. a \in Seq(T) /\ b \in Seq(T)
    BY <1>1, <1>2
  <2>1. a \o b \in Seq(T) /\ Len(a \o b) = Len(a) + Len(b)
    BY ONLY <2>0
  <2>2. \A k \in 1..(Len(a) + Len(b)) :
          (a \o b)[k] = IF k <= Len(a) THEN a[k] ELSE b[k - Len(a)]
    BY ONLY <2>0
  <2>3. Len(a) + Len(b) = Len(s) - 1
    BY ONLY <1>0, <1>1, <1>2
  <2> QED
    BY ONLY <1>1, <2>1, <2>2, <2>3
<1>4. ASSUME NEW k \in 1..(Len(s) - 1)
      PROVE  (a \o b)[k] = s[IF k < i THEN k ELSE k + 1]
  <2>1. CASE k < i
    <3>1. k \in 1..(i - 1)
      BY <1>0, <2>1
    <3> QED
      BY <1>0, <1>1, <1>3, <2>1, <3>1
  <2>2. CASE ~(k < i)
    <3>1. k - (i - 1) \in 1..(Len(s) - i) /\ k - (i - 1) + i = k + 1 /\ ~(k <= i - 1)
      BY <1>0, <2>2
    <3>2. (a \o b)[k] = b[k - (i - 1)]
      BY <1>3, <3>1
    <3>3. b[k - (i - 1)] = s[k - (i - 1) + i]
      BY ONLY <1>2, <3>1
    <3> QED
      BY <2>2, <3>1, <3>2, <3>3
  <2> QED
    BY <2>1, <2>2
<1> QED
  BY <1>3, <1>4 DEF RemoveAt, a, b

\* The job that waits has one transaction that was not left, and Waiting finds it.
LEMMA Found ==
  ASSUME TypeInv, GateInv, NEW j \in Jobs, st[j] = "wait"
  PROVE  /\ Waiting(j) \in 1..Len(txns)
         /\ txns[Waiting(j)].job = j /\ ~txns[Waiting(j)].left
         /\ \A i \in 1..Len(txns) : ~txns[i].left => i = Waiting(j)
<1>1. PICK w \in 1..Len(txns) : txns[w].job = j /\ ~txns[w].left
  BY DEF GateInv
<1>2. \A i \in 1..Len(txns) : ~txns[i].left => i = w
  BY <1>1 DEF GateInv
<1>3. Waiting(j) = w
  BY <1>1, <1>2 DEF Waiting, TypeInv
<1> QED
  BY <1>1, <1>2, <1>3

-----------------------------------------------------------------------------
(* What the actions have in common.                                        *)

Attributes(j) ==
  attributeAptResult(j) \/ dnfOutcome(j) \/ pacmanOutcome(j) \/ softwareUpdateOutcome(j)

\* The four ways to tell what was installed differ in the answer only (Outcome).
LEMMA AttributesFacts ==
  ASSUME NEW j \in Jobs, Attributes(j)
  PROVE  /\ st[j] = "verify"
         /\ IF plan[j] = {} THEN Returns(j) ELSE Goto(j, "run") /\ gate' = gate
         /\ code' = [code EXCEPT ![j] = "none"]
         /\ UNCHANGED <<hostVars, workVars, ctx, plan, cur, status, shown>>
  BY Zenon DEF Attributes, attributeAptResult, dnfOutcome, pacmanOutcome,
     softwareUpdateOutcome, Outcome

\* Steps of the work that touch neither the gate, the stages nor the package
\* managers.
Aside == (\E j \in Jobs : CtxDone(j)) \/ collect \/ HandlePatchScan \/ UNCHANGED vars
LEMMA AsideFacts ==
  ASSUME Aside
  PROVE  UNCHANGED <<hostVars, workVars, gate, st, jobVars>>
  BY Zenon DEF Aside, CtxDone, collect, HandlePatchScan, vars

\* The steps, one by one.
LEMMA Steps ==
  ASSUME [Next]_vars, DOMAIN txns = 1..Len(txns)
  PROVE  \/ Aside
         \/ \E j \in Jobs : \/ Execute(j) \/ acquire(j) \/ ScanFirst(j) \/ runCmd(j)
                            \/ LetFinish(j) \/ Retry(j) \/ Attributes(j) \/ comDo(j)
                            \/ comNotStarted(j) \/ comStarts(j) \/ comAbandoned(j)
                            \/ Refresh(j)
         \/ \E i \in 1..Len(txns) : Lands(i) \/ TxnEnds(i) \/ comCompleted(i)
  BY Zenon DEF Next, JobStep, Aside, Attributes
\* One job goes to another stage.
LEMMA Moves ==
  ASSUME st \in [Jobs -> Stages], NEW j \in Jobs, NEW s \in Stages, Goto(j, s)
  PROVE  /\ st' \in [Jobs -> Stages] /\ st'[j] = s
         /\ \A k \in Jobs : k # j => st'[k] = st[k]
  BY DEF Goto

\* An install that returns gives up the gate when it has it, and not another's.
LEMMA ReturnsFacts ==
  ASSUME TypeInv, NEW j \in Jobs, Returns(j)
  PROVE  /\ st' \in [Jobs -> Stages] /\ st'[j] = "refresh"
         /\ \A k \in Jobs : k # j => st'[k] = st[k]
         /\ gate' = IF gate = j THEN NoJob ELSE gate
<1>1. "refresh" \in Stages
  BY DEF Stages
<1> QED
  BY <1>1, Moves DEF Returns, release, TypeInv

\* A transaction that runs is one.
LEMMA TxnFacts ==
  ASSUME TypeInv, NEW i \in 1..Len(txns)
  PROVE  /\ txns[i] \in Txn /\ txns[i].job \in Jobs /\ txns[i].all \in SUBSET Updates
         /\ txns[i].todo \in SUBSET Updates /\ txns[i].left \in BOOLEAN
<1>1. txns[i] \in Txn
  BY DEF TypeInv
<1> QED
  BY <1>1 DEF Txn

\* The one that is left keeps its job and its ids, and so do the others
\* (LetFinish, comAbandoned).
Leave(w) == txns' = [txns EXCEPT ![w].left = TRUE]
LEMMA Left ==
  ASSUME TypeInv, NEW w \in 1..Len(txns), Leave(w)
  PROVE  /\ txns' \in Seq(Txn) /\ Len(txns') = Len(txns)
         /\ \A i \in 1..Len(txns) :
              /\ txns'[i].job = txns[i].job /\ txns'[i].all = txns[i].all
              /\ txns'[i].todo = txns[i].todo
              /\ txns'[i].left = (txns[i].left \/ i = w)
<1> DEFINE e == [txns[w] EXCEPT !.left = TRUE]
<1>1. /\ e \in Txn /\ e.job = txns[w].job /\ e.all = txns[w].all
      /\ e.todo = txns[w].todo /\ e.left = TRUE
  BY TxnFacts DEF Txn
<1>2. txns' = [txns EXCEPT ![w] = e]
  BY DEF Leave
<1> HIDE DEF e
<1>3. txns \in Seq(Txn)
  BY DEF TypeInv
<1>4. /\ txns' \in Seq(Txn) /\ Len(txns') = Len(txns)
      /\ txns'[w] = e /\ \A i \in 1..Len(txns) : i # w => txns'[i] = txns[i]
  BY ONLY <1>1, <1>2, <1>3, w \in 1..Len(txns)
<1>5. \A i \in 1..Len(txns) : txns[i].left \in BOOLEAN
  BY TxnFacts
<1> QED
  BY ONLY <1>1, <1>4, <1>5

\* A run has ids to try, and on macOS one of them.
RunIds(j) == IF backend = "softwareupdate" THEN {CHOOSE u \in plan[j] : TRUE} ELSE plan[j]
LEMMA RunIdsFacts ==
  ASSUME TypeInv, PlanInv, NEW j \in Jobs, st[j] = "run"
  PROVE  RunIds(j) # {} /\ RunIds(j) \subseteq plan[j] /\ RunIds(j) \in SUBSET Updates
<1>1. plan[j] # {} /\ plan[j] \in SUBSET Updates
  BY DEF TypeInv, PlanInv
<1>2. (CHOOSE u \in plan[j] : TRUE) \in plan[j]
  BY <1>1
<1> QED
  BY <1>1, <1>2 DEF RunIds

\* A step of one landing: only that transaction's list gets shorter.
LEMMA LandsFacts ==
  ASSUME TypeInv, NEW i \in 1..Len(txns), Lands(i)
  PROVE  /\ txns' \in Seq(Txn) /\ Len(txns') = Len(txns)
         /\ \A k \in 1..Len(txns) :
              /\ txns'[k].job = txns[k].job /\ txns'[k].all = txns[k].all
              /\ txns'[k].left = txns[k].left
         /\ disk \subseteq disk'
         /\ \A k \in 1..Len(txns) : /\ txns'[k].todo \subseteq txns[k].todo
                                     /\ txns[k].todo \ txns'[k].todo \subseteq disk'
         /\ UNCHANGED <<hostVars, gate, st, jobVars>>
<1>0. PICK u \in txns[i].todo : /\ disk' = disk \cup {u}
                                /\ txns' = [txns EXCEPT ![i].todo = @ \ {u}]
  BY DEF Lands
<1> DEFINE e == [txns[i] EXCEPT !.todo = @ \ {u}]
<1>1. /\ e \in Txn /\ e.job = txns[i].job /\ e.all = txns[i].all
      /\ e.left = txns[i].left /\ e.todo = txns[i].todo \ {u}
  BY TxnFacts DEF Txn
<1>2. txns' = [txns EXCEPT ![i] = e]
  BY <1>0
<1> HIDE DEF e
<1>3. txns \in Seq(Txn)
  BY DEF TypeInv
<1>4. /\ txns' \in Seq(Txn) /\ Len(txns') = Len(txns)
      /\ txns'[i] = e /\ \A k \in 1..Len(txns) : k # i => txns'[k] = txns[k]
  BY ONLY <1>1, <1>2, <1>3, i \in 1..Len(txns)
<1>5. UNCHANGED <<hostVars, gate, st, jobVars>>
  BY DEF Lands
<1> QED
  BY ONLY <1>0, <1>1, <1>4, <1>5
-----------------------------------------------------------------------------
(* Types, and that every run has something to do.                          *)

\* Stages, gate, plans and transactions keep their types in every step.
LEMMA TypeStep ==
  ASSUME TypeInv, PlanInv, GateInv, [Next]_vars
  PROVE  TypeInv'
<1> USE DEF TypeInv
<1>0. /\ {"idle", "gate", "scan", "run", "comDo", "com", "wait", "verify", "refresh",
          "done"} \subseteq Stages
  BY DEF Stages
<1>1. CASE Aside
  BY <1>1, AsideFacts DEF workVars, jobVars
<1>2. ASSUME NEW j \in Jobs, Execute(j) PROVE TypeInv'
  <2>1. ASSUME NEW ids \in Bodies[j] PROVE ids \in SUBSET Updates
    BY PatchAssumption
  <2>2. st' \in [Jobs -> Stages]
    BY <1>0, <1>2 DEF Execute, prepareInstall, Goto
  <2>3. plan' \in [Jobs -> SUBSET Updates]
    BY <1>2, <2>1 DEF Execute, ParsePatchIDs, prepareInstall, Plan
  <2> QED
    BY <1>2, <2>2, <2>3 DEF Execute, workVars
<1>3. ASSUME NEW j \in Jobs, acquire(j) PROVE TypeInv'
  BY <1>0, <1>3 DEF acquire, Goto, workVars
<1>4. ASSUME NEW j \in Jobs, ScanFirst(j) PROVE TypeInv'
  <2>1. st' \in [Jobs -> Stages] /\ gate' \in Jobs \cup {NoJob}
    BY <1>0, <1>4 DEF ScanFirst, Returns, release, Goto
  <2>2. plan' \in [Jobs -> SUBSET Updates]
    BY <1>4 DEF ScanFirst, Plan
  <2> QED
    BY <1>4, <2>1, <2>2 DEF ScanFirst, workVars
<1>5. ASSUME NEW j \in Jobs, runCmd(j) PROVE TypeInv'
  <2>1. RunIds(j) \in SUBSET Updates
    BY <1>5, RunIdsFacts DEF runCmd
  <2>2. /\ cur' = [cur EXCEPT ![j] = RunIds(j)]
        /\ plan' = [plan EXCEPT ![j] = plan[j] \ RunIds(j)]
        /\ \/ txns' = Append(txns, [job |-> j, all |-> RunIds(j), todo |-> RunIds(j),
                                    left |-> FALSE])
           \/ txns' = txns
        /\ UNCHANGED gate
    BY <1>5 DEF runCmd, Plan, RunIds
  <2>3. [job |-> j, all |-> RunIds(j), todo |-> RunIds(j), left |-> FALSE] \in Txn
    BY <2>1 DEF Txn
  <2>4. txns' \in Seq(Txn)
    BY <2>2, <2>3, Added
  <2>5. st' \in [Jobs -> Stages]
    BY <1>0, <1>5 DEF runCmd, Goto
  <2> QED
    BY <2>1, <2>2, <2>4, <2>5
<1>6. ASSUME NEW j \in Jobs, LetFinish(j) \/ comAbandoned(j) PROVE TypeInv'
  <2>1. st[j] = "wait" /\ Leave(Waiting(j))
    BY <1>6, Zenon DEF LetFinish, comAbandoned, Leave
  <2>2. txns' \in Seq(Txn)
    BY <2>1, Found, Left
  <2>3. st' \in [Jobs -> Stages]
    BY <1>0, <1>6 DEF LetFinish, comAbandoned, Goto
  <2> QED
    BY <1>6, <2>2, <2>3 DEF LetFinish, comAbandoned
<1>7. ASSUME NEW j \in Jobs, Retry(j) PROVE TypeInv'
  BY <1>0, <1>7 DEF Retry, Goto, Plan, workVars
<1>8. ASSUME NEW j \in Jobs, Attributes(j) PROVE TypeInv'
  <2>1. st' \in [Jobs -> Stages] /\ gate' \in Jobs \cup {NoJob}
    BY <1>0, <1>8, AttributesFacts DEF Returns, release, Goto
  <2> QED
    BY <1>8, <2>1, AttributesFacts DEF workVars
<1>9. ASSUME NEW j \in Jobs, comDo(j) PROVE TypeInv'
  BY <1>0, <1>9 DEF comDo, Goto, workVars, jobVars
<1>10. ASSUME NEW j \in Jobs, comNotStarted(j) PROVE TypeInv'
  BY <1>0, <1>10 DEF comNotStarted, Returns, release, Goto, workVars
<1>11. ASSUME NEW j \in Jobs, comStarts(j) PROVE TypeInv'
  <2>1. PICK ids \in SUBSET (plan[j] \ disk) :
          txns' = <<[job |-> j, all |-> ids, todo |-> ids, left |-> FALSE]>>
    BY <1>11 DEF comStarts
  <2>2. [job |-> j, all |-> ids, todo |-> ids, left |-> FALSE] \in Txn
    BY DEF Txn
  <2>3. txns' \in Seq(Txn)
    BY <2>1, <2>2
  <2> QED
    BY <1>0, <1>11, <2>3 DEF comStarts, Goto, jobVars
<1>12. ASSUME NEW j \in Jobs, Refresh(j) PROVE TypeInv'
  BY <1>0, <1>12 DEF Refresh, Goto, Forget, workVars
<1>13. ASSUME NEW i \in 1..Len(txns), Lands(i) PROVE TypeInv'
  BY <1>13, LandsFacts DEF jobVars
<1>14. ASSUME NEW i \in 1..Len(txns), TxnEnds(i) PROVE TypeInv'
  <2>1. txns' \in Seq(Txn)
    BY <1>14, Removed DEF TxnEnds
  <2>2. st' \in [Jobs -> Stages]
    BY <1>0, <1>14, TxnFacts DEF TxnEnds, Goto
  <2> QED
    BY <1>14, <2>1, <2>2 DEF TxnEnds
<1>15. ASSUME NEW i \in 1..Len(txns), comCompleted(i) PROVE TypeInv'
  <2>1. txns' \in Seq(Txn)
    BY <1>15, Removed DEF comCompleted
  <2>2. st' \in [Jobs -> Stages]
    BY <1>0, <1>15, TxnFacts DEF comCompleted, Goto
  <2> QED
    BY <1>15, <2>1, <2>2 DEF comCompleted, release
<1>16. DOMAIN txns = 1..Len(txns)
  OBVIOUS
<1> HIDE DEF TypeInv
<1> QED
  BY ONLY [Next]_vars, <1>1, <1>2, <1>3, <1>4, <1>5, <1>6, <1>7, <1>8, <1>9, <1>10,
          <1>11, <1>12, <1>13, <1>14, <1>15, <1>16, Steps
\* When a transaction is gone, the others are there, each once.
LEMMA Gone ==
  ASSUME TypeInv, NEW i \in 1..Len(txns), txns' = RemoveAt(txns, i)
  PROVE  /\ Len(txns') = Len(txns) - 1
         /\ \A k \in 1..Len(txns') :
              \E m \in 1..Len(txns) : m # i /\ txns'[k] = txns[m]
         /\ \A m \in 1..Len(txns) :
              m # i => \E k \in 1..Len(txns') : txns'[k] = txns[m]
         /\ \A k, l \in 1..Len(txns') : k # l =>
              \E m, n \in 1..Len(txns) :
                m # n /\ txns'[k] = txns[m] /\ txns'[l] = txns[n]
<1> DEFINE Old(k) == IF k < i THEN k ELSE k + 1
<1>1. txns \in Seq(Txn) /\ Len(txns) \in Nat /\ i \in Nat /\ 1 <= i /\ i <= Len(txns)
  BY DEF TypeInv
<1>2. /\ Len(txns') = Len(txns) - 1
      /\ \A k \in 1..(Len(txns) - 1) : txns'[k] = txns[Old(k)]
  BY <1>1, Removed
<1>3. \A k \in 1..(Len(txns) - 1) : Old(k) \in 1..Len(txns) /\ Old(k) # i
  BY <1>1
<1>4. \A k, l \in 1..(Len(txns) - 1) : k # l => Old(k) # Old(l)
  BY <1>1
<1>5. ASSUME NEW m \in 1..Len(txns), m # i
      PROVE  \E k \in 1..(Len(txns) - 1) : Old(k) = m
  <2>1. CASE m < i
    BY <1>1, <2>1
  <2>2. CASE m > i
    <3>1. m - 1 \in 1..(Len(txns) - 1) /\ Old(m - 1) = m
      BY <1>1, <2>2
    <3> QED
      BY ONLY <3>1
  <2> QED
    BY <1>1, <1>5, <2>1, <2>2
<1> HIDE DEF Old
<1>6. ASSUME NEW k \in 1..Len(txns')
      PROVE  \E m \in 1..Len(txns) : m # i /\ txns'[k] = txns[m]
  BY ONLY <1>2, <1>3, k \in 1..Len(txns')
<1>7. ASSUME NEW m \in 1..Len(txns), m # i
      PROVE  \E k \in 1..Len(txns') : txns'[k] = txns[m]
  <2>1. PICK k \in 1..(Len(txns) - 1) : Old(k) = m
    BY <1>5, <1>7
  <2> QED
    BY ONLY <1>2, <2>1
<1>8. ASSUME NEW k \in 1..Len(txns'), NEW l \in 1..Len(txns'), k # l
      PROVE  \E m, n \in 1..Len(txns) :
               m # n /\ txns'[k] = txns[m] /\ txns'[l] = txns[n]
  BY ONLY <1>2, <1>3, <1>4, <1>8
<1> QED
  BY <1>2, <1>6, <1>7, <1>8

\* What stays of the transactions when a job leaves its own.
LEMMA LeftFacts ==
  ASSUME TypeInv, GateInv, NEW j \in Jobs, LetFinish(j) \/ comAbandoned(j)
  PROVE  /\ st[j] = "wait" /\ Len(txns') = Len(txns)
         /\ \A i \in 1..Len(txns) :
              /\ txns'[i].job = txns[i].job /\ txns'[i].all = txns[i].all
              /\ txns'[i].todo = txns[i].todo /\ txns'[i].left
         /\ \E i \in 1..Len(txns) : txns[i].job = j
         /\ UNCHANGED <<hostVars, disk, gate, plan, cur, installed>>
<1>1. st[j] = "wait" /\ Leave(Waiting(j))
  BY Zenon DEF LetFinish, comAbandoned, Leave
<1>3. /\ Waiting(j) \in 1..Len(txns) /\ txns[Waiting(j)].job = j
      /\ \A i \in 1..Len(txns) : ~txns[i].left => i = Waiting(j)
  BY <1>1, Found
<1>4. UNCHANGED <<hostVars, disk, gate, plan, cur, installed>>
  BY DEF LetFinish, comAbandoned, resVars
<1>5. /\ Len(txns') = Len(txns)
      /\ \A i \in 1..Len(txns) :
           /\ txns'[i].job = txns[i].job /\ txns'[i].all = txns[i].all
           /\ txns'[i].todo = txns[i].todo
           /\ txns'[i].left = (txns[i].left \/ i = Waiting(j))
  BY ONLY TypeInv, <1>1, <1>3, Left
<1> QED
  BY ONLY <1>1, <1>3, <1>4, <1>5

\* A run starts a transaction for its ids, or not.
LEMMA RunFacts ==
  ASSUME TypeInv, PlanInv, NEW j \in Jobs, runCmd(j)
  PROVE  /\ st[j] = "run" /\ cur' = [cur EXCEPT ![j] = RunIds(j)]
         /\ plan' = [plan EXCEPT ![j] = plan[j] \ RunIds(j)]
         /\ \/ /\ st'[j] = "wait" /\ Len(txns') = Len(txns) + 1
               /\ \A i \in 1..Len(txns) : txns'[i] = txns[i]
               /\ txns'[Len(txns) + 1].job = j
               /\ txns'[Len(txns) + 1].all = RunIds(j)
               /\ txns'[Len(txns) + 1].todo = RunIds(j) /\ ~txns'[Len(txns) + 1].left
               /\ code' = code
            \/ st'[j] = "verify" /\ txns' = txns /\ code' = [code EXCEPT ![j] = "unstarted"]
         /\ \A k \in Jobs : k # j => st'[k] = st[k]
         /\ UNCHANGED <<hostVars, disk, gate, installed>>
<1> DEFINE e == [job |-> j, all |-> RunIds(j), todo |-> RunIds(j), left |-> FALSE]
<1>1. /\ st[j] = "run" /\ cur' = [cur EXCEPT ![j] = RunIds(j)]
      /\ plan' = [plan EXCEPT ![j] = plan[j] \ RunIds(j)]
      /\ \/ txns' = Append(txns, e) /\ Goto(j, "wait") /\ code' = code
         \/ /\ code' = [code EXCEPT ![j] = "unstarted"] /\ Goto(j, "verify")
            /\ txns' = txns
      /\ UNCHANGED <<hostVars, disk, gate, installed>>
  BY DEF runCmd, Plan, RunIds, resVars
<1>2. e \in Txn /\ e.job = j /\ e.all = RunIds(j) /\ e.todo = RunIds(j) /\ ~e.left
  BY <1>1, RunIdsFacts DEF Txn
<1> HIDE DEF e
<1>3. txns \in Seq(Txn)
  BY DEF TypeInv
<1>4. /\ Len(Append(txns, e)) = Len(txns) + 1
      /\ \A i \in 1..Len(txns) : Append(txns, e)[i] = txns[i]
      /\ Append(txns, e)[Len(txns) + 1] = e
  BY ONLY <1>2, <1>3, Added
<1>5. /\ Goto(j, "wait") \/ Goto(j, "verify") => \A k \in Jobs : k # j => st'[k] = st[k]
      /\ Goto(j, "wait") => st'[j] = "wait"
      /\ Goto(j, "verify") => st'[j] = "verify"
  BY DEF Goto, TypeInv
<1> QED
  BY ONLY <1>1, <1>2, <1>4, <1>5
\* A run starts with ids and a verdict is about some: the gate's stages keep a
\* refresh away from a job whose transaction is not left.
LEMMA PlanStep ==
  ASSUME TypeInv, PlanInv, GateInv, [Next]_vars
  PROVE  PlanInv'
<1>0. /\ st \in [Jobs -> Stages] /\ plan \in [Jobs -> SUBSET Updates]
      /\ cur \in [Jobs -> SUBSET Updates] /\ txns \in Seq(Txn)
      /\ DOMAIN txns = 1..Len(txns)
  BY DEF TypeInv
<1>a. /\ \A j \in Jobs : st[j] = "run" => plan[j] # {}
      /\ \A j \in Jobs : st[j] = "verify" => cur[j] # {}
      /\ \A i \in 1..Len(txns) :
           backend # "wua" /\ ~txns[i].left => cur[txns[i].job] # {}
  BY DEF PlanInv
<1>b. \A i \in 1..Len(txns) : ~txns[i].left => st[txns[i].job] = "wait"
  BY DEF GateInv
<1>c. \A i \in 1..Len(txns) : txns[i].job \in Jobs
  BY TxnFacts
<1>1. CASE Aside
  BY <1>1, AsideFacts DEF workVars, jobVars, hostVars, PlanInv
<1>2. ASSUME NEW j \in Jobs, Execute(j) PROVE PlanInv'
  <2>1. /\ UNCHANGED <<backend, txns, cur>>
        /\ st'[j] \in {"gate", "refresh", "done"}
        /\ \A k \in Jobs : k # j => st'[k] = st[k] /\ plan'[k] = plan[k]
    BY <1>0, <1>2 DEF Execute, prepareInstall, Goto, Plan, hostVars, workVars
  <2> QED
    BY <1>a, <2>1 DEF PlanInv
<1>3. ASSUME NEW j \in Jobs, acquire(j) PROVE PlanInv'
  BY <1>0, <1>a, <1>3 DEF acquire, Goto, hostVars, workVars, PlanInv
<1>4. ASSUME NEW j \in Jobs, ScanFirst(j) PROVE PlanInv'
  <2>1. /\ UNCHANGED <<backend, txns, cur>>
        /\ \A k \in Jobs : k # j => st'[k] = st[k] /\ plan'[k] = plan[k]
    BY <1>0, <1>4 DEF ScanFirst, Returns, Goto, Plan, hostVars, workVars
  <2>2. st'[j] \in {"run", "refresh"} /\ (st'[j] = "run" => plan'[j] # {})
    <3>1. CASE Returns(j)
      BY <1>0, <3>1 DEF Returns, Goto
    <3>2. CASE ~Returns(j)
      <4>1. PICK refused \in SUBSET plan[j] :
              refused # plan[j] /\ Plan(j, plan[j] \ refused) /\ Goto(j, "run")
        BY <1>4, <3>2 DEF ScanFirst
      <4>2. plan[j] \ refused # {}
        BY <4>1
      <4> QED
        BY <1>0, <4>1, <4>2 DEF Goto, Plan
    <3> QED
      BY <3>1, <3>2
  <2> QED
    BY <1>a, <2>1, <2>2 DEF PlanInv
<1>5. ASSUME NEW j \in Jobs, runCmd(j) PROVE PlanInv'
  <2>1. RunIds(j) # {} /\ st[j] = "run"
    BY <1>5, RunFacts, RunIdsFacts
  <2>2. /\ cur'[j] = RunIds(j) /\ \A k \in Jobs : k # j => cur'[k] = cur[k]
        /\ \A k \in Jobs : k # j => plan'[k] = plan[k]
        /\ \A k \in Jobs : k # j => st'[k] = st[k]
        /\ st'[j] \in {"wait", "verify"} /\ backend' = backend
    BY <1>0, <1>5, RunFacts DEF hostVars
  <2>3. ASSUME NEW i \in 1..Len(txns'), ~txns'[i].left
        PROVE  txns'[i].job = j \/ (i \in 1..Len(txns) /\ txns'[i] = txns[i])
    <3>1. Len(txns) \in Nat
      BY <1>0
    <3>2. \/ /\ Len(txns') = Len(txns) + 1
             /\ \A k \in 1..Len(txns) : txns'[k] = txns[k]
             /\ txns'[Len(txns) + 1].job = j
          \/ txns' = txns
      BY <1>5, RunFacts
    <3> QED
      BY ONLY <2>3, <3>1, <3>2
  <2>4. ASSUME NEW i \in 1..Len(txns'), backend' # "wua", ~txns'[i].left
        PROVE  cur'[txns'[i].job] # {}
    BY ONLY <1>a, <1>c, <2>1, <2>2, <2>3, <2>4
  <2> QED
    BY ONLY <1>a, <2>1, <2>2, <2>4 DEF PlanInv
<1>6. ASSUME NEW j \in Jobs, LetFinish(j) \/ comAbandoned(j) PROVE PlanInv'
  <2>1. /\ Len(txns') = Len(txns) /\ \A i \in 1..Len(txns) : txns'[i].left
        /\ UNCHANGED <<plan, cur>> /\ st[j] = "wait"
    BY <1>6, LeftFacts
  <2>2. /\ \A k \in Jobs : k # j => st'[k] = st[k]
        /\ st'[j] = "refresh" \/ (st'[j] = "verify" /\ backend # "wua")
    BY <1>0, <1>6 DEF LetFinish, comAbandoned, Goto
  <2>3. backend # "wua" => cur[j] # {}
    BY <1>a, <2>1 DEF GateInv
  <2> QED
    BY ONLY <1>a, <2>1, <2>2, <2>3 DEF PlanInv
<1>7. ASSUME NEW j \in Jobs, Retry(j) PROVE PlanInv'
  BY <1>0, <1>a, <1>7 DEF Retry, Goto, Plan, hostVars, workVars, PlanInv
<1>8. ASSUME NEW j \in Jobs, Attributes(j) PROVE PlanInv'
  <2>1. /\ st'[j] = "refresh" \/ (st'[j] = "run" /\ plan[j] # {})
        /\ \A k \in Jobs : k # j => st'[k] = st[k]
    BY <1>0, <1>8, AttributesFacts DEF Returns, Goto
  <2> QED
    BY <1>8, <1>a, <2>1, AttributesFacts DEF hostVars, workVars, PlanInv
<1>9. ASSUME NEW j \in Jobs, comDo(j) PROVE PlanInv'
  BY <1>0, <1>a, <1>9 DEF comDo, Goto, hostVars, workVars, jobVars, PlanInv
<1>10. ASSUME NEW j \in Jobs, comNotStarted(j) PROVE PlanInv'
  BY <1>0, <1>a, <1>10 DEF comNotStarted, Returns, Goto, hostVars, workVars, PlanInv
<1>11. ASSUME NEW j \in Jobs, comStarts(j) PROVE PlanInv'
  <2>1. backend = "wua" /\ backend' = backend
    BY <1>11 DEF comStarts, GateInv, hostVars
  <2>2. UNCHANGED <<plan, cur>> /\ st' = [st EXCEPT ![j] = "wait"]
    BY <1>11 DEF comStarts, Goto, jobVars
  <2> QED
    BY ONLY <1>0, <1>a, <2>1, <2>2 DEF PlanInv
<1>12. ASSUME NEW j \in Jobs, Refresh(j) PROVE PlanInv'
  <2>1. /\ st[j] = "refresh" /\ st'[j] = "done" /\ UNCHANGED <<backend, txns>>
        /\ \A k \in Jobs : k # j => /\ st'[k] = st[k] /\ plan'[k] = plan[k]
                                    /\ cur'[k] = cur[k]
    BY <1>0, <1>12 DEF Refresh, Goto, Forget, hostVars, workVars
  <2> QED
    BY ONLY <1>a, <1>b, <1>c, <2>1 DEF PlanInv
<1>13. ASSUME NEW i \in 1..Len(txns), Lands(i) PROVE PlanInv'
  BY <1>13, <1>a, LandsFacts DEF hostVars, jobVars, PlanInv
<1>14. ASSUME NEW i \in 1..Len(txns), TxnEnds(i) \/ comCompleted(i) PROVE PlanInv'
  <2>0. txns' = RemoveAt(txns, i)
    BY <1>14, Zenon DEF TxnEnds, comCompleted
  <2>1. \A k \in 1..Len(txns') :
          \E m \in 1..Len(txns) : m # i /\ txns'[k] = txns[m]
    BY <2>0, Gone, Zenon
  <2>2. UNCHANGED <<backend, plan, cur>>
    BY <1>14 DEF TxnEnds, comCompleted, hostVars
  <2>3. \/ st' = st \/ st' = [st EXCEPT ![txns[i].job] = "refresh"]
        \/ /\ st' = [st EXCEPT ![txns[i].job] = "verify"]
           /\ backend # "wua" /\ ~txns[i].left
    BY <1>14, Zenon DEF TxnEnds, comCompleted, Goto
  <2>4. \A k \in 1..Len(txns') :
          backend' # "wua" /\ ~txns'[k].left => cur'[txns'[k].job] # {}
    BY ONLY <1>a, <2>1, <2>2
  <2>5. \A j \in Jobs :
          \/ st'[j] = st[j] \/ st'[j] = "refresh"
          \/ j = txns[i].job /\ st'[j] = "verify" /\ backend # "wua" /\ ~txns[i].left
    BY ONLY <1>0, <2>3
  <2>6. \A j \in Jobs : st'[j] = "verify" => cur'[j] # {}
    BY ONLY <1>a, <2>2, <2>5, i \in 1..Len(txns)
  <2>7. \A j \in Jobs : st'[j] = "run" => plan'[j] # {}
    BY ONLY <1>a, <2>2, <2>5
  <2> QED
    BY ONLY <2>4, <2>6, <2>7 DEF PlanInv
<1> QED
  BY ONLY [Next]_vars, <1>0, <1>1, <1>2, <1>3, <1>4, <1>5, <1>6, <1>7, <1>8, <1>9,
          <1>10, <1>11, <1>12, <1>13, <1>14, Steps
-----------------------------------------------------------------------------
(* The gate and the work.                                                  *)

\* A step of one job that leaves the transactions alone keeps the gate in order
\* when it takes a free gate on the way in, gives it up on the way out, and goes
\* to no other stage of the wrong backend.
LEMMA MoveKeepsGate ==
  ASSUME TypeInv, GateInv, NEW j \in Jobs, UNCHANGED <<backend, txns>>,
         \A k \in Jobs : k # j => st'[k] = st[k],
         st[j] # "wait", st'[j] # "wait",
         st[j] \in {"refresh", "done"} => st'[j] = "done",
         st'[j] \in {"scan", "run", "verify"} => backend # "wua",
         st'[j] \in {"comDo", "com"} => backend = "wua",
         \/ gate' = gate /\ (st[j] \in Holding <=> st'[j] \in Holding)
         \/ gate = NoJob /\ gate' = j /\ st'[j] \in Holding
         \/ gate' = NoJob /\ st[j] \in Holding /\ st'[j] \notin Holding
  PROVE  GateInv'
<1>0. /\ NoJob \notin Jobs /\ \A i \in 1..Len(txns) : txns[i].job \in Jobs
      /\ gate \in Jobs \cup {NoJob}
  BY PatchAssumption, TxnFacts DEF TypeInv
<1>1. \A k \in Jobs : st'[k] \in Holding => gate' = k
  BY <1>0 DEF GateInv
<1>2. /\ \A k \in Jobs : st'[k] \in {"scan", "run", "verify"} => backend' # "wua"
      /\ \A k \in Jobs : st'[k] \in {"comDo", "com"} => backend' = "wua"
  BY DEF GateInv
<1>3. /\ \A i \in 1..Len(txns') : ~txns'[i].left => st'[txns'[i].job] = "wait"
      /\ \A k \in Jobs : st'[k] = "wait" =>
           \E i \in 1..Len(txns') : txns'[i].job = k /\ ~txns'[i].left
      /\ \A i, k \in 1..Len(txns') : ~txns'[i].left /\ ~txns'[k].left => i = k
  BY <1>0 DEF GateInv
<1>4. backend' = "wua" => \A i \in 1..Len(txns') :
        txns'[i].left => st'[txns'[i].job] \in {"refresh", "done"}
  BY <1>0 DEF GateInv
<1>5. ASSUME backend = "wua", NEW i \in 1..Len(txns) PROVE gate' = txns[i].job
  <2>1. gate = txns[i].job /\ gate # NoJob
    BY <1>0, <1>5 DEF GateInv
  <2>2. st[txns[i].job] \in {"wait", "refresh", "done"}
    BY <1>5, TxnFacts DEF GateInv
  <2>3. st[j] \in Holding => gate = j /\ st[j] \notin {"wait", "refresh", "done"}
    BY DEF GateInv, Holding
  <2> QED
    BY <2>1, <2>2, <2>3
<1>6. backend' = "wua" => /\ Len(txns') <= 1
                          /\ \A i \in 1..Len(txns') : gate' = txns'[i].job
  BY <1>5 DEF GateInv
<1>7. gate' # NoJob =>
        \/ st'[gate'] \in Holding
        \/ backend' = "wua" /\ \E i \in 1..Len(txns') : txns'[i].job = gate'
  BY <1>0 DEF GateInv
<1> QED
  BY ONLY <1>1, <1>2, <1>3, <1>4, <1>6, <1>7 DEF GateInv
\* The gate stays in order in every step.
LEMMA GateStep ==
  ASSUME TypeInv, PlanInv, GateInv, [Next]_vars
  PROVE  GateInv'
<1>0. /\ st \in [Jobs -> Stages] /\ txns \in Seq(Txn) /\ Len(txns) \in Nat
      /\ DOMAIN txns = 1..Len(txns) /\ NoJob \notin Jobs
  BY PatchAssumption DEF TypeInv
<1>a. \A i \in 1..Len(txns) : txns[i].job \in Jobs /\ txns[i].left \in BOOLEAN
  BY TxnFacts
<1>b. /\ \A k \in 1..Len(txns) : ~txns[k].left => st[txns[k].job] = "wait"
      /\ \A j \in Jobs : st[j] = "wait" =>
           \E k \in 1..Len(txns) : txns[k].job = j /\ ~txns[k].left
      /\ \A k, l \in 1..Len(txns) : ~txns[k].left /\ ~txns[l].left => k = l
  BY DEF GateInv
<1>c. gate # NoJob =>
        \/ st[gate] \in Holding
        \/ backend = "wua" /\ \E k \in 1..Len(txns) : txns[k].job = gate
  BY DEF GateInv
<1>d. backend = "wua" =>
        /\ \A k \in 1..Len(txns) : txns[k].left => st[txns[k].job] \in {"refresh", "done"}
        /\ Len(txns) <= 1 /\ \A k \in 1..Len(txns) : gate = txns[k].job
  BY DEF GateInv
<1>e. \A k \in Jobs :
        /\ st[k] \in Holding => gate = k
        /\ st[k] \in {"scan", "run", "verify"} => backend # "wua"
        /\ st[k] \in {"comDo", "com"} => backend = "wua"
  BY DEF GateInv
<1>1. CASE Aside
  BY <1>1, AsideFacts DEF workVars, hostVars, GateInv
<1>2. ASSUME NEW j \in Jobs, Execute(j) PROVE GateInv'
  <2>1. /\ st[j] = "idle" /\ st'[j] \in {"gate", "refresh", "done"}
        /\ \A k \in Jobs : k # j => st'[k] = st[k]
        /\ UNCHANGED <<backend, txns, gate>>
    BY <1>0, <1>2 DEF Execute, prepareInstall, Goto, hostVars, workVars
  <2> QED
    BY <2>1, MoveKeepsGate DEF Holding
<1>3. ASSUME NEW j \in Jobs, acquire(j) PROVE GateInv'
  <2>1. /\ st[j] = "gate" /\ \A k \in Jobs : k # j => st'[k] = st[k]
        /\ \/ /\ gate = NoJob /\ gate' = j
              /\ st'[j] = IF backend = "wua" THEN "comDo" ELSE "scan"
           \/ gate' = gate /\ st'[j] = "refresh"
        /\ UNCHANGED <<backend, txns>>
    BY <1>0, <1>3 DEF acquire, Goto, hostVars, workVars
  <2> QED
    BY <2>1, MoveKeepsGate DEF Holding
<1>4. ASSUME NEW j \in Jobs, ScanFirst(j) \/ Attributes(j) \/ comNotStarted(j)
      PROVE  GateInv'
  <2>1. st[j] \in {"scan", "verify", "comDo", "com"} /\ UNCHANGED <<backend, txns>>
    BY <1>4, AttributesFacts DEF ScanFirst, comNotStarted, hostVars, workVars
  <2>2. \/ Returns(j)
        \/ st[j] \in {"scan", "verify"} /\ Goto(j, "run") /\ gate' = gate
    BY <1>4, AttributesFacts DEF ScanFirst, comNotStarted
  <2>3. gate = j /\ (st[j] \in {"scan", "verify"} => backend # "wua")
    BY <2>1 DEF GateInv, Holding
  <2>4. /\ \/ st'[j] = "refresh" /\ gate' = NoJob
           \/ st[j] \in {"scan", "verify"} /\ st'[j] = "run" /\ gate' = gate
        /\ \A k \in Jobs : k # j => st'[k] = st[k]
    BY <1>0, <2>2, <2>3, ReturnsFacts DEF Goto
  <2> QED
    BY <2>1, <2>3, <2>4, MoveKeepsGate DEF Holding
<1>5. ASSUME NEW j \in Jobs, runCmd(j) PROVE GateInv'
  <2>1. /\ st[j] = "run" /\ \A k \in Jobs : k # j => st'[k] = st[k]
        /\ UNCHANGED <<backend, gate>>
    BY <1>5, RunFacts DEF hostVars
  <2>2. gate = j /\ backend # "wua" /\ \A i \in 1..Len(txns) : txns[i].left
    BY <1>a, <2>1 DEF GateInv, Holding
  <2>3. CASE st'[j] = "verify" /\ txns' = txns
    BY <2>1, <2>2, <2>3, MoveKeepsGate DEF Holding
  <2>4. CASE /\ st'[j] = "wait" /\ Len(txns') = Len(txns) + 1
             /\ \A i \in 1..Len(txns) : txns'[i] = txns[i]
             /\ txns'[Len(txns) + 1].job = j /\ ~txns'[Len(txns) + 1].left
    <3>1. \A i \in 1..Len(txns') :
            i = Len(txns) + 1 \/ (i \in 1..Len(txns) /\ txns'[i] = txns[i])
      BY ONLY <1>0, <2>4
    <3>2. Len(txns) + 1 \in 1..Len(txns')
      BY ONLY <1>0, <2>4
    <3>3. /\ \A i \in 1..Len(txns') : ~txns'[i].left => i = Len(txns) + 1
          /\ \A k \in Jobs : st'[k] = "wait" => k = j
      BY <2>1, <2>2, <2>4, <3>1 DEF GateInv, Holding
    <3>4. \A k \in Jobs :
            /\ st'[k] \in Holding => gate' = k
            /\ st'[k] \in {"scan", "run", "verify"} => backend' # "wua"
            /\ st'[k] \in {"comDo", "com"} => backend' = "wua"
      BY <2>1, <2>2, <2>4 DEF GateInv
    <3>5. st'[gate'] \in Holding /\ backend' # "wua"
      BY <2>1, <2>2, <2>4 DEF Holding
    <3> QED
      BY ONLY <2>4, <3>2, <3>3, <3>4, <3>5 DEF GateInv
  <2> QED
    BY <1>5, <2>3, <2>4, RunFacts
<1>6. ASSUME NEW j \in Jobs, LetFinish(j) \/ comAbandoned(j) PROVE GateInv'
  <2>1. /\ st[j] = "wait" /\ Len(txns') = Len(txns) /\ UNCHANGED <<backend, gate>>
        /\ \A i \in 1..Len(txns) : txns'[i].job = txns[i].job /\ txns'[i].left
        /\ \E i \in 1..Len(txns) : txns[i].job = j
    BY <1>6, LeftFacts DEF hostVars
  <2>2. /\ \A k \in Jobs : k # j => st'[k] = st[k]
        /\ \/ st'[j] = "refresh" /\ backend = "wua"
           \/ st'[j] = "verify" /\ backend # "wua"
    BY <1>0, <1>6 DEF LetFinish, comAbandoned, Goto
  <2>3. gate = j
    BY <2>1 DEF GateInv, Holding
  <2>4. \A k \in Jobs :
          /\ st'[k] \in Holding => gate' = k
          /\ st'[k] \in {"scan", "run", "verify"} => backend' # "wua"
          /\ st'[k] \in {"comDo", "com"} => backend' = "wua"
          /\ st'[k] # "wait"
    BY <2>1, <2>2, <2>3 DEF GateInv, Holding
  <2>5. backend = "wua" => /\ Len(txns) <= 1 /\ \A i \in 1..Len(txns) : txns[i].job = j
                           /\ st'[j] = "refresh"
    BY <2>2, <2>3 DEF GateInv
  <2>6. backend # "wua" => st'[j] \in Holding
    BY <2>2 DEF Holding
  <2> QED
    BY ONLY <2>1, <2>3, <2>4, <2>5, <2>6 DEF GateInv
<1>7. ASSUME NEW j \in Jobs, Retry(j) PROVE GateInv'
  <2>1. /\ st[j] = "verify" /\ st'[j] = "run" /\ UNCHANGED <<backend, txns, gate>>
        /\ \A k \in Jobs : k # j => st'[k] = st[k]
    BY <1>0, <1>7 DEF Retry, Goto, hostVars, workVars
  <2>2. backend # "wua"
    BY <2>1 DEF GateInv
  <2> QED
    BY <2>1, <2>2, MoveKeepsGate DEF Holding
<1>8. ASSUME NEW j \in Jobs, comDo(j) PROVE GateInv'
  <2>1. /\ st[j] = "comDo" /\ st'[j] = "com" /\ UNCHANGED <<backend, txns, gate>>
        /\ \A k \in Jobs : k # j => st'[k] = st[k]
    BY <1>0, <1>8 DEF comDo, Goto, hostVars, workVars
  <2>2. backend = "wua"
    BY <2>1 DEF GateInv
  <2> QED
    BY <2>1, <2>2, MoveKeepsGate DEF Holding
<1>9. ASSUME NEW j \in Jobs, comStarts(j) PROVE GateInv'
  <2>1. /\ st[j] = "com" /\ st'[j] = "wait" /\ UNCHANGED <<backend, gate>>
        /\ \A k \in Jobs : k # j => st'[k] = st[k]
    BY <1>0, <1>9 DEF comStarts, Goto, hostVars
  <2>2. Len(txns) = 0
    BY <1>9 DEF comStarts
  <2>3. gate = j /\ backend = "wua"
    BY <2>1 DEF GateInv, Holding
  <2>4. PICK ids \in SUBSET (plan[j] \ disk) :
          txns' = <<[job |-> j, all |-> ids, todo |-> ids, left |-> FALSE]>>
    BY <1>9 DEF comStarts
  <2>5. Len(txns') = 1 /\ txns'[1].job = j /\ ~txns'[1].left
    BY ONLY <2>4
  <2>6. \A k \in Jobs : k # j => st'[k] \notin Holding /\ st'[k] # "wait"
    BY <2>1, <2>3 DEF GateInv, Holding
  <2>7. j \in Jobs /\ st'[j] \in Holding
    BY <2>1 DEF Holding
  <2>8. \A k \in Jobs : st'[k] \notin {"scan", "run", "verify"}
    BY <2>1, <2>3, <2>6 DEF Holding
  <2>9. \A k \in Jobs : st'[k] \notin {"comDo", "com"}
    BY <2>1, <2>3, <2>6 DEF Holding
  <2>10. \A i \in 1..Len(txns') : i = 1
    BY ONLY <2>5
  <2>11. 1 \in 1..Len(txns') /\ Len(txns') <= 1
    BY ONLY <2>5
  <2> QED
    BY ONLY <2>1, <2>3, <2>5, <2>6, <2>7, <2>8, <2>9, <2>10, <2>11 DEF GateInv
<1>10. ASSUME NEW j \in Jobs, Refresh(j) PROVE GateInv'
  <2>1. /\ st[j] = "refresh" /\ st'[j] = "done" /\ UNCHANGED <<backend, txns, gate>>
        /\ \A k \in Jobs : k # j => st'[k] = st[k]
    BY <1>0, <1>10 DEF Refresh, Goto, hostVars, workVars
  <2> QED
    BY <2>1, MoveKeepsGate DEF Holding
<1>11. ASSUME NEW i \in 1..Len(txns), Lands(i) PROVE GateInv'
  <2>1. /\ Len(txns') = Len(txns) /\ UNCHANGED <<backend, gate, st>>
        /\ \A k \in 1..Len(txns) :
             txns'[k].job = txns[k].job /\ txns'[k].left = txns[k].left
    BY <1>11, LandsFacts DEF hostVars
  <2>2. /\ \A k \in 1..Len(txns') : ~txns'[k].left => st'[txns'[k].job] = "wait"
        /\ \A k, l \in 1..Len(txns') : ~txns'[k].left /\ ~txns'[l].left => k = l
    BY ONLY <1>a, <1>b, <2>1
  <2>3. ASSUME NEW j \in Jobs, st'[j] = "wait"
        PROVE  \E k \in 1..Len(txns') : txns'[k].job = j /\ ~txns'[k].left
    BY ONLY <1>a, <1>b, <2>1, <2>3
  <2>4. gate' # NoJob =>
          \/ st'[gate'] \in Holding
          \/ backend' = "wua" /\ \E k \in 1..Len(txns') : txns'[k].job = gate'
    BY ONLY <1>c, <2>1
  <2>5. backend' = "wua" =>
          /\ \A k \in 1..Len(txns') :
               txns'[k].left => st'[txns'[k].job] \in {"refresh", "done"}
          /\ Len(txns') <= 1 /\ \A k \in 1..Len(txns') : gate' = txns'[k].job
    BY ONLY <1>a, <1>d, <2>1
  <2> QED
    BY ONLY <1>e, <2>1, <2>2, <2>3, <2>4, <2>5 DEF GateInv
<1>12. ASSUME NEW i \in 1..Len(txns), TxnEnds(i) PROVE GateInv'
  <2>1. /\ \A k \in 1..Len(txns') :
             \E m \in 1..Len(txns) : m # i /\ txns'[k] = txns[m]
        /\ \A m \in 1..Len(txns) : m # i => \E k \in 1..Len(txns') : txns'[k] = txns[m]
        /\ \A k, l \in 1..Len(txns') : k # l =>
             \E m, n \in 1..Len(txns) :
               m # n /\ txns'[k] = txns[m] /\ txns'[l] = txns[n]
    BY <1>12, Gone DEF TxnEnds
  <2>2. /\ backend # "wua" /\ UNCHANGED <<backend, gate>>
        /\ \/ txns[i].left /\ st' = st
           \/ ~txns[i].left /\ Goto(txns[i].job, "verify")
    BY <1>12, Zenon DEF TxnEnds, hostVars
  <2>3. ASSUME NEW k \in 1..Len(txns'), NEW l \in 1..Len(txns'),
               ~txns'[k].left, ~txns'[l].left, k # l
        PROVE  FALSE
    <3>1. PICK m \in 1..Len(txns), n \in 1..Len(txns) :
            m # n /\ txns'[k] = txns[m] /\ txns'[l] = txns[n]
      BY <2>1, <2>3
    <3>2. ~txns[m].left /\ ~txns[n].left
      BY ONLY <2>3, <3>1
    <3> QED
      BY ONLY <1>b, <3>1, <3>2
  <2>4. CASE txns[i].left /\ st' = st
    <3>1. ASSUME NEW k \in Jobs, st'[k] = "wait"
          PROVE  \E l \in 1..Len(txns') : txns'[l].job = k /\ ~txns'[l].left
      <4>1. PICK m \in 1..Len(txns) : txns[m].job = k /\ ~txns[m].left
        BY <1>b, <2>4, <3>1
      <4> QED
        BY ONLY <2>1, <2>4, <4>1
    <3>2. ASSUME NEW l \in 1..Len(txns'), ~txns'[l].left
          PROVE  st'[txns'[l].job] = "wait"
      <4>1. PICK m \in 1..Len(txns) : m # i /\ txns'[l] = txns[m]
        BY <2>1
      <4> QED
        BY ONLY <1>b, <2>4, <3>2, <4>1
    <3>3. gate' # NoJob => st'[gate'] \in Holding
      BY ONLY <1>c, <2>2, <2>4
    <3> QED
      BY ONLY <1>e, <2>2, <2>3, <2>4, <3>1, <3>2, <3>3 DEF GateInv
  <2>5. CASE ~txns[i].left /\ Goto(txns[i].job, "verify")
    <3>1. txns[i].job \in Jobs /\ st[txns[i].job] = "wait" /\ gate = txns[i].job
      BY <1>a, <2>5 DEF GateInv, Holding
    <3>2. /\ st'[txns[i].job] = "verify"
          /\ \A k \in Jobs : k # txns[i].job => st'[k] = st[k]
      BY <1>0, <2>5, <3>1 DEF Goto
    <3>3. \A l \in 1..Len(txns') : txns'[l].left
      BY ONLY <1>a, <1>b, <2>1, <2>5, i \in 1..Len(txns)
    <3>4. \A k \in Jobs : k # txns[i].job => st'[k] \notin Holding
      BY <3>1, <3>2 DEF GateInv
    <3>5. \A k \in Jobs : st'[k] \notin {"wait", "comDo", "com"}
      BY <3>2, <3>4 DEF Holding
    <3>6. st'[gate'] \in Holding
      BY <2>2, <3>1, <3>2 DEF Holding
    <3> QED
      BY ONLY <2>2, <3>1, <3>3, <3>4, <3>5, <3>6 DEF GateInv
  <2> QED
    BY <2>2, <2>4, <2>5
<1>13. ASSUME NEW i \in 1..Len(txns), comCompleted(i) PROVE GateInv'
  <2>1. backend = "wua" /\ backend' = backend /\ txns' = RemoveAt(txns, i)
    BY <1>13 DEF comCompleted, hostVars
  <2>2. Len(txns') = 0
    <3>1. Len(txns') = Len(txns) - 1
      BY <2>1, Gone
    <3> QED
      BY ONLY <1>0, <1>d, <2>1, <3>1, i \in 1..Len(txns)
  <2>3. gate = txns[i].job /\ gate' = NoJob
    BY <1>13, <2>1 DEF GateInv, comCompleted, release
  <2>4. \/ st' = st /\ txns[i].left
        \/ Goto(txns[i].job, "refresh") /\ ~txns[i].left
    BY <1>13, Zenon DEF comCompleted
  <2>5. \A k \in Jobs : st[k] \in Holding => k = txns[i].job
    BY <2>3 DEF GateInv
  <2>6. txns[i].left => st[txns[i].job] \in {"refresh", "done"}
    BY <2>1 DEF GateInv
  <2>7. \A k \in Jobs : st'[k] \notin Holding
    BY <1>0, <1>a, <2>4, <2>5, <2>6 DEF Goto, Holding
  <2>8. \A k \in Jobs : st'[k] \notin {"scan", "run", "verify", "comDo", "com", "wait"}
    BY <2>7 DEF Holding
  <2>9. Len(txns') <= 1 /\ \A k \in 1..Len(txns') : FALSE
    BY ONLY <2>2
  <2> QED
    BY ONLY <2>3, <2>7, <2>8, <2>9 DEF GateInv
<1> QED
  BY ONLY [Next]_vars, <1>0, <1>1, <1>2, <1>3, <1>4, <1>5, <1>6, <1>7, <1>8, <1>9,
          <1>10, <1>11, <1>12, <1>13, Steps
-----------------------------------------------------------------------------
(* What is told, and what is on the disk.                                  *)

\* Only ids of the list get the reason, and only those that had none.
LEMMA FailFacts ==
  ASSUME ResInv, NEW j \in Jobs, NEW ids, NEW why \in Reasons, fail(j, ids, why)
  PROVE  /\ failed' \in [Jobs -> [Updates -> Reasons]]
         /\ \A k \in Jobs : k # j => failed'[k] = failed[k]
         /\ \A u \in Updates : failed'[j][u] =
              IF u \in ids /\ failed[j][u] = "no" THEN why ELSE failed[j][u]
<1> DEFINE f == [u \in Updates |->
                   IF u \in ids /\ failed[j][u] = "no" THEN why ELSE failed[j][u]]
<1>1. failed \in [Jobs -> [Updates -> Reasons]]
  BY DEF ResInv
<1>2. f \in [Updates -> Reasons]
  BY <1>1
<1>3. failed' = [failed EXCEPT ![j] = f]
  BY Zenon DEF fail
<1>4. \A u \in Updates : f[u] =
        IF u \in ids /\ failed[j][u] = "no" THEN why ELSE failed[j][u]
  OBVIOUS
<1> HIDE DEF f
<1> QED
  BY <1>1, <1>2, <1>3, <1>4

\* What the verdict counts as installed was tried, and is on the disk unless there
\* is nobody to ask; the others were cut short or failed.
LEMMA AnswerFacts ==
  ASSUME TypeInv, ResInv, DiskInv, NEW j \in Jobs, Attributes(j)
  PROVE  \E got \in SUBSET cur[j], why \in Reasons :
           /\ installed' = [installed EXCEPT ![j] = @ \cup got]
           /\ fail(j, cur[j] \ got, why)
           /\ backend # "apt" /\ code[j] = "left" => why = "timeout"
           /\ got \subseteq disk \/ (backend = "dnf" /\ ~rpm)
<1>1. {Cut(j), "failed"} \subseteq Reasons /\ (code[j] = "left" => Cut(j) = "timeout")
  BY DEF Cut, Reasons
<1>2. CASE attributeAptResult(j)
  <2>1. PICK why \in {"failed", Cut(j)} :
          /\ installed' = [installed EXCEPT ![j] = @ \cup (cur[j] \cap disk)]
          /\ fail(j, cur[j] \ (cur[j] \cap disk), why)
    BY <1>2, Zenon DEF attributeAptResult, Outcome
  <2>2. backend = "apt"
    BY <1>2, Zenon DEF attributeAptResult
  <2>3. cur[j] \cap disk \in SUBSET cur[j] /\ cur[j] \cap disk \subseteq disk
    OBVIOUS
  <2> QED
    BY ONLY <1>1, <2>1, <2>2, <2>3, Zenon
<1>3. CASE dnfOutcome(j)
  <2> DEFINE got == IF code[j] \in {"left", "unstarted"} THEN {}
                    ELSE IF rpm THEN cur[j] \cap disk ELSE cur[j]
  <2>1. /\ installed' = [installed EXCEPT ![j] = @ \cup got]
        /\ fail(j, cur[j] \ got, Cut(j)) /\ backend = "dnf"
    BY <1>3, Zenon DEF dnfOutcome, Outcome
  <2>2. got \in SUBSET cur[j] /\ (got \subseteq disk \/ ~rpm)
    OBVIOUS
  <2> HIDE DEF got
  <2> QED
    BY ONLY <1>1, <2>1, <2>2, Zenon
<1>4. CASE pacmanOutcome(j)
  <2>1. /\ installed' = [installed EXCEPT ![j] = @ \cup (cur[j] \cap disk)]
        /\ fail(j, cur[j] \ (cur[j] \cap disk), Cut(j))
    BY <1>4, Zenon DEF pacmanOutcome, Outcome
  <2>2. cur[j] \cap disk \in SUBSET cur[j] /\ cur[j] \cap disk \subseteq disk
    OBVIOUS
  <2> QED
    BY ONLY <1>1, <2>1, <2>2, Zenon
<1>5. CASE softwareUpdateOutcome(j)
  <2> DEFINE got == IF code[j] = "ok" THEN cur[j] ELSE {}
  <2>1. /\ installed' = [installed EXCEPT ![j] = @ \cup got]
        /\ fail(j, cur[j] \ got, Cut(j))
    BY <1>5, Zenon DEF softwareUpdateOutcome, Outcome
  <2>2. backend = "softwareupdate" /\ st[j] = "verify"
    BY <1>5, Zenon DEF softwareUpdateOutcome, Outcome
  <2>3. got \in SUBSET cur[j] /\ got \subseteq disk
    BY <2>2 DEF DiskInv
  <2> HIDE DEF got
  <2> QED
    BY ONLY <1>1, <2>1, <2>3, Zenon
<1> QED
  BY <1>2, <1>3, <1>4, <1>5 DEF Attributes
\* What a call on the COM thread tells when it returns to one who waits.
LEMMA CompletedFacts ==
  ASSUME TypeInv, ResInv, NEW i \in 1..Len(txns), comCompleted(i), ~txns[i].left
  PROVE  /\ \E got \in SUBSET (txns[i].all \cap disk) :
              installed' = [installed EXCEPT ![txns[i].job] = got]
         /\ \/ failed' = failed
            \/ \E ids : fail(txns[i].job, ids, "failed")
<1> DEFINE got(e) == IF e = "none" THEN txns[i].all \cap disk ELSE {}
<1>1. PICK e \in {"none", "error", "busy"} :
        /\ installed' = [installed EXCEPT ![txns[i].job] = got(e)]
        /\ \/ fail(txns[i].job, plan[txns[i].job] \ got(e), "failed")
           \/ UNCHANGED failed
  BY Zenon DEF comCompleted
<1>2. got(e) \in SUBSET (txns[i].all \cap disk)
  OBVIOUS
<1> HIDE DEF got
<1> QED
  BY ONLY <1>1, <1>2, Zenon

\* The verdicts keep their types, and what is installed stays on the disk.
LEMMA ResStep ==
  ASSUME TypeInv, PlanInv, GateInv, ResInv, DiskInv, [Next]_vars
  PROVE  ResInv' /\ disk \subseteq disk' /\ UNCHANGED hostVars
<1> DEFINE Goal == ResInv' /\ disk \subseteq disk' /\ UNCHANGED hostVars
<1>0. /\ code \in [Jobs -> {"none", "ok", "bad", "locked", "left", "unstarted"}]
      /\ installed \in [Jobs -> SUBSET Updates]
      /\ failed \in [Jobs -> [Updates -> Reasons]]
  BY DEF ResInv
<1>r. "failed" \in Reasons /\ "unknown" \in Reasons
  BY DEF Reasons
<1>1. ASSUME Aside PROVE Goal
  BY <1>0, <1>1, AsideFacts DEF workVars, hostVars, jobVars, resVars, ResInv
<1>2. ASSUME NEW j \in Jobs, Execute(j) PROVE Goal
  <2>1. failed' = failed \/ \E ids : fail(j, ids, "failed")
    BY <1>2, Zenon DEF Execute, prepareInstall
  <2>2. UNCHANGED <<code, installed, hostVars, disk>>
    BY <1>2 DEF Execute, workVars
  <2>3. failed' \in [Jobs -> [Updates -> Reasons]]
    BY <1>0, <1>r, <2>1, FailFacts
  <2> QED
    BY <1>0, <2>2, <2>3 DEF ResInv
<1>3. ASSUME NEW j \in Jobs, acquire(j) \/ comNotStarted(j) PROVE Goal
  BY <1>0, <1>3 DEF acquire, comNotStarted, workVars, ResInv
<1>4. ASSUME NEW j \in Jobs, ScanFirst(j) PROVE Goal
  <2>1. failed' = failed \/ \E ids : fail(j, ids, "failed")
    BY <1>4, Zenon DEF ScanFirst
  <2>2. UNCHANGED <<code, installed, hostVars, disk>>
    BY <1>4 DEF ScanFirst, workVars
  <2>3. failed' \in [Jobs -> [Updates -> Reasons]]
    BY <1>0, <1>r, <2>1, FailFacts
  <2> QED
    BY <1>0, <2>2, <2>3 DEF ResInv
<1>5. ASSUME NEW j \in Jobs, runCmd(j) PROVE Goal
  <2>1. UNCHANGED <<installed, failed, hostVars, disk>>
    BY <1>5, Zenon DEF runCmd, resVars
  <2>2. code' = code \/ code' = [code EXCEPT ![j] = "unstarted"]
    BY <1>5, Zenon DEF runCmd
  <2> QED
    BY ONLY <1>0, <2>1, <2>2 DEF ResInv
<1>6. ASSUME NEW j \in Jobs, LetFinish(j) PROVE Goal
  <2>1. UNCHANGED <<installed, failed, hostVars, disk>>
    BY <1>6, Zenon DEF LetFinish, resVars
  <2>2. code' = [code EXCEPT ![j] = "left"]
    BY <1>6, Zenon DEF LetFinish
  <2> QED
    BY ONLY <1>0, <2>1, <2>2 DEF ResInv
<1>7. ASSUME NEW j \in Jobs, comAbandoned(j) PROVE Goal
  <2>1. UNCHANGED <<installed, code, hostVars, disk>> /\ fail(j, plan[j], "unknown")
    BY <1>7, Zenon DEF comAbandoned
  <2>2. failed' \in [Jobs -> [Updates -> Reasons]]
    BY <1>r, <2>1, FailFacts
  <2> QED
    BY ONLY <1>0, <2>1, <2>2 DEF ResInv
<1>8. ASSUME NEW j \in Jobs, Retry(j) PROVE Goal
  BY <1>0, <1>8 DEF Retry, workVars, resVars, ResInv
<1>9. ASSUME NEW j \in Jobs, Attributes(j) PROVE Goal
  <2>1. PICK got \in SUBSET cur[j], why \in Reasons :
          /\ installed' = [installed EXCEPT ![j] = @ \cup got]
          /\ fail(j, cur[j] \ got, why)
    BY <1>9, AnswerFacts
  <2>2. /\ code' = [code EXCEPT ![j] = "none"] /\ UNCHANGED <<disk, hostVars>>
    BY <1>9, AttributesFacts DEF workVars
  <2>3. failed' \in [Jobs -> [Updates -> Reasons]]
    BY <2>1, FailFacts
  <2>4. got \in SUBSET Updates
    BY <2>1 DEF TypeInv
  <2> QED
    BY ONLY <1>0, <2>1, <2>2, <2>3, <2>4 DEF ResInv
<1>10. ASSUME NEW j \in Jobs, comDo(j) \/ comStarts(j) PROVE Goal
  <2>1. UNCHANGED <<installed, failed, code, hostVars, disk>>
    BY <1>10, Zenon DEF comDo, comStarts, jobVars, resVars, workVars
  <2> QED
    BY ONLY <1>0, <2>1 DEF ResInv
<1>11. ASSUME NEW j \in Jobs, Refresh(j) PROVE Goal
  BY <1>0, <1>11 DEF Refresh, Forget, workVars, ResInv
<1>12. ASSUME NEW i \in 1..Len(txns), Lands(i) PROVE Goal
  BY <1>0, <1>12, LandsFacts DEF jobVars, resVars, ResInv
<1>13. ASSUME NEW i \in 1..Len(txns), TxnEnds(i) PROVE Goal
  <2>1. UNCHANGED <<installed, failed, hostVars, disk>>
    BY <1>13, Zenon DEF TxnEnds, resVars
  <2>2. code' = code \/ \E c \in {"ok", "bad", "locked"} :
                          code' = [code EXCEPT ![txns[i].job] = c]
    BY <1>13 DEF TxnEnds, Exits
  <2> QED
    BY ONLY <1>0, <2>1, <2>2 DEF ResInv
<1>14. ASSUME NEW i \in 1..Len(txns), comCompleted(i) PROVE Goal
  <2>1. UNCHANGED <<code, hostVars, disk>>
    BY <1>14, Zenon DEF comCompleted
  <2>2. CASE txns[i].left
    <3>1. UNCHANGED <<installed, failed>>
      BY <1>14, <2>2, Zenon DEF comCompleted
    <3> QED
      BY ONLY <1>0, <2>1, <3>1 DEF ResInv
  <2>3. CASE ~txns[i].left
    <3>1. PICK got \in SUBSET (txns[i].all \cap disk) :
            installed' = [installed EXCEPT ![txns[i].job] = got]
      BY <1>14, <2>3, CompletedFacts
    <3>2. txns[i].job \in Jobs /\ txns[i].all \in SUBSET Updates
      BY TxnFacts
    <3>3. failed' = failed \/ \E ids : fail(txns[i].job, ids, "failed")
      BY <1>14, <2>3, CompletedFacts
    <3>4. failed' \in [Jobs -> [Updates -> Reasons]]
      BY <1>0, <1>r, <3>2, <3>3, FailFacts
    <3> QED
      BY ONLY <1>0, <2>1, <3>1, <3>2, <3>4 DEF ResInv
  <2> QED
    BY <2>2, <2>3
<1>15. DOMAIN txns = 1..Len(txns)
  BY DEF TypeInv
<1> HIDE DEF Goal
<1>16. Goal
  BY ONLY [Next]_vars, <1>1, <1>2, <1>3, <1>4, <1>5, <1>6, <1>7, <1>8, <1>9,
          <1>10, <1>11, <1>12, <1>13, <1>14, <1>15, Steps
<1> QED
  BY <1>16 DEF Goal
\* A step that leaves the transactions and what is told as they are keeps what is
\* said of the disk, also when a job that waits for nothing moves.
LEMMA MoveKeepsDisk ==
  ASSUME TypeInv, GateInv, DiskInv, NEW j \in Jobs,
         UNCHANGED <<backend, rpm, disk, txns, installed>>, st[j] # "wait",
         st'[j] # "verify",
         \A k \in Jobs : k # j => st'[k] = st[k] /\ cur'[k] = cur[k] /\ code'[k] = code[k]
  PROVE  DiskInv'
<1>1. \A i \in 1..Len(txns) :
        txns[i].job \in Jobs /\ (~txns[i].left => st[txns[i].job] = "wait")
  BY TxnFacts DEF GateInv
<1>2. \A i \in 1..Len(txns') :
        backend' # "wua" /\ ~txns'[i].left => cur'[txns'[i].job] = txns'[i].all
  BY <1>1 DEF DiskInv
<1> QED
  BY <1>2 DEF DiskInv, InstalledIsInstalled

\* What is said of the disk holds in every step.
LEMMA DiskStep ==
  ASSUME TypeInv, PlanInv, GateInv, ResInv, DiskInv, [Next]_vars
  PROVE  DiskInv'
<1>0. /\ st \in [Jobs -> Stages] /\ txns \in Seq(Txn) /\ Len(txns) \in Nat
      /\ DOMAIN txns = 1..Len(txns) /\ cur \in [Jobs -> SUBSET Updates]
  BY DEF TypeInv
<1>a. \A i \in 1..Len(txns) : txns[i].job \in Jobs /\ txns[i].left \in BOOLEAN
  BY TxnFacts
<1>b. /\ code \in [Jobs -> {"none", "ok", "bad", "locked", "left", "unstarted"}]
      /\ installed \in [Jobs -> SUBSET Updates]
  BY DEF ResInv
<1>c. \A i \in 1..Len(txns) : txns[i].all \ txns[i].todo \subseteq disk
  BY DEF DiskInv
<1>d. \A i \in 1..Len(txns) :
        backend # "wua" /\ ~txns[i].left => cur[txns[i].job] = txns[i].all
  BY DEF DiskInv
<1>e. \A k \in Jobs : backend = "softwareupdate" /\ st[k] = "verify" /\ code[k] = "ok"
        => cur[k] \subseteq disk
  BY DEF DiskInv
<1>f. \A k \in Jobs : installed[k] \subseteq disk \/ (backend = "dnf" /\ ~rpm)
  BY DEF DiskInv, InstalledIsInstalled
<1>1. CASE Aside
  BY <1>1, AsideFacts
     DEF workVars, hostVars, jobVars, resVars, DiskInv, InstalledIsInstalled
<1>2. ASSUME NEW j \in Jobs, Execute(j) PROVE DiskInv'
  <2>1. /\ st[j] = "idle" /\ st'[j] \in {"gate", "refresh", "done"}
        /\ \A k \in Jobs : k # j => st'[k] = st[k]
    BY <1>0, <1>2 DEF Execute, prepareInstall, Goto
  <2>2. UNCHANGED <<backend, rpm, disk, txns, installed, cur, code>>
    BY <1>2 DEF Execute, hostVars, workVars
  <2> QED
    BY <2>1, <2>2, MoveKeepsDisk
<1>3. ASSUME NEW j \in Jobs, acquire(j) \/ ScanFirst(j) \/ comNotStarted(j)
      PROVE  DiskInv'
  <2>1. st[j] \in {"gate", "scan", "comDo", "com"}
    BY <1>3 DEF acquire, ScanFirst, comNotStarted
  <2>2. UNCHANGED <<backend, rpm, disk, txns, installed, cur, code>>
    BY <1>3 DEF acquire, ScanFirst, comNotStarted, hostVars, workVars
  <2>3. \E s \in {"comDo", "scan", "run", "refresh"} : Goto(j, s)
    BY <1>3, Zenon DEF acquire, ScanFirst, comNotStarted, Returns
  <2>4. st'[j] # "verify" /\ \A k \in Jobs : k # j => st'[k] = st[k]
    BY <1>0, <2>3 DEF Goto
  <2> QED
    BY <2>1, <2>2, <2>4, MoveKeepsDisk
<1>4. ASSUME NEW j \in Jobs, Retry(j) \/ comDo(j) PROVE DiskInv'
  <2>1. st[j] \in {"verify", "comDo"} /\ (Goto(j, "run") \/ Goto(j, "com"))
    BY <1>4 DEF Retry, comDo
  <2>2. UNCHANGED <<backend, rpm, disk, txns, installed, cur>>
    BY <1>4 DEF Retry, comDo, hostVars, workVars, resVars, jobVars
  <2>3. code' = code \/ code' = [code EXCEPT ![j] = "none"]
    BY <1>4 DEF Retry, comDo, jobVars
  <2>4. /\ st'[j] # "verify"
        /\ \A k \in Jobs : k # j => st'[k] = st[k] /\ code'[k] = code[k]
    BY <1>0, <1>b, <2>1, <2>3 DEF Goto
  <2> QED
    BY <2>1, <2>2, <2>4, MoveKeepsDisk
<1>5. ASSUME NEW j \in Jobs, Refresh(j) PROVE DiskInv'
  <2>1. st[j] = "refresh" /\ UNCHANGED <<backend, rpm, disk, txns, installed>>
    BY <1>5 DEF Refresh, hostVars, workVars
  <2>2. /\ st'[j] # "verify"
        /\ \A k \in Jobs : k # j => /\ st'[k] = st[k] /\ code'[k] = code[k]
                                    /\ cur'[k] = cur[k]
    BY <1>0, <1>b, <1>5 DEF Refresh, Goto, Forget
  <2> QED
    BY <2>1, <2>2, MoveKeepsDisk
<1>6. ASSUME NEW j \in Jobs, Attributes(j) PROVE DiskInv'
  <2>1. /\ st[j] = "verify" /\ code' = [code EXCEPT ![j] = "none"]
        /\ UNCHANGED <<backend, rpm, disk, txns, cur>>
    BY <1>6, AttributesFacts DEF hostVars, workVars
  <2>2. Goto(j, "run") \/ Goto(j, "refresh")
    BY <1>6, AttributesFacts DEF Returns
  <2>3. \A k \in Jobs : st'[k] = "verify" => k # j /\ st[k] = "verify"
    BY <1>0, <2>2 DEF Goto
  <2>4. PICK got \in SUBSET cur[j] :
          /\ installed' = [installed EXCEPT ![j] = @ \cup got]
          /\ got \subseteq disk \/ (backend = "dnf" /\ ~rpm)
    BY <1>6, AnswerFacts
  <2>5. \A k \in Jobs : installed'[k] \subseteq disk' \/ (backend' = "dnf" /\ ~rpm')
    BY ONLY <1>b, <1>f, <2>1, <2>4
  <2>6. \A k \in Jobs :
          backend' = "softwareupdate" /\ st'[k] = "verify" /\ code'[k] = "ok"
            => cur'[k] \subseteq disk'
    BY ONLY <1>b, <1>e, <2>1, <2>3
  <2> QED
    BY ONLY <1>c, <1>d, <2>1, <2>5, <2>6 DEF DiskInv, InstalledIsInstalled
<1>7. ASSUME NEW j \in Jobs, runCmd(j) PROVE DiskInv'
  <2>1. /\ st[j] = "run" /\ cur' = [cur EXCEPT ![j] = RunIds(j)]
        /\ \A k \in Jobs : k # j => st'[k] = st[k]
        /\ UNCHANGED <<backend, rpm, disk, installed>>
    BY <1>7, RunFacts DEF hostVars
  <2>2. \A i \in 1..Len(txns) : ~txns[i].left => txns[i].job # j
    BY <2>1 DEF GateInv
  <2>3. \A i \in 1..Len(txns) :
          backend # "wua" /\ ~txns[i].left => cur'[txns[i].job] = txns[i].all
    BY ONLY <1>0, <1>a, <1>d, <2>1, <2>2
  <2>4. CASE /\ Len(txns') = Len(txns) + 1 /\ code' = code /\ st'[j] = "wait"
             /\ \A i \in 1..Len(txns) : txns'[i] = txns[i]
             /\ txns'[Len(txns) + 1].job = j /\ txns'[Len(txns) + 1].all = RunIds(j)
             /\ txns'[Len(txns) + 1].todo = RunIds(j) /\ ~txns'[Len(txns) + 1].left
    <3>1. \A i \in 1..Len(txns') :
            i = Len(txns) + 1 \/ (i \in 1..Len(txns) /\ txns'[i] = txns[i])
      BY ONLY <1>0, <2>4
    <3>2. cur'[j] = RunIds(j)
      BY <1>0, <2>1
    <3>3. \A i \in 1..Len(txns') : txns'[i].all \ txns'[i].todo \subseteq disk'
      BY ONLY <1>c, <2>1, <2>4, <3>1
    <3>4. \A i \in 1..Len(txns') :
            backend' # "wua" /\ ~txns'[i].left => cur'[txns'[i].job] = txns'[i].all
      BY ONLY <2>1, <2>3, <2>4, <3>1, <3>2
    <3>5. \A k \in Jobs :
            backend' = "softwareupdate" /\ st'[k] = "verify" /\ code'[k] = "ok"
              => cur'[k] \subseteq disk'
      BY ONLY <1>0, <1>e, <2>1, <2>4
    <3> QED
      BY ONLY <1>f, <2>1, <3>3, <3>4, <3>5 DEF DiskInv, InstalledIsInstalled
  <2>5. CASE txns' = txns /\ code' = [code EXCEPT ![j] = "unstarted"]
    <3>1. \A k \in Jobs :
            backend' = "softwareupdate" /\ st'[k] = "verify" /\ code'[k] = "ok"
              => cur'[k] \subseteq disk'
      BY ONLY <1>0, <1>b, <1>e, <2>1, <2>5
    <3> QED
      BY ONLY <1>c, <1>f, <2>1, <2>3, <2>5, <3>1 DEF DiskInv, InstalledIsInstalled
  <2> QED
    BY <1>7, <2>4, <2>5, RunFacts
<1>8. ASSUME NEW j \in Jobs, LetFinish(j) \/ comAbandoned(j) PROVE DiskInv'
  <2>1. /\ st[j] = "wait" /\ Len(txns') = Len(txns)
        /\ \A i \in 1..Len(txns) : /\ txns'[i].all = txns[i].all
                                   /\ txns'[i].todo = txns[i].todo /\ txns'[i].left
        /\ UNCHANGED <<backend, rpm, disk, cur, installed>>
    BY <1>8, LeftFacts DEF hostVars
  <2>2. \/ Goto(j, "verify") /\ code' = [code EXCEPT ![j] = "left"]
        \/ Goto(j, "refresh") /\ code' = code
    BY <1>8, Zenon DEF LetFinish, comAbandoned
  <2>3. \A k \in Jobs : st'[k] = "verify" /\ code'[k] = "ok" =>
                          st[k] = "verify" /\ code[k] = "ok"
    BY <1>0, <1>b, <2>2 DEF Goto
  <2> QED
    BY ONLY <1>c, <1>e, <1>f, <2>1, <2>3 DEF DiskInv, InstalledIsInstalled
<1>9. ASSUME NEW j \in Jobs, comStarts(j) PROVE DiskInv'
  <2>1. /\ st[j] = "com" /\ Goto(j, "wait")
        /\ UNCHANGED <<backend, rpm, disk, cur, code, installed>>
    BY <1>9 DEF comStarts, hostVars, jobVars, resVars
  <2>2. backend = "wua"
    BY <2>1 DEF GateInv
  <2>3. PICK ids \in SUBSET (plan[j] \ disk) :
          txns' = <<[job |-> j, all |-> ids, todo |-> ids, left |-> FALSE]>>
    BY <1>9 DEF comStarts
  <2>4. \A i \in 1..Len(txns') : txns'[i].all \ txns'[i].todo = {}
    <3> DEFINE e == [job |-> j, all |-> ids, todo |-> ids, left |-> FALSE]
    <3>1. e.job = j /\ e.all = ids /\ e.todo = ids /\ e.left = FALSE
      OBVIOUS
    <3>2. \A i \in 1..Len(txns') : txns'[i] = e
      BY ONLY <2>3, Single
    <3> QED
      BY ONLY <3>1, <3>2
  <2> QED
    BY ONLY <1>f, <2>1, <2>2, <2>4 DEF DiskInv, InstalledIsInstalled
<1>10. ASSUME NEW i \in 1..Len(txns), Lands(i) PROVE DiskInv'
  <2>1. /\ Len(txns') = Len(txns) /\ disk \subseteq disk'
        /\ \A k \in 1..Len(txns) :
             /\ txns'[k].job = txns[k].job /\ txns'[k].all = txns[k].all
             /\ txns'[k].left = txns[k].left
             /\ txns[k].todo \ txns'[k].todo \subseteq disk'
        /\ UNCHANGED <<backend, rpm, st, cur, code, installed>>
    BY <1>10, LandsFacts DEF hostVars, jobVars, resVars
  <2>2. \A k \in 1..Len(txns') : txns'[k].all \ txns'[k].todo \subseteq disk'
    BY ONLY <1>c, <2>1
  <2>3. \A k \in 1..Len(txns') :
          backend' # "wua" /\ ~txns'[k].left => cur'[txns'[k].job] = txns'[k].all
    BY ONLY <1>a, <1>d, <2>1
  <2> QED
    BY ONLY <1>e, <1>f, <2>1, <2>2, <2>3 DEF DiskInv, InstalledIsInstalled
<1>11. ASSUME NEW i \in 1..Len(txns), TxnEnds(i) PROVE DiskInv'
  <2>0. txns' = RemoveAt(txns, i)
    BY <1>11, Zenon DEF TxnEnds
  <2>1. \A k \in 1..Len(txns') :
          \E m \in 1..Len(txns) : m # i /\ txns'[k] = txns[m]
    BY <2>0, Gone, Zenon
  <2>2. backend # "wua" /\ UNCHANGED <<backend, rpm, disk, cur, installed>>
    BY <1>11, Zenon DEF TxnEnds, hostVars, resVars
  <2>3. \/ UNCHANGED <<st, code>>
        \/ /\ ~txns[i].left /\ st' = [st EXCEPT ![txns[i].job] = "verify"]
           /\ \E c \in Exits(i) : code' = [code EXCEPT ![txns[i].job] = c]
    BY <1>11, Zenon DEF TxnEnds, Goto
  <2>4. backend = "softwareupdate" /\ "ok" \in Exits(i) => txns[i].all \subseteq disk
    BY <1>c DEF Exits
  <2>5. ASSUME NEW k \in Jobs, backend = "softwareupdate", st'[k] = "verify",
               code'[k] = "ok"
        PROVE  cur[k] \subseteq disk
    <3>1. CASE UNCHANGED <<st, code>> \/ k # txns[i].job
      <4>1. st[k] = "verify" /\ code[k] = "ok"
        BY <1>0, <1>a, <1>b, <2>3, <2>5, <3>1
      <4> QED
        BY <1>e, <2>5, <4>1
    <3>2. CASE ~UNCHANGED <<st, code>> /\ k = txns[i].job
      <4>1. ~txns[i].left /\ "ok" \in Exits(i)
        BY <1>b, <2>3, <2>5, <3>2
      <4>2. cur[k] = txns[i].all
        BY <1>d, <2>2, <3>2, <4>1
      <4> QED
        BY <2>4, <2>5, <4>1, <4>2
    <3> QED
      BY <3>1, <3>2
  <2>6. \A k \in 1..Len(txns') :
          /\ txns'[k].all \ txns'[k].todo \subseteq disk'
          /\ backend' # "wua" /\ ~txns'[k].left => cur'[txns'[k].job] = txns'[k].all
    BY ONLY <1>c, <1>d, <2>1, <2>2
  <2> QED
    BY ONLY <1>f, <2>2, <2>5, <2>6 DEF DiskInv, InstalledIsInstalled
<1>12. ASSUME NEW i \in 1..Len(txns), comCompleted(i) PROVE DiskInv'
  <2>0. txns' = RemoveAt(txns, i)
    BY <1>12, Zenon DEF comCompleted
  <2>1. \A k \in 1..Len(txns') :
          \E m \in 1..Len(txns) : m # i /\ txns'[k] = txns[m]
    BY <2>0, Gone, Zenon
  <2>2. backend = "wua" /\ UNCHANGED <<backend, rpm, disk, cur, code>>
    BY <1>12, Zenon DEF comCompleted, hostVars
  <2>3. \/ txns[i].left /\ installed' = installed
        \/ \E got \in SUBSET (txns[i].all \cap disk) :
             installed' = [installed EXCEPT ![txns[i].job] = got]
    <3>1. CASE txns[i].left
      BY <1>12, <3>1, Zenon DEF comCompleted
    <3>2. CASE ~txns[i].left
      BY <1>12, <3>2, CompletedFacts
    <3> QED
      BY <3>1, <3>2
  <2>4. \A k \in Jobs : installed'[k] \subseteq disk' \/ (backend' = "dnf" /\ ~rpm')
    BY ONLY <1>b, <1>f, <2>2, <2>3
  <2>5. \A k \in 1..Len(txns') : txns'[k].all \ txns'[k].todo \subseteq disk'
    BY ONLY <1>c, <2>1, <2>2
  <2> QED
    BY ONLY <2>2, <2>4, <2>5 DEF DiskInv, InstalledIsInstalled
<1> QED
  BY ONLY [Next]_vars, <1>0, <1>1, <1>2, <1>3, <1>4, <1>5, <1>6, <1>7, <1>8, <1>9,
          <1>10, <1>11, <1>12, Steps
-----------------------------------------------------------------------------
(* What lands late was told.                                               *)

\* A verdict that was given stays.
LEMMA FailKeeps ==
  ASSUME ResInv, NEW j \in Jobs, NEW ids, NEW why \in Reasons, fail(j, ids, why),
         NEW k \in Jobs, NEW u \in Updates, failed[k][u] # "no"
  PROVE  failed'[k][u] = failed[k][u]
  BY FailFacts

\* An id on the list that has none gets one.
LEMMA FailTells ==
  ASSUME ResInv, NEW j \in Jobs, NEW ids, NEW why \in Reasons, fail(j, ids, why),
         NEW u \in Updates, u \in ids, failed[j][u] = "no"
  PROVE  failed'[j][u] = why
  BY FailFacts

\* An id that is not on the list, or of another job, has what it had.
LEMMA FailSpares ==
  ASSUME ResInv, NEW j \in Jobs, NEW ids, NEW why \in Reasons, fail(j, ids, why),
         NEW k \in Jobs, NEW u \in Updates, k # j \/ u \notin ids
  PROVE  failed'[k][u] = failed[k][u]
  BY FailFacts

\* A job that waits for no transaction moves, without a verdict on what it still
\* has to do; the others and the transactions stay as they are.
LEMMA MoveKeepsFresh ==
  ASSUME TypeInv, GateInv, FreshInv, NEW j \in Jobs, UNCHANGED <<backend, txns>>,
         st[j] # "wait", st'[j] \notin {"idle", "wait", "verify"},
         \A k \in Jobs : k # j => st'[k] = st[k] /\ plan'[k] = plan[k] /\ cur'[k] = cur[k],
         \A k \in Jobs, u \in Updates : k # j => failed'[k][u] = failed[k][u],
         st'[j] \in Holding \cup {"gate"} =>
           \A u \in Updates : u \in plan'[j] => failed'[j][u] = "no"
  PROVE  FreshInv'
<1>1. ASSUME NEW k \in Jobs, NEW u \in Updates, Fresh(k, u)'
      PROVE  failed'[k][u] = "no"
  <2>1. CASE k # j
    <3>1. Fresh(k, u)
      BY <1>1, <2>1 DEF Fresh
    <3>2. failed'[k][u] = failed[k][u]
      BY <2>1
    <3> QED
      BY <3>1, <3>2 DEF FreshInv
  <2>2. CASE k = j
    BY <1>1, <2>2 DEF Fresh
  <2> QED
    BY <2>1, <2>2
<1>2. \A k \in Jobs : st'[k] \in {"wait", "verify"} /\ backend' # "wua"
        => plan'[k] \cap cur'[k] = {}
  BY DEF FreshInv
<1>3. \A i \in 1..Len(txns) :
        txns[i].job \in Jobs /\ (~txns[i].left => txns[i].job # j)
  <2>1. \A i \in 1..Len(txns) : txns[i].job \in Jobs
    BY TxnFacts
  <2>2. \A i \in 1..Len(txns) : ~txns[i].left => st[txns[i].job] = "wait"
    BY DEF GateInv
  <2> QED
    BY ONLY <2>1, <2>2, st[j] # "wait"
<1>4. \A i \in 1..Len(txns') :
        /\ txns'[i].todo \subseteq txns'[i].all
        /\ backend' = "wua" /\ ~txns'[i].left => txns'[i].all \subseteq plan'[txns'[i].job]
  BY <1>3 DEF FreshInv
<1> QED
  BY ONLY <1>1, <1>2, <1>4 DEF FreshInv

\* Ids that have no verdict keep none as long as they are to be tried.
LEMMA FreshStep ==
  ASSUME TypeInv, PlanInv, GateInv, ResInv, DiskInv, FreshInv, [Next]_vars
  PROVE  FreshInv'
<1>0. /\ st \in [Jobs -> Stages] /\ txns \in Seq(Txn) /\ Len(txns) \in Nat
      /\ DOMAIN txns = 1..Len(txns) /\ cur \in [Jobs -> SUBSET Updates]
      /\ plan \in [Jobs -> SUBSET Updates]
  BY DEF TypeInv
<1>r. "failed" \in Reasons /\ "unknown" \in Reasons
  BY DEF Reasons
<1>a. \A i \in 1..Len(txns) : txns[i].job \in Jobs /\ txns[i].left \in BOOLEAN
  BY TxnFacts
<1>b. \A j \in Jobs, u \in Updates : Fresh(j, u) => failed[j][u] = "no"
  BY DEF FreshInv
<1>c. \A j \in Jobs : st[j] \in {"wait", "verify"} /\ backend # "wua"
        => plan[j] \cap cur[j] = {}
  BY DEF FreshInv
<1>d. \A i \in 1..Len(txns) :
        /\ txns[i].todo \subseteq txns[i].all
        /\ backend = "wua" /\ ~txns[i].left => txns[i].all \subseteq plan[txns[i].job]
  BY DEF FreshInv
<1>e. \A i \in 1..Len(txns) : ~txns[i].left => st[txns[i].job] = "wait"
  BY DEF GateInv
<1>1. CASE Aside
  BY <1>1, AsideFacts DEF workVars, hostVars, jobVars, resVars, FreshInv, Fresh
<1>2. ASSUME NEW j \in Jobs, Execute(j) PROVE FreshInv'
  <2>1. st[j] = "idle" /\ UNCHANGED <<backend, txns, cur>>
    BY <1>2 DEF Execute, hostVars, workVars
  <2>2. /\ st'[j] \in {"gate", "refresh", "done"}
        /\ \A k \in Jobs : k # j => st'[k] = st[k] /\ plan'[k] = plan[k]
    BY <1>0, <1>2 DEF Execute, prepareInstall, Goto, Plan
  <2>3. \/ st'[j] \in {"refresh", "done"} /\ failed' = failed
        \/ st'[j] \in {"refresh", "done"} /\ \E ids : fail(j, ids, "failed")
        \/ \E ids : fail(j, ids \cap Self, "failed") /\ plan'[j] = ids \ Self
    BY <1>0, <1>2 DEF Execute, prepareInstall, Goto, Plan
  <2>4. \A k \in Jobs, u \in Updates : k # j => failed'[k][u] = failed[k][u]
    <3>1. failed' = failed \/ \E ids : fail(j, ids, "failed")
      BY <2>3, Zenon
    <3> QED
      BY <1>r, <3>1, FailSpares
  <2>5. ASSUME st'[j] = "gate", NEW u \in Updates, u \in plan'[j]
        PROVE  failed'[j][u] = "no"
    <3>1. PICK ids : fail(j, ids \cap Self, "failed") /\ plan'[j] = ids \ Self
      BY <2>3, <2>5
    <3>2. u \notin ids \cap Self
      BY <2>5, <3>1
    <3>3. failed'[j][u] = failed[j][u]
      BY <1>r, <3>1, <3>2, FailSpares
    <3> QED
      BY <1>b, <2>1, <3>3 DEF Fresh
  <2> QED
    BY <2>1, <2>2, <2>4, <2>5, MoveKeepsFresh DEF Holding
<1>3. ASSUME NEW j \in Jobs, acquire(j) \/ comNotStarted(j) \/ comDo(j) PROVE FreshInv'
  <2>1. /\ st[j] \in {"gate", "comDo", "com"}
        /\ UNCHANGED <<backend, txns, cur, plan, failed>>
    BY <1>3, Zenon DEF acquire, comNotStarted, comDo, hostVars, workVars, jobVars, resVars
  <2>2. \E s \in {"comDo", "com", "scan", "refresh"} : Goto(j, s)
    BY <1>3, Zenon DEF acquire, comNotStarted, comDo, Returns
  <2>3. /\ st'[j] \notin {"idle", "wait", "verify"}
        /\ \A k \in Jobs : k # j => st'[k] = st[k]
    BY <1>0, <2>2 DEF Goto
  <2>4. \A u \in Updates : u \in plan[j] => failed[j][u] = "no"
    BY <1>b, <2>1 DEF Fresh, Holding
  <2> QED
    BY <2>1, <2>3, <2>4, MoveKeepsFresh
<1>4. ASSUME NEW j \in Jobs, ScanFirst(j) PROVE FreshInv'
  <2>1. st[j] = "scan" /\ UNCHANGED <<backend, txns, cur>>
    BY <1>4, Zenon DEF ScanFirst, hostVars, workVars
  <2>2. (Goto(j, "run") \/ Goto(j, "refresh"))
    BY <1>4, Zenon DEF ScanFirst, Returns
  <2>3. /\ st'[j] \notin {"idle", "wait", "verify"}
        /\ \A k \in Jobs : k # j => st'[k] = st[k]
    BY <1>0, <2>2 DEF Goto
  <2>4. \A u \in Updates : u \in plan[j] => failed[j][u] = "no"
    BY <1>b, <2>1 DEF Fresh, Holding
  <2>5. \/ UNCHANGED <<plan, failed>>
        \/ \E refused : fail(j, refused, "failed") /\ Plan(j, plan[j] \ refused)
    BY <1>4, Zenon DEF ScanFirst
  <2>6. CASE UNCHANGED <<plan, failed>>
    BY <2>1, <2>3, <2>4, <2>6, MoveKeepsFresh
  <2>7. ASSUME NEW refused, fail(j, refused, "failed"), Plan(j, plan[j] \ refused)
        PROVE  FreshInv'
    <3>1. plan'[j] = plan[j] \ refused /\ \A k \in Jobs : k # j => plan'[k] = plan[k]
      BY <1>0, <2>7 DEF Plan
    <3>2. \A k \in Jobs, u \in Updates :
            k # j \/ u \notin refused => failed'[k][u] = failed[k][u]
      BY <1>r, <2>7, FailSpares
    <3>3. \A u \in Updates : u \in plan'[j] => failed'[j][u] = "no"
      BY ONLY <2>4, <3>1, <3>2, j \in Jobs
    <3> QED
      BY <2>1, <2>3, <3>1, <3>2, <3>3, MoveKeepsFresh
  <2> QED
    BY <2>5, <2>6, <2>7
<1>5. ASSUME NEW j \in Jobs, Retry(j) PROVE FreshInv'
  <2>1. st[j] = "verify" /\ UNCHANGED <<backend, txns, cur, failed>>
    BY <1>5, Zenon DEF Retry, hostVars, workVars, resVars
  <2>2. /\ st'[j] = "run" /\ plan'[j] = cur[j]
        /\ \A k \in Jobs : k # j => st'[k] = st[k] /\ plan'[k] = plan[k]
    BY <1>0, <1>5 DEF Retry, Goto, Plan
  <2>3. \A u \in Updates : u \in cur[j] => failed[j][u] = "no"
    BY <1>b, <2>1 DEF Fresh, GateInv
  <2> QED
    BY <2>1, <2>2, <2>3, MoveKeepsFresh
<1>6. ASSUME NEW j \in Jobs, Refresh(j) PROVE FreshInv'
  <2>1. /\ st[j] = "refresh" /\ st'[j] = "done" /\ UNCHANGED <<backend, txns, failed>>
        /\ \A k \in Jobs : k # j => /\ st'[k] = st[k] /\ plan'[k] = plan[k]
                                    /\ cur'[k] = cur[k]
    BY <1>0, <1>6 DEF Refresh, Goto, Forget, hostVars, workVars
  <2> QED
    BY <2>1, MoveKeepsFresh DEF Holding
<1>7. ASSUME NEW j \in Jobs, Attributes(j) PROVE FreshInv'
  <2>1. st[j] = "verify" /\ UNCHANGED <<backend, txns, cur, plan>>
    BY <1>7, AttributesFacts DEF hostVars, workVars
  <2>2. Goto(j, "run") \/ Goto(j, "refresh")
    BY <1>7, AttributesFacts DEF Returns
  <2>3. /\ st'[j] \notin {"idle", "wait", "verify"}
        /\ \A k \in Jobs : k # j => st'[k] = st[k]
    BY <1>0, <2>2 DEF Goto
  <2>4. PICK got \in SUBSET cur[j], why \in Reasons : fail(j, cur[j] \ got, why)
    BY <1>7, AnswerFacts
  <2>5. \A k \in Jobs, u \in Updates :
          k # j \/ u \notin cur[j] \ got => failed'[k][u] = failed[k][u]
    BY <2>4, FailSpares
  <2>6. \A u \in Updates : u \in plan[j] => u \notin cur[j] /\ failed[j][u] = "no"
    BY <1>b, <1>c, <2>1 DEF Fresh, Holding, GateInv
  <2>7. /\ \A k \in Jobs, u \in Updates : k # j => failed'[k][u] = failed[k][u]
        /\ \A u \in Updates : u \in plan'[j] => failed'[j][u] = "no"
    BY ONLY <2>1, <2>5, <2>6, j \in Jobs
  <2>8. \A k \in Jobs : k # j => st'[k] = st[k] /\ plan'[k] = plan[k] /\ cur'[k] = cur[k]
    BY ONLY <2>1, <2>3
  <2> QED
    BY <2>1, <2>3, <2>7, <2>8, MoveKeepsFresh
<1>8. ASSUME NEW j \in Jobs, runCmd(j) PROVE FreshInv'
  <2>1. /\ st[j] = "run" /\ cur' = [cur EXCEPT ![j] = RunIds(j)]
        /\ plan' = [plan EXCEPT ![j] = plan[j] \ RunIds(j)]
        /\ st'[j] \in {"wait", "verify"} /\ \A k \in Jobs : k # j => st'[k] = st[k]
        /\ backend' = backend
    BY <1>8, RunFacts DEF hostVars
  <2>2. failed' = failed /\ RunIds(j) \subseteq plan[j] /\ backend # "wua"
    BY <1>8, <2>1, RunIdsFacts DEF runCmd, resVars, GateInv
  <2>3. /\ cur'[j] = RunIds(j) /\ plan'[j] = plan[j] \ RunIds(j)
        /\ \A k \in Jobs : k # j => cur'[k] = cur[k] /\ plan'[k] = plan[k]
    BY ONLY <1>0, <2>1, j \in Jobs
  <2>4. ASSUME NEW k \in Jobs, NEW u \in Updates, Fresh(k, u)'
        PROVE  Fresh(k, u)
    <3>1. CASE k # j
      BY <2>1, <2>3, <2>4, <3>1 DEF Fresh
    <3>2. CASE k = j
      BY <2>1, <2>2, <2>3, <2>4, <3>2 DEF Fresh, Holding
    <3> QED
      BY <3>1, <3>2
  <2>5. \A k \in Jobs : st'[k] \in {"wait", "verify"} /\ backend' # "wua"
          => plan'[k] \cap cur'[k] = {}
    <3>1. plan'[j] \cap cur'[j] = {}
      BY ONLY <2>3
    <3>2. ASSUME NEW k \in Jobs, k # j, st'[k] \in {"wait", "verify"}, backend' # "wua"
          PROVE  plan'[k] \cap cur'[k] = {}
      BY ONLY <1>c, <2>1, <2>3, <3>2
    <3> QED
      BY <3>1, <3>2
  <2>6. ASSUME NEW i \in 1..Len(txns') PROVE txns'[i].todo \subseteq txns'[i].all
    <3>1. \/ txns' = txns
          \/ /\ Len(txns') = Len(txns) + 1
             /\ \A k \in 1..Len(txns) : txns'[k] = txns[k]
             /\ txns'[Len(txns) + 1].todo = txns'[Len(txns) + 1].all
      BY <1>8, RunFacts
    <3>2. i = Len(txns) + 1 \/ i \in 1..Len(txns)
      BY ONLY <1>0, <3>1, i \in 1..Len(txns')
    <3> QED
      BY ONLY <1>0, <1>d, <3>1, <3>2, i \in 1..Len(txns')
  <2> QED
    BY ONLY <1>b, <2>1, <2>2, <2>4, <2>5, <2>6 DEF FreshInv
<1>9. ASSUME NEW j \in Jobs, LetFinish(j) \/ comAbandoned(j) PROVE FreshInv'
  <2>1. /\ st[j] = "wait" /\ Len(txns') = Len(txns)
        /\ \A i \in 1..Len(txns) : /\ txns'[i].all = txns[i].all
                                   /\ txns'[i].todo = txns[i].todo /\ txns'[i].left
        /\ UNCHANGED <<backend, plan, cur>>
    BY <1>9, LeftFacts DEF hostVars
  <2>2. \/ Goto(j, "verify") /\ failed' = failed /\ backend # "wua"
        \/ Goto(j, "refresh") /\ fail(j, plan[j], "unknown")
    BY <1>9, Zenon DEF LetFinish, comAbandoned, resVars
  <2>3. /\ st'[j] = "refresh" \/ (st'[j] = "verify" /\ backend # "wua" /\ failed' = failed)
        /\ \A k \in Jobs : k # j => st'[k] = st[k]
    BY <1>0, <2>2 DEF Goto
  <2>4. \A k \in Jobs, u \in Updates : k # j => failed'[k][u] = failed[k][u]
    BY <1>r, <2>2, FailSpares
  <2>5. ASSUME NEW k \in Jobs, NEW u \in Updates, Fresh(k, u)'
        PROVE  failed'[k][u] = "no"
    <3>1. CASE k # j
      BY <1>b, <2>1, <2>3, <2>4, <2>5, <3>1 DEF Fresh
    <3>2. CASE k = j
      BY <1>b, <2>1, <2>3, <2>5, <3>2 DEF Fresh, Holding
    <3> QED
      BY <3>1, <3>2
  <2>6. \A k \in Jobs : st'[k] \in {"wait", "verify"} /\ backend' # "wua"
          => plan'[k] \cap cur'[k] = {}
    BY ONLY <1>c, <2>1, <2>3
  <2>7. \A i \in 1..Len(txns') : txns'[i].todo \subseteq txns'[i].all /\ txns'[i].left
    BY ONLY <1>d, <2>1
  <2> QED
    BY ONLY <2>5, <2>6, <2>7 DEF FreshInv
<1>10. ASSUME NEW j \in Jobs, comStarts(j) PROVE FreshInv'
  <2>1. st[j] = "com" /\ Goto(j, "wait") /\ UNCHANGED <<backend, plan, cur, failed>>
    BY <1>10 DEF comStarts, hostVars, jobVars, resVars
  <2>2. backend = "wua"
    BY <2>1 DEF GateInv
  <2>3. st'[j] = "wait" /\ \A k \in Jobs : k # j => st'[k] = st[k]
    BY <1>0, <2>1 DEF Goto
  <2>4. PICK ids \in SUBSET (plan[j] \ disk) :
          txns' = <<[job |-> j, all |-> ids, todo |-> ids, left |-> FALSE]>>
    BY <1>10 DEF comStarts
  <2>5. \A i \in 1..Len(txns') : /\ txns'[i].todo \subseteq txns'[i].all
                                 /\ txns'[i].all \subseteq plan[txns'[i].job]
    <3> DEFINE e == [job |-> j, all |-> ids, todo |-> ids, left |-> FALSE]
    <3>1. e.job = j /\ e.all = ids /\ e.todo = ids /\ e.left = FALSE
      OBVIOUS
    <3>2. \A i \in 1..Len(txns') : txns'[i] = e
      BY ONLY <2>4, Single
    <3> QED
      BY ONLY <3>1, <3>2, ids \in SUBSET (plan[j] \ disk)
  <2>6. ASSUME NEW k \in Jobs, NEW u \in Updates, Fresh(k, u)'
        PROVE  Fresh(k, u)
    BY <2>1, <2>2, <2>3, <2>6 DEF Fresh, Holding
  <2>7. ASSUME NEW k \in Jobs, NEW u \in Updates, Fresh(k, u)'
        PROVE  failed'[k][u] = "no"
    BY <1>b, <2>1, <2>6, <2>7
  <2> QED
    BY ONLY <2>1, <2>2, <2>5, <2>7 DEF FreshInv
<1>11. ASSUME NEW i \in 1..Len(txns), Lands(i) PROVE FreshInv'
  <2>1. /\ Len(txns') = Len(txns) /\ UNCHANGED <<backend, st, plan, cur, failed>>
        /\ \A k \in 1..Len(txns) :
             /\ txns'[k].job = txns[k].job /\ txns'[k].all = txns[k].all
             /\ txns'[k].left = txns[k].left /\ txns'[k].todo \subseteq txns[k].todo
    BY <1>11, LandsFacts DEF hostVars, jobVars, resVars
  <2>2. \A k \in Jobs, u \in Updates : Fresh(k, u)' = Fresh(k, u)
    BY <2>1 DEF Fresh
  <2>3. \A k \in 1..Len(txns') :
          /\ txns'[k].todo \subseteq txns'[k].all
          /\ backend' = "wua" /\ ~txns'[k].left => txns'[k].all \subseteq plan'[txns'[k].job]
    BY ONLY <1>a, <1>d, <2>1
  <2>4. ASSUME NEW k \in Jobs, NEW u \in Updates, Fresh(k, u)'
        PROVE  failed'[k][u] = "no"
    BY <1>b, <2>1, <2>2, <2>4
  <2> QED
    BY ONLY <1>c, <2>1, <2>3, <2>4 DEF FreshInv
<1>12. ASSUME NEW i \in 1..Len(txns), TxnEnds(i) PROVE FreshInv'
  <2>0. txns' = RemoveAt(txns, i)
    BY <1>12, Zenon DEF TxnEnds
  <2>1. \A k \in 1..Len(txns') :
          \E m \in 1..Len(txns) : m # i /\ txns'[k] = txns[m]
    BY <2>0, Gone, Zenon
  <2>2. backend # "wua" /\ UNCHANGED <<backend, plan, cur, failed>>
    BY <1>12, Zenon DEF TxnEnds, hostVars, resVars
  <2>3. \/ st' = st
        \/ ~txns[i].left /\ st' = [st EXCEPT ![txns[i].job] = "verify"]
    BY <1>12, Zenon DEF TxnEnds, Goto
  <2>4. \A k \in Jobs : st'[k] = st[k] \/ (st[k] = "wait" /\ st'[k] = "verify")
    BY ONLY <1>0, <1>a, <1>e, <2>3, i \in 1..Len(txns)
  <2>5. ASSUME NEW k \in Jobs, NEW u \in Updates, Fresh(k, u)'
        PROVE  Fresh(k, u)
    BY <2>2, <2>4, <2>5 DEF Fresh, Holding
  <2>6. ASSUME NEW k \in Jobs, NEW u \in Updates, Fresh(k, u)'
        PROVE  failed'[k][u] = "no"
    BY <1>b, <2>2, <2>5, <2>6
  <2>7. \A k \in Jobs : st'[k] \in {"wait", "verify"} /\ backend' # "wua"
          => plan'[k] \cap cur'[k] = {}
    BY ONLY <1>c, <2>2, <2>4
  <2>8. \A k \in 1..Len(txns') : txns'[k].todo \subseteq txns'[k].all
    BY ONLY <1>d, <2>1
  <2> QED
    BY ONLY <2>2, <2>6, <2>7, <2>8 DEF FreshInv
<1>13. ASSUME NEW i \in 1..Len(txns), comCompleted(i) PROVE FreshInv'
  <2>1. backend = "wua" /\ UNCHANGED <<backend, plan, cur>> /\ txns' = RemoveAt(txns, i)
    BY <1>13, Zenon DEF comCompleted, hostVars
  <2>2. Len(txns') = 0
    <3>1. Len(txns') = Len(txns) - 1
      BY <2>1, Gone
    <3>2. Len(txns) <= 1
      BY <2>1 DEF GateInv
    <3> QED
      BY ONLY <1>0, <3>1, <3>2, i \in 1..Len(txns)
  <2>3. CASE txns[i].left
    <3>1. UNCHANGED <<st, failed>>
      BY <1>13, <2>3, Zenon DEF comCompleted
    <3>2. \A k \in Jobs, u \in Updates : Fresh(k, u)' = Fresh(k, u)
      BY <2>1, <3>1 DEF Fresh
    <3>3. ASSUME NEW k \in Jobs, NEW u \in Updates, Fresh(k, u)'
          PROVE  failed'[k][u] = "no"
      BY <1>b, <3>1, <3>2, <3>3
    <3> QED
      BY ONLY <2>1, <2>2, <3>3 DEF FreshInv
  <2>4. CASE ~txns[i].left
    <3>1. txns[i].job \in Jobs /\ st' = [st EXCEPT ![txns[i].job] = "refresh"]
      BY <1>a, <1>13, <2>4, Zenon DEF comCompleted, Goto
    <3>2. failed' = failed \/ \E ids : fail(txns[i].job, ids, "failed")
      BY <1>13, <2>4, CompletedFacts
    <3>3. \A k \in Jobs, u \in Updates :
            k # txns[i].job => failed'[k][u] = failed[k][u]
      BY <1>r, <3>1, <3>2, FailSpares
    <3>4. ASSUME NEW k \in Jobs, NEW u \in Updates, Fresh(k, u)'
          PROVE  k # txns[i].job /\ Fresh(k, u)
      BY <1>0, <2>1, <3>1, <3>4 DEF Fresh, Holding
    <3>5. ASSUME NEW k \in Jobs, NEW u \in Updates, Fresh(k, u)'
          PROVE  failed'[k][u] = "no"
      BY <1>b, <3>3, <3>4, <3>5
    <3> QED
      BY ONLY <2>1, <2>2, <3>5 DEF FreshInv
  <2> QED
    BY <2>3, <2>4
<1> QED
  BY ONLY [Next]_vars, <1>0, <1>1, <1>2, <1>3, <1>4, <1>5, <1>6, <1>7, <1>8, <1>9,
          <1>10, <1>11, <1>12, <1>13, Steps
\* What was told of an id is not taken back.  A call on the COM thread that returns
\* puts its own list of installed ids in the place of the empty one.
LEMMA VerdictsStay ==
  ASSUME TypeInv, PlanInv, GateInv, ResInv, DiskInv, [Next]_vars
  PROVE  /\ \A k \in Jobs, u \in Updates :
              failed[k][u] # "no" => failed'[k][u] = failed[k][u]
         /\ backend # "wua" => \A k \in Jobs : installed[k] \subseteq installed'[k]
<1> DEFINE Goal ==
      /\ \A k \in Jobs, u \in Updates :
           failed[k][u] # "no" => failed'[k][u] = failed[k][u]
      /\ backend # "wua" => \A k \in Jobs : installed[k] \subseteq installed'[k]
<1>r. "failed" \in Reasons /\ "unknown" \in Reasons
  BY DEF Reasons
<1>1. ASSUME UNCHANGED <<failed, installed>> PROVE Goal
  BY <1>1
<1>2. ASSUME NEW j \in Jobs, NEW ids, NEW why \in Reasons, fail(j, ids, why),
             \/ backend = "wua" \/ installed' = installed
             \/ \E got : installed' = [installed EXCEPT ![j] = @ \cup got]
      PROVE  Goal
  <2>1. \A k \in Jobs, u \in Updates :
          failed[k][u] # "no" => failed'[k][u] = failed[k][u]
    BY <1>2, FailKeeps
  <2>2. installed \in [Jobs -> SUBSET Updates]
    BY DEF ResInv
  <2>3. backend # "wua" => \A k \in Jobs : installed[k] \subseteq installed'[k]
    BY ONLY <1>2, <2>2
  <2> QED
    BY <2>1, <2>3
<1> HIDE DEF Goal
<1>3. ASSUME Aside PROVE Goal
  <2>1. UNCHANGED <<failed, installed>>
    BY <1>3, AsideFacts DEF jobVars, resVars
  <2> QED
    BY <1>1, <2>1
<1>4. ASSUME NEW j \in Jobs, Execute(j) \/ ScanFirst(j) PROVE Goal
  <2>1. /\ failed' = failed \/ \E ids : fail(j, ids, "failed")
        /\ installed' = installed
    BY <1>4, Zenon DEF Execute, prepareInstall, ScanFirst
  <2> QED
    BY <1>1, <1>2, <1>r, <2>1
<1>5. ASSUME NEW j \in Jobs, \/ acquire(j) \/ runCmd(j) \/ LetFinish(j) \/ Retry(j)
                             \/ comDo(j) \/ comNotStarted(j) \/ comStarts(j) \/ Refresh(j)
      PROVE  Goal
  <2>1. UNCHANGED <<failed, installed>>
    BY <1>5, Zenon DEF acquire, runCmd, LetFinish, Retry, comDo, comNotStarted,
       comStarts, Refresh, jobVars, resVars
  <2> QED
    BY <1>1, <2>1
<1>6. ASSUME NEW j \in Jobs, Attributes(j) PROVE Goal
  <2>1. PICK got \in SUBSET cur[j], why \in Reasons :
          /\ installed' = [installed EXCEPT ![j] = @ \cup got]
          /\ fail(j, cur[j] \ got, why)
    BY <1>6, AnswerFacts
  <2> QED
    BY <1>2, <2>1
<1>7. ASSUME NEW j \in Jobs, comAbandoned(j) PROVE Goal
  <2>1. fail(j, plan[j], "unknown") /\ installed' = installed
    BY <1>7, Zenon DEF comAbandoned
  <2> QED
    BY <1>2, <1>r, <2>1
<1>8. ASSUME NEW i \in 1..Len(txns), Lands(i) \/ TxnEnds(i) PROVE Goal
  <2>1. UNCHANGED <<failed, installed>>
    BY <1>8, Zenon DEF Lands, TxnEnds, jobVars, resVars
  <2> QED
    BY <1>1, <2>1
<1>9. ASSUME NEW i \in 1..Len(txns), comCompleted(i) PROVE Goal
  <2>1. backend = "wua" /\ txns[i].job \in Jobs
    BY <1>9, TxnFacts, Zenon DEF comCompleted
  <2>2. CASE txns[i].left
    <3>1. UNCHANGED <<failed, installed>>
      BY <1>9, <2>2, Zenon DEF comCompleted
    <3> QED
      BY <1>1, <3>1
  <2>3. CASE ~txns[i].left
    <3>1. failed' = failed \/ \E ids : fail(txns[i].job, ids, "failed")
      BY <1>9, <2>3, CompletedFacts
    <3>2. CASE failed' = failed
      BY <2>1, <3>2 DEF Goal
    <3>3. CASE \E ids : fail(txns[i].job, ids, "failed")
      BY <1>2, <1>r, <2>1, <3>3
    <3> QED
      BY <3>1, <3>2, <3>3
  <2> QED
    BY <2>2, <2>3
<1>10. DOMAIN txns = 1..Len(txns)
  BY DEF TypeInv
<1>11. Goal
  BY ONLY [Next]_vars, <1>3, <1>4, <1>5, <1>6, <1>7, <1>8, <1>9, <1>10, Steps
<1> QED
  BY <1>11 DEF Goal

\* What was told stays told, unless the job is just about to tell it.
LEMMA ToldStays ==
  ASSUME TypeInv, PlanInv, GateInv, ResInv, DiskInv, [Next]_vars, backend' = backend,
         NEW j \in Jobs, NEW u \in Updates, Told(j, u),
         \/ ~(st[j] = "verify" /\ code[j] = "left")
         \/ st'[j] = st[j] /\ code'[j] = code[j] /\ cur'[j] = cur[j]
            /\ failed'[j][u] = failed[j][u]
  PROVE  Told(j, u)'
<1>1. CASE backend # "wua" /\ u \in installed[j]
  <2>1. backend # "wua" => installed[j] \subseteq installed'[j]
    BY VerdictsStay
  <2> QED
    BY <1>1, <2>1 DEF Told
<1>2. CASE failed[j][u] \in {"timeout", "unknown"}
  <2>1. failed'[j][u] = failed[j][u]
    BY <1>2, VerdictsStay
  <2> QED
    BY <1>2, <2>1 DEF Told
<1>3. CASE st[j] = "verify" /\ code[j] = "left" /\ u \in cur[j] /\ failed[j][u] = "no"
  BY <1>3 DEF Told
<1> QED
  BY <1>1, <1>2, <1>3 DEF Told
\* A step that leaves no transaction behind, and does not disturb a job that is
\* about to tell of one.
Undisturbed(k) ==
  /\ st'[k] = st[k] /\ code'[k] = code[k] /\ cur'[k] = cur[k]
  /\ \A u \in Updates : failed'[k][u] = failed[k][u]
LEMMA LateKept ==
  ASSUME TypeInv, PlanInv, GateInv, ResInv, DiskInv, LateInv, [Next]_vars,
         backend' = backend, late' \in SUBSET (Jobs \X Updates),
         \A k \in Jobs, u \in Updates : Owed(k, u)' => Owed(k, u) \/ Told(k, u)',
         \A k \in Jobs : st[k] = "verify" /\ code[k] = "left" => Undisturbed(k)
  PROVE  LateInv'
<1>1. ASSUME NEW k \in Jobs, NEW u \in Updates, Told(k, u) PROVE Told(k, u)'
  <2>1. CASE st[k] = "verify" /\ code[k] = "left"
    BY <1>1, <2>1, ToldStays DEF Undisturbed
  <2>2. CASE ~(st[k] = "verify" /\ code[k] = "left")
    BY <1>1, <2>2, ToldStays
  <2> QED
    BY <2>1, <2>2
<1>2. ASSUME backend' # "apt", NEW k \in Jobs, NEW u \in Updates, Owed(k, u)'
      PROVE  Told(k, u)'
  BY <1>1, <1>2 DEF LateInv
<1> QED
  BY <1>2 DEF LateInv

\* A step after which every transaction that is left was left before.
LEMMA OwedBefore ==
  ASSUME late' = late,
         \A i \in 1..Len(txns') : txns'[i].left =>
           \E m \in 1..Len(txns) : /\ txns[m].left /\ txns'[i].job = txns[m].job
                                   /\ txns'[i].all = txns[m].all,
         NEW k \in Jobs, NEW u \in Updates, Owed(k, u)'
  PROVE  Owed(k, u)
  BY DEF Owed
\* Whatever was left is told, in every step.
LEMMA LateStep ==
  ASSUME TypeInv, PlanInv, GateInv, ResInv, DiskInv, FreshInv, LateInv, [Next]_vars
  PROVE  LateInv'
<1>0. /\ st \in [Jobs -> Stages] /\ txns \in Seq(Txn) /\ Len(txns) \in Nat
      /\ DOMAIN txns = 1..Len(txns) /\ cur \in [Jobs -> SUBSET Updates]
      /\ code \in [Jobs -> {"none", "ok", "bad", "locked", "left", "unstarted"}]
      /\ late \in SUBSET (Jobs \X Updates)
  BY DEF TypeInv, ResInv, LateInv
<1>r. "failed" \in Reasons /\ "unknown" \in Reasons
  BY DEF Reasons
<1>a. \A i \in 1..Len(txns) : /\ txns[i].job \in Jobs /\ txns[i].left \in BOOLEAN
                              /\ txns[i].all \in SUBSET Updates
  BY TxnFacts
<1>b. backend' = backend
  BY ResStep DEF hostVars
<1>1. ASSUME UNCHANGED <<late, txns>>,
             \A k \in Jobs : st[k] = "verify" /\ code[k] = "left" => Undisturbed(k)
      PROVE  LateInv'
  <2>1. \A k \in Jobs, u \in Updates : Owed(k, u)' => Owed(k, u)
    BY <1>1 DEF Owed
  <2> QED
    BY <1>0, <1>b, <1>1, <2>1, LateKept
<1>2. CASE Aside
  <2>1. UNCHANGED <<late, txns, st, code, cur, failed>>
    BY <1>2, AsideFacts, Zenon DEF workVars, jobVars, resVars
  <2> QED
    BY <1>1, <2>1 DEF Undisturbed
<1>3. ASSUME NEW j \in Jobs, Execute(j) \/ ScanFirst(j) PROVE LateInv'
  <2>1. st[j] \in {"idle", "scan"} /\ UNCHANGED <<late, txns, code, cur>>
    BY <1>3, Zenon DEF Execute, ScanFirst, workVars
  <2>2. failed' = failed \/ \E ids : fail(j, ids, "failed")
    BY <1>3, Zenon DEF Execute, prepareInstall, ScanFirst
  <2>3. \A k \in Jobs, u \in Updates : k # j => failed'[k][u] = failed[k][u]
    BY <1>r, <2>2, FailSpares
  <2>4. \A k \in Jobs : k # j => st'[k] = st[k]
    BY <1>0, <1>3 DEF Execute, prepareInstall, ScanFirst, Returns, Goto
  <2> QED
    BY <1>1, <2>1, <2>3, <2>4 DEF Undisturbed
<1>4. ASSUME NEW j \in Jobs, acquire(j) \/ comDo(j) \/ comNotStarted(j) PROVE LateInv'
  <2>1. st[j] \in {"gate", "comDo", "com"} /\ UNCHANGED <<late, txns, code, cur, failed>>
    BY <1>4, Zenon DEF acquire, comDo, comNotStarted, workVars, jobVars, resVars
  <2>2. \A k \in Jobs : k # j => st'[k] = st[k]
    BY <1>0, <1>4 DEF acquire, comDo, comNotStarted, Returns, Goto
  <2> QED
    BY <1>1, <2>1, <2>2 DEF Undisturbed
<1>5. ASSUME NEW j \in Jobs, Retry(j) \/ Refresh(j) PROVE LateInv'
  <2>1. ~(st[j] = "verify" /\ code[j] = "left") /\ UNCHANGED <<late, txns, failed>>
    BY <1>5, Zenon DEF Retry, Refresh, workVars, resVars
  <2>2. \A k \in Jobs : k # j => st'[k] = st[k] /\ code'[k] = code[k] /\ cur'[k] = cur[k]
    BY <1>0, <1>5 DEF Retry, Refresh, Goto, Forget
  <2> QED
    BY <1>1, <2>1, <2>2 DEF Undisturbed
<1>6. ASSUME NEW j \in Jobs, runCmd(j) PROVE LateInv'
  <2>1. /\ st[j] = "run" /\ cur' = [cur EXCEPT ![j] = RunIds(j)]
        /\ \A k \in Jobs : k # j => st'[k] = st[k]
        /\ code' = code \/ code' = [code EXCEPT ![j] = "unstarted"]
    BY <1>6, RunFacts
  <2>2. UNCHANGED <<late, failed>>
    BY <1>6, Zenon DEF runCmd, resVars
  <2>3. \A k \in Jobs : st[k] = "verify" /\ code[k] = "left" => Undisturbed(k)
    BY <1>0, <2>1, <2>2 DEF Undisturbed
  <2>4. ASSUME NEW i \in 1..Len(txns'), txns'[i].left
        PROVE  i \in 1..Len(txns) /\ txns'[i] = txns[i]
    <3>1. \/ txns' = txns
          \/ /\ Len(txns') = Len(txns) + 1
             /\ \A k \in 1..Len(txns) : txns'[k] = txns[k]
             /\ ~txns'[Len(txns) + 1].left
      BY <1>6, RunFacts
    <3> QED
      BY ONLY <1>0, <2>4, <3>1
  <2>5. \A k \in Jobs, u \in Updates : Owed(k, u)' => Owed(k, u)
    BY <2>2, <2>4, OwedBefore
  <2> QED
    BY <1>0, <1>b, <2>2, <2>3, <2>5, LateKept
<1>7. ASSUME NEW j \in Jobs, comStarts(j) PROVE LateInv'
  <2>1. st[j] = "com" /\ Goto(j, "wait") /\ UNCHANGED <<late, code, cur, failed>>
    BY <1>7, Zenon DEF comStarts, jobVars, resVars
  <2>2. \A k \in Jobs : st[k] = "verify" /\ code[k] = "left" => Undisturbed(k)
    BY <1>0, <2>1 DEF Undisturbed, Goto
  <2>3. PICK ids \in SUBSET (plan[j] \ disk) :
          txns' = <<[job |-> j, all |-> ids, todo |-> ids, left |-> FALSE]>>
    BY <1>7 DEF comStarts
  <2>4. \A i \in 1..Len(txns') : ~txns'[i].left
    <3> DEFINE e == [job |-> j, all |-> ids, todo |-> ids, left |-> FALSE]
    <3>1. e.job = j /\ e.all = ids /\ e.todo = ids /\ e.left = FALSE
      OBVIOUS
    <3>2. \A i \in 1..Len(txns') : txns'[i] = e
      BY ONLY <2>3, Single
    <3> QED
      BY ONLY <3>1, <3>2
  <2>5. \A k \in Jobs, u \in Updates : Owed(k, u)' => Owed(k, u)
    BY <2>1, <2>4, OwedBefore
  <2> QED
    BY <1>0, <1>b, <2>1, <2>2, <2>5, LateKept
<1>8. ASSUME NEW j \in Jobs, LetFinish(j) PROVE LateInv'
  <2>1. /\ st[j] = "wait" /\ Len(txns') = Len(txns) /\ cur' = cur
        /\ \A i \in 1..Len(txns) : txns'[i].job = txns[i].job /\ txns'[i].all = txns[i].all
    BY <1>8, LeftFacts
  <2>2. /\ UNCHANGED <<late, failed>> /\ code' = [code EXCEPT ![j] = "left"]
        /\ Goto(j, "verify") /\ backend # "wua"
    BY <1>8, Zenon DEF LetFinish, resVars
  <2>3. /\ st'[j] = "verify" /\ code'[j] = "left"
        /\ \A k \in Jobs : k # j => st'[k] = st[k] /\ code'[k] = code[k]
    BY <1>0, <2>2 DEF Goto
  <2>4. \A k \in Jobs : st[k] = "verify" /\ code[k] = "left" => Undisturbed(k)
    BY <2>1, <2>2, <2>3 DEF Undisturbed
  <2>5. ASSUME NEW k \in Jobs, NEW u \in Updates, Owed(k, u)', ~Owed(k, u)
        PROVE  Told(k, u)'
    <3>1. PICK i \in 1..Len(txns) : /\ txns[i].job = k /\ u \in txns[i].all
                                    /\ ~txns[i].left
      BY <2>1, <2>2, <2>5 DEF Owed
    <3>2. k = j
      BY <2>1, <3>1, Found
    <3>3. u \in cur[j]
      BY <2>2, <3>1, <3>2 DEF DiskInv
    <3>4. failed[j][u] = "no"
      BY <2>1, <2>2, <3>3 DEF FreshInv, Fresh
    <3> QED
      BY <2>1, <2>2, <2>3, <3>2, <3>3, <3>4 DEF Told
  <2> QED
    BY <1>0, <1>b, <2>2, <2>4, <2>5, LateKept
<1>9. ASSUME NEW j \in Jobs, comAbandoned(j) PROVE LateInv'
  <2>1. /\ st[j] = "wait" /\ Len(txns') = Len(txns) /\ cur' = cur
        /\ \A i \in 1..Len(txns) : txns'[i].job = txns[i].job /\ txns'[i].all = txns[i].all
    BY <1>9, LeftFacts
  <2>2. /\ UNCHANGED <<late, code>> /\ fail(j, plan[j], "unknown")
        /\ Goto(j, "refresh") /\ backend = "wua"
    BY <1>9, Zenon DEF comAbandoned
  <2>3. \A k \in Jobs : k # j => st'[k] = st[k]
    BY <1>0, <2>2 DEF Goto
  <2>4. \A k \in Jobs, u \in Updates : k # j => failed'[k][u] = failed[k][u]
    BY <1>r, <2>2, FailSpares
  <2>5. \A k \in Jobs : st[k] = "verify" /\ code[k] = "left" => Undisturbed(k)
    BY <2>1, <2>2, <2>3, <2>4 DEF Undisturbed
  <2>6. ASSUME NEW k \in Jobs, NEW u \in Updates, Owed(k, u)', ~Owed(k, u)
        PROVE  Told(k, u)'
    <3>1. PICK i \in 1..Len(txns) : /\ txns[i].job = k /\ u \in txns[i].all
                                    /\ ~txns[i].left
      BY <2>1, <2>2, <2>6 DEF Owed
    <3>2. k = j
      BY <2>1, <3>1, Found
    <3>3. u \in plan[j]
      BY <2>2, <3>1, <3>2 DEF FreshInv
    <3>4. failed[j][u] = "no"
      BY <2>1, <3>3 DEF FreshInv, Fresh, Holding
    <3>5. failed'[j][u] = "unknown"
      BY <1>r, <2>2, <3>3, <3>4, FailTells
    <3> QED
      BY <3>2, <3>5 DEF Told
  <2> QED
    BY <1>0, <1>b, <2>2, <2>5, <2>6, LateKept
<1>10. ASSUME NEW j \in Jobs, Attributes(j) PROVE LateInv'
  <2>1. st[j] = "verify" /\ UNCHANGED <<late, txns, cur>>
    BY <1>10, AttributesFacts DEF workVars
  <2>2. Goto(j, "run") \/ Goto(j, "refresh")
    BY <1>10, AttributesFacts DEF Returns
  <2>3. code' = [code EXCEPT ![j] = "none"]
    BY <1>10, AttributesFacts
  <2>4. PICK got \in SUBSET cur[j], why \in Reasons :
          /\ installed' = [installed EXCEPT ![j] = @ \cup got]
          /\ fail(j, cur[j] \ got, why)
          /\ backend # "apt" /\ code[j] = "left" => why = "timeout"
    BY <1>10, AnswerFacts
  <2>5. \A k \in Jobs, u \in Updates : k # j => failed'[k][u] = failed[k][u]
    BY <2>4, FailSpares
  <2>6. \A k \in Jobs : k # j => Undisturbed(k)
    BY <1>0, <2>1, <2>2, <2>3, <2>5 DEF Undisturbed, Goto
  <2>7. CASE code[j] # "left"
    BY <1>1, <2>1, <2>6, <2>7
  <2>8. CASE code[j] = "left"
    <3>1. backend # "wua"
      BY <2>1 DEF GateInv
    <3>2. installed \in [Jobs -> SUBSET Updates]
      BY DEF ResInv
    <3>3. ASSUME backend # "apt", NEW u \in Updates, Told(j, u) PROVE Told(j, u)'
      <4>1. CASE u \in installed[j] \/ failed[j][u] \in {"timeout", "unknown"}
        BY <1>b, <3>1, <3>3, <4>1, VerdictsStay DEF Told
      <4>2. CASE u \in cur[j] /\ failed[j][u] = "no" /\ u \in got
        BY <1>b, <2>4, <3>1, <3>2, <4>2 DEF Told
      <4>3. CASE u \in cur[j] /\ failed[j][u] = "no" /\ u \notin got
        <5>1. failed'[j][u] = "timeout"
          <6>1. why = "timeout" /\ u \in cur[j] \ got
            BY <2>4, <2>8, <3>3, <4>3
          <6> QED
            BY <2>4, <4>3, <6>1, FailTells
        <5> QED
          BY <5>1 DEF Told
      <4> QED
        BY <3>3, <4>1, <4>2, <4>3 DEF Told
    <3>4. ASSUME NEW k \in Jobs, NEW u \in Updates, k # j, Told(k, u) PROVE Told(k, u)'
      BY <1>b, <2>6, <3>4, ToldStays DEF Undisturbed
    <3>5. \A k \in Jobs, u \in Updates : Owed(k, u)' => Owed(k, u)
      BY <2>1 DEF Owed
    <3>6. ASSUME backend' # "apt", NEW k \in Jobs, NEW u \in Updates, Owed(k, u)'
          PROVE  Told(k, u)'
      <4>1. Told(k, u)
        BY <1>b, <3>5, <3>6 DEF LateInv
      <4> QED
        BY <1>b, <3>3, <3>4, <3>6, <4>1
    <3> QED
      BY <1>0, <2>1, <3>6 DEF LateInv
  <2> QED
    BY <2>7, <2>8
<1>11. ASSUME NEW i \in 1..Len(txns), Lands(i) PROVE LateInv'
  <2>1. /\ Len(txns') = Len(txns) /\ UNCHANGED <<st, code, cur, failed>>
        /\ \A k \in 1..Len(txns) :
             /\ txns'[k].job = txns[k].job /\ txns'[k].all = txns[k].all
             /\ txns'[k].left = txns[k].left
    BY <1>11, LandsFacts DEF jobVars, resVars
  <2>2. PICK v \in txns[i].todo :
          late' = IF txns[i].left THEN late \cup {<<txns[i].job, v>>} ELSE late
    BY <1>11, Zenon DEF Lands
  <2>3. txns[i].job \in Jobs /\ v \in txns[i].all /\ v \in Updates
    BY <2>2, TxnFacts DEF FreshInv
  <2>4. late' \in SUBSET (Jobs \X Updates)
    BY <1>0, <2>2, <2>3
  <2>5. ASSUME NEW k \in Jobs, NEW u \in Updates, Owed(k, u)' PROVE Owed(k, u)
    <3>1. CASE \E m \in 1..Len(txns') :
                 txns'[m].left /\ txns'[m].job = k /\ u \in txns'[m].all
      BY <1>a, <2>1, <3>1 DEF Owed
    <3>2. CASE <<k, u>> \in late'
      <4>1. <<k, u>> \in late \/ (txns[i].left /\ k = txns[i].job /\ u = v)
        BY <2>2, <3>2
      <4> QED
        BY <2>3, <4>1 DEF Owed
    <3> QED
      BY <2>5, <3>1, <3>2 DEF Owed
  <2> QED
    BY <1>b, <2>1, <2>4, <2>5, LateKept DEF Undisturbed
<1>12. ASSUME NEW i \in 1..Len(txns), TxnEnds(i) \/ comCompleted(i) PROVE LateInv'
  <2>0. txns' = RemoveAt(txns, i)
    BY <1>12, Zenon DEF TxnEnds, comCompleted
  <2>1. \A k \in 1..Len(txns') :
          \E m \in 1..Len(txns) : m # i /\ txns'[k] = txns[m]
    BY <2>0, Gone, Zenon
  <2>2. UNCHANGED <<late, cur>>
    BY <1>12, Zenon DEF TxnEnds, comCompleted
  <2>3. \A k \in Jobs, u \in Updates : Owed(k, u)' => Owed(k, u)
    BY <2>1, <2>2, OwedBefore
  <2>4. CASE txns[i].left
    <3>1. UNCHANGED <<st, code, failed>>
      BY <1>12, <2>4, Zenon DEF TxnEnds, comCompleted, resVars
    <3> QED
      BY <1>0, <1>b, <2>2, <2>3, <3>1, LateKept DEF Undisturbed
  <2>5. CASE ~txns[i].left
    <3>1. txns[i].job \in Jobs /\ st[txns[i].job] = "wait"
      BY <1>a, <2>5 DEF GateInv
    <3>2. failed' = failed \/ \E ids : fail(txns[i].job, ids, "failed")
      <4>1. CASE TxnEnds(i)
        BY <4>1, Zenon DEF TxnEnds, resVars
      <4>2. CASE comCompleted(i)
        BY <2>5, <4>2, CompletedFacts
      <4> QED
        BY <1>12, <4>1, <4>2
    <3>3. \A k \in Jobs, u \in Updates : k # txns[i].job => failed'[k][u] = failed[k][u]
      BY <1>r, <3>1, <3>2, FailSpares
    <3>4. /\ \E s : st' = [st EXCEPT ![txns[i].job] = s]
          /\ code' = code \/ \E c : code' = [code EXCEPT ![txns[i].job] = c]
      BY <1>12, <2>5, Zenon DEF TxnEnds, comCompleted, Goto
    <3>5. \A k \in Jobs : k # txns[i].job => Undisturbed(k)
      BY <1>0, <2>2, <3>1, <3>3, <3>4 DEF Undisturbed
    <3> QED
      BY <1>0, <1>b, <2>2, <2>3, <3>1, <3>5, LateKept
  <2> QED
    BY <2>4, <2>5
<1> QED
  BY ONLY [Next]_vars, <1>0, <1>2, <1>3, <1>4, <1>5, <1>6, <1>7, <1>8, <1>9,
          <1>10, <1>11, <1>12, Steps
-----------------------------------------------------------------------------
(* The theorems.                                                           *)

PatchInv ==
  TypeInv /\ PlanInv /\ GateInv /\ ResInv /\ DiskInv /\ FreshInv /\ LateInv

\* No install has begun.
LEMMA InitPatchInv ==
  ASSUME Init
  PROVE  PatchInv
<1>1. /\ txns = <<>> /\ Len(txns) = 0 /\ late = {} /\ gate = NoJob
      /\ \A i : i \notin 1..Len(txns)
  BY DEF Init
<1>0. \A j \in Jobs : /\ st[j] = "idle" /\ plan[j] = {} /\ cur[j] = {}
                     /\ code[j] = "none" /\ installed[j] = {}
                     /\ \A u \in Updates : failed[j][u] = "no"
  BY DEF Init
<1>2. TypeInv
  BY <1>1 DEF Init, TypeInv, Stages
<1>3. PlanInv
  BY ONLY <1>0, <1>1 DEF PlanInv
<1>4. GateInv
  <2>1. \A j \in Jobs : st[j] \notin Holding /\ st[j] \notin {"comDo", "com"}
                        /\ st[j] \notin {"scan", "run", "verify"} /\ st[j] # "wait"
    BY <1>0 DEF Holding
  <2> QED
    BY ONLY <1>1, <2>1 DEF GateInv
<1>5. ResInv
  BY DEF Init, ResInv, Reasons
<1>6. DiskInv
  BY ONLY <1>0, <1>1 DEF DiskInv, InstalledIsInstalled
<1>7. FreshInv
  BY ONLY <1>0, <1>1 DEF FreshInv
<1>8. LateInv
  BY ONLY <1>0, <1>1 DEF LateInv, Owed
<1> QED
  BY <1>2, <1>3, <1>4, <1>5, <1>6, <1>7, <1>8 DEF PatchInv

\* The invariants hold together, in every state of every run.
LEMMA PatchInvHolds == Spec => []PatchInv
<1>1. Init => PatchInv
  BY InitPatchInv
<1>2. PatchInv /\ [Next]_vars => PatchInv'
  BY TypeStep, PlanStep, GateStep, ResStep, DiskStep, FreshStep, LateStep DEF PatchInv
<1> QED
  BY <1>1, <1>2, PTL DEF Spec

\* The gate and the work agree, for any number of jobs: Windows never runs two
\* installs, nor one whose job does not hold the gate, and a held gate has someone
\* who will release it (installViaCOM, installGate).
THEOREM GateHolds == Spec => []GateMatchesWork
<1>1. PatchInv => GateMatchesWork
  <2> SUFFICES ASSUME PatchInv PROVE GateMatchesWork
    OBVIOUS
  <2>1. DOMAIN txns = 1..Len(txns)
    BY DEF PatchInv, TypeInv
  <2> QED
    BY <2>1 DEF PatchInv, GateInv, GateMatchesWork, Holding
<1> QED
  BY <1>1, PatchInvHolds, PTL

\* What a job reports as installed is on the disk, for any number of jobs, updates
\* and package managers left behind (attributeAptResult, installedSpecs,
\* recordOutcomes).
THEOREM InstalledHolds == Spec => []InstalledIsInstalled
<1>1. PatchInv => InstalledIsInstalled
  BY DEF PatchInv, DiskInv
<1> QED
  BY <1>1, PatchInvHolds, PTL

\* An update that lands after its job stopped waiting was not reported as a plain
\* failure (ErrInstallOutcomeUnknown, LetFinish).
THEOREM LateHolds == Spec => []LateIsTold
<1>1. PatchInv => LateIsTold
  <2> SUFFICES ASSUME PatchInv, backend # "apt", NEW l \in late
               PROVE  \/ l[2] \in installed[l[1]]
                      \/ failed[l[1]][l[2]] \in {"no", "timeout", "unknown"}
    BY DEF LateIsTold
  <2>1. PICK j \in Jobs, u \in Updates : l = <<j, u>>
    BY DEF PatchInv, LateInv
  <2>2. Owed(j, u)
    BY <2>1 DEF Owed
  <2>3. Told(j, u)
    BY <2>2 DEF PatchInv, LateInv
  <2> QED
    BY <2>1, <2>3 DEF Told
<1> QED
  BY <1>1, PatchInvHolds, PTL
=============================================================================
