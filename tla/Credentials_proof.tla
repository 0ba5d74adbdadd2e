------------------------- MODULE Credentials_proof -------------------------
(***************************************************************************)
(* Theorems about Credentials for any number of concurrent transactions,   *)
(* secrets and faults.                                                     *)
(***************************************************************************)
EXTENDS Credentials, TLAPS

-----------------------------------------------------------------------------
(* The server's side.                                                      *)

\* A rotation that has told the agent of its secret holds the row, so its secret
\* is the newest; one transaction holds the row at a time, and the previous
\* secret is older than the current one.
LockInv ==
  /\ \A t, u \in Holding : t = u
  /\ \A t \in Tx : phase[t] = "sent" =>
       /\ kind[t] \in {"rotate", "force"}
       /\ fresh[t] = issued /\ cur < issued /\ readCur[t] < issued
  /\ \A t \in Tx : phase[t] \in {"clearing", "held"} => kind[t] = "renew"
  /\ prev < cur

\* What a transaction has read is what the row says, or was presented to it.
Current(t) ==
  /\ kind[t] = "renew" /\ phase[t] \in {"loaded", "clearing", "read", "held"} => readCur[t] = cur
  /\ kind[t] \in {"rotate", "force"} /\ phase[t] \in {"read", "sent"} => readCur[t] = cur
  /\ kind[t] \in {"auth", "cert"} /\ phase[t] = "read" => shown[t] = cur

\* It still is, unless another transaction has written the row since.
ReadInv == \A t \in Tx \ overlapped : Current(t)

-----------------------------------------------------------------------------
(* The agent's side, while nothing has happened that excuses a lockout.    *)

\* The agent has never had the secret: it is neither in memory nor in the
\* connection, and no transaction was shown it.
Unseen(secret) ==
  /\ mem # secret /\ dialled # secret
  /\ \A t \in Tx : shown[t] # secret

\* An agent that is still on the previous secret has never had the current one,
\* so nothing can confirm the current one and retire the one it is on.
BehindInv == disk = prev => Unseen(cur)

\* The reply Renew waits for carries the current secret, which the agent has not
\* had before.
ReplyInv ==
  asking \in Tx /\ phase[asking] = "reply" =>
    fresh[asking] = cur /\ prev # NoSecret /\ Unseen(cur)

\* Neither has it had the secret of a rotation whose command it has not handled,
\* unless the rotation was forced over an unconfirmed one.
SentInv ==
  \A t \in Tx : phase[t] = "sent" /\ prev = NoSecret /\ disk # fresh[t] => Unseen(fresh[t])

AgentInv ==
  excuse = {} =>
    /\ status = "active" /\ mem = disk
    /\ disk \in Accepted \cup SentSecrets
    /\ BehindInv /\ ReplyInv /\ SentInv

\* The inductive invariant.
CredInv == TypeOK /\ LockInv /\ ReadInv /\ AgentInv

\* No transaction is the placeholder, and no secret is.
LEMMA ConstFacts ==
  /\ None \notin Tx /\ MaxSecrets \in Nat /\ MaxFaults \in Nat
  /\ NoSecret = -1 /\ Secrets = 0..MaxSecrets
BY TxAssumption, BoundsAssumption DEF NoSecret, Secrets

\* A fault is one more, and stays within the bound.
LEMMA FaultFacts == TypeOK /\ (Fault \/ UNCHANGED faults) => faults' \in 0..MaxFaults
BY ConstFacts DEF TypeOK, Fault

\* Only renewals and rotations issue a secret, one at a time.
LEMMA IssueFacts ==
  ASSUME TypeOK, issued < MaxSecrets, issued' = issued + 1
  PROVE  /\ issued' \in Secrets /\ 0..issued \subseteq 0..issued' /\ issued + 1 \in 0..issued'
         /\ \A f \in [Tx -> 0..issued] : f \in [Tx -> 0..issued']
<1>1. issued \in Nat /\ issued \in 0..MaxSecrets
  BY ConstFacts DEF TypeOK
<1>2. 0..issued \subseteq 0..issued' /\ issued + 1 \in 0..issued'
  BY <1>1
<1> QED BY <1>1, <1>2, ConstFacts

\* No step of the server or of the agent leaves the types.
LEMMA TypeStep ==
  ASSUME TypeOK, [Next]_vars
  PROVE  TypeOK'
<1> USE ConstFacts
<1> DEFINE OpenTypes == phase' \in [Tx -> Phases] /\ kind' \in [Tx -> Kinds]
                        /\ shown' \in [Tx -> 0..issued] /\ overlapped' \subseteq Tx
<1>f. Fault \/ UNCHANGED faults => faults' \in 0..MaxFaults
  BY FaultFacts
<1>p. \A t \in Tx, p \in Phases : To(t, p) => phase' \in [Tx -> Phases]
  BY DEF To, TypeOK
<1>o. ASSUME NEW t \in Tx, NEW k \in Kinds, NEW s \in 0..issued, Open(t, k, s)
      PROVE OpenTypes /\ UNCHANGED <<readCur, fresh, commands>>
  BY <1>o DEF Open, To, TypeOK, Phases
<1>w. \A t \in Tx : Forget(t, asking) \in Tx \cup {None} /\ Forget(t, waiting) \in Tx \cup {None}
  BY DEF Forget, TypeOK
<1>a. ASSUME NEW t \in Tx, Answered(t)
      PROVE phase' \in [Tx -> Phases] /\ asking' \in Tx \cup {None} /\ waiting' \in Tx \cup {None}
  BY <1>a, <1>w, <1>p DEF Answered, Phases
<1>1. ASSUME UNCHANGED vars PROVE TypeOK'
  BY <1>1 DEF TypeOK, vars
<1>2. ASSUME Start \/ Connect \/ GiveUp \/ Disconnect \/ Crash PROVE TypeOK'
  <2>1. faults' \in 0..MaxFaults
    BY <1>2, <1>f DEF Start, Connect, GiveUp, Disconnect, Crash
  <2> QED BY <1>2, <2>1 DEF Start, Connect, GiveUp, Disconnect, Crash, Exited, TypeOK, row, request
<1>3. ASSUME RetireDevice PROVE TypeOK'
  BY <1>3 DEF RetireDevice, TypeOK, request, agent, Excuses
<1>4. ASSUME NEW s \in Secrets, CmdRotateCreds(s) PROVE TypeOK'
  <2>1. faults' \in 0..MaxFaults
    BY <1>4, <1>f, Zenon DEF CmdRotateCreds, SaveSecret
  <2> QED BY <1>4, <2>1 DEF CmdRotateCreds, SaveSecret, TypeOK, row, request, Excuses
<1>5. ASSUME NEW t \in Tx, Ask(t) \/ Dial(t) \/ RequestCertificate(t) PROVE TypeOK'
  <2>1. mem \in 0..issued /\ dialled \in 0..issued /\ {"renew", "auth", "cert"} \subseteq Kinds
    BY DEF TypeOK, Kinds
  <2>2. OpenTypes /\ UNCHANGED <<readCur, fresh, commands>>
    BY <1>5, <1>o, <2>1, Zenon DEF Ask, Dial, RequestCertificate
  <2>3. asking' \in Tx \cup {None} /\ waiting' \in Tx \cup {None}
    BY <1>5 DEF Ask, Dial, RequestCertificate, TypeOK, agent
  <2> QED BY <1>5, <2>2, <2>3 DEF Ask, Dial, RequestCertificate, TypeOK, row, agent
<1>6. ASSUME NEW t \in Tx, TakeReply(t) PROVE TypeOK'
  <2>1. faults' \in 0..MaxFaults
    BY <1>6, <1>f, Zenon DEF TakeReply, SaveSecret
  <2>2. phase' \in [Tx -> Phases]
    BY <1>6, <1>p DEF TakeReply, Phases
  <2> QED BY <1>6, <2>1, <2>2 DEF TakeReply, SaveSecret, TypeOK, row, request, Excuses
<1>7. ASSUME NEW t \in Tx, DropReply(t) \/ RenewClear(t) \/ RotateCheck(t) PROVE TypeOK'
  <2>1. phase' \in [Tx -> Phases]
    BY <1>7, <1>p DEF DropReply, RenewClear, RotateCheck, Phases
  <2> QED BY <1>7, <2>1 DEF DropReply, RenewClear, RotateCheck, TypeOK, row, request, agent
<1>8. ASSUME NEW t \in Tx, NEW k \in Kinds, Rotate(t, k) PROVE TypeOK'
  <2>1. 0 \in 0..issued
    BY DEF TypeOK
  <2>2. OpenTypes /\ UNCHANGED <<readCur, fresh, commands>>
    BY <1>8, <1>o, <2>1, Zenon DEF Rotate
  <2> QED BY <1>8, <2>2 DEF Rotate, TypeOK, row, agent
<1>9. ASSUME NEW t \in Tx, RenewLoad(t) \/ RenewVerify(t) \/ RotateLoad(t) PROVE TypeOK'
  <2>1. phase' \in [Tx -> Phases] /\ asking' \in Tx \cup {None} /\ waiting' \in Tx \cup {None}
    BY <1>9, <1>p, <1>a DEF RenewLoad, RenewVerify, RotateLoad, Phases, agent, TypeOK
  <2>2. readCur' \in [Tx -> 0..issued]
    BY <1>9 DEF RenewLoad, RenewVerify, RotateLoad, request, TypeOK
  <2> QED BY <1>9, <2>1, <2>2 DEF RenewLoad, RenewVerify, RotateLoad, TypeOK, row, request, agent
<1>10. ASSUME NEW t \in Tx, RenewWrite(t) PROVE TypeOK'
  <2>1. /\ issued' \in Secrets /\ 0..issued \subseteq 0..issued' /\ issued + 1 \in 0..issued'
        /\ \A f \in [Tx -> 0..issued] : f \in [Tx -> 0..issued']
    BY <1>10, IssueFacts DEF RenewWrite
  <2>2. phase' \in [Tx -> Phases]
    BY <1>10, <1>p DEF RenewWrite, Phases
  <2>3. fresh' \in [Tx -> 0..issued']
    BY <1>10, <2>1 DEF RenewWrite, TypeOK
  <2>4. overlapped' \subseteq Tx /\ excuse' \subseteq Excuses
    BY <1>10 DEF RenewWrite, Write, HaveRead, Overlap, TypeOK, Excuses
  <2>5. cur' \in 0..issued' /\ prev' \in (0..issued') \cup {NoSecret}
    BY <1>10, <2>1 DEF RenewWrite, TypeOK
  <2>6. UNCHANGED <<status, kind, shown, readCur, commands, agent, faults>>
    BY <1>10 DEF RenewWrite
  <2> QED BY <2>1, <2>2, <2>3, <2>4, <2>5, <2>6 DEF TypeOK, agent
<1>11. ASSUME NEW t \in Tx, RotateFlush(t) PROVE TypeOK'
  <2>1. /\ issued' \in Secrets /\ 0..issued \subseteq 0..issued' /\ issued + 1 \in 0..issued'
        /\ \A f \in [Tx -> 0..issued] : f \in [Tx -> 0..issued']
    BY <1>11, IssueFacts DEF RotateFlush
  <2>2. phase' \in [Tx -> Phases]
    BY <1>11, <1>p DEF RotateFlush, Phases
  <2>3. fresh' \in [Tx -> 0..issued'] /\ commands' \subseteq 0..issued'
    BY <1>11, <2>1 DEF RotateFlush, TypeOK
  <2>6. UNCHANGED <<cur, prev, status, kind, shown, readCur, overlapped, agent, excuse, faults>>
    BY <1>11 DEF RotateFlush
  <2> QED BY <2>1, <2>2, <2>3, <2>6 DEF TypeOK, agent
<1>12. ASSUME NEW t \in Tx, RotateCommit(t) PROVE TypeOK'
  <2>2. phase' \in [Tx -> Phases]
    BY <1>12, <1>p DEF RotateCommit, Phases
  <2>4. overlapped' \subseteq Tx /\ excuse' \subseteq Excuses
    BY <1>12 DEF RotateCommit, Write, HaveRead, Overlap, TypeOK, Excuses
  <2> QED BY <1>12, <2>2, <2>4 DEF RotateCommit, TypeOK, request, agent
<1>13. ASSUME NEW t \in Tx, VerifyAgentSecret(t) PROVE TypeOK'
  <2>1. phase' \in [Tx -> Phases] /\ asking' \in Tx \cup {None} /\ waiting' \in Tx \cup {None}
    BY <1>13, <1>p, <1>a DEF VerifyAgentSecret, Admit, Exited, Phases, agent, TypeOK
  <2>2. /\ life' \in {"down", "starting", "up"} /\ link' \in {"dialling", "connected"}
        /\ UNCHANGED <<disk, mem, dialled>> /\ commands' \subseteq commands
    BY <1>13 DEF VerifyAgentSecret, Admit, Exited, agent, TypeOK
  <2> QED BY <1>13, <2>1, <2>2 DEF VerifyAgentSecret, TypeOK, row, request
<1>14. ASSUME NEW t \in Tx, VerifyClearsPrevious(t) PROVE TypeOK'
  <2>1. phase' \in [Tx -> Phases] /\ asking' \in Tx \cup {None} /\ waiting' \in Tx \cup {None}
    BY <1>14, <1>a DEF VerifyClearsPrevious, Admit
  <2>4. overlapped' \subseteq Tx /\ excuse' \subseteq Excuses
    BY <1>14 DEF VerifyClearsPrevious, Write, HaveRead, Overlap, TypeOK, Excuses
  <2> QED BY <1>14, <2>1, <2>4 DEF VerifyClearsPrevious, Admit, TypeOK, request
<1>15. ASSUME NEW t \in Tx, Abort(t) PROVE TypeOK'
  <2>1. phase' \in [Tx -> Phases] /\ asking' \in Tx \cup {None} /\ waiting' \in Tx \cup {None}
    BY <1>15, <1>a DEF Abort
  <2>2. faults' \in 0..MaxFaults
    BY <1>15, <1>f, Zenon DEF Abort
  <2>4. excuse' \subseteq Excuses
    BY <1>15 DEF Abort, TypeOK, Excuses
  <2> QED BY <1>15, <2>1, <2>2, <2>4 DEF Abort, TypeOK, row, request
<1> QED
  BY <1>1, <1>2, <1>3, <1>4, <1>5, <1>6, <1>7, <1>8, <1>9, <1>10, <1>11, <1>12, <1>13, <1>14,
     <1>15, Zenon DEF Next

-----------------------------------------------------------------------------
(* How transactions move.                                                  *)

\* Where one transaction went, the others stayed.
LEMMA ToFacts ==
  ASSUME TypeOK, NEW t \in Tx, NEW p, To(t, p)
  PROVE  phase'[t] = p /\ \A u \in Tx \ {t} : phase'[u] = phase[u]
BY DEF To, TypeOK

\* The steps that write the row or take it.
RowStep(t) ==
  RenewClear(t) \/ RenewWrite(t) \/ RotateFlush(t) \/ RotateCommit(t) \/ VerifyClearsPrevious(t)

\* A request that is opened is one that was not there.
OpenStep(t) ==
  /\ phase[t] = "idle" /\ phase'[t] = "asked"
  /\ \A u \in Tx \ {t} : kind'[u] = kind[u] /\ shown'[u] = shown[u]
  /\ overlapped' = overlapped \ {t}
  /\ UNCHANGED <<readCur, fresh>>

\* A request that is worked on keeps its kind; it reads the row, is verified,
\* answered or dropped.
WorkStep(t) ==
  /\ UNCHANGED <<kind, shown, fresh, overlapped>>
  /\ \A u \in Tx \ {t} : readCur'[u] = readCur[u]
  /\ \/ phase'[t] = "idle" /\ phase[t] # "sent" /\ readCur'[t] \in 0..issued
     \/ phase'[t] = "idle" /\ UNCHANGED readCur
     \/ phase[t] = "asked" /\ phase'[t] = "loaded" /\ kind[t] = "renew" /\ readCur'[t] = cur
     \/ phase[t] = "asked" /\ phase'[t] = "loaded" /\ kind[t] \in {"rotate", "force"} /\ UNCHANGED readCur
     \/ phase[t] = "loaded" /\ phase'[t] = "read" /\ kind[t] \in {"rotate", "force"} /\ readCur'[t] = cur
     \/ phase[t] = "loaded" /\ phase'[t] \in {"read", "clearing"} /\ kind[t] = "renew" /\ UNCHANGED readCur
     \/ /\ phase[t] = "asked" /\ phase'[t] = "read" /\ kind[t] \in {"auth", "cert"}
        /\ shown[t] = cur /\ UNCHANGED readCur

\* Every other step of the system leaves the row, except that the device may be
\* retired, and moves one transaction or none.
LEMMA StepKinds ==
  ASSUME TypeOK, [Next]_vars
  PROVE  \/ \E t \in Tx : RowStep(t)
         \/ /\ UNCHANGED <<cur, prev, issued>>
            /\ \/ UNCHANGED <<phase, kind, shown, readCur, fresh, overlapped>>
               \/ \E t \in Tx : /\ \A u \in Tx \ {t} : phase'[u] = phase[u]
                                /\ OpenStep(t) \/ WorkStep(t)
<1> DEFINE Moves(t) == /\ UNCHANGED <<cur, prev, issued>>
                       /\ \A u \in Tx \ {t} : phase'[u] = phase[u]
                       /\ OpenStep(t) \/ WorkStep(t)
           Still == UNCHANGED <<cur, prev, issued, phase, kind, shown, readCur, fresh, overlapped>>
           Goal == (\E t \in Tx : RowStep(t)) \/ Still \/ \E t \in Tx : Moves(t)
<1>o. ASSUME NEW t \in Tx, NEW k, NEW s, Open(t, k, s), UNCHANGED row PROVE Moves(t)
  <2>1. /\ phase[t] = "idle" /\ phase'[t] = "asked" /\ \A u \in Tx \ {t} : phase'[u] = phase[u]
    BY <1>o, ToFacts, Zenon DEF Open
  <2>2. /\ \A u \in Tx \ {t} : kind'[u] = kind[u] /\ shown'[u] = shown[u]
        /\ overlapped' = overlapped \ {t} /\ UNCHANGED <<readCur, fresh>>
    BY <1>o DEF Open, TypeOK
  <2>3. OpenStep(t)
    BY <2>1, <2>2 DEF OpenStep
  <2> QED BY <1>o, <2>1, <2>3 DEF row
<1>w. ASSUME NEW t \in Tx, UNCHANGED row, UNCHANGED <<request, overlapped>>,
             phase'[t] = "idle", \A u \in Tx \ {t} : phase'[u] = phase[u]
      PROVE Moves(t)
  <2>1. WorkStep(t)
    BY <1>w DEF request, WorkStep
  <2> QED BY <1>w, <2>1 DEF row
<1>a. ASSUME NEW t \in Tx, Answered(t)
      PROVE phase'[t] = "idle" /\ \A u \in Tx \ {t} : phase'[u] = phase[u]
  BY <1>a, ToFacts, Zenon DEF Answered
<1>1. ASSUME UNCHANGED vars PROVE Goal
  BY <1>1 DEF vars
<1>2. ASSUME Start \/ Connect \/ GiveUp \/ Disconnect \/ Crash \/ RetireDevice PROVE Goal
  BY <1>2 DEF Start, Connect, GiveUp, Disconnect, Crash, RetireDevice, row, request
<1>4. ASSUME NEW s \in Secrets, CmdRotateCreds(s) PROVE Goal
  BY <1>4 DEF CmdRotateCreds, row, request
<1>5. ASSUME NEW t \in Tx, Ask(t) \/ Dial(t) \/ RequestCertificate(t) PROVE Goal
  BY <1>5, <1>o, Zenon DEF Ask, Dial, RequestCertificate
<1>6. ASSUME NEW t \in Tx, TakeReply(t) \/ DropReply(t) PROVE Goal
  <2>1. phase'[t] = "idle" /\ \A u \in Tx \ {t} : phase'[u] = phase[u]
    BY <1>6, ToFacts, Zenon DEF TakeReply, DropReply
  <2> QED BY <1>6, <2>1, <1>w, Zenon DEF TakeReply, DropReply
<1>7. ASSUME NEW t \in Tx, RotateCheck(t) PROVE Goal
  <2>1. /\ phase'[t] \in {"idle", "loaded"} /\ \A u \in Tx \ {t} : phase'[u] = phase[u]
        /\ phase[t] = "asked" /\ kind[t] \in {"rotate", "force"}
        /\ UNCHANGED <<row, request, overlapped>>
    BY <1>7, ToFacts DEF RotateCheck
  <2>2. WorkStep(t)
    BY <2>1 DEF WorkStep, request
  <2> QED BY <2>1, <2>2, Zenon DEF row
<1>8. ASSUME NEW t \in Tx, NEW k \in Kinds, Rotate(t, k) PROVE Goal
  BY <1>8, <1>o, Zenon DEF Rotate
<1>9. ASSUME NEW t \in Tx, RenewLoad(t) PROVE Goal
  <2>1. /\ phase[t] = "asked" /\ kind[t] = "renew" /\ UNCHANGED <<row, kind, shown, fresh, overlapped>>
        /\ readCur' = [readCur EXCEPT ![t] = cur]
    BY <1>9 DEF RenewLoad
  <2>2. phase'[t] \in {"idle", "loaded"} /\ \A u \in Tx \ {t} : phase'[u] = phase[u]
    BY <1>9, <1>a, ToFacts DEF RenewLoad
  <2>3. readCur'[t] = cur /\ cur \in 0..issued /\ \A u \in Tx \ {t} : readCur'[u] = readCur[u]
    BY <2>1 DEF TypeOK
  <2>4. WorkStep(t)
    BY <2>1, <2>2, <2>3 DEF WorkStep
  <2> QED BY <2>1, <2>2, <2>4, Zenon DEF row
<1>10. ASSUME NEW t \in Tx, RenewVerify(t) PROVE Goal
  <2>1. /\ phase[t] = "loaded" /\ kind[t] = "renew" /\ UNCHANGED <<row, request, overlapped>>
    BY <1>10 DEF RenewVerify
  <2>2. phase'[t] \in {"idle", "clearing", "read"} /\ \A u \in Tx \ {t} : phase'[u] = phase[u]
    BY <1>10, <1>a, ToFacts DEF RenewVerify
  <2>4. WorkStep(t)
    BY <2>1, <2>2 DEF WorkStep, request
  <2> QED BY <2>1, <2>2, <2>4, Zenon DEF row
<1>11. ASSUME NEW t \in Tx, RotateLoad(t) PROVE Goal
  <2>1. /\ phase[t] = "loaded" /\ kind[t] \in {"rotate", "force"}
        /\ UNCHANGED <<row, kind, shown, fresh, overlapped>>
        /\ readCur' = [readCur EXCEPT ![t] = cur]
    BY <1>11 DEF RotateLoad
  <2>2. phase'[t] \in {"idle", "read"} /\ \A u \in Tx \ {t} : phase'[u] = phase[u]
    BY <1>11, ToFacts DEF RotateLoad
  <2>3. readCur'[t] = cur /\ cur \in 0..issued /\ \A u \in Tx \ {t} : readCur'[u] = readCur[u]
    BY <2>1 DEF TypeOK
  <2>4. WorkStep(t)
    BY <2>1, <2>2, <2>3 DEF WorkStep
  <2> QED BY <2>1, <2>2, <2>4, Zenon DEF row
<1>12. ASSUME NEW t \in Tx, VerifyAgentSecret(t) PROVE Goal
  <2>1. phase[t] = "asked" /\ kind[t] \in {"auth", "cert"} /\ UNCHANGED <<row, request, overlapped>>
    BY <1>12 DEF VerifyAgentSecret
  <2>2. /\ phase'[t] = "idle" \/ (phase'[t] = "read" /\ shown[t] = cur)
        /\ \A u \in Tx \ {t} : phase'[u] = phase[u]
    BY <1>12, <1>a, ToFacts DEF VerifyAgentSecret, Admit
  <2>4. WorkStep(t)
    BY <2>1, <2>2 DEF WorkStep, request
  <2> QED BY <2>1, <2>2, <2>4, Zenon DEF row
<1>13. ASSUME NEW t \in Tx, Abort(t) PROVE Goal
  BY <1>13, <1>a, <1>w, Zenon DEF Abort
<1>14. ASSUME NEW t \in Tx, RowStep(t) PROVE Goal
  BY <1>14
<1> HIDE DEF Goal
<1>15. Goal
  BY <1>1, <1>2, <1>4, <1>5, <1>6, <1>7, <1>8, <1>9, <1>10, <1>11, <1>12, <1>13, <1>14, Zenon
     DEF Next, RowStep
<1> QED BY <1>15, Zenon DEF Goal

\* One transaction holds the row, and its secret is the newest.
LEMMA LockStep ==
  ASSUME TypeOK, LockInv, [Next]_vars
  PROVE  LockInv'
<1>0. TypeOK'
  BY TypeStep
<1>t. /\ issued \in Nat /\ cur \in 0..issued /\ prev \in -1..issued
      /\ \A t \in Tx : readCur[t] \in 0..issued /\ fresh[t] \in 0..issued
  BY ConstFacts DEF TypeOK
<1>1. ASSUME NEW t \in Tx, RenewClear(t) PROVE LockInv'
  <2>1. /\ phase[t] = "clearing" /\ Holding = {} /\ phase'[t] = "held"
        /\ \A u \in Tx \ {t} : phase'[u] = phase[u]
        /\ UNCHANGED <<cur, prev, issued, kind, readCur, fresh>>
    BY <1>1, ToFacts DEF RenewClear, row, request
  <2> QED BY <2>1 DEF LockInv, Holding
<1>2. ASSUME NEW t \in Tx, RenewWrite(t) PROVE LockInv'
  <2>1. /\ Holding \subseteq {t} /\ phase[t] # "sent" /\ phase'[t] = "reply"
        /\ \A u \in Tx \ {t} : phase'[u] = phase[u]
        /\ cur' = issued + 1 /\ prev' = readCur[t] /\ UNCHANGED kind
    BY <1>2, ToFacts DEF RenewWrite, Write
  <2>2. \A u \in Tx : phase'[u] \notin {"sent", "held"}
    BY <2>1 DEF Holding
  <2> QED BY <2>1, <2>2, <1>t DEF LockInv, Holding
<1>3. ASSUME NEW t \in Tx, RotateFlush(t) PROVE LockInv'
  <2>1. /\ Holding = {} /\ phase'[t] = "sent" /\ \A u \in Tx \ {t} : phase'[u] = phase[u]
        /\ kind[t] \in {"rotate", "force"} /\ issued' = issued + 1 /\ fresh'[t] = issued + 1
        /\ UNCHANGED <<cur, prev, kind, readCur>>
    BY <1>3, ToFacts DEF RotateFlush, TypeOK
  <2> QED BY <2>1, <1>t DEF LockInv, Holding
<1>4. ASSUME NEW t \in Tx, RotateCommit(t) PROVE LockInv'
  <2>1. /\ Holding \subseteq {t} /\ phase[t] = "sent" /\ phase'[t] = "idle"
        /\ \A u \in Tx \ {t} : phase'[u] = phase[u]
        /\ cur' = fresh[t] /\ prev' = readCur[t] /\ UNCHANGED kind
    BY <1>4, ToFacts DEF RotateCommit, Write, request
  <2>2. \A u \in Tx : phase'[u] \notin {"sent", "held"}
    BY <2>1 DEF Holding
  <2> QED BY <2>1, <2>2, <1>t DEF LockInv, Holding
<1>5. ASSUME NEW t \in Tx, VerifyClearsPrevious(t) PROVE LockInv'
  <2>1. /\ phase'[t] = "idle" /\ \A u \in Tx \ {t} : phase'[u] = phase[u]
        /\ prev' = NoSecret /\ UNCHANGED <<cur, issued, kind, readCur, fresh>>
    BY <1>5, ToFacts DEF VerifyClearsPrevious, Admit, Answered, request
  <2> QED BY <2>1, <1>t, ConstFacts DEF LockInv, Holding
<1>6. ASSUME UNCHANGED <<cur, prev, issued, phase, kind, shown, readCur, fresh, overlapped>> PROVE LockInv'
  BY <1>6 DEF LockInv, Holding
<1>7. ASSUME NEW t \in Tx, UNCHANGED <<cur, prev, issued>>,
             \A u \in Tx \ {t} : phase'[u] = phase[u], OpenStep(t)
      PROVE LockInv'
  BY <1>7 DEF LockInv, Holding, OpenStep
<1>8. ASSUME NEW t \in Tx, UNCHANGED <<cur, prev, issued>>,
             \A u \in Tx \ {t} : phase'[u] = phase[u], WorkStep(t)
      PROVE LockInv'
  BY <1>8 DEF LockInv, Holding, WorkStep
<1> QED BY <1>1, <1>2, <1>3, <1>4, <1>5, <1>6, <1>7, <1>8, StepKinds, Zenon DEF RowStep

\* What was read stays current until somebody writes.
LEMMA ReadStep ==
  ASSUME TypeOK, LockInv, ReadInv, [Next]_vars
  PROVE  ReadInv'
<1>1. ASSUME NEW t \in Tx, RenewClear(t) PROVE ReadInv'
  <2>1. /\ phase[t] = "clearing" /\ phase'[t] = "held"
        /\ \A u \in Tx \ {t} : phase'[u] = phase[u]
        /\ UNCHANGED <<cur, kind, shown, readCur, overlapped>>
    BY <1>1, ToFacts DEF RenewClear, row, request
  <2> QED BY <2>1 DEF ReadInv, Current, LockInv
<1>2. ASSUME NEW t \in Tx, RenewWrite(t) \/ RotateCommit(t) PROVE ReadInv'
  <2>1. /\ Holding \subseteq {t} /\ phase'[t] \in {"idle", "reply"}
        /\ \A u \in Tx \ {t} : phase'[u] = phase[u]
        /\ overlapped' = overlapped \cup (HaveRead \ {t})
    BY <1>2, ToFacts DEF RenewWrite, RotateCommit, Write
  <2>2. \A u \in Tx \ overlapped' : phase'[u] \notin {"loaded", "clearing", "read", "held", "sent"}
    BY <2>1 DEF Holding, HaveRead
  <2> QED BY <2>2 DEF ReadInv, Current
<1>3. ASSUME NEW t \in Tx, RotateFlush(t) PROVE ReadInv'
  <2>1. /\ phase[t] = "read" /\ phase'[t] = "sent" /\ \A u \in Tx \ {t} : phase'[u] = phase[u]
        /\ kind[t] \in {"rotate", "force"} /\ UNCHANGED <<cur, kind, shown, readCur, overlapped>>
    BY <1>3, ToFacts DEF RotateFlush
  <2> QED BY <2>1 DEF ReadInv, Current
<1>5. ASSUME NEW t \in Tx, VerifyClearsPrevious(t) PROVE ReadInv'
  <2>1. /\ phase'[t] = "idle" /\ \A u \in Tx \ {t} : phase'[u] = phase[u]
        /\ UNCHANGED <<cur, kind, shown, readCur>> /\ overlapped \subseteq overlapped'
    BY <1>5, ToFacts DEF VerifyClearsPrevious, Admit, Answered, Write, request
  <2> QED BY <2>1 DEF ReadInv, Current
<1>6. ASSUME UNCHANGED <<cur, prev, issued, phase, kind, shown, readCur, fresh, overlapped>> PROVE ReadInv'
  BY <1>6 DEF ReadInv, Current
<1>7. ASSUME NEW t \in Tx, UNCHANGED <<cur, prev, issued>>,
             \A u \in Tx \ {t} : phase'[u] = phase[u], OpenStep(t)
      PROVE ReadInv'
  BY <1>7 DEF ReadInv, Current, OpenStep
<1>8. ASSUME NEW t \in Tx, UNCHANGED <<cur, prev, issued>>,
             \A u \in Tx \ {t} : phase'[u] = phase[u], WorkStep(t)
      PROVE ReadInv'
  BY <1>8 DEF ReadInv, Current, WorkStep
<1> QED BY <1>1, <1>2, <1>3, <1>5, <1>6, <1>7, <1>8, StepKinds, Zenon DEF RowStep

-----------------------------------------------------------------------------
(* The agent.                                                              *)

\* While no excuse has happened yet, what the agent's invariants are about.
Safe ==
  /\ status = "active" /\ mem = disk
  /\ disk \in Accepted \cup SentSecrets
  /\ BehindInv /\ ReplyInv /\ SentInv

\* No step takes an excuse back.
LEMMA ExcuseGrows == [Next]_vars => excuse \subseteq excuse'
<1> SUFFICES ASSUME [Next]_vars PROVE excuse \subseteq excuse'
  OBVIOUS
<1>1. ASSUME NEW s, NEW w, SaveSecret(s, w) PROVE excuse \subseteq excuse'
  BY <1>1 DEF SaveSecret
<1>2. ASSUME NEW s \in Secrets, CmdRotateCreds(s) PROVE excuse \subseteq excuse'
  BY <1>1, <1>2, Zenon DEF CmdRotateCreds
<1>3. ASSUME NEW t \in Tx, TakeReply(t) PROVE excuse \subseteq excuse'
  BY <1>1, <1>3, Zenon DEF TakeReply
<1>4. ASSUME UNCHANGED excuse PROVE excuse \subseteq excuse'
  BY <1>4
<1>5. ASSUME NEW t \in Tx, RenewWrite(t) \/ RotateCommit(t) \/ VerifyClearsPrevious(t) \/ Abort(t)
      PROVE excuse \subseteq excuse'
  BY <1>5 DEF RenewWrite, RotateCommit, VerifyClearsPrevious, Abort
<1>6. ASSUME RetireDevice PROVE excuse \subseteq excuse'
  BY <1>6 DEF RetireDevice
<1> QED
  BY <1>2, <1>3, <1>4, <1>5, <1>6, Zenon
     DEF Next, vars, Start, Connect, GiveUp, Disconnect, Crash, Ask, DropReply, Dial,
         RequestCertificate, RenewLoad, RenewVerify, RenewClear, Rotate, RotateCheck, RotateLoad,
         RotateFlush, VerifyAgentSecret

\* The types, spelled out as numbers.
LEMMA Numbers ==
  ASSUME TypeOK
  PROVE  /\ issued \in Nat /\ cur \in 0..issued /\ prev \in -1..issued
         /\ disk \in 0..issued /\ mem \in 0..issued /\ dialled \in 0..issued
         /\ \A t \in Tx : readCur[t] \in 0..issued /\ fresh[t] \in 0..issued /\ shown[t] \in 0..issued
BY ConstFacts DEF TypeOK

\* A secret that has not been issued yet has been seen by nobody.
LEMMA NewIsUnseen ==
  ASSUME TypeOK
  PROVE  mem # issued + 1 /\ dialled # issued + 1 /\ \A t \in Tx : shown[t] # issued + 1
BY Numbers

\* A step that writes no secret: the agent's memory and its connection stay or
\* take up what is in the file, and a transaction is shown what the agent has.
Presents ==
  /\ UNCHANGED <<cur, prev, status, issued, fresh, disk>>
  /\ mem' = disk /\ dialled' \in {dialled, mem}
  /\ \A t \in Tx : shown'[t] \in {shown[t], mem, dialled, 0}
  /\ asking' \in Tx => asking' = asking \/ phase'[asking'] # "reply"
  /\ \A t \in Tx : phase'[t] \in {"reply", "sent"} => phase[t] = phase'[t]

\* Such a step keeps the agent safe, unless it rolls a rotation back.
LEMMA PresentsKeeps ==
  ASSUME TypeOK, LockInv, Safe, Presents,
         \A t \in Tx : phase[t] = "sent" /\ disk = fresh[t] => phase'[t] = "sent"
  PROVE  Safe'
<1> USE Numbers
<1>1. \A s \in Nat \ {0} : Unseen(s) => Unseen(s)'
  BY DEF Presents, Unseen, Safe
<1>2. status' = "active" /\ mem' = disk'
  BY DEF Presents, Safe
<1>3. disk' \in Accepted' \cup SentSecrets'
  <2>1. Accepted' = Accepted
    BY DEF Presents, Accepted
  <2>2. CASE disk \in SentSecrets
    <3>1. PICK t \in Tx : phase[t] = "sent" /\ disk = fresh[t]
      BY <2>2 DEF SentSecrets, Sent
    <3>2. phase'[t] = "sent" /\ disk' = fresh'[t]
      BY <3>1 DEF Presents
    <3> QED BY <3>2 DEF SentSecrets, Sent
  <2>3. CASE disk \in Accepted
    BY <2>1, <2>3 DEF Presents
  <2> QED BY <2>2, <2>3 DEF Safe
<1>4. BehindInv'
  <2> SUFFICES ASSUME disk' = prev' PROVE Unseen(cur)'
    BY DEF BehindInv
  <2>1. disk = prev /\ cur' = cur /\ cur \in Nat \ {0}
    BY DEF Presents, LockInv
  <2>2. Unseen(cur)
    BY <2>1 DEF Safe, BehindInv
  <2>3. Unseen(cur)'
    BY <2>1, <2>2 DEF Presents, Unseen, Safe
  <2> QED BY <2>3
<1>5. ReplyInv'
  <2> SUFFICES ASSUME asking' \in Tx, phase'[asking'] = "reply"
               PROVE  fresh'[asking'] = cur' /\ prev' # NoSecret /\ Unseen(cur)'
    BY DEF ReplyInv
  <2>1. asking' = asking /\ asking \in Tx /\ phase[asking] = "reply" /\ UNCHANGED <<cur, prev, fresh>>
    BY DEF Presents
  <2>2. fresh[asking] = cur /\ prev # NoSecret /\ Unseen(cur)
    BY <2>1 DEF Safe, ReplyInv
  <2>3. cur \in Nat \ {0}
    BY <2>2, ConstFacts DEF LockInv, TypeOK
  <2>4. Unseen(cur)'
    BY <2>1, <2>2, <2>3 DEF Presents, Unseen, Safe
  <2> QED BY <2>1, <2>2, <2>4
<1>6. SentInv'
  <2> SUFFICES ASSUME NEW t \in Tx, phase'[t] = "sent", prev' = NoSecret, disk' # fresh'[t]
               PROVE  Unseen(fresh[t])'
    BY DEF SentInv
  <2>1. phase[t] = "sent" /\ prev = NoSecret /\ disk # fresh[t] /\ UNCHANGED fresh
    BY DEF Presents
  <2>2. Unseen(fresh[t]) /\ fresh[t] \in Nat \ {0}
    BY <2>1 DEF Safe, SentInv, LockInv
  <2> QED BY <2>1, <2>2 DEF Presents, Unseen, Safe
<1> QED BY <1>2, <1>3, <1>4, <1>5, <1>6 DEF Safe

\* The agent stays safe as long as no excuse happens.
LEMMA AgentStep ==
  ASSUME TypeOK, LockInv, ReadInv, AgentInv, [Next]_vars
  PROVE  AgentInv'
<1> USE Numbers, ConstFacts
<1>t. TypeOK' /\ LockInv'
  BY TypeStep, LockStep
<1>s. SUFFICES ASSUME excuse' = {} PROVE Safe'
  BY DEF AgentInv, Safe
<1>0. Safe /\ excuse = {}
  BY <1>s, ExcuseGrows DEF AgentInv, Safe
<1> DEFINE Kept == \A t \in Tx : phase[t] = "sent" /\ disk = fresh[t] => phase'[t] = "sent"
<1>k. ASSUME Presents, Kept PROVE Safe'
  BY <1>k, <1>0, PresentsKeeps
<1>m. mem = disk
  BY <1>0 DEF Safe
<1>1. ASSUME UNCHANGED vars PROVE Safe'
  <2>1. Presents /\ Kept
    BY <1>1, <1>m DEF vars, Presents
  <2> QED BY <2>1, <1>k
<1>2. ASSUME Start \/ Connect \/ GiveUp \/ Disconnect \/ Crash PROVE Safe'
  <2>1. Presents /\ Kept
    BY <1>2, <1>m DEF Start, Connect, GiveUp, Disconnect, Crash, Exited, row, request, Presents
  <2> QED BY <2>1, <1>k
<1>3. ASSUME RetireDevice PROVE Safe'
  BY <1>3, <1>s DEF RetireDevice
<1>4. ASSUME NEW s \in Secrets, CmdRotateCreds(s) PROVE Safe'
  <2>1. /\ mem' = s /\ disk' = s /\ s \in SentSecrets
        /\ UNCHANGED <<cur, prev, status, issued, phase, shown, fresh, dialled, asking>>
    BY <1>4, <1>s DEF CmdRotateCreds, SaveSecret, row, request
  <2>2. PICK t \in Tx : phase[t] = "sent" /\ s = fresh[t]
    BY <2>1 DEF SentSecrets, Sent
  <2>3. s = issued /\ cur < s /\ prev < s
    BY <2>2 DEF LockInv
  <2>4. SentSecrets' = SentSecrets
    BY <2>1 DEF SentSecrets, Sent
  <2>5. \A u \in Tx : phase[u] = "sent" => fresh[u] = s
    BY <2>3 DEF LockInv
  <2>6. SentInv'
    BY <2>1, <2>5 DEF SentInv
  <2>7. BehindInv'
    BY <2>1, <2>3 DEF BehindInv
  <2>8. ReplyInv'
    <3> SUFFICES ASSUME asking' \in Tx, phase'[asking'] = "reply"
                 PROVE  fresh'[asking'] = cur' /\ prev' # NoSecret /\ Unseen(cur)'
      BY DEF ReplyInv
    <3>1. fresh[asking] = cur /\ prev # NoSecret /\ Unseen(cur)
      BY <1>0, <2>1 DEF Safe, ReplyInv
    <3>2. Unseen(cur)'
      BY <3>1, <2>1, <2>3 DEF Unseen
    <3> QED BY <3>1, <3>2, <2>1
  <2> QED BY <1>0, <2>1, <2>4, <2>6, <2>7, <2>8 DEF Safe
<1>5. ASSUME NEW t \in Tx, Ask(t) \/ Dial(t) \/ RequestCertificate(t) PROVE Safe'
  <2>1. PICK k \in Kinds, s \in {mem, dialled} : Open(t, k, s)
    BY <1>5 DEF Ask, Dial, RequestCertificate, Kinds
  <2>2. /\ \A u \in Tx : shown'[u] \in {shown[u], mem, dialled}
        /\ phase[t] = "idle" /\ phase'[t] = "asked" /\ \A u \in Tx \ {t} : phase'[u] = phase[u]
        /\ UNCHANGED fresh
    BY <2>1, ToFacts DEF Open, TypeOK
  <2>3. /\ UNCHANGED <<cur, prev, status, issued, disk, mem, dialled>>
        /\ asking' \in {asking, t}
    BY <1>5 DEF Ask, Dial, RequestCertificate, row, agent
  <2>4. Presents /\ Kept
    BY <2>2, <2>3, <1>m DEF Presents
  <2> QED BY <2>4, <1>k
<1>6. ASSUME NEW t \in Tx, NEW k \in Kinds, Rotate(t, k) PROVE Safe'
  <2>1. Open(t, k, 0) /\ UNCHANGED <<row, agent>>
    BY <1>6 DEF Rotate
  <2>2. /\ \A u \in Tx : shown'[u] \in {shown[u], 0}
        /\ phase[t] = "idle" /\ phase'[t] = "asked" /\ \A u \in Tx \ {t} : phase'[u] = phase[u]
        /\ UNCHANGED fresh
    BY <2>1, ToFacts DEF Open, TypeOK
  <2>3. Presents /\ Kept
    BY <2>1, <2>2, <1>m DEF Presents, row, agent
  <2> QED BY <2>3, <1>k
<1>7. ASSUME NEW t \in Tx, TakeReply(t) PROVE Safe'
  <2>1. /\ mem' = fresh[t] /\ disk' = fresh[t] /\ asking = t /\ phase[t] = "reply" /\ asking' = None
        /\ phase'[t] = "idle" /\ \A u \in Tx \ {t} : phase'[u] = phase[u]
        /\ UNCHANGED <<cur, prev, status, issued>>
    BY <1>7, <1>s, ToFacts DEF TakeReply, SaveSecret, row
  <2>2. fresh[t] = cur /\ prev # NoSecret
    BY <1>0, <2>1 DEF Safe, ReplyInv
  <2>3. disk' \in Accepted'
    BY <2>1, <2>2 DEF Accepted
  <2>4. BehindInv'
    BY <2>1, <2>2 DEF BehindInv, LockInv
  <2>5. ReplyInv'
    BY <2>1 DEF ReplyInv
  <2>6. SentInv'
    BY <2>1, <2>2 DEF SentInv
  <2> QED BY <1>0, <2>1, <2>3, <2>4, <2>5, <2>6 DEF Safe
<1>8. ASSUME NEW t \in Tx, DropReply(t) \/ RotateCheck(t) \/ RotateLoad(t) \/ RenewClear(t)
      PROVE Safe'
  <2>1. /\ phase[t] # "sent" /\ phase'[t] \notin {"reply", "sent"}
        /\ \A u \in Tx \ {t} : phase'[u] = phase[u]
    BY <1>8, ToFacts DEF DropReply, RotateCheck, RotateLoad, RenewClear
  <2>2. UNCHANGED <<row, shown, fresh, agent>>
    BY <1>8 DEF DropReply, RotateCheck, RotateLoad, RenewClear, request
  <2>3. Presents /\ Kept
    BY <2>1, <2>2, <1>m DEF Presents, row, agent
  <2> QED BY <2>3, <1>k
<1>9. ASSUME NEW t \in Tx, RenewLoad(t) \/ RenewVerify(t) PROVE Safe'
  <2>1. /\ phase[t] # "sent" /\ phase'[t] \notin {"reply", "sent"}
        /\ \A u \in Tx \ {t} : phase'[u] = phase[u]
    BY <1>9, ToFacts DEF RenewLoad, RenewVerify, Answered
  <2>2. UNCHANGED <<row, shown, fresh, disk, mem, dialled>> /\ asking' \in {asking, None}
    BY <1>9 DEF RenewLoad, RenewVerify, Answered, Forget, request
  <2>3. Presents /\ Kept
    BY <2>1, <2>2, <1>m DEF Presents, row
  <2> QED BY <2>3, <1>k
<1>10. ASSUME NEW t \in Tx, VerifyAgentSecret(t) PROVE Safe'
  <2>1. /\ phase[t] # "sent" /\ phase'[t] \notin {"reply", "sent"}
        /\ \A u \in Tx \ {t} : phase'[u] = phase[u]
    BY <1>10, ToFacts DEF VerifyAgentSecret, Admit, Answered
  <2>2. UNCHANGED <<row, shown, fresh, disk, mem, dialled>> /\ asking' \in {asking, None}
    BY <1>10 DEF VerifyAgentSecret, Admit, Answered, Exited, Forget, request, agent
  <2>3. Presents /\ Kept
    BY <2>1, <2>2, <1>m DEF Presents, row
  <2> QED BY <2>3, <1>k
<1>11. ASSUME NEW t \in Tx, Abort(t) PROVE Safe'
  <2>1. /\ phase'[t] = "idle" /\ \A u \in Tx \ {t} : phase'[u] = phase[u]
        /\ UNCHANGED <<row, shown, fresh, disk, mem, dialled>> /\ asking' \in {asking, None}
    BY <1>11, ToFacts DEF Abort, Answered, Forget, request
  <2>2. ~(phase[t] = "sent" /\ disk = fresh[t])
    BY <1>11, <1>s DEF Abort
  <2>3. Presents /\ Kept
    BY <2>1, <2>2, <1>m DEF Presents, row
  <2> QED BY <2>3, <1>k
<1>12. ASSUME NEW t \in Tx, RotateFlush(t) PROVE Safe'
  <2>1. /\ Holding = {} /\ phase[t] = "read" /\ phase'[t] = "sent"
        /\ \A u \in Tx \ {t} : phase'[u] = phase[u] /\ fresh'[u] = fresh[u]
        /\ fresh'[t] = issued + 1
        /\ UNCHANGED <<cur, prev, status, shown, disk, mem, dialled, asking>>
    BY <1>12, ToFacts DEF RotateFlush, TypeOK, agent
  <2>2. SentSecrets = {}
    BY <2>1 DEF SentSecrets, Sent, Holding
  <2>3. disk' \in Accepted'
    BY <1>0, <2>1, <2>2 DEF Safe, Accepted
  <2>4. BehindInv'
    BY <1>0, <2>1 DEF Safe, BehindInv, Unseen
  <2>5. ReplyInv'
    BY <1>0, <2>1 DEF Safe, ReplyInv, Unseen
  <2>6. SentInv'
    BY <2>1, NewIsUnseen DEF SentInv, Unseen, Holding
  <2> QED BY <1>0, <2>1, <2>3, <2>4, <2>5, <2>6 DEF Safe
<1>13. ASSUME NEW t \in Tx, RenewWrite(t) PROVE Safe'
  <2>1. /\ phase[t] \in {"read", "held"} /\ kind[t] = "renew" /\ Holding \subseteq {t}
        /\ phase'[t] = "reply" /\ fresh'[t] = issued + 1
        /\ \A u \in Tx \ {t} : phase'[u] = phase[u] /\ fresh'[u] = fresh[u]
        /\ cur' = issued + 1 /\ prev' = readCur[t]
        /\ UNCHANGED <<status, shown, disk, mem, dialled, asking>>
    BY <1>13, ToFacts DEF RenewWrite, Write, TypeOK, agent
  <2>2. t \notin overlapped /\ shown[t] = readCur[t]
    BY <1>13, <1>s DEF RenewWrite, Overlap
  <2>3. shown[t] = cur /\ readCur[t] = cur
    BY <2>1, <2>2 DEF ReadInv, Current
  <2>4. \A u \in Tx : phase[u] # "sent" /\ phase'[u] # "sent"
    BY <2>1 DEF Holding
  <2>5. ~Unseen(cur)
    BY <2>3 DEF Unseen
  <2>6. disk = cur
    BY <1>0, <2>4, <2>5 DEF Safe, BehindInv, Accepted, SentSecrets, Sent
  <2>7. Unseen(cur)'
    BY <2>1, NewIsUnseen DEF Unseen
  <2>8. ReplyInv'
    <3>1. ~(asking \in Tx /\ phase[asking] = "reply")
      BY <1>0, <2>5 DEF Safe, ReplyInv
    <3> QED BY <3>1, <2>1, <2>7 DEF ReplyInv
  <2>9. SentInv' /\ BehindInv'
    BY <2>4, <2>7 DEF SentInv, BehindInv
  <2>10. disk' \in Accepted'
    BY <2>1, <2>3, <2>6 DEF Accepted
  <2> QED BY <1>0, <2>1, <2>8, <2>9, <2>10 DEF Safe
<1>14. ASSUME NEW t \in Tx, RotateCommit(t) PROVE Safe'
  <2>1. /\ phase[t] = "sent" /\ Holding \subseteq {t} /\ phase'[t] = "idle"
        /\ \A u \in Tx \ {t} : phase'[u] = phase[u]
        /\ cur' = fresh[t] /\ prev' = readCur[t]
        /\ UNCHANGED <<status, shown, fresh, disk, mem, dialled, asking>>
    BY <1>14, ToFacts DEF RotateCommit, Write, request, agent
  <2>2. t \notin overlapped /\ prev = NoSecret
    BY <1>14, <1>s DEF RotateCommit, Overlap
  <2>3. readCur[t] = cur /\ kind[t] \in {"rotate", "force"}
    BY <2>1, <2>2 DEF ReadInv, Current, LockInv
  <2>4. \A u \in Tx : phase[u] = "sent" => u = t
    BY <2>1 DEF Holding
  <2>5. \A u \in Tx : phase'[u] # "sent"
    BY <2>1, <2>4
  <2>6. disk \in {cur, fresh[t]}
    BY <1>0, <2>2, <2>4 DEF Safe, Accepted, SentSecrets, Sent
  <2>7. disk' \in Accepted'
    BY <2>1, <2>3, <2>6 DEF Accepted
  <2>8. BehindInv'
    <3> SUFFICES ASSUME disk' = prev' PROVE Unseen(cur)'
      BY DEF BehindInv
    <3>1. disk # fresh[t]
      BY <2>1, <2>3 DEF LockInv
    <3>2. Unseen(fresh[t])
      BY <1>0, <2>1, <2>2, <3>1 DEF Safe, SentInv
    <3> QED BY <3>2, <2>1 DEF Unseen
  <2>9. ReplyInv'
    BY <1>0, <2>1, <2>2 DEF Safe, ReplyInv
  <2>10. SentInv'
    BY <2>5 DEF SentInv
  <2> QED BY <1>0, <2>1, <2>7, <2>8, <2>9, <2>10 DEF Safe
<1>15. ASSUME NEW t \in Tx, VerifyClearsPrevious(t) PROVE Safe'
  <2>1. /\ phase[t] = "read" /\ kind[t] \in {"auth", "cert"} /\ Holding \subseteq {t}
        /\ phase'[t] = "idle" /\ \A u \in Tx \ {t} : phase'[u] = phase[u]
        /\ prev' = NoSecret /\ UNCHANGED <<cur, status, shown, fresh, disk, mem, dialled>>
        /\ asking' \in {asking, None}
    BY <1>15, ToFacts DEF VerifyClearsPrevious, Write, Admit, Answered, Forget, request
  <2>2. t \notin overlapped
    BY <1>15, <1>s DEF VerifyClearsPrevious, Overlap
  <2>3. shown[t] = cur
    BY <2>1, <2>2 DEF ReadInv, Current
  <2>4. \A u \in Tx : phase[u] # "sent" /\ phase'[u] # "sent"
    BY <2>1 DEF Holding
  <2>5. ~Unseen(cur)
    BY <2>3 DEF Unseen
  <2>6. disk = cur
    BY <1>0, <2>4, <2>5 DEF Safe, BehindInv, Accepted, SentSecrets, Sent
  <2>7. ReplyInv'
    BY <1>0, <2>1, <2>5 DEF Safe, ReplyInv
  <2>8. SentInv' /\ BehindInv' /\ disk' \in Accepted'
    BY <2>1, <2>4, <2>6 DEF SentInv, BehindInv, Accepted
  <2> QED BY <1>0, <2>1, <2>7, <2>8 DEF Safe
<1> QED
  BY <1>1, <1>2, <1>3, <1>4, <1>5, <1>6, <1>7, <1>8, <1>9, <1>10, <1>11, <1>12, <1>13, <1>14,
     <1>15, Zenon DEF Next

\* A device that has just enrolled holds the current secret.
LEMMA InitCred == Init => CredInv
<1> SUFFICES ASSUME Init PROVE CredInv
  OBVIOUS
<1>1. TypeOK
  BY ConstFacts DEF Init, TypeOK, Phases, Kinds
<1>2. LockInv /\ ReadInv
  BY ConstFacts DEF Init, LockInv, ReadInv, Current, Holding
<1>3. Safe
  BY ConstFacts DEF Init, Safe, Accepted, BehindInv, ReplyInv, SentInv
<1> QED BY <1>1, <1>2, <1>3 DEF CredInv, AgentInv, Safe

\* The invariant is inductive.
LEMMA CredStep == CredInv /\ [Next]_vars => CredInv'
BY TypeStep, LockStep, ReadStep, AgentStep DEF CredInv

\* Lost replies, crashes, restarts, reconnects and interleaved requests do not
\* lock an agent out: without one of the listed excuses, the secret in its file
\* is accepted or is about to be (verify_agent_secret, renew_agent_secret, Renew).
THEOREM NotLockedOut == Spec => []LockedOutOnlyIfExcused
<1>1. CredInv => LockedOutOnlyIfExcused
  BY DEF CredInv, AgentInv, LockedOutOnlyIfExcused
<1> QED BY InitCred, CredStep, <1>1, PTL DEF Spec

\* A secret that has ceased to be accepted is never accepted again, unless two
\* transactions overlapped (verify_agent_secret, rotate_credentials).
THEOREM RevokedForGood == Spec => DeadStaysDead
<1>1. CredInv /\ [Next]_vars =>
        [excuse' \cap {"overlap"} = {} => \A s \in Accepted' \ Accepted : s > cur]_vars
  <2> SUFFICES ASSUME CredInv, [Next]_vars, "overlap" \notin excuse', NEW s \in Accepted' \ Accepted
               PROVE  s > cur
    OBVIOUS
  <2> USE Numbers, ConstFacts DEF CredInv
  <2>1. ASSUME NEW t \in Tx, RenewWrite(t) PROVE s > cur
    <3>1. /\ phase[t] \in {"read", "held"} /\ kind[t] = "renew" /\ t \notin overlapped
          /\ cur' = issued + 1 /\ prev' = readCur[t]
      BY <2>1 DEF RenewWrite, Overlap
    <3>2. readCur[t] = cur
      BY <3>1 DEF ReadInv, Current
    <3> QED BY <3>1, <3>2 DEF Accepted
  <2>2. ASSUME NEW t \in Tx, RotateCommit(t) PROVE s > cur
    <3>1. phase[t] = "sent" /\ t \notin overlapped /\ cur' = fresh[t] /\ prev' = readCur[t]
      BY <2>2 DEF RotateCommit, Overlap
    <3>2. readCur[t] = cur /\ fresh[t] > cur
      BY <3>1 DEF ReadInv, Current, LockInv
    <3> QED BY <3>1, <3>2 DEF Accepted
  <2>3. ASSUME NEW t \in Tx, VerifyClearsPrevious(t) PROVE s > cur
    BY <2>3 DEF VerifyClearsPrevious, Accepted
  <2>4. ASSUME NEW t \in Tx, RenewClear(t) \/ RotateFlush(t) PROVE s > cur
    BY <2>4 DEF RenewClear, RotateFlush, Accepted, row
  <2>5. ASSUME UNCHANGED <<cur, prev, issued>> PROVE s > cur
    BY <2>5 DEF Accepted
  <2> QED BY <2>1, <2>2, <2>3, <2>4, <2>5, StepKinds, Zenon DEF RowStep
<1> QED BY InitCred, CredStep, <1>1, PTL DEF Spec, DeadStaysDead
=============================================================================
