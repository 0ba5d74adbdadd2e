---------------------------- MODULE Credentials ----------------------------
(***************************************************************************)
(* The agent's credential: the row the server keeps (a current secret and  *)
(* one previous one), the transactions that read and write it, and the     *)
(* agent that holds one secret on disk, one in memory and one inside its   *)
(* NATS connection.  Secrets are numbered in the order they are issued.    *)
(*                                                                         *)
(* A TRANSACTION is one request the server works on: renew (POST /renew),  *)
(* rotate (an operator's /rotate-credentials), auth (the NATS auth         *)
(* callout) or cert (POST /certificate).  None of them locks the row when  *)
(* it reads it, so another may commit between its read and its write; the  *)
(* write then overwrites the row from what was read.  A rotation holds the *)
(* row from its flush to its commit and talks to the agent in between; a   *)
(* renewal holds it if its verification has cleared the previous secret.   *)
(***************************************************************************)
EXTENDS Integers, FiniteSets

CONSTANTS
  Tx,          \* transactions the server may have open at once
  None,        \* no transaction
  MaxSecrets,  \* bound: secrets issued after enrolment
  MaxFaults    \* bound: crashes, lost links, abandoned requests, failed saves

ASSUME TxAssumption == None \notin Tx
ASSUME BoundsAssumption == MaxSecrets \in Nat /\ MaxFaults \in Nat

Secrets == 0..MaxSecrets
NoSecret == -1

VARIABLES
  cur,        \* secret_hash
  prev,       \* prev_secret_hash, or NoSecret
  status,     \* of the device: active or retired (the row is deleted)
  issued,     \* secrets issued so far
  phase,      \* per transaction: idle, asked, loaded, read, then for a renewal clearing,
              \* held and reply, for a rotation sent
  kind,       \* per transaction: what it does
  shown,      \* per transaction: the secret presented to it
  readCur,    \* per transaction: secret_hash as it read it
  fresh,      \* per transaction: the secret it issues
  overlapped, \* history: transactions since whose first read another has written
  commands,   \* secrets of agent.rotate_creds commands the agent has yet to handle
  life,       \* the agent process: down, starting or up
  disk,       \* agent_secret in the config file
  mem,        \* cfg.AgentSecret
  dialled,    \* the secret the NATS connection was made with and reconnects with
  link,       \* dialling or connected
  asking,     \* the renew transaction Renew waits for, or None
  waiting,    \* the auth transaction the connection waits for, or None
  excuse,     \* history: what has happened that may lock the agent out
  faults      \* faults so far

row == <<cur, prev, status, issued>>
request == <<kind, shown, readCur, fresh>>
agent == <<life, disk, mem, dialled, link, asking, waiting>>
vars == <<cur, prev, status, issued, phase, kind, shown, readCur, fresh, overlapped,
          commands, life, disk, mem, dialled, link, asking, waiting, excuse, faults>>

Kinds == {"renew", "rotate", "force", "auth", "cert"}
Phases == {"idle", "asked", "loaded", "clearing", "held", "read", "sent", "reply"}
Excuses == {"twice", "force", "overlap", "save", "rollback", "late", "retired"}

\* A device that has just enrolled.
Init ==
  /\ cur = 0 /\ prev = NoSecret /\ status = "active" /\ issued = 0
  /\ phase = [t \in Tx |-> "idle"]
  /\ kind = [t \in Tx |-> "auth"]
  /\ shown = [t \in Tx |-> 0]
  /\ readCur = [t \in Tx |-> 0]
  /\ fresh = [t \in Tx |-> 0]
  /\ overlapped = {} /\ commands = {}
  /\ life = "down" /\ disk = 0 /\ mem = 0 /\ dialled = 0
  /\ link = "dialling" /\ asking = None /\ waiting = None
  /\ excuse = {} /\ faults = 0

Fault == faults < MaxFaults /\ faults' = faults + 1
To(t, p) == phase' = [phase EXCEPT ![t] = p]
Forget(t, waiter) == IF waiter = t THEN None ELSE waiter

Open(t, k, secret) ==
  /\ phase[t] = "idle"
  /\ To(t, "asked")
  /\ kind' = [kind EXCEPT ![t] = k]
  /\ shown' = [shown EXCEPT ![t] = secret]
  /\ overlapped' = overlapped \ {t}
  /\ UNCHANGED <<readCur, fresh, commands>>

-----------------------------------------------------------------------------
(* The agent process.                                                      *)

Start ==
  /\ life = "down"
  /\ life' = "starting"
  /\ mem' = disk
  /\ UNCHANGED <<row, phase, request, overlapped, commands, disk, dialled, link, asking,
                 waiting, excuse, faults>>

\* Renew, before the connection is made and then from renewLoop.
Ask(t) ==
  /\ life # "down"
  /\ asking = None
  /\ Open(t, "renew", mem)
  /\ asking' = t
  /\ UNCHANGED <<row, life, disk, mem, dialled, link, waiting, excuse, faults>>

\* The request timed out or its reply was lost; the server may still work on it.
GiveUp ==
  /\ asking # None
  /\ Fault
  /\ asking' = None
  /\ UNCHANGED <<row, phase, request, overlapped, commands, life, disk, mem, dialled,
                 link, waiting, excuse>>

\* How Renew and RotateSecret end: the secret is set in memory, then the file is
\* written, which may fail.
SaveSecret(secret, why) ==
  /\ mem' = secret
  /\ \/ disk' = secret /\ excuse' = excuse \cup why /\ UNCHANGED faults
     \/ UNCHANGED disk /\ excuse' = excuse \cup why \cup {"save"} /\ Fault

TakeReply(t) ==
  /\ asking = t
  /\ phase[t] = "reply"
  /\ SaveSecret(fresh[t], {})
  /\ asking' = None
  /\ To(t, "idle")
  /\ UNCHANGED <<row, request, overlapped, commands, life, dialled, link, waiting>>

\* A reply nobody waits for any more.
DropReply(t) ==
  /\ phase[t] = "reply"
  /\ asking # t
  /\ To(t, "idle")
  /\ UNCHANGED <<row, request, overlapped, commands, agent, excuse, faults>>

\* conn.Connect captures the secret; every later reconnect presents it again.
Connect ==
  /\ life = "starting"
  /\ asking = None
  /\ life' = "up"
  /\ dialled' = mem
  /\ UNCHANGED <<row, phase, request, overlapped, commands, disk, mem, link, asking,
                 waiting, excuse, faults>>

Dial(t) ==
  /\ life = "up"
  /\ link = "dialling"
  /\ waiting = None
  /\ Open(t, "auth", dialled)
  /\ waiting' = t
  /\ UNCHANGED <<row, life, disk, mem, dialled, link, asking, excuse, faults>>

Disconnect ==
  /\ link = "connected"
  /\ Fault
  /\ link' = "dialling"
  /\ UNCHANGED <<row, phase, request, overlapped, commands, life, disk, mem, dialled,
                 asking, waiting, excuse>>

\* netcert.Ensure presents the secret that is in memory at the time of the call.
RequestCertificate(t) ==
  /\ life = "up"
  /\ Open(t, "cert", mem)
  /\ UNCHANGED <<row, agent, excuse, faults>>

\* The process is gone; unhandled commands go with its subscription.
Exited ==
  /\ life' = "down"
  /\ link' = "dialling"
  /\ asking' = None
  /\ waiting' = None
  /\ commands' = {}
  /\ UNCHANGED <<disk, mem, dialled>>

Crash ==
  /\ life # "down"
  /\ Fault
  /\ Exited
  /\ UNCHANGED <<row, phase, request, overlapped, excuse>>

\* The rotations that have given the agent a secret and not yet committed it.
Sent == {t \in Tx : phase[t] = "sent"}
SentSecrets == {fresh[t] : t \in Sent}

\* cmdRotateCreds takes the commands in the order they were sent, and may take
\* one after the server has given up waiting for the answer.
CmdRotateCreds(secret) ==
  /\ link = "connected"
  /\ secret \in commands
  /\ \A s \in commands : secret <= s
  /\ SaveSecret(secret, IF secret \in SentSecrets THEN {} ELSE {"late"})
  /\ commands' = commands \ {secret}
  /\ UNCHANGED <<row, phase, request, overlapped, life, dialled, link, asking, waiting>>

-----------------------------------------------------------------------------
(* The server's transactions.                                              *)

\* Mutant: the check sees what an open renewal has cleared and may roll back.
AcceptedDirty ==
  {cur} \cup (IF \E t \in Tx : phase[t] = "held" THEN {} ELSE {prev} \ {NoSecret})

\* What verify_agent_secret takes.  A previous secret has no deadline: no route
\* calls revoke_agent_secret.
Accepted == {cur} \cup ({prev} \ {NoSecret})
Verified(t) == status = "active" /\ shown[t] \in Accepted

\* A write to the row waits while another transaction holds it, and is news to
\* every other transaction that has already read the row.
Holding == {t \in Tx : phase[t] \in {"sent", "held"}}
HaveRead == {t \in Tx : phase[t] \in {"loaded", "clearing", "read"}}
Write(t) ==
  /\ Holding \subseteq {t}
  /\ overlapped' = overlapped \cup (HaveRead \ {t})
Overlap(t) == IF t \in overlapped THEN {"overlap"} ELSE {}

\* Refused, failed or rolled back: whoever waits for the answer gets an error.
Answered(t) ==
  /\ To(t, "idle")
  /\ asking' = Forget(t, asking)
  /\ waiting' = Forget(t, waiting)

\* renew_agent_secret: the row is loaded, then verified, then overwritten.
RenewLoad(t) ==
  /\ phase[t] = "asked" /\ kind[t] = "renew"
  /\ readCur' = [readCur EXCEPT ![t] = cur]
  /\ IF status = "active"
     THEN To(t, "loaded") /\ UNCHANGED <<asking, waiting>>
     ELSE Answered(t)
  /\ UNCHANGED <<row, kind, shown, fresh, overlapped, commands, life, disk, mem, dialled,
                 link, excuse, faults>>

RenewVerify(t) ==
  /\ phase[t] = "loaded" /\ kind[t] = "renew"
  /\ IF Verified(t)
     THEN /\ To(t, IF shown[t] = cur /\ prev # NoSecret THEN "clearing" ELSE "read")
          /\ UNCHANGED <<asking, waiting>>
     ELSE Answered(t)
  /\ UNCHANGED <<row, request, overlapped, commands, life, disk, mem, dialled, link, excuse, faults>>

\* verify_agent_secret's update inside a renewal: uncommitted, but it holds the
\* row, and the renewal overwrites what it cleared.
RenewClear(t) ==
  /\ phase[t] = "clearing"
  /\ Holding = {}
  /\ To(t, "held")
  /\ UNCHANGED <<row, request, overlapped, commands, agent, excuse, faults>>

\* Mutant: renewal retires the old secret at once.
RenewWriteRetires(t) ==
  /\ phase[t] \in {"read", "held"} /\ kind[t] = "renew" /\ status = "active"
  /\ issued < MaxSecrets
  /\ Write(t)
  /\ issued' = issued + 1
  /\ cur' = issued + 1
  /\ prev' = NoSecret
  /\ fresh' = [fresh EXCEPT ![t] = issued + 1]
  /\ To(t, "reply")
  /\ excuse' = excuse \cup Overlap(t) \cup (IF shown[t] # readCur[t] THEN {"twice"} ELSE {})
  /\ UNCHANGED <<status, kind, shown, readCur, commands, agent, faults>>

RenewWrite(t) ==
  /\ phase[t] \in {"read", "held"} /\ kind[t] = "renew" /\ status = "active"
  /\ issued < MaxSecrets
  /\ Write(t)
  /\ issued' = issued + 1
  /\ cur' = issued + 1
  /\ prev' = readCur[t]
  /\ fresh' = [fresh EXCEPT ![t] = issued + 1]
  /\ To(t, "reply")
  /\ excuse' = excuse \cup Overlap(t) \cup (IF shown[t] # readCur[t] THEN {"twice"} ELSE {})
  /\ UNCHANGED <<status, kind, shown, readCur, commands, agent, faults>>

\* rotate_credentials: rotation_in_flight first, then the row; the agent is told
\* after the flush and before the commit.
Rotate(t, k) ==
  /\ k \in {"rotate", "force"}
  /\ Open(t, k, 0)
  /\ UNCHANGED <<row, agent, excuse, faults>>

RotateCheck(t) ==
  /\ phase[t] = "asked" /\ kind[t] \in {"rotate", "force"}
  /\ To(t, IF kind[t] = "rotate" /\ prev # NoSecret THEN "idle" ELSE "loaded")
  /\ UNCHANGED <<row, request, overlapped, commands, agent, excuse, faults>>

RotateLoad(t) ==
  /\ phase[t] = "loaded" /\ kind[t] \in {"rotate", "force"}
  /\ readCur' = [readCur EXCEPT ![t] = cur]
  /\ To(t, IF status = "active" THEN "read" ELSE "idle")
  /\ UNCHANGED <<row, kind, shown, fresh, overlapped, commands, agent, excuse, faults>>

RotateFlush(t) ==
  /\ phase[t] = "read" /\ kind[t] \in {"rotate", "force"} /\ status = "active"
  /\ issued < MaxSecrets
  /\ Holding = {}
  /\ issued' = issued + 1
  /\ fresh' = [fresh EXCEPT ![t] = issued + 1]
  /\ To(t, "sent")
  /\ \/ link = "connected" /\ commands' = commands \cup {issued + 1}
     \/ UNCHANGED commands
  /\ UNCHANGED <<cur, prev, status, kind, shown, readCur, overlapped, agent, excuse, faults>>

\* The agent answered, or ten seconds have passed.
RotateCommit(t) ==
  /\ phase[t] = "sent"
  /\ Write(t)
  /\ cur' = fresh[t]
  /\ prev' = readCur[t]
  /\ To(t, "idle")
  /\ excuse' = excuse \cup Overlap(t) \cup (IF prev # NoSecret THEN {"force"} ELSE {})
  /\ UNCHANGED <<status, issued, request, commands, agent, faults>>

\* The auth callout and the certificate route decide on one read, and retire the
\* previous secret if the current one was presented.
Admit(t) ==
  /\ Answered(t)
  /\ link' = IF waiting = t THEN "connected" ELSE link
  /\ UNCHANGED <<life, disk, mem, dialled>>

VerifyAgentSecret(t) ==
  /\ phase[t] = "asked" /\ kind[t] \in {"auth", "cert"}
  /\ IF Verified(t)
     THEN /\ IF shown[t] = cur /\ prev # NoSecret
             THEN To(t, "read") /\ UNCHANGED agent
             ELSE Admit(t)
          /\ UNCHANGED commands
     ELSE IF waiting = t
          \* The client library closes the connection, and the agent exits.
          THEN To(t, "idle") /\ Exited
          ELSE To(t, "idle") /\ UNCHANGED <<agent, commands>>
  /\ UNCHANGED <<row, request, overlapped, excuse, faults>>

VerifyClearsPrevious(t) ==
  /\ phase[t] = "read" /\ kind[t] \in {"auth", "cert"}
  /\ Write(t)
  /\ prev' = NoSecret
  /\ excuse' = excuse \cup Overlap(t)
  /\ Admit(t)
  /\ UNCHANGED <<cur, status, issued, request, commands, faults>>

\* A rollback: the API crashed, the database failed, the row was deleted.
Abort(t) ==
  /\ phase[t] \notin {"idle", "reply"}
  /\ Fault \/ (status = "retired" /\ UNCHANGED faults)
  /\ Answered(t)
  /\ excuse' = excuse \cup (IF phase[t] = "sent" /\ disk = fresh[t] THEN {"rollback"} ELSE {})
  /\ UNCHANGED <<row, request, overlapped, commands, life, disk, mem, dialled, link>>

RetireDevice ==
  /\ status = "active"
  /\ Holding = {}
  /\ status' = "retired"
  /\ excuse' = excuse \cup {"retired"}
  /\ UNCHANGED <<cur, prev, issued, phase, request, overlapped, commands, agent, faults>>

-----------------------------------------------------------------------------
Next ==
  \/ Start \/ Connect \/ GiveUp \/ Disconnect \/ Crash \/ RetireDevice
  \/ \E secret \in Secrets : CmdRotateCreds(secret)
  \/ \E t \in Tx :
       \/ Ask(t) \/ TakeReply(t) \/ DropReply(t) \/ Dial(t) \/ RequestCertificate(t)
       \/ RenewLoad(t) \/ RenewVerify(t) \/ RenewClear(t) \/ RenewWrite(t)
       \/ \E k \in Kinds : Rotate(t, k)
       \/ RotateCheck(t) \/ RotateLoad(t) \/ RotateFlush(t) \/ RotateCommit(t)
       \/ VerifyAgentSecret(t) \/ VerifyClearsPrevious(t) \/ Abort(t)

Spec == Init /\ [][Next]_vars

-----------------------------------------------------------------------------
(* Type invariant: the credential row, the agent's copies and the open      *)
(* requests are well formed.                                                *)
TypeOK ==
  /\ issued \in Secrets
  /\ cur \in 0..issued /\ prev \in (0..issued) \cup {NoSecret}
  /\ status \in {"active", "retired"}
  /\ phase \in [Tx -> Phases] /\ kind \in [Tx -> Kinds]
  /\ shown \in [Tx -> 0..issued] /\ readCur \in [Tx -> 0..issued] /\ fresh \in [Tx -> 0..issued]
  /\ overlapped \subseteq Tx /\ commands \subseteq 0..issued
  /\ life \in {"down", "starting", "up"} /\ link \in {"dialling", "connected"}
  /\ disk \in 0..issued /\ mem \in 0..issued /\ dialled \in 0..issued
  /\ asking \in Tx \cup {None} /\ waiting \in Tx \cup {None}
  /\ excuse \subseteq Excuses
  /\ faults \in 0..MaxFaults

\* The secret in the agent's file is accepted by the server, or is that of a
\* rotation about to commit, unless one of these has happened: the agent renewed
\* on its previous secret, an operator forced a rotation over an unconfirmed one,
\* two transactions overlapped, a save failed, a rotation was rolled back after
\* the agent had saved it, a rotate command was handled after its rotation had
\* ended, or the device was retired.  So lost replies, crashes, restarts and
\* reconnects do not lock an agent out by themselves (verify_agent_secret, renew_agent_secret, Renew).
LockedOutOnlyIfExcused == excuse = {} => disk \in Accepted \cup SentSecrets

\* A secret that has ceased to be accepted never is again, unless transactions
\* overlapped: "Outside that window it is dead, which is what makes rotation a
\* revocation rather than a second key" (verify_agent_secret).
DeadStaysDead ==
  [][excuse' \cap {"overlap"} = {} => \A s \in Accepted' \ Accepted : s > cur]_vars

\* "This reply can be lost in flight, and an agent that never receives it is
\* still using what it had" (renew_agent_secret): renewing, also on the previous
\* secret, which is "the main case", never locks out an agent that has given up
\* waiting for its reply.
LostRepliesAreSafe ==
  excuse \subseteq {"twice"} /\ asking = None => disk \in Accepted \cup SentSecrets

\* A rotation is "safe to have interrupted" (rotate_credentials): if it is rolled
\* back, the agent still holds an accepted secret.
InterruptedRotationIsSafe == excuse \subseteq {"rollback"} => disk \in Accepted \cup SentSecrets

\* When a save fails, "the old one still works until we connect with the new one,
\* so the agent stays reachable" (Renew): the secret in the file stays accepted
\* while no connection was made with a newer one.
FailedSaveIsSafe ==
  excuse \subseteq {"save"} /\ dialled <= disk => disk \in Accepted \cup SentSecrets
=============================================================================
