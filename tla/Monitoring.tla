----------------------------- MODULE Monitoring -----------------------------
(***************************************************************************)
(* From an agent's heartbeats and samples to a notification: the two loops *)
(* of the agent, the dispatcher's consumers and offline sweep, the alert   *)
(* engine with its memory and its rows, and the drainer of the             *)
(* notification outbox.                                                    *)
(*                                                                         *)
(* One device, one rule on a sampled metric (load) and one on missed       *)
(* heartbeats (beat), one channel.                                         *)
(***************************************************************************)
EXTENDS Integers, Sequences, FiniteSets

CONSTANTS
  MaxTime,       \* bound on the clock
  Duration, Cooldown, OfflineAfter,
  MaxAttempts,
  MaxFaults      \* bound on failures, restarts and an operator's interventions

ASSUME MonitoringAssumption ==
  /\ {MaxTime, Duration, Cooldown, OfflineAfter, MaxFaults} \subseteq Nat
  /\ MaxAttempts \in Nat \ {0}

Rules == {"load", "beat"}
None == -1
NoAlert == [at |-> None, told |-> FALSE]
NoSample == [ts |-> None, hot |-> FALSE]

VARIABLES
  now, alive, sampled,   \* the clock, the agent, its last sample's time
  queue, again,          \* samples in the stream, and those to be redelivered
  beatAt, status,        \* of the device's row
  mem,                   \* AlertEngine._state: since and last_fired_at of each rule
  db,                    \* each rule's open alert, and if it was announced; the
                         \* rows of the outbox that are neither sent nor failed
  hand,                  \* the sample being handled, and the engine's snapshot
  ruleOn, channelOn,     \* the beat rule and the channel are enabled
  excused,               \* history: the next notice of this rule may be missing
  newest,                \* history: the time of the newest sample evaluated
  faults

agentVars == <<now, alive, sampled>>
streamVars == <<queue, again, hand, newest>>
deviceVars == <<beatAt, status>>
configVars == <<ruleOn, channelOn>>
vars == <<agentVars, streamVars, deviceVars, mem, db, configVars,
          excused, faults>>

Empty == [since |-> [r \in Rules |-> None], fired |-> [r \in Rules |-> None]]
Idle == [s |-> NoSample, snap |-> Empty]

Init ==
  /\ now = 0 /\ alive = TRUE /\ sampled = None
  /\ queue = <<>> /\ again = {} /\ hand = Idle /\ newest = None
  /\ beatAt = 0 /\ status = "active"
  /\ mem = Empty
  /\ db = [alert |-> [r \in Rules |-> NoAlert], outbox |-> {}]
  /\ ruleOn = TRUE /\ channelOn = TRUE
  /\ excused = [r \in Rules |-> FALSE] /\ faults = 0

Fault == faults < MaxFaults /\ faults' = faults + 1

-----------------------------------------------------------------------------
(* The engine.  w holds its memory and the rows it sees.                   *)

enqueue(w, r, kind) ==
  [w EXCEPT !.db.outbox =
     @ \cup {[rule |-> r, kind |-> kind, st |-> "pending", tries |-> 0]}]

\* Dedup is the unique index's.  The cooldown keeps the notice back, not the row.
open(w, r, t) ==
  LET seed == IF w.mem.fired[r] = None THEN w.db.alert[r].at ELSE w.mem.fired[r]
      cool == seed # None /\ t - seed < Cooldown
      new == [w EXCEPT !.mem.fired[r] = t,
                       !.db.alert[r] = [at |-> t, told |-> ~cool]]
  IN IF w.db.alert[r] # NoAlert THEN [w EXCEPT !.mem.fired[r] = seed]
     ELSE IF cool THEN new ELSE enqueue(new, r, "firing")

\* Mutant: the cooldown outlives the incident.
resolveCooling(w, r, t) ==
  IF w.db.alert[r] = NoAlert \/ t < w.db.alert[r].at THEN w
  ELSE enqueue([w EXCEPT !.db.alert[r] = NoAlert], r, "resolved")

\* Evidence older than the alert does not close it.  A rule that is disabled is
\* not in the cache, and its all-clear is not sent.
resolve(w, r, t) ==
  LET a == w.db.alert[r]
      closed == [w EXCEPT !.db.alert[r] = NoAlert, !.mem.fired[r] = None]
  IN IF a = NoAlert \/ t < a.at THEN w
     ELSE IF r = "beat" /\ ~ruleOn THEN closed
     ELSE enqueue(closed, r, "resolved")

telemetry_eval(w, s) ==
  LET since == w.mem.since["load"]
      begun == IF since = None THEN s.ts ELSE since
      hot == [w EXCEPT !.mem.since["load"] = begun]
  IN IF since # None /\ s.ts < since THEN w
     ELSE IF ~s.hot THEN resolve([w EXCEPT !.mem.since["load"] = None], "load", s.ts)
     ELSE IF s.ts - begun < Duration THEN hot
     ELSE open(hot, "load", s.ts)

evaluate_heartbeat_missed(w) ==
  LET seen == [w EXCEPT !.mem.since["beat"] = beatAt] IN
  IF ~ruleOn THEN w
  ELSE IF now - beatAt < Duration THEN seen ELSE open(seen, "beat", now)

resolve_for_device(w) ==
  IF w.db.alert["beat"] = NoAlert THEN w
  ELSE resolve([w EXCEPT !.mem.since["beat"] = None], "beat", now)

\* Bound: a notice of a rule has left before there is another of its kind.
OneNoticeEach(rows) ==
  \A a, b \in rows : a.rule = b.rule /\ a.kind = b.kind => a = b

Engine == [mem |-> mem, db |-> db]

\* A transaction that commits; the bulkhead that undoes the engine's part of it,
\* and with the snapshot whatever its memory learned meanwhile; a commit that
\* fails when the engine is done.
Commits(w) ==
  /\ OneNoticeEach(w.db.outbox) /\ mem' = w.mem /\ db' = w.db
  /\ excused' = [r \in Rules |-> excused[r] /\ ~w.db.alert[r].told]
bulkhead(snap) ==
  /\ Fault /\ mem' = snap /\ UNCHANGED db
  /\ excused' = [r \in Rules |-> excused[r] \/ snap.fired[r] # mem.fired[r]]
CommitFails(w) ==
  /\ Fault /\ mem' = w.mem /\ UNCHANGED db
  /\ excused' = [r \in Rules |-> excused[r] \/ w.mem.fired[r] # mem.fired[r]]

-----------------------------------------------------------------------------
(* The agent.                                                              *)

Tick ==
  /\ now < MaxTime /\ now' = now + 1
  /\ UNCHANGED <<alive, sampled, streamVars, deviceVars, mem, db, configVars,
                 excused, faults>>

\* The agent goes, or its link, and may come back.
AgentStops ==
  /\ alive' = ~alive
  /\ UNCHANGED <<now, sampled, streamVars, deviceVars, mem, db, configVars,
                 excused, faults>>

telemetry_publish ==
  /\ alive /\ sampled < now /\ sampled' = now
  /\ \E hot \in BOOLEAN : queue' = Append(queue, [ts |-> now, hot |-> hot])
  /\ UNCHANGED <<now, alive, again, hand, newest, deviceVars, mem, db, configVars,
                 excused, faults>>

\* An agent that runs beats at every interval, whatever became of the last beat.
heartbeat_publish == alive

\* The heartbeat is not kept anywhere: the consumer has it, or nobody has.
heartbeat_consumer ==
  /\ heartbeat_publish
  /\ \/ /\ \/ Commits(resolve_for_device(Engine)) /\ UNCHANGED faults
           \/ bulkhead(mem)
        /\ beatAt' = now /\ status' = "active"
     \/ CommitFails(resolve_for_device(Engine)) /\ UNCHANGED deviceVars
  /\ UNCHANGED <<agentVars, streamVars, configVars>>

-----------------------------------------------------------------------------
(* The dispatcher.                                                         *)

\* Mutant: only a device that the sweep marks is looked at.
offline_sweep_edge ==
  LET gone == status = "active" /\ beatAt < now - OfflineAfter
      w == IF gone THEN evaluate_heartbeat_missed(Engine) ELSE Engine
  IN
  /\ \/ Commits(w) /\ UNCHANGED faults
     \/ bulkhead(mem)
  /\ status' = IF gone THEN "offline" ELSE status
  /\ UNCHANGED <<agentVars, streamVars, beatAt, configVars>>

\* The sweep looks at every device that is offline, not at those it marks.
offline_sweep ==
  LET gone == status = "offline" \/ beatAt < now - OfflineAfter
      w == IF gone THEN evaluate_heartbeat_missed(Engine) ELSE Engine
  IN
  /\ \/ /\ Commits(w) /\ UNCHANGED faults
        /\ status' = IF gone THEN "offline" ELSE status
     \/ /\ bulkhead(mem) /\ status' = IF gone THEN "offline" ELSE status
     \/ CommitFails(w) /\ UNCHANGED status
  /\ UNCHANGED <<agentVars, streamVars, beatAt, configVars>>

\* A sample is taken up; the engine waits for the database meanwhile.
handle_telemetry ==
  /\ hand = Idle
  /\ \/ /\ queue # <<>> /\ hand' = [s |-> Head(queue), snap |-> mem]
        /\ queue' = Tail(queue) /\ UNCHANGED again
     \/ \E s \in again : /\ hand' = [s |-> s, snap |-> mem]
                         /\ again' = again \ {s} /\ UNCHANGED queue
  /\ UNCHANGED <<newest, agentVars, deviceVars, mem, db, configVars, excused,
                 faults>>

\* It is acked, acked without its alerts, or comes again: its insert failed, the
\* commit, or only the ack.
evaluate_telemetry ==
  LET w == telemetry_eval(Engine, hand.s) IN
  /\ hand # Idle /\ hand' = Idle
  /\ \/ Fault /\ again' = again \cup {hand.s} /\ UNCHANGED <<mem, db, excused, newest>>
     \/ /\ newest' = IF hand.s.ts > newest THEN hand.s.ts ELSE newest
        /\ \/ Commits(w) /\ UNCHANGED <<again, faults>>
           \/ Commits(w) /\ Fault /\ again' = again \cup {hand.s}
           \/ bulkhead(hand.snap) /\ UNCHANGED again
           \/ CommitFails(w) /\ again' = again \cup {hand.s}
  /\ UNCHANGED <<agentVars, queue, deviceVars, configVars>>

Restart ==
  /\ Fault /\ mem' = Empty /\ hand' = Idle
  /\ again' = IF hand = Idle THEN again ELSE again \cup {hand.s}
  /\ UNCHANGED <<newest, agentVars, queue, deviceVars, db, configVars, excused>>

-----------------------------------------------------------------------------
(* The outbox.                                                             *)

\* Mutant: a blocked row is not due.
DUE_PENDING == {"pending"}
DUE_STATUSES == {"pending", "blocked"}

Becomes(row, rows) == db' = [db EXCEPT !.outbox = (@ \ {row}) \cup rows]

record_blocked(row) == Becomes(row, {[row EXCEPT !.st = "blocked"]})

record_failure(row, permanent) ==
  Becomes(row, IF permanent \/ row.tries + 1 >= MaxAttempts THEN {}
               ELSE {[row EXCEPT !.tries = @ + 1, !.st = "pending"]})

\* The endpoint takes it, turns it down, or fails for now.  A crash after it has
\* taken it, and before the commit, leaves the row as it was.
deliver(row) ==
  IF ~channelOn THEN record_blocked(row)
  ELSE Becomes(row, {}) \/ \E permanent \in BOOLEAN : record_failure(row, permanent)

drain_outbox ==
  /\ \E row \in db.outbox : row.st \in DUE_STATUSES /\ deliver(row)
  /\ UNCHANGED <<agentVars, streamVars, deviceVars, mem, configVars, excused, faults>>

-----------------------------------------------------------------------------
(* Operators.                                                              *)

resolve_alert(r) ==
  /\ db.alert[r] # NoAlert /\ Fault
  /\ db' = [db EXCEPT !.alert[r] = NoAlert]
  /\ excused' = [excused EXCEPT ![r] = @ \/ mem.fired[r] # None]
  /\ UNCHANGED <<agentVars, streamVars, deviceVars, mem, configVars>>

DisableRule ==
  /\ ruleOn /\ ruleOn' = FALSE
  /\ UNCHANGED <<agentVars, streamVars, deviceVars, mem, db, channelOn, excused,
                 faults>>

DisableChannel ==
  /\ channelOn /\ channelOn' = FALSE /\ Fault
  /\ UNCHANGED <<agentVars, streamVars, deviceVars, mem, db, ruleOn,
                 excused>>
EnableChannel ==
  /\ ~channelOn /\ channelOn' = TRUE
  /\ UNCHANGED <<agentVars, streamVars, deviceVars, mem, db, ruleOn,
                 excused, faults>>

-----------------------------------------------------------------------------

Next ==
  \/ Tick \/ AgentStops \/ telemetry_publish
  \/ heartbeat_consumer \/ offline_sweep \/ handle_telemetry
  \/ evaluate_telemetry \/ Restart \/ drain_outbox
  \/ (\E r \in Rules : resolve_alert(r)) \/ DisableRule \/ DisableChannel
  \/ EnableChannel

Spec == Init /\ [][Next]_vars

\* Time passes, the loops of the agent and of the dispatcher go round, and a
\* channel that was disabled is enabled again.  An agent that is down need not
\* come back.
LiveSpec ==
  /\ Spec /\ WF_vars(Tick) /\ WF_vars(heartbeat_consumer) /\ WF_vars(offline_sweep)
  /\ WF_vars(handle_telemetry) /\ WF_vars(evaluate_telemetry)
  /\ WF_vars(drain_outbox) /\ WF_vars(EnableChannel)

-----------------------------------------------------------------------------

\* Every alert that is open was announced, whatever failed, restarted or came
\* twice, unless the engine's memory had lost touch with its rows: a commit
\* failed after the engine had run, a bulkhead took back what another handler
\* had learned, or the alert before it was resolved by hand (open, resolve).
IncidentTold ==
  \A r \in Rules : db.alert[r] # NoAlert => db.alert[r].told \/ excused[r]

\* The alert follows the device: one that stays silent for as long as
\* the rule says has its alert in the end,
\* and one that is back loses it, also when an evaluation failed in between and
\* when the rule is disabled by then (offline_sweep, resolve_for_device).
Overdue == beatAt < now - OfflineAfter /\ now - beatAt >= Duration
AlertFollowsDevice ==
  /\ <>[](~alive /\ ruleOn /\ Overdue) => <>[](db.alert["beat"] # NoAlert)
  /\ <>[]alive => <>[](db.alert["beat"] = NoAlert)

\* No notification waits for ever, also those that were blocked (drain_outbox).
NoticesSettle == []<>(db.outbox = {})

\* An alert is not closed by a sample that is older than one the engine has seen.
StaleNeverResolves ==
  [][hand # Idle /\ hand' = Idle /\ db.alert["load"] # NoAlert
       /\ db'.alert["load"] = NoAlert => hand.s.ts >= newest]_vars

\* Every alert that is open was announced, without exception.
AlwaysTold == \A r \in Rules : db.alert[r] # NoAlert => db.alert[r].told
=============================================================================
