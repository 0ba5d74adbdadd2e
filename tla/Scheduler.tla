----------------------------- MODULE Scheduler -----------------------------
(***************************************************************************)
(* Schedules that an agent keeps and fires by itself.  The server compares *)
(* the schedule version of every heartbeat with the one the device should  *)
(* have and pushes the whole document when they differ; the agent's sync   *)
(* command replaces the schedule in memory and on disk, and its scheduler  *)
(* loop sleeps until the next fire, catches up after a restart what is     *)
(* within its grace, and records every fire before it hands the job over.  *)
(*                                                                         *)
(* A document is the set of its entries, and its version is its content    *)
(* (schedule_version is a checksum of the entries).  Fire times are the    *)
(* multiples of an entry's period.  The clock shows the last whole second: *)
(* the time is a little later, so that a fire at `now' is in the past.     *)
(***************************************************************************)
EXTENDS Integers, Sequences, FiniteSets, Bags

CONSTANTS
  Entries,     \* entry ids
  Bad,         \* entries whose cron or time zone the agent cannot parse
  Period,      \* seconds between the fires of an entry
  JitterOf,    \* this agent's offset for an entry
  CatchUpOf,   \* this agent's offset for its catch-up, below MisfireJitterS
  GraceOf,     \* misfire_grace_s
  Slack,       \* fireSlack
  Nothing,     \* no item, no file
  Torn,        \* a file that does not parse
  MaxTime,     \* bound: the clock
  MaxEdits,    \* bound: changes of the schedule
  MaxFaults    \* bound: crashes, failed saves, lost pushes

ASSUME EntriesAssumption ==
  /\ Bad \subseteq Entries
  /\ Period \in [Entries -> Nat \ {0}]
  /\ JitterOf \in [Entries -> Nat] /\ CatchUpOf \in [Entries -> Nat]
  /\ GraceOf \in [Entries -> Nat]
  /\ Slack \in Nat \ {0}
ASSUME SchedulerBoundsAssumption ==
  MaxTime \in Nat /\ MaxEdits \in Nat /\ MaxFaults \in Nat

VARIABLES
  now,     \* the clock
  want,    \* the document the device should have, from the database
  cached,  \* the dispatcher's copy of it
  floor,   \* the version pushed within RETRY_FLOOR_S, or Nothing
  wire,    \* the sync request on its way, or Nothing
  mem,     \* the agent's state: version, entries, last fires
  file,    \* schedule.json: a state, Nothing, or torn
  pq,      \* the heap of items to fire
  wake,    \* the wake channel: 0 or 1
  loop,    \* where the scheduler loop is, see Loops
  due,     \* the time fireDue was called with, or Nothing
  copy,    \* what the loop has read and not yet used
  item,    \* the item in hand, when it is handled, and whether it runs
  syncing, \* the state that Sync is saving, or Nothing
  started, \* occurrences this process has started
  runs,    \* history: how often an occurrence was started
  told,    \* history: when the agent was told of an entry it did not have
  excuse,  \* history: what has happened that weakens a promise
  edits, faults

server == <<want, cached, floor>>
agent == <<mem, pq, wake, loop, due, copy, item, syncing, started>>
history == <<runs, told, excuse>>
bounds == <<edits, faults>>
vars == <<now, want, cached, floor, wire, mem, file, pq, wake, loop, due, copy, item,
          syncing, started, runs, told, excuse, edits, faults>>

State(version, entries, last) == [version |-> version, entries |-> entries, last |-> last]
Fresh == State({}, {}, <<>>)
Fault == faults < MaxFaults /\ faults' = faults + 1 /\ UNCHANGED edits

Init ==
  /\ now = 0
  /\ want = {} /\ cached = {} /\ floor = Nothing /\ wire = Nothing
  /\ mem = Fresh /\ file = Nothing
  /\ pq = EmptyBag /\ wake = 0 /\ loop = "load" /\ due = Nothing
  /\ copy = Nothing /\ item = Nothing /\ syncing = Nothing
  /\ started = {} /\ runs = <<>>
  /\ told = [e \in Entries |-> 0]
  /\ excuse = {}
  /\ edits = 0 /\ faults = 0

-----------------------------------------------------------------------------
(* The server.                                                             *)

\* An operator adds, removes or disables schedules.
EditSchedules ==
  /\ edits < MaxEdits
  /\ want' \in (SUBSET Entries) \ {want}
  /\ edits' = edits + 1
  /\ UNCHANGED <<now, cached, floor, wire, agent, file, history, faults>>

\* _current, after CACHE_TTL_S.
ReloadSchedules ==
  /\ cached # want
  /\ cached' = want
  /\ UNCHANGED <<now, want, floor, wire, agent, file, history, bounds>>

\* Mutant: an agent that reports no schedule is taken to need none.
CheckTrusting ==
  /\ loop # "down"
  /\ mem.version # cached /\ mem.version # {} /\ floor # cached /\ wire = Nothing
  /\ floor' = cached
  /\ wire' = cached
  /\ UNCHANGED <<now, want, cached, agent, file, history, bounds>>

\* A heartbeat of a running agent, ScheduleSyncer.check and the push.
Check ==
  /\ loop # "down"
  /\ mem.version # cached
  /\ floor # cached
  /\ wire = Nothing
  /\ floor' = cached
  /\ wire' = cached
  /\ UNCHANGED <<now, want, cached, agent, file, history, bounds>>

\* RETRY_FLOOR_S has passed.
FloorElapses ==
  /\ floor # Nothing
  /\ floor' = Nothing
  /\ UNCHANGED <<now, want, cached, wire, agent, file, history, bounds>>

PushLost ==
  /\ wire # Nothing
  /\ Fault
  /\ wire' = Nothing
  /\ UNCHANGED <<now, server, agent, file, history>>

-----------------------------------------------------------------------------
(* The agent's sync command.                                               *)

\* An entry seen for the first time counts as fired now.
LastAfterSync(kept) == [e \in kept |-> IF e \in DOMAIN mem.last THEN mem.last[e] ELSE now]

\* Entries the agent has been told of, in memory, on disk or with an item that
\* still waits in the heap.
Known ==
  {i.entry : i \in BagToSet(pq)}
    \cup UNION {DOMAIN st.last : st \in ({mem, file} \cup (IF loop = "loaded" THEN {copy} ELSE {}))
                                        \ {Nothing, Torn}}

\* Sync up to the save: the new state is in memory.
Sync ==
  /\ loop # "down"
  /\ wire # Nothing
  /\ syncing = Nothing
  /\ wire' = Nothing
  /\ mem' = State(wire, wire \ Bad, LastAfterSync(wire \ Bad))
  /\ syncing' = mem'
  /\ told' = [e \in Entries |-> IF e \in wire \ Known THEN now ELSE told[e]]
  /\ UNCHANGED <<now, server, file, pq, wake, loop, due, copy, item, started, runs, excuse, bounds>>

\* What a save leaves in the file when another one may be writing the same
\* temporary file: its own state, the other's, or part of one.
Written(own, other) == IF other = Nothing THEN {own} ELSE {own, other, Torn}

Saved(own, other) ==
  /\ file' \in Written(own, other)
  /\ excuse' = IF other = Nothing THEN excuse ELSE excuse \cup {"overlap"}

SaveFails ==
  /\ Fault
  /\ UNCHANGED file
  /\ excuse' = excuse \cup {"disk"}

Signal == wake' = 1

\* The map of last fires is shared with the loop, which may have changed it.
SyncSaved ==
  /\ syncing # Nothing
  /\ \E own \in {syncing, mem} : Saved(own, IF loop = "saving" THEN copy ELSE Nothing)
  /\ syncing' = Nothing
  /\ Signal
  /\ UNCHANGED <<now, server, wire, mem, pq, loop, due, copy, item, started, runs, told, bounds>>

\* Sync returns before it wakes the loop.
SyncSaveFails ==
  /\ syncing # Nothing
  /\ SaveFails
  /\ syncing' = Nothing
  /\ UNCHANGED <<now, server, wire, mem, pq, wake, loop, due, copy, item, started, runs, told>>

-----------------------------------------------------------------------------
(* The scheduler loop.                                                     *)

NextFire(e, t) == ((t \div Period[e]) + 1) * Period[e]
Item(e, base, at) == [entry |-> e, base |-> base, at |-> at]
ItemFor(e, t) == Item(e, NextFire(e, t), NextFire(e, t) + JitterOf[e])

\* Load reads the file and then takes the lock.
LoadRead ==
  /\ loop = "load"
  /\ copy' = IF file \in {Nothing, Torn} THEN Fresh ELSE file
  /\ loop' = "loaded"
  /\ UNCHANGED <<now, server, wire, mem, file, pq, wake, due, item, syncing, started, history, bounds>>

Load ==
  /\ loop = "loaded"
  /\ mem' = copy
  /\ copy' = Nothing
  /\ loop' = "catchup"
  /\ UNCHANGED <<now, server, wire, file, pq, wake, due, item, syncing, started, history, bounds>>

LastMissed(e, since) ==
  LET b == (now \div Period[e]) * Period[e] IN IF b > since THEN b ELSE 0

\* decideMisfire.
WithinGrace(e, base, t) == base > 0 /\ t - base < GraceOf[e]

Missed(e) == IF e \in DOMAIN mem.last THEN LastMissed(e, mem.last[e]) ELSE 0

\* catchUp queues the last missed fire of each entry, or records it as skipped;
\* markFired saves.
CatchUp ==
  /\ loop = "catchup"
  /\ LET Owed == {e \in mem.entries : WithinGrace(e, Missed(e), now)}
         last == [e \in mem.entries \cup DOMAIN mem.last |->
                    IF e \notin DOMAIN mem.last THEN now
                    ELSE IF e \in mem.entries \ Owed /\ Missed(e) > 0 THEN Missed(e)
                    ELSE mem.last[e]]
     IN  /\ mem' = [mem EXCEPT !.last = last]
         /\ pq' = SetToBag({Item(e, Missed(e), now + CatchUpOf[e]) : e \in Owed})
         /\ \/ last = mem.last /\ UNCHANGED <<file, excuse, bounds>>
            \/ last # mem.last /\ Saved(mem', syncing) /\ UNCHANGED bounds
            \/ last # mem.last /\ SaveFails
  /\ loop' = "rebuild"
  /\ UNCHANGED <<now, server, wire, wake, due, copy, item, syncing, started, runs, told>>

\* Mutant: items whose time has come do not survive.
CarriedNever(t) == {}

Carried(t) == {i \in BagToSet(pq) : i.base <= t}

\* rebuild: its two halves have the lock, not what is between them.  A wake
\* that comes in between is not lost.
RebuildRead ==
  /\ \/ loop = "rebuild" /\ copy = Nothing /\ UNCHANGED wake
     \/ loop = "select" /\ wake = 1 /\ wake' = 0
  /\ loop' = "rebuild"
  /\ copy' = [entries |-> mem.entries, now |-> now]
  /\ UNCHANGED <<now, server, wire, mem, file, pq, due, item, syncing, started, history, bounds>>

Rebuild ==
  /\ loop = "rebuild"
  /\ copy # Nothing
  /\ pq' = [i \in Carried(copy.now) |-> pq[i]]
           (+) SetToBag({ItemFor(e, copy.now) : e \in copy.entries})
  /\ loop' = "select"
  /\ copy' = Nothing
  /\ UNCHANGED <<now, server, wire, mem, file, wake, due, item, syncing, started, history, bounds>>

\* Mutant: being late does not matter to a process that was running.
TooLateNever(i, t) == FALSE

TooLate(i, t) == t - i.at >= Slack /\ ~WithinGrace(i.entry, i.base, t)

\* Mutant: the fire is not recorded.
RecordNothing(i) == mem.last

Record(i) ==
  [e \in DOMAIN mem.last \cup {i.entry} |-> IF e = i.entry THEN i.base ELSE mem.last[e]]

\* fireDue goes on with the time it was called with until nothing is due.
Fires(t, heap) ==
  LET more == \E j \in BagToSet(heap) : j.at <= t
  IN  loop' = (IF more THEN "firing" ELSE "select") /\ due' = (IF more THEN t ELSE Nothing)

\* Its next item: one that a sync has removed is dropped, any other is recorded
\* as fired, in memory and then on disk.
FireDue ==
  /\ loop \in {"select", "firing"}
  /\ \E i \in BagToSet(pq) :
       LET t == IF loop = "firing" THEN due ELSE now
       IN  /\ i.at <= t
           /\ \A j \in BagToSet(pq) : i.at <= j.at
           /\ pq' = pq (-) SetToBag({i})
           /\ IF i.entry \in mem.entries
              THEN /\ item' = [i |-> i, run |-> ~TooLate(i, t)]
                   /\ mem' = [mem EXCEPT !.last = Record(i)]
                   /\ copy' = mem'
                   /\ loop' = "saving" /\ due' = t
                   /\ excuse' = IF i.entry \in DOMAIN mem.last /\ mem.last[i.entry] > i.base
                                THEN excuse \cup {"backwards"} ELSE excuse
              ELSE Fires(t, pq') /\ UNCHANGED <<item, mem, copy, excuse>>
  /\ UNCHANGED <<now, server, wire, file, wake, syncing, started, runs, told, bounds>>

Occurrence == <<item.i.entry, item.i.base>>
RunsOf(o) == IF o \in DOMAIN runs THEN runs[o] ELSE 0

FiredPushes == pq' = pq (+) SetToBag({ItemFor(item.i.entry, due)})

\* dispatch and push.  The registry of AgentJobs refuses a job that this process
\* has started before.
Fired ==
  /\ FiredPushes
  /\ IF item.run /\ Occurrence \notin started
     THEN /\ started' = started \cup {Occurrence}
          /\ runs' = [o \in DOMAIN runs \cup {Occurrence} |->
                        IF o = Occurrence THEN RunsOf(o) + 1 ELSE runs[o]]
     ELSE UNCHANGED <<started, runs>>
  /\ Fires(due, pq')
  /\ copy' = Nothing
  /\ item' = Nothing

MarkSaved ==
  /\ loop = "saving"
  /\ Saved(copy, syncing)
  /\ Fired
  /\ UNCHANGED <<now, server, wire, mem, wake, syncing, told, bounds>>

\* A failed save is only logged.
MarkSaveFails ==
  /\ loop = "saving"
  /\ SaveFails
  /\ Fired
  /\ UNCHANGED <<now, server, wire, mem, wake, syncing, told>>

-----------------------------------------------------------------------------
\* Time passes; while the machine sleeps, a lot of it.
Tick(t) ==
  /\ t > now
  /\ now' = t
  /\ UNCHANGED <<server, wire, agent, file, history, bounds>>

\* The process ends, cleanly or not: the scheduler saves nothing.
Crash ==
  /\ loop # "down"
  /\ Fault
  /\ loop' = "down"
  /\ mem' = Fresh /\ pq' = EmptyBag /\ wake' = 0 /\ due' = Nothing
  /\ copy' = Nothing /\ item' = Nothing /\ syncing' = Nothing /\ started' = {} /\ wire' = Nothing
  /\ UNCHANGED <<now, server, file, history>>

Start ==
  /\ loop = "down"
  /\ loop' = "load"
  /\ UNCHANGED <<now, server, wire, mem, file, pq, wake, due, copy, item, syncing,
                 started, history, bounds>>

Loop == LoadRead \/ Load \/ CatchUp \/ RebuildRead \/ Rebuild \/ FireDue \/ MarkSaved
Syncing == Check \/ Sync \/ SyncSaved
Next ==
  \/ EditSchedules \/ ReloadSchedules \/ FloorElapses \/ PushLost
  \/ Syncing \/ SyncSaveFails \/ Loop \/ MarkSaveFails
  \/ \E t \in 1..MaxTime : Tick(t)
  \/ Crash \/ Start

Spec == Init /\ [][Next]_vars

\* The dispatcher re-reads its cache, heartbeats keep coming, the agent is
\* restarted by its service manager and goes on.
LiveSpec ==
  /\ Spec
  /\ WF_vars(ReloadSchedules) /\ WF_vars(FloorElapses) /\ WF_vars(Syncing)
  /\ WF_vars(Loop) /\ WF_vars(Start)

-----------------------------------------------------------------------------
Loops == {"down", "load", "loaded", "catchup", "rebuild", "select", "firing", "saving"}
States == [version : SUBSET Entries, entries : SUBSET Entries,
           last : UNION {[S -> 0..MaxTime] : S \in SUBSET Entries}]

(* Type invariant: the state in memory, the state file and the heap are     *)
(* well formed.                                                             *)
TypeOK ==
  /\ now \in 0..MaxTime
  /\ want \subseteq Entries /\ cached \subseteq Entries
  /\ floor \in SUBSET Entries \cup {Nothing} /\ wire \in SUBSET Entries \cup {Nothing}
  /\ mem \in States
  /\ file \in States \cup {Nothing, Torn}
  /\ IsABag(pq) /\ wake \in {0, 1}
  /\ \A i \in BagToSet(pq) : i.entry \in Entries /\ i.base \in Nat /\ i.at \in Nat
  /\ loop \in Loops /\ due \in 0..MaxTime \cup {Nothing}
  /\ syncing \in States \cup {Nothing}
  /\ started \subseteq Entries \X (0..MaxTime)
  /\ excuse \subseteq {"overlap", "disk", "backwards"}
  /\ told \in [Entries -> 0..MaxTime]
  /\ edits \in 0..MaxEdits /\ faults \in 0..MaxFaults

\* An occurrence is started at most once, restarts included: it is recorded on
\* disk before it starts.  The exceptions are a failed save, two saves that
\* overlap and a record that went backwards (dispatch, markFired, catchUp).
StartedOnce == \A o \in DOMAIN runs : runs[o] > 1 => excuse # {}

\* Every entry in memory has an item in the heap, or the loop is about to
\* rebuild it: no interleaving of a sync with a rebuild or with a fire forgets
\* an entry (Sync, rebuild, fireDue).
EntriesArmed ==
  loop = "select" /\ wake = 0 /\ syncing = Nothing /\ "disk" \notin excuse =>
    \A e \in mem.entries : \E i \in BagToSet(pq) : i.entry = e

\* A job never starts later than its grace allows, counted from its own fire
\* time and whatever made it late, a restart or a sleep; one that is "worthless
\* late" only has its jitter and the timer's slack (decideMisfire, tooLate).
LateWithinGrace ==
  loop = "saving" /\ item.run =>
    LET e == item.i.entry
        caughtUp == IF GraceOf[e] = 0 THEN 0 ELSE GraceOf[e] + CatchUpOf[e]
    IN  due - item.i.base < Slack + (IF JitterOf[e] > caughtUp THEN JitterOf[e] ELSE caughtUp)

\* A run still owed, caught up or waiting for its jitter, survives every rebuild:
\* it leaves the heap to be fired, or because its entry is gone (rebuild).
OwedStays ==
  [][\A i \in BagToSet(pq) :
       i.base <= (IF loop = "rebuild" /\ copy # Nothing THEN copy.now ELSE now) /\ i \notin BagToSet(pq') /\ loop' # "down" =>
         i.entry \notin mem.entries \/ (loop' = "saving" /\ item'.i = i)]_vars

\* A new entry does not "catch up" a run it was never supposed to do: no fire
\* from before the agent was told of it starts, after a restart either (Sync).
\* An entry that comes back while its old item waits in the heap is not new.
NotBeforeTold ==
  loop = "saving" /\ item.run => item.i.base > told[item.i.entry] \/ excuse # {}

\* A fire starts in its time: after the agent was told of its entry, and within
\* its grace, through restarts, sleeps and edits (Sync, catchUp, tooLate).
InTime == LateWithinGrace /\ NotBeforeTold

\* No interleaving of syncs, rebuilds and fires forgets an entry or a run that
\* is owed (Sync, rebuild, fireDue).
NothingForgotten == []EntriesArmed /\ OwedStays

\* Once the operators stop editing, the agent holds the schedule the database
\* has, whatever was lost or restarted on the way, without the entries it cannot
\* parse (ScheduleSyncer.check).
Converges == <>[](mem.version = want /\ mem.entries = want \ Bad)

\* "The schedule is live in memory even if the disk write failed" (cmdSchedSync):
\* every entry in memory comes into the heap.
LiveInMemory ==
  \A e \in Entries :
    (e \in mem.entries) ~> (e \notin mem.entries \/ \E i \in BagToSet(pq) : i.entry = e)
=============================================================================
