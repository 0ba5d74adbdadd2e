-------------------------- MODULE BitemporalStore --------------------------
(***************************************************************************)
(* The facts of one device and kind (fact_software, fact_network, ...):    *)
(* every row says what was true on the machine during valid time (vlo up   *)
(* to, not including, vhi) according to what the server believed during    *)
(* record time (rlo up to rhi).  Inventory snapshots arrive from the       *)
(* stream in any order and more than once; record_facts amends the current *)
(* beliefs in one transaction, and get_facts answers "what was true at v,  *)
(* according to what we knew at r".                                        *)
(*                                                                         *)
(* Writers are dispatchers, meant to be one.  A transaction notes the time *)
(* first, then selects, then writes; the updates and inserts wait for the  *)
(* locks of other writers, so that they and the commit are one step here.  *)
(***************************************************************************)
EXTENDS Integers, Sequences, FiniteSets

CONSTANTS
  Keys,      \* fact keys
  Values,    \* payloads
  Writers,   \* dispatchers
  Guarded,   \* whether the kind is in EMPTY_IS_IMPLAUSIBLE
  MaxLag,    \* MAX_LAG
  MaxSkew,   \* MAX_SKEW_AHEAD
  MaxClock   \* bound: transactions begun

ASSUME TimesAssumption ==
  /\ MaxLag \in Nat /\ MaxSkew \in Nat /\ MaxClock \in Nat \ {0}
  /\ Guarded \in BOOLEAN

Inf == MaxClock + MaxSkew + 1
Times == (1 - MaxLag)..(Inf - 1)
Facts == UNION {[S -> Values] : S \in SUBSET Keys}
Belief == [key : Keys, val : Values, vlo : Times, vhi : Times \cup {Inf},
           rlo : 1..MaxClock, rhi : 1..MaxClock \cup {Inf}]

VARIABLES
  clock,    \* the server's time; every transaction reads a later one
  rows,     \* the fact table
  phase,    \* per writer: idle, begun or read
  snap,     \* the snapshot it applies: observed_at and the facts
  now,      \* the time it noted
  seen,     \* the current beliefs it selected
  crossed,  \* writers that another one has committed under
  log       \* history: the snapshots committed, with their times

vars == <<clock, rows, phase, snap, now, seen, crossed, log>>

NoSnapshot == [at |-> 1, facts |-> <<>>]

Init ==
  /\ clock = 0
  /\ rows = {}
  /\ phase = [w \in Writers |-> "idle"]
  /\ snap = [w \in Writers |-> NoSnapshot]
  /\ now = [w \in Writers |-> 0]
  /\ seen = [w \in Writers |-> {}]
  /\ crossed = {}
  /\ log = <<>>

-----------------------------------------------------------------------------
\* get_facts: the values of a key at v according to what was known at r.
GetFacts(k, v, r) ==
  {b.val : b \in {c \in rows : c.key = k /\ c.vlo <= v /\ v < c.vhi /\ c.rlo <= r /\ r < c.rhi}}

\* Current on both axes, as get_facts without parameters has it.
CurrentBeliefs == {b \in rows : b.rhi = Inf /\ b.vhi = Inf}

\* A delivery: parse_inventory and parse_wire_time accept what is neither too
\* old nor too far ahead.  It may be new, late or delivered before.
HandleInventory(w, at, facts) ==
  /\ phase[w] = "idle"
  /\ clock < MaxClock
  /\ at >= clock + 1 - MaxLag /\ at <= clock + 1 + MaxSkew
  /\ clock' = clock + 1
  /\ phase' = [phase EXCEPT ![w] = "begun"]
  /\ snap' = [snap EXCEPT ![w] = [at |-> at, facts |-> facts]]
  /\ now' = [now EXCEPT ![w] = clock + 1]
  /\ UNCHANGED <<rows, seen, crossed, log>>

SelectCurrent(w) ==
  /\ phase[w] = "begun"
  /\ phase' = [phase EXCEPT ![w] = "read"]
  /\ seen' = [seen EXCEPT ![w] = CurrentBeliefs]
  /\ UNCHANGED <<clock, rows, snap, now, crossed, log>>

-----------------------------------------------------------------------------
(* What the transaction makes of its snapshot.                             *)

Told(w) == DOMAIN snap[w].facts
Unchanged(w, b) == b.key \in Told(w) /\ snap[w].facts[b.key] = b.val
ToClose(w) == {b \in seen[w] : ~Unchanged(w, b)}

\* Mutant: the old value is not recorded again with its end.
CorrectionsMissing(w) == {}

\* The old values, with the end of their validity that is now known.
Corrections(w) ==
  {[b EXCEPT !.vhi = snap[w].at, !.rlo = now[w]] : b \in {c \in ToClose(w) : c.vlo < snap[w].at}}

Opened(w) ==
  {[key |-> k, val |-> snap[w].facts[k], vlo |-> snap[w].at, vhi |-> Inf,
    rlo |-> now[w], rhi |-> Inf] : k \in {j \in Told(w) : \A b \in seen[w] :
                                            b.key = j => ~Unchanged(w, b)}}

OverlappingBeliefs(w) == \E b, c \in seen[w] : b # c /\ b.key = c.key
StaleObservation(w) == \E b \in seen[w] : b.key \in Told(w) /\ snap[w].at < b.vlo
WholesaleRetirement(w) == Guarded /\ seen[w] # {} /\ Told(w) = {}

\* The update names the rows by id and requires that they are still open.
ConcurrentAmend(w) == ~(ToClose(w) \subseteq rows)

\* PostgreSQL refuses a range that ends before it begins (external).
BadRange(w) == \E b \in ToClose(w) : b.rlo > now[w]

Amended(w) ==
  (rows \ ToClose(w)) \cup {[b EXCEPT !.rhi = now[w]] : b \in ToClose(w)}
    \cup Corrections(w) \cup Opened(w)

\* The exclusion constraint: open beliefs about a key do not overlap.
Excluded(table) ==
  \E b, c \in {d \in table : d.rhi = Inf} :
    b # c /\ b.key = c.key /\ b.vlo < c.vhi /\ c.vlo < b.vhi

\* Mutant: the update closes rows that are closed already once more.
FailsNever(w) == StaleObservation(w) \/ WholesaleRetirement(w) \/ Excluded(Amended(w))

Fails(w) ==
  \/ OverlappingBeliefs(w) \/ StaleObservation(w) \/ WholesaleRetirement(w)
  \/ ConcurrentAmend(w) \/ BadRange(w) \/ Excluded(Amended(w))

Done(w) ==
  /\ phase' = [phase EXCEPT ![w] = "idle"]
  /\ snap' = [snap EXCEPT ![w] = NoSnapshot]
  /\ now' = [now EXCEPT ![w] = 0]
  /\ seen' = [seen EXCEPT ![w] = {}]

RecordFacts(w) ==
  /\ phase[w] = "read"
  /\ ~Fails(w)
  /\ rows' = Amended(w)
  /\ log' = Append(log, [at |-> snap[w].at, facts |-> snap[w].facts, now |-> now[w],
                          alone |-> w \notin crossed])
  /\ crossed' = {x \in Writers \ {w} : phase[x] # "idle"}
  /\ Done(w)
  /\ UNCHANGED clock

\* Refused, or the database failed: rolled back.  The message is parked
\* (stale, wholesale) or delivered again.
Refused(w) ==
  /\ phase[w] # "idle"
  /\ crossed' = crossed \ {w}
  /\ Done(w)
  /\ UNCHANGED <<clock, rows, log>>

Next ==
  \E w \in Writers :
    \/ \E at \in Times, facts \in Facts : HandleInventory(w, at, facts)
    \/ SelectCurrent(w) \/ RecordFacts(w) \/ Refused(w)

Spec == Init /\ [][Next]_vars

-----------------------------------------------------------------------------
(* Type invariant: facts are rows with ordered intervals and a transaction  *)
(* in progress holds what record_facts has selected.                        *)
TypeOK ==
  /\ clock \in 0..MaxClock
  /\ rows \subseteq Belief
  /\ phase \in [Writers -> {"idle", "begun", "read"}]
  /\ snap \in [Writers -> [at : Times, facts : Facts]]
  /\ now \in [Writers -> 0..clock]
  /\ seen \in [Writers -> SUBSET Belief]
  /\ crossed \subseteq Writers
  /\ log \in Seq([at : Times, facts : Facts, now : 1..MaxClock, alone : BOOLEAN])

Entries == 1..Len(log)
NowsInOrder == \A i, j \in Entries : i < j => log[i].now < log[j].now
Alone == \A i \in Entries : log[i].alone
ObservedInOrder == \A i, j \in Entries : i < j => log[i].at <= log[j].at

\* What the first n snapshots say of a key at v: the last one observed by then
\* decides.
Replayed(k, v, n) ==
  LET S == {i \in 1..n : log[i].at <= v}
      last == CHOOSE i \in S : \A j \in S : j <= i
  IN  IF S # {} /\ k \in DOMAIN log[last].facts THEN {log[last].facts[k]} ELSE {}

\* The table answers every question on both axes as a replay of the snapshots
\* recorded by then would: nothing that was believed is ever lost, a fact that
\* returns is seen again, and one that ended is not (record_facts, get_facts).
\* The snapshots came in the order they were taken, one transaction at a time.
ReplayMatches ==
  Alone /\ ObservedInOrder =>
    \A n \in Entries, k \in Keys, v \in Times :
      GetFacts(k, v, log[n].now) = Replayed(k, v, n)

\* At no pair of instants are there two beliefs about a key, late snapshots
\* included, although the exclusion constraint only sees beliefs still held: as
\* long as the writers commit in the order of their clocks.
OneBelief ==
  NowsInOrder =>
    \A k \in Keys, v \in Times, r \in 1..clock : Cardinality(GetFacts(k, v, r)) <= 1

\* An answer of the fact table, on both axes, is at most one fact and the one
\* that was observed (record_facts, get_facts).
AnswersSound == OneBelief /\ ReplayMatches

KnownAt(r) == {[b EXCEPT !.rlo = 1, !.rhi = Inf] : b \in {c \in rows : c.rlo <= r /\ r < c.rhi}}

\* "What we believed at any past moment stays reconstructable": no amend changes
\* the answer for a record time before every transaction in progress, two
\* writers included (the compare-and-swap on upper_inf in record_facts).
PastIsFixed ==
  [][\A r \in 1..clock :
       (\A w \in Writers : phase[w] # "idle" => r < now[w]) => KnownAt(r)' = KnownAt(r)]_vars

\* "Refuse an observation older than something we already believe": no snapshot
\* ends a current belief that starts after it was taken (record_facts).
OlderIsRefused ==
  [][\A w \in Writers :
       phase[w] = "read" /\ phase'[w] = "idle" =>
         \A b \in CurrentBeliefs \ rows' : b.vlo <= snap[w].at]_vars
=============================================================================
