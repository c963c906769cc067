------------------------------ MODULE WatchStore ------------------------------
(*****************************************************************************)
(* cluster.db as the watch path reads it: resource rows, the watch_events    *)
(* table, replay positions and retention floors.                             *)
(*                                                                           *)
(* A key is a resource name in a namespace of its own, hence also a          *)
(* retention scope; so are the objects of a batch, although the one          *)
(* controller that sends batches keeps to a namespace. An event id is its    *)
(* index in the log. Legacy floors without an event id are left out, and so  *)
(* is the namespace sweep, which removes rows of other kinds than Pods       *)
(* without events.                                                           *)
(*****************************************************************************)
EXTENDS Integers, Sequences, FiniteSets, SequencesExt

CONSTANTS
    Keys,       \* resource names
    PageLimit,  \* MAX_WATCH_HISTORY_PAGE
    MaxRows,    \* max_rows of GcWatchEvents
    BatchCap    \* batch_cap of GcWatchEvents

ASSUME StoreAssumption ==
    /\ Keys \subseteq Nat \ {0} /\ IsFiniteSet(Keys)
    /\ PageLimit \in Nat \ {0} /\ MaxRows \in Nat \ {0} /\ BatchCap \in Nat \ {0}

\* uid: the resourceVersion of the creation, which no other object of the name
\* has; rv: metadata.resourceVersion; fits: whether the watch's selector matches.
Row == [uid : Nat \ {0}, rv : Nat \ {0}, fits : BOOLEAN]
NoRow == [uid |-> 0, rv |-> 0, fits |-> FALSE]

\* A DELETED event carries the body before the delete, stamped with the
\* resourceVersion of the delete.
Event == [type : {"ADDED", "MODIFIED", "DELETED"}, key : Keys, row : Row]

\* rv: metadata.resource_version; log: every event ever inserted (its length
\* is sqlite_sequence); kept: ids still in watch_events; floor: replay floors.
Db == [rv : Nat, rows : [Keys -> Row \cup {NoRow}], log : Seq(Event),
       kept : SUBSET Nat, floor : [Keys -> [rv : Nat, id : Nat]]]

EmptyDb == [rv |-> 1, rows |-> [k \in Keys |-> NoRow], log |-> <<>>,
            kept |-> {}, floor |-> [k \in Keys |-> [rv |-> 0, id |-> 0]]]

------------------------------------------------------------------------------
(* Committed commands.                                                       *)

\* The event of a create when there is no row, of an update when there is one.
Put(d, k, fits) ==
    LET old == d.rows[k]
    IN  [type |-> IF old = NoRow THEN "ADDED" ELSE "MODIFIED", key |-> k,
         row |-> [uid |-> IF old = NoRow THEN d.rv + 1 ELSE old.uid, rv |-> d.rv + 1, fits |-> fits]]

Delete(d, k) == [type |-> "DELETED", key |-> k, row |-> [d.rows[k] EXCEPT !.rv = d.rv + 1]]

\* The row an event leaves.
Left(e) == IF e.type = "DELETED" THEN NoRow ELSE e.row

\* The rows and the events of a command, one for each object it writes, in one
\* transaction under one resourceVersion: a batch has several events with the
\* same one.
Logged(d, events) ==
    LET Writes(k) == {n \in DOMAIN events : events[n].key = k}
    IN  [d EXCEPT !.rv = d.rv + 1, !.log = d.log \o events,
                  !.kept = d.kept \cup (Len(d.log) + 1)..(Len(d.log) + Len(events)),
                  !.rows = [k \in Keys |-> IF Writes(k) = {} THEN d.rows[k]
                                           ELSE Left(events[CHOOSE n \in Writes(k) : TRUE])]]

Kept(d, k) == {i \in d.kept : d.log[i].key = k}

\* watch_events_min_scope_rows_for_scope_count (1024 and 16 scopes are out of
\* reach of the instances).
MinScopeRows(d) ==
    LET share == MaxRows \div Cardinality({d.log[i].key : i \in d.kept})
    IN  IF share = 0 THEN 1 ELSE share

\* WATCH_EVENTS_GC_CANDIDATES: the oldest rows beyond max_rows, but never the
\* newest rows of a scope.
GcCandidates(d) ==
    LET old    == {i \in d.kept : \E j \in d.kept : j - i >= MaxRows}
        beyond == {i \in old : Cardinality({j \in Kept(d, d.log[i].key) : j >= i}) > MinScopeRows(d)}
    IN  {i \in beyond : Cardinality({j \in beyond : j <= i}) <= BatchCap}

\* gc_watch_events_in_tx: raises the floors of the scopes it prunes. The
\* command takes a resourceVersion of its own and appends no event.
GcWatchEvents(d) ==
    LET pruned == GcCandidates(d)
        Newest(k) == CHOOSE i \in pruned \cap Kept(d, k) : \A j \in pruned \cap Kept(d, k) : j <= i
    IN  [d EXCEPT !.rv = d.rv + 1, !.kept = d.kept \ pruned,
                  !.floor = [k \in Keys |-> IF pruned \cap Kept(d, k) = {} THEN d.floor[k]
                                            ELSE [rv |-> d.log[Newest(k)].row.rv, id |-> Newest(k)]]]

------------------------------------------------------------------------------
(* Replay positions (klights-cluster-core/src/replay.rs).                    *)

\* WatchReplayPosition: id = 0 is a resourceVersion boundary; while thru > 0
\* rows up to thru are filtered by resourceVersion (validate).
Position == {p \in [rv : Nat, id : Nat, thru : Nat] : p.thru > 0 => p.id < p.thru}

At(rv, id) == [rv |-> rv, id |-> id, thru |-> 0]
CurrentPosition(d) == At(d.rv, Len(d.log))

\* represents_event
Represents(p, id, rv) ==
    \/ id <= p.id
    \/ p.thru > 0 /\ id <= p.thru /\ rv <= p.rv
    \/ p.thru = 0 /\ p.id = 0 /\ rv <= p.rv

\* Mutant: the filter outlives its boundary.
AdvanceUnderFilter(p, id, rv) == IF p.thru > 0 THEN [p EXCEPT !.id = id] ELSE At(rv, id)

\* advance_through_event
AdvanceThrough(p, id, rv) ==
    IF id < p.thru THEN [p EXCEPT !.id = id] ELSE At(rv, id)

\* advance_to_high_water
AdvanceToHighWater(p, high) ==
    IF high = p.id THEN p
    ELSE [p EXCEPT !.id = high, !.thru = IF high < p.thru THEN p.thru ELSE 0]

\* permits_successor, for positions that validate accepts
PermitsSuccessor(p, next) ==
    IF next.id <= p.id THEN next = p
    ELSE IF p.thru = 0 \/ next.id >= p.thru THEN next.thru = 0
    ELSE next.rv = p.rv /\ next.thru = p.thru

\* ReplayRetentionBoundary::classify_all over the scopes of the target
BelowFloor(d, target, p) ==
    \E k \in target :
        LET floor == d.floor[k]
        IN  CASE p.id > 0   -> p.id < floor.id
              [] p.thru > 0 /\ p.id = 0 -> p.rv < floor.rv \/ p.thru < floor.id
              [] OTHER      -> p.rv < floor.rv

------------------------------------------------------------------------------
(* replay_watch_history: one bounded page after a position.                  *)

\* Mutant: a page does not look at the floors.
PageAhead(d, target, p) == p.id > Len(d.log) \/ (p.id = 0 /\ p.rv > d.rv)

PageExpired(d, target, p) ==
    \/ p.id > Len(d.log)
    \/ p.id = 0 /\ p.rv > d.rv
    \/ /\ p.id < Len(d.log)
       /\ ~(p.thru >= Len(d.log) /\ p.rv >= d.rv)
       /\ BelowFloor(d, target, p)

\* ORDER BY id ASC
Ascending(ids) ==
    CHOOSE f \in [1..Cardinality(ids) -> ids] : \A m, n \in DOMAIN f : m < n => f[m] < f[n]

Page(d, target, p) ==
    LET ids == {i \in d.kept : d.log[i].key \in target /\ ~Represents(p, i, d.log[i].row.rv)}
    IN  Ascending({i \in ids : Cardinality({j \in ids : j <= i}) <= PageLimit})

\* after_page
AfterPage(d, page, p) ==
    IF page = <<>> THEN AdvanceToHighWater(p, Len(d.log))
    ELSE LET last == page[Len(page)] IN AdvanceThrough(p, last, d.log[last].row.rv)

------------------------------------------------------------------------------
(* bounded_historical_list: the rows at a position, from the current rows    *)
(* and the retained events read backwards.                                   *)

\* historical_floor
BaselineExpired(d, target, p) ==
    \/ p.id > Len(d.log) \/ p.thru > Len(d.log)
    \/ p.id = 0 /\ p.thru = 0 /\ p.rv > d.rv
    \/ BelowFloor(d, target, p)

\* Keys with an event after the position (historical_candidate_window).
Touched(d, target, p) ==
    {k \in target : \E i \in Kept(d, k) : ~Represents(p, i, d.log[i].row.rv)}

\* MembershipReconstructor::observe. A MODIFIED row needs the row before it.
Observe(d, p, acc, i) ==
    LET e    == d.log[i]
        back == [acc EXCEPT !.needs = FALSE, !.row = IF acc.needs THEN e.row ELSE acc.row]
    IN  IF acc.expired \/ (acc.needs /\ e.type = "DELETED") THEN [acc EXCEPT !.expired = TRUE]
        ELSE IF Represents(p, i, e.row.rv) THEN back
        ELSE CASE e.type = "ADDED"    -> [back EXCEPT !.row = NoRow]
               [] e.type = "MODIFIED" -> [back EXCEPT !.needs = TRUE]
               [] e.type = "DELETED"  -> [back EXCEPT !.row = e.row]

\* The reconstructor after the n newest ids (ORDER BY id DESC), from the row of
\* an earlier SELECT.
Observing(d, p, k, found) ==
    LET after[n \in Nat] ==
            IF n = 0 THEN [row |-> found, needs |-> FALSE, expired |-> FALSE]
            ELSE LET i == Len(d.log) + 1 - n
                 IN  IF i \in Kept(d, k) THEN Observe(d, p, after[n - 1], i) ELSE after[n - 1]
    IN  after

\* historical_identity_at_position: the row of one key at the position, from
\* the row found and the events retained now. Nothing checks that none of them
\* was pruned since the floor was read.
Identity(d, p, k, found) ==
    LET done == Observing(d, p, k, found)[Len(d.log)]
    IN  [row |-> done.row, expired |-> done.expired \/ done.needs]

------------------------------------------------------------------------------
\* The rows after the first n events of a log: what each key's last event left.
RowsAt(log, n) ==
    [k \in Keys |->
        LET ids == {i \in 1..n : log[i].key = k}
        IN  IF ids = {} THEN NoRow ELSE Left(log[CHOOSE i \in ids : \A j \in ids : j <= i])]
==============================================================================
