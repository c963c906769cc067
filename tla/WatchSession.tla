----------------------------- MODULE WatchSession -----------------------------
(*****************************************************************************)
(* The leader's side of a watch: committed commands reach its cluster.db,    *)
(* wake up subscribers, and a positioned watch session replays the retained  *)
(* events after its cursor through the selector's membership.                *)
(*                                                                           *)
(* All replicas go through the same databases, so the store is the history   *)
(* of databases and the index the current leader has applied. A new leader   *)
(* may be behind: nothing makes it apply its log before it serves watches.   *)
(*****************************************************************************)
EXTENDS WatchStore

CONSTANTS
    Watchers,      \* watches to check: subset of {"worker", "scoped", "open"}
    Scope,         \* keys a worker's or a scoped watch is about
    Batches,       \* sequences of keys that one command writes together
    Capacity,      \* capacity of the signal channel
    MaxCommits,    \* bound: committed commands
    MaxElections,  \* bound: changes of leader
    MaxBreaks      \* bound: connections lost

ASSUME SessionAssumption ==
    /\ Watchers \subseteq {"worker", "scoped", "open"} /\ Scope \subseteq Keys
    /\ \A ks \in Batches : ks \in Seq(Keys) /\ ks # <<>> /\ IsInjective(ks)
    /\ Capacity \in Nat \ {0} /\ MaxCommits \in Nat /\ MaxElections \in Nat /\ MaxBreaks \in Nat

VARIABLES
    watcher,      \* who watches, fixed at the start
    history,      \* databases after each committed command
    applied,      \* index of the database the leader serves
    unpublished,  \* keys of the last applied events while their signal is not sent
    elections,
    phase,        \* of the session; see SessionPhases
    pos,          \* replay_position
    todo,         \* keys the baseline has still to reconstruct
    found,        \* the current row of the key being reconstructed
    member,       \* SelectorMembership: matched rows by key
    pending,      \* events of the last page, with the positions they lead to
    replay,       \* replay_needed
    queue,        \* unread signals: whether their namespace is the watch's
    lagged,       \* the channel has dropped a signal since the last receive
    breaks

storeVars == <<watcher, history, applied, unpublished, elections>>
sessionVars == <<phase, pos, todo, found, member, pending, replay, queue, lagged>>

Target == IF watcher = "open" THEN Keys ELSE Scope
HasSelector == watcher # "open"
Fits(row) == row # NoRow /\ (row.fits \/ ~HasSelector)
Matching(rows) == [k \in Keys |-> IF k \in Target /\ Fits(rows[k]) THEN rows[k] ELSE NoRow]
NoRows == [k \in Keys |-> NoRow]

Served == history[applied]
Latest == history[Len(history)]

\* The last two are answers: ReplayExpired and a malformed baseline.
SessionPhases ==
    {"closed", "anchor", "current", "keys", "touched", "events", "identity", "row", "history",
     "live", "expired", "refused"}

Frame == [type : {"ADDED", "MODIFIED", "DELETED"}, key : Keys, row : Row, pos : Position]

SessionTypeOK ==
    /\ watcher \in Watchers
    /\ history \in Seq(Db) /\ applied \in 1..Len(history)
    /\ unpublished \subseteq Keys /\ elections \in Nat
    /\ phase \in SessionPhases /\ pos \in Position
    /\ todo \subseteq Keys /\ found \in Row \cup {NoRow}
    /\ member \in [Keys -> Row \cup {NoRow}]
    /\ pending \in Seq(Frame) /\ replay \in BOOLEAN
    /\ queue \in Seq(BOOLEAN) /\ lagged \in BOOLEAN /\ breaks \in Nat

SessionInit ==
    /\ watcher \in Watchers
    /\ history = <<EmptyDb>> /\ applied = 1 /\ unpublished = {} /\ elections = 0
    /\ phase = "closed" /\ pos = At(0, 0)
    /\ todo = {} /\ found = NoRow /\ member = NoRows /\ pending = <<>> /\ replay = FALSE
    /\ queue = <<>> /\ lagged = FALSE /\ breaks = 0

\* The session is dropped; what it held is gone.
Close(as) ==
    /\ phase' = as /\ pos' = At(0, 0)
    /\ todo' = {} /\ found' = NoRow /\ member' = NoRows /\ pending' = <<>> /\ replay' = FALSE
    /\ queue' = <<>> /\ lagged' = FALSE

------------------------------------------------------------------------------
(* Commands, signals and leadership.                                         *)

\* The leader that holds the newest database, within the bound.
Leads == applied = Len(history) /\ unpublished = {} /\ Len(history) <= MaxCommits

\* A command is committed and applied by the leader; the entries a leader lags
\* behind are applied by CatchUp.
Commit(next, keys) ==
    /\ Leads
    /\ history' = Append(history, next)
    /\ applied' = applied + 1
    /\ unpublished' = keys
    /\ UNCHANGED <<watcher, elections>>

\* What a command may write on a key. A Pod's node is set once, so a row that
\* fits a worker's watch keeps to it. Keys outside the target only move ids
\* and resourceVersions.
Puts(k) ==
    {Put(Latest, k, fits) : fits \in {f \in BOOLEAN :
        /\ f => k \in Target /\ HasSelector
        /\ watcher = "worker" /\ Latest.rows[k].fits => f}}

Deletes(k) == {Delete(Latest, j) : j \in {i \in Target \cap {k} : Latest.rows[i] # NoRow}}

PutResource(k) == \E e \in Puts(k) : Commit(Logged(Latest, <<e>>), {k})

DeleteResource(k) == \E e \in Deletes(k) : Commit(Logged(Latest, <<e>>), {k})

\* All the objects of a batch, in its order.
ApplyResourceBatch(ks) ==
    \E events \in [DOMAIN ks -> UNION {Puts(k) \cup Deletes(k) : k \in Range(ks)}] :
        /\ \A n \in DOMAIN ks : events[n].key = ks[n]
        /\ Commit(Logged(Latest, events), Range(ks))

GcHistory ==
    /\ Leads /\ GcCandidates(Latest) # {}
    /\ Commit(GcWatchEvents(Latest), {})

CatchUp ==
    /\ applied < Len(history) /\ unpublished = {}
    /\ applied' = applied + 1
    /\ LET next == history[applied + 1]
       IN  unpublished' = {next.log[i].key : i \in (Len(Served.log) + 1)..Len(next.log)}
    /\ UNCHANGED <<watcher, history, elections>>

\* Mutant: a dropped signal is not noticed.
NeverDropped == FALSE

SignalDropped == Len(queue) = Capacity

\* publish_visible_commit: after the transaction, one signal with the namespaces
\* it wrote to, to whoever is subscribed. A full channel drops its oldest signal
\* and tells the receiver.
Publish ==
    /\ unpublished # {} /\ unpublished' = {}
    /\ IF phase \in {"closed", "expired", "refused"} THEN UNCHANGED <<queue, lagged>>
       ELSE /\ queue' = Append(IF Len(queue) = Capacity THEN Tail(queue) ELSE queue, unpublished \cap Target # {})
            /\ lagged' = (lagged \/ SignalDropped)
    /\ UNCHANGED <<watcher, history, applied, elections, phase, pos, todo, found, member, pending, replay>>

\* Another server serves the watcher, however far it has applied its log: a new
\* leader, after the streams of the old one ended with its authority, or the
\* follower an API client reaches next.
Failover ==
    /\ elections < MaxElections
    /\ elections' = elections + 1
    /\ applied' \in 1..Len(history)
    /\ unpublished' = {}
    /\ Close("closed")
    /\ UNCHANGED <<watcher, history>>

------------------------------------------------------------------------------
(* PositionedWatchService::open. The subscription comes first.               *)

\* A request with a position, or with a resourceVersion alone (0 when unset).
Open(start, positioned) ==
    /\ phase = "closed"
    /\ phase' = IF ~positioned THEN "anchor" ELSE IF HasSelector THEN "current" ELSE "live"
    /\ pos' = start
    /\ replay' = (positioned /\ ~HasSelector)
    /\ UNCHANGED <<todo, found, member, pending, queue, lagged>>

\* replay_position_at_anchor. The anchor is read by two statements, but only its
\* event id counts, which one of them reads.
ReadAnchor ==
    /\ phase = "anchor"
    /\ pos' = IF pos.rv = 0 THEN CurrentPosition(Served)
              ELSE [rv |-> pos.rv, id |-> 0, thru |-> Len(Served.log)]
    /\ phase' = IF HasSelector THEN "current" ELSE "live"
    /\ replay' = ~HasSelector
    /\ UNCHANGED <<todo, found, member, pending, queue, lagged>>

\* The two windows of historical_candidate_window, and the reconstruction of one
\* key after the other. No transaction spans them, nor the statements of one of
\* them: the leader applies commands between any two.

\* What is read once the floor was found at or below the position. The
\* statements of historical_floor read values that only rise.
AfterFloor == [current |-> "keys", touched |-> "events", identity |-> "row"]

CheckFloor ==
    /\ phase \in DOMAIN AfterFloor /\ (phase = "identity" => todo # {})
    /\ IF BaselineExpired(Served, Target, pos) THEN Close("expired")
       ELSE /\ phase' = AfterFloor[phase]
            /\ UNCHANGED <<pos, todo, found, member, pending, replay, queue, lagged>>

ReadCurrent ==
    /\ phase = "keys" /\ phase' = "touched"
    /\ todo' = {k \in Target : Served.rows[k] # NoRow}
    /\ UNCHANGED <<pos, found, member, pending, replay, queue, lagged>>

ReadTouched ==
    /\ phase = "events" /\ phase' = "identity"
    /\ todo' = todo \cup Touched(Served, Target, pos)
    /\ UNCHANGED <<pos, found, member, pending, replay, queue, lagged>>

\* The candidates in their order.
Candidate == CHOOSE i \in todo : \A j \in todo : i <= j

\* historical_current_resource
ReadRow ==
    /\ phase = "row" /\ phase' = "history"
    /\ found' = Served.rows[Candidate]
    /\ UNCHANGED <<pos, todo, member, pending, replay, queue, lagged>>

ReadIdentity ==
    /\ phase = "history"
    /\ LET read == Identity(Served, pos, Candidate, found)
       IN  IF read.expired THEN Close("expired")
           ELSE /\ phase' = "identity" /\ found' = NoRow
                /\ todo' = todo \ {Candidate}
                /\ member' = [member EXCEPT ![Candidate] = IF Fits(read.row) THEN read.row ELSE NoRow]
                /\ UNCHANGED <<pos, pending, replay, queue, lagged>>

\* validate_selector_baseline: no body newer than an exact position.
AcceptBaseline ==
    /\ phase = "identity" /\ todo = {}
    /\ IF pos.thru = 0 /\ \E k \in Target : member[k].rv > pos.rv THEN Close("refused")
       ELSE /\ phase' = "live" /\ replay' = TRUE
            /\ UNCHANGED <<pos, todo, found, member, pending, queue, lagged>>

------------------------------------------------------------------------------
(* PositionedCursor::next_event.                                             *)

\* Only an empty page ends a replay.
MoreToReplay(page) == page # <<>>

\* replay_once
ReplayOnce ==
    /\ phase = "live" /\ pending = <<>> /\ replay
    /\ LET page == Page(Served, Target, pos)
       IN  IF PageExpired(Served, Target, pos) THEN Close("expired")
           ELSE /\ pending' = [n \in DOMAIN page |->
                                 LET e == Served.log[page[n]]
                                 IN  [type |-> e.type, key |-> e.key, row |-> e.row,
                                      pos |-> AdvanceThrough(pos, page[n], e.row.rv)]]
                /\ pos' = AfterPage(Served, page, pos)
                /\ replay' = MoreToReplay(page)
                /\ UNCHANGED <<phase, todo, found, member, queue, lagged>>

\* A matching signal or a lagged receiver asks for a replay. The flag is set
\* before the read, so a cancelled pull does not lose it.
RecvSignal ==
    /\ phase = "live" /\ pending = <<>> /\ ~replay
    /\ \/ lagged /\ replay' = TRUE /\ lagged' = FALSE /\ UNCHANGED queue
       \/ /\ ~lagged /\ queue # <<>>
          /\ replay' = Head(queue) /\ queue' = Tail(queue) /\ UNCHANGED lagged
    /\ UNCHANGED <<phase, pos, todo, found, member, pending>>

\* SelectorMembership::prepare: what the watcher is told of an event, if
\* anything. An object that stops to match is deleted with its prior body.
Transition(members, e) ==
    LET prior == members[e.key]
    IN  IF e.type = "DELETED" THEN IF prior # NoRow \/ Fits(e.row) THEN {e} ELSE {}
        ELSE IF Fits(e.row) THEN {[e EXCEPT !.type = IF prior = NoRow THEN "ADDED" ELSE e.type]}
        ELSE IF prior # NoRow THEN {[e EXCEPT !.type = "DELETED", !.row = prior]}
        ELSE {}

\* SelectorMembership::commit
Commits(members, e) ==
    [members EXCEPT ![e.key] = IF e.type # "DELETED" /\ Fits(e.row) THEN e.row ELSE NoRow]

\* What the consumer gets of the next event.
Told == IF HasSelector THEN Transition(member, pending[1]) ELSE {pending[1]}

Pop ==
    /\ phase = "live" /\ pending # <<>>
    /\ pending' = Tail(pending)
    /\ member' = IF HasSelector THEN Commits(member, pending[1]) ELSE member
    /\ UNCHANGED <<phase, pos, todo, found, replay, queue, lagged>>

Serve == CheckFloor \/ ReadCurrent \/ ReadTouched \/ ReadRow \/ ReadIdentity \/ AcceptBaseline
Pull == ReplayOnce \/ RecvSignal

------------------------------------------------------------------------------
(* The state a position stands for, from the log alone.                      *)

\* Events a position represents, a prefix of the log.
Prefix(p) == Cardinality({i \in 1..Len(Latest.log) : Represents(p, i, Latest.log[i].row.rv)})

\* The rows after the first n events.
RowsAfter(n) == RowsAt(Latest.log, n)

\* Event i changes what the watcher should see.
Changes(i) == Matching(RowsAfter(i - 1)) # Matching(RowsAfter(i))

\* A session that waits for signals and believes that it has told everything.
Quiet ==
    /\ phase = "live" /\ pending = <<>> /\ ~replay /\ queue = <<>> /\ ~lagged
    /\ unpublished = {} /\ applied = Len(history)

\* Whatever was committed, pruned or applied by another leader while the
\* baseline was read statement by statement, the membership of a session that
\* has replayed a page is the set of objects that matched at its place in the
\* log (SelectorMembership): the next event is classified against the right
\* prior state. Before that page it may be wrong: what was pruned while the
\* baseline was read is missing from it, and the page must come out expired.
MembershipFaithful ==
    phase = "live" /\ HasSelector /\ (pending # <<>> \/ ~replay) =>
        LET n    == IF pending = <<>> THEN Prefix(pos) ELSE pending[1].pos.id - 1
            rows == Matching(RowsAfter(n))
        IN  \A k \in Target : member[k].uid = rows[k].uid
==============================================================================
