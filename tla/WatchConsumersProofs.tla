------------------------ MODULE WatchConsumersProofs -------------------------
(*****************************************************************************)
(* Theorems about watch sessions and the mirror of a worker: the baseline,   *)
(* replay and signals of a session miss nothing, and the mirror is at its    *)
(* cursor.                                                                   *)
(*****************************************************************************)
EXTENDS WatchConsumers, WatchStoreProofs

\* The keys of a watcher (Target).
TargetOf(w) == IF w = "open" THEN Keys ELSE Scope
\* A row the watcher should see (Fits).
FitsFor(w, row) == row # NoRow /\ (row.fits \/ ~(w # "open"))
\* What the watcher should see after the first n events.
Sight(w, h, n) ==
    [k \in Keys |-> IF k \in TargetOf(w) /\ FitsFor(w, RowsIn(h, n)[k]) THEN RowsIn(h, n)[k] ELSE NoRow]
\* The whole log.
Log(h) == Last(h).log
\* How many events there are.
Top(h) == Len(Last(h).log)
\* How many events a position represents (Prefix).
Reach(h, p) == Upto(Last(h).log, p)
\* No event after m up to n is about the watcher.
SilentIn(w, h, m, n) == \A i \in (m + 1)..n : Log(h)[i].key \notin TargetOf(w)
\* A position some server of this history has given out.
Known(h, p) == p.id <= Top(h) /\ p.thru <= Top(h) /\ p.rv <= Last(h).rv
\* The phases of a session that was accepted.
Opened == {"current", "keys", "touched", "events", "identity", "row", "history", "live"}
\* The phases after a first check of the floor.
Checked == {"keys", "touched", "events", "identity", "row", "history"}
\* Recalls, as the watcher sees it: the row at place n, or the body that the
\* DELETED event which comes next for the key carries.
Tracks(w, h, row, k, n) ==
    \/ row = Sight(w, h, n)[k]
    \/ /\ row.uid = Sight(w, h, n)[k].uid
       /\ \E i \in (n + 1)..Top(h) :
             /\ Log(h)[i].key = k /\ Log(h)[i].type = "DELETED"
             /\ \A j \in (n + 1)..(i - 1) : Log(h)[j].key # k
\* Where a session is: before the first event of the page that is left.
PlaceOf(h, next, p) == IF next = <<>> THEN Reach(h, p) ELSE next[1].pos.id - 1
\* The place of this session.
Place == PlaceOf(history, pending, pos)

\* An event of the page is the one of the log at its position.
Queued(w, h, top, f) ==
    /\ f.pos.id \in 1..top /\ Known(h, f.pos)
    /\ Log(h)[f.pos.id] = [type |-> f.type, key |-> f.key, row |-> f.row]
    /\ f.key \in TargetOf(w)
\* The rest of the page holds the events of the watcher in order, without a
\* gap, and ends where the position of the session is.
PageInv ==
    /\ phase # "live" => pending = <<>>
    /\ \A i \in 1..Len(pending) : Queued(watcher, history, Len(Served.log), pending[i])
    /\ \A i \in 1..(Len(pending) - 1) :
          /\ pending[i].pos.id < pending[i + 1].pos.id
          /\ SilentIn(watcher, history, pending[i].pos.id, pending[i + 1].pos.id - 1)
    /\ pending # <<>> => Reach(history, pos) = pending[Len(pending)].pos.id
\* Nothing about the watcher after the position was pruned at the server. Once
\* this is false it remains false for as long as the session is at the position.
Unpruned == Intact(Served, TargetOf(watcher), Reach(history, pos))
\* What the reads of the baseline know after each statement, if nothing was
\* pruned: no row at one common point, or the row at the position of the
\* session. If something was, the first page comes out expired.
BaselineInv ==
    /\ phase \notin {"identity", "row", "history", "live"} => member = NoRows
    /\ todo \subseteq TargetOf(watcher)
    /\ phase \in {"row", "history"} => todo # {}
    /\ phase \in Checked => Reach(history, pos) <= Len(Served.log)
    /\ phase = "history" =>
          \E c \in Reach(history, pos)..Len(Served.log) : found = RowsIn(history, c)[Candidate]
    /\ phase \in {"touched", "events"} /\ Unpruned =>
          \E c \in Reach(history, pos)..Len(Served.log) :
              \A k \in TargetOf(watcher) \ todo : RowsIn(history, c)[k] = NoRow
    /\ phase \in {"identity", "row", "history"} /\ Unpruned =>
          \A k \in TargetOf(watcher) \ todo : Tracks(watcher, history, member[k], k, Reach(history, pos))
    /\ phase = "live" /\ watcher # "open" /\ (pending # <<>> \/ ~replay \/ Unpruned) =>
          \A k \in TargetOf(watcher) : Tracks(watcher, history, member[k], k, Place)
\* A session that waits for a signal has told everything it was served, or a
\* signal for the rest is queued, dropped as lagged, or about to be published.
SignalInv ==
    phase = "live" /\ ~replay =>
        \/ SilentIn(watcher, history, Reach(history, pos), Len(Served.log))
        \/ lagged \/ unpublished \cap TargetOf(watcher) # {} \/ \E i \in 1..Len(queue) : queue[i]
\* The session.
SessionInv ==
    /\ SessionTypeOK
    /\ Chronicle(history)
    /\ Known(history, pos)
    /\ phase \in Opened => pos.thru <= Len(Served.log)
    /\ PageInv /\ BaselineInv /\ SignalInv

\* A position that is a place in the log, without a filter by resourceVersion.
Exact(h, p) == p.thru = 0 /\ p.id <= Top(h) /\ p.rv <= Last(h).rv /\ (p.id = 0 => p.rv <= 1)
\* An event takes the watcher from what it saw after m events to its place.
TellsOf(w, h, m, f) ==
    /\ f.key \in TargetOf(w)
    /\ Sight(w, h, f.pos.id) = [Sight(w, h, m) EXCEPT ![f.key] = IF f.type = "DELETED" THEN NoRow ELSE f.row]
    /\ f.type = "DELETED" => Sight(w, h, m)[f.key] # NoRow /\ Sight(w, h, m)[f.key].uid = f.row.uid
    /\ f.type # "DELETED" => FitsFor(w, f.row)
\* A frame after position q: a heartbeat there, or the next change.
FrameFollows(w, h, q, f) ==
    /\ Exact(h, f.pos)
    /\ \/ f.type = "BOOKMARK" /\ f.pos = q
       \/ f.type # "BOOKMARK" /\ f.pos.id > q.id /\ TellsOf(w, h, q.id, f)
\* The position before frame j.
Ahead(c, frames, j) == IF j = 1 THEN c ELSE frames[j - 1].pos
\* The mirror: its rows are those at its cursor, the frames on the wire lead
\* from the cursor to what was sent last, and between that and the place of the
\* session nothing was to be seen.
MirrorInv ==
    /\ MirrorTypeOK
    /\ watcher # "worker" => wire = <<>>
    /\ cursor # NoCursor => /\ watcher = "worker" /\ Exact(history, cursor)
                            /\ reflected = Sight(watcher, history, cursor.id) /\ projected = reflected
    /\ wire # <<>> => cursor # NoCursor
    /\ \A j \in 1..Len(wire) : FrameFollows(watcher, history, Ahead(cursor, wire, j), wire[j])
    /\ watcher = "worker" =>
          /\ phase # "anchor" /\ \A i \in 1..Len(pending) : pending[i].pos.thru = 0
          /\ phase \in Opened =>
                /\ cursor # NoCursor /\ sent = Ahead(cursor, wire, Len(wire) + 1) /\ Exact(history, pos)
                /\ phase # "live" => pos = sent
                /\ phase = "live" => /\ sent.id <= Place
                                     /\ Sight(watcher, history, sent.id) = Sight(watcher, history, Place)
\* What an API watch has handed out was committed.
ApiBounds == ApiTypeOK /\ clientRv <= Last(history).rv /\ delivered <= Last(history).rv
\* The inductive invariant.
WatchInv == SessionInv /\ MirrorInv /\ ApiBounds

------------------------------------------------------------------------------
(* Places, and what is seen there.                                           *)

\* The last database of a history.
LEMMA Tops ==
    ASSUME NEW h, Chronicle(h)
    PROVE  /\ Len(h) \in Nat \ {0} /\ Len(h) \in 1..Len(h) /\ Last(h) = h[Len(h)]
           /\ Top(h) \in Nat /\ Last(h).rv \in Nat /\ Last(h).rv >= 1
           /\ WellKept(Last(h)) /\ Last(h) \in Db
           /\ Last(h).rows \in [Keys -> Row \cup {NoRow}]
           /\ RowsIn(h, Top(h)) = Last(h).rows
           /\ \A i \in 1..Top(h) : /\ Log(h)[i] \in Event /\ Log(h)[i].key \in Keys
                                   /\ Log(h)[i].row \in Row /\ Log(h)[i].row.rv \in 2..Last(h).rv
<1>1. Len(h) \in Nat \ {0} /\ Len(h) \in 1..Len(h) /\ Last(h) = h[Len(h)] /\ Lineage(h)
  BY DEF Chronicle, Lineage, Last
<1>2. WellKept(Last(h)) /\ Last(h) \in Db
  BY <1>1, ChroniclePart
<1>3. RowsIn(h, Top(h)) = Last(h).rows
  BY <1>1, RowsInRight DEF Top
<1> QED
  BY <1>1, <1>2, <1>3, DbTypes DEF WellKept, Top, Log

\* A position represents the events up to its place.
LEMMA ReachRight ==
    ASSUME NEW h, Chronicle(h), NEW p \in Position
    PROVE  /\ Reach(h, p) \in 0..Top(h)
           /\ \A i \in 1..Top(h) : Represents(p, i, Log(h)[i].row.rv) <=> i <= Reach(h, p)
  BY Tops, PrefixRight DEF Reach, Top, Log

\* That place is the only one.
LEMMA ReachUnique ==
    ASSUME NEW h, Chronicle(h), NEW p \in Position, NEW m \in 0..Top(h),
           \A i \in 1..Top(h) : Represents(p, i, Log(h)[i].row.rv) <=> i <= m
    PROVE  Reach(h, p) = m
  BY Tops, PrefixUnique DEF Reach, Top, Log

\* An exact position represents the events up to its id.
LEMMA ExactReach ==
    ASSUME NEW h, Chronicle(h), NEW p \in Position, Exact(h, p)
    PROVE  Reach(h, p) = p.id /\ Known(h, p)
<1>1. Top(h) \in Nat /\ p.rv \in Nat /\ p.id \in Nat /\ p.id \in 0..Top(h) /\ Last(h).rv \in Nat
  BY Tops, PositionTypes DEF Exact
<1>2. ASSUME NEW i \in 1..Top(h) PROVE Represents(p, i, Log(h)[i].row.rv) <=> i <= p.id
  <2>1. Log(h)[i].row.rv \in 2..Last(h).rv
    BY Tops
  <2>2. Log(h)[i].row.rv \in Nat /\ Log(h)[i].row.rv >= 2
    BY <2>1, <1>1
  <2> QED BY <2>2, <1>1 DEF Represents, Exact
<1> QED
  BY <1>1, <1>2, ReachUnique DEF Exact, Known

\* What is to be seen are rows.
LEMMA SightType ==
    ASSUME NEW h, Chronicle(h), NEW w, NEW n \in 0..Top(h)
    PROVE  Sight(w, h, n) \in [Keys -> Row \cup {NoRow}]
<1>1. RowsIn(h, n) \in [Keys -> Row \cup {NoRow}]
  BY RowsInType DEF Top
<1> QED
  BY <1>1 DEF Sight

\* What one event changes for the watcher.
LEMMA SightStep ==
    ASSUME NEW h, Chronicle(h), NEW w, NEW i \in 1..Top(h),
           NEW e, e = Log(h)[i]
    PROVE  /\ e.key \notin TargetOf(w) => Sight(w, h, i) = Sight(w, h, i - 1)
           /\ e.key \in TargetOf(w) =>
                 Sight(w, h, i) = [Sight(w, h, i - 1) EXCEPT ![e.key] =
                    IF e.type # "DELETED" /\ FitsFor(w, e.row) THEN e.row ELSE NoRow]
<1> DEFINE a == RowsIn(h, i - 1)
           b == RowsIn(h, i)
<1>1. /\ Top(h) \in Nat /\ i - 1 \in 0..Top(h) /\ i \in 0..Top(h)
      /\ e.key \in Keys /\ e.type \in {"ADDED", "MODIFIED", "DELETED"}
  BY Tops DEF Event
<1>2. a \in [Keys -> Row \cup {NoRow}] /\ b \in [Keys -> Row \cup {NoRow}]
  BY <1>1, RowsInType DEF Top
<1>3. Turns(e, a[e.key], b[e.key]) /\ \A k \in Keys \ {e.key} : b[k] = a[k]
  BY OneEvent DEF Top, Log
<1>4. b[e.key] = IF e.type = "DELETED" THEN NoRow ELSE e.row
  BY <1>1, <1>3 DEF Turns
<1>5. /\ Sight(w, h, i - 1) = [k \in Keys |-> IF k \in TargetOf(w) /\ FitsFor(w, a[k]) THEN a[k] ELSE NoRow]
      /\ Sight(w, h, i) = [k \in Keys |-> IF k \in TargetOf(w) /\ FitsFor(w, b[k]) THEN b[k] ELSE NoRow]
  BY DEF Sight
<1>6. ~FitsFor(w, NoRow)
  BY DEF FitsFor
<1> HIDE DEF a, b
<1>7. CASE e.key \notin TargetOf(w)
  BY <1>7, <1>5, <1>3, <1>1
<1>8. CASE e.key \in TargetOf(w)
  <2>1. Sight(w, h, i)[e.key] = IF e.type # "DELETED" /\ FitsFor(w, e.row) THEN e.row ELSE NoRow
    BY <1>8, <1>5, <1>4, <1>6, <1>1
  <2>2. \A k \in Keys \ {e.key} : Sight(w, h, i)[k] = Sight(w, h, i - 1)[k]
    BY <1>5, <1>3
  <2>3. DOMAIN Sight(w, h, i) = Keys /\ DOMAIN Sight(w, h, i - 1) = Keys
    BY <1>5
  <2>4. Sight(w, h, i) = [k \in Keys |-> Sight(w, h, i)[k]]
    BY <1>5
  <2> QED BY <1>8, <2>1, <2>2, <2>3, <2>4
<1> QED
  BY <1>7, <1>8

\* Without events about the watcher there is nothing new to see.
LEMMA SightSilent ==
    ASSUME NEW h, Chronicle(h), NEW w, NEW m \in 0..Top(h), NEW n \in m..Top(h),
           SilentIn(w, h, m, n)
    PROVE  Sight(w, h, n) = Sight(w, h, m)
<1>1. ASSUME NEW k \in Keys, k \in TargetOf(w) PROVE RowsIn(h, n)[k] = RowsIn(h, m)[k]
  BY <1>1, Untouched DEF SilentIn, Top, Log
<1> QED
  BY <1>1 DEF Sight

\* A row stays right while no event is about its key.
LEMMA TracksOn ==
    ASSUME NEW h, Chronicle(h), NEW w, NEW k \in Keys, NEW row,
           NEW m \in 0..Top(h), NEW n \in m..Top(h),
           \A i \in (m + 1)..n : Log(h)[i].key # k,
           Tracks(w, h, row, k, m)
    PROVE  Tracks(w, h, row, k, n)
<1>1. Top(h) \in Nat
  BY Tops
<1>2. RowsIn(h, n)[k] = RowsIn(h, m)[k]
  BY Untouched DEF Top, Log
<1>3. Sight(w, h, n)[k] = Sight(w, h, m)[k]
  BY <1>2 DEF Sight
<1>4. CASE row = Sight(w, h, m)[k]
  BY <1>4, <1>3 DEF Tracks
<1>5. CASE row # Sight(w, h, m)[k]
  <2>1. row.uid = Sight(w, h, m)[k].uid
    BY <1>5 DEF Tracks
  <2>2. PICK i \in (m + 1)..Top(h) :
           /\ Log(h)[i].key = k /\ Log(h)[i].type = "DELETED"
           /\ \A j \in (m + 1)..(i - 1) : Log(h)[j].key # k
    BY <1>5 DEF Tracks
  <2>3. i \in (n + 1)..Top(h)
    BY <2>2, <1>1
  <2>4. \A j \in (n + 1)..(i - 1) : Log(h)[j].key # k
    BY <2>2, <1>1
  <2> QED BY <2>1, <2>2, <2>3, <2>4, <1>3 DEF Tracks
<1> QED
  BY <1>4, <1>5

\* What historical_identity_at_position answers, seen through the selector.
LEMMA RecallsTracks ==
    ASSUME NEW h, Chronicle(h), NEW w, NEW k \in Keys, k \in TargetOf(w), NEW n \in 0..Top(h),
           NEW row \in Row \cup {NoRow}, Recalls(h, row, k, n),
           NEW seen, seen = IF FitsFor(w, row) THEN row ELSE NoRow
    PROVE  Tracks(w, h, seen, k, n)
<1>1. Top(h) \in Nat
  BY Tops
<1>2. Sight(w, h, n)[k] = IF FitsFor(w, RowsIn(h, n)[k]) THEN RowsIn(h, n)[k] ELSE NoRow
  BY DEF Sight
<1>3. CASE row = RowsIn(h, n)[k]
  BY <1>3, <1>2 DEF Tracks
<1>4. CASE row # RowsIn(h, n)[k]
  <2>1. PICK i \in (n + 1)..Top(h) :
           /\ Log(h)[i].key = k /\ Log(h)[i].type = "DELETED" /\ row = Log(h)[i].row
           /\ \A j \in (n + 1)..(i - 1) : Log(h)[j].key # k
    BY <1>4 DEF Recalls, Top, Log
  <2>2. i \in 1..Top(h) /\ i - 1 \in n..Top(h)
    BY <1>1
  <2>3. RowsIn(h, i - 1)[k] = RowsIn(h, n)[k]
    BY <2>1, <2>2, Untouched DEF Top, Log
  <2>4. Turns(Log(h)[i], RowsIn(h, i - 1)[k], RowsIn(h, i)[k])
    BY <2>1, <2>2, OneEvent DEF Top, Log
  <2>5. row.uid = RowsIn(h, n)[k].uid /\ row.fits = RowsIn(h, n)[k].fits /\ RowsIn(h, n)[k] # NoRow
    BY <2>1, <2>3, <2>4 DEF Turns
  <2>6. row \in Row
    BY <2>1, <2>2, Tops
  <2>7. row # NoRow
    BY <2>6 DEF Row, NoRow
  <2>8. FitsFor(w, row) <=> FitsFor(w, RowsIn(h, n)[k])
    BY <2>5, <2>7 DEF FitsFor
  <2>9. seen.uid = Sight(w, h, n)[k].uid
    BY <2>5, <2>8, <1>2
  <2> QED BY <2>9, <2>1 DEF Tracks
<1> QED
  BY <1>3, <1>4

------------------------------------------------------------------------------
(* Later histories and servers that are behind.                              *)

\* A later history, by one command at most.
Grows(h, g) == g = h \/ \E next : Succeeds(Last(h), next) /\ g = Append(h, next)

\* It leaves what was committed as it was.
LEMMA Grown ==
    ASSUME NEW h, Chronicle(h), NEW g, Grows(h, g)
    PROVE  /\ Chronicle(g) /\ Last(h).rv <= Last(g).rv /\ Last(g).rv \in Nat
           /\ Top(g) \in Nat /\ Top(h) <= Top(g)
           /\ \A i \in 1..Top(h) : Log(g)[i] = Log(h)[i]
           /\ \A i \in (Top(h) + 1)..Top(g) : Log(g)[i].row.rv > Last(h).rv
           /\ \A w : \A n \in 0..Top(h) : Sight(w, g, n) = Sight(w, h, n)
           /\ \A n \in 0..Top(h) : RowsIn(g, n) = RowsIn(h, n)
<1>1. CASE g = h
  BY <1>1, Tops
<1>2. CASE g # h
  <2>1. PICK next : Succeeds(Last(h), next) /\ g = Append(h, next)
    BY <1>2 DEF Grows
  <2>2. /\ Chronicle(g) /\ Last(g) = next
        /\ Len(Last(h).log) <= Len(next.log) /\ next.rv = Last(h).rv + 1
        /\ \A n \in 1..Len(Last(h).log) : next.log[n] = Last(h).log[n]
        /\ \A n \in (Len(Last(h).log) + 1)..Len(next.log) : next.log[n].row.rv = Last(h).rv + 1
        /\ \A n \in 0..Len(Last(h).log) : RowsIn(g, n) = RowsIn(h, n)
    BY <2>1, ChronicleGrows, Zenon
  <2>3. /\ Top(h) <= Top(g) /\ Last(g).rv = Last(h).rv + 1
        /\ \A i \in 1..Top(h) : Log(g)[i] = Log(h)[i]
        /\ \A i \in (Top(h) + 1)..Top(g) : Log(g)[i].row.rv = Last(h).rv + 1
        /\ \A n \in 0..Top(h) : RowsIn(g, n) = RowsIn(h, n)
    BY <2>2 DEF Top, Log
  <2>4. \A w : \A n \in 0..Top(h) : Sight(w, g, n) = Sight(w, h, n)
    BY <2>3 DEF Sight
  <2>5. Top(g) \in Nat /\ Top(h) \in Nat /\ Last(h).rv \in Nat
    BY <2>2, Tops
  <2> QED BY <2>2, <2>3, <2>4, <2>5
<1> QED
  BY <1>1, <1>2

\* A known position stays known, and where it is.
LEMMA KnownGrows ==
    ASSUME NEW h, Chronicle(h), NEW g, Grows(h, g),
           NEW p \in Position, Known(h, p)
    PROVE  Known(g, p) /\ Reach(g, p) = Reach(h, p)
<1>1. /\ Chronicle(g) /\ Last(h).rv <= Last(g).rv /\ Last(g).rv \in Nat /\ Top(g) \in Nat /\ Top(h) <= Top(g)
      /\ \A i \in 1..Top(h) : Log(g)[i] = Log(h)[i]
      /\ \A i \in (Top(h) + 1)..Top(g) : Log(g)[i].row.rv > Last(h).rv
  BY Grown
<1>2. Top(h) \in Nat /\ Last(h).rv \in Nat /\ p.rv \in Nat /\ p.id \in Nat /\ p.thru \in Nat
  BY Tops, PositionTypes
<1>3. Known(g, p)
  BY <1>1, <1>2 DEF Known
<1>4. /\ Reach(h, p) \in 0..Top(h)
      /\ \A i \in 1..Top(h) : Represents(p, i, Log(h)[i].row.rv) <=> i <= Reach(h, p)
  BY ReachRight
<1>5. ASSUME NEW i \in 1..Top(g) PROVE Represents(p, i, Log(g)[i].row.rv) <=> i <= Reach(h, p)
  <2>1. CASE i <= Top(h)
    BY <2>1, <1>1, <1>2, <1>4
  <2>2. CASE i > Top(h)
    <3>1. Log(g)[i].row.rv > Last(h).rv /\ Log(g)[i].row.rv \in Nat
      BY <2>2, <1>1, <1>2, Tops, SMTT(30)
    <3>2. ~(i <= Reach(h, p))
      BY <2>2, <1>2, <1>4
    <3> QED BY <3>1, <3>2, <2>2, <1>2 DEF Represents, Known
  <2> QED BY <2>1, <2>2, <1>1, <1>2
<1>6. Reach(h, p) \in 0..Top(g)
  BY <1>1, <1>2, <1>4
<1> QED
  BY <1>1, <1>3, <1>5, <1>6, ReachUnique

\* A remembered row stays right.
LEMMA TracksGrows ==
    ASSUME NEW h, Chronicle(h), NEW g, Grows(h, g),
           NEW w, NEW row, NEW k, NEW n \in 0..Top(h), Tracks(w, h, row, k, n)
    PROVE  Tracks(w, g, row, k, n)
<1>1. /\ Top(g) \in Nat /\ Top(h) <= Top(g) /\ Sight(w, g, n) = Sight(w, h, n)
      /\ \A i \in 1..Top(h) : Log(g)[i] = Log(h)[i]
  BY Grown
<1>2. Top(h) \in Nat
  BY Tops
<1>3. CASE row = Sight(w, h, n)[k]
  BY <1>3, <1>1 DEF Tracks
<1>4. CASE row # Sight(w, h, n)[k]
  <2>1. PICK i \in (n + 1)..Top(h) :
           /\ Log(h)[i].key = k /\ Log(h)[i].type = "DELETED"
           /\ \A j \in (n + 1)..(i - 1) : Log(h)[j].key # k
    BY <1>4 DEF Tracks
  <2>2. i \in (n + 1)..Top(g) /\ i \in 1..Top(h)
    BY <1>1, <1>2
  <2>3. \A j \in (n + 1)..(i - 1) : j \in 1..Top(h)
    BY <1>2
  <2>4. row.uid = Sight(w, g, n)[k].uid
    BY <1>4, <1>1 DEF Tracks
  <2> QED BY <2>1, <2>2, <2>3, <2>4, <1>1 DEF Tracks
<1> QED
  BY <1>3, <1>4

\* What was silent stays silent.
LEMMA SilentGrows ==
    ASSUME NEW h, Chronicle(h), NEW g, Grows(h, g),
           NEW w, NEW m \in Nat, NEW n \in 0..Top(h)
    PROVE  SilentIn(w, g, m, n) <=> SilentIn(w, h, m, n)
<1>1. \A i \in 1..Top(h) : Log(g)[i] = Log(h)[i]
  BY Grown
<1>2. Top(h) \in Nat
  BY Tops
<1>3. \A i \in (m + 1)..n : i \in 1..Top(h)
  BY <1>2
<1> QED
  BY <1>1, <1>3 DEF SilentIn

\* An exact position stays exact.
LEMMA ExactGrows ==
    ASSUME NEW h, Chronicle(h), NEW g, Grows(h, g),
           NEW p \in Position, Exact(h, p)
    PROVE  Exact(g, p)
  BY Grown, Tops, PositionTypes DEF Exact

\* An event of a page stays one.
LEMMA QueuedGrows ==
    ASSUME NEW h, Chronicle(h), NEW g, Grows(h, g),
           NEW w, NEW f, f.pos \in Position, NEW top \in 0..Top(h), NEW more \in Nat, top <= more,
           Queued(w, h, top, f)
    PROVE  Queued(w, g, more, f)
<1>1. Known(g, f.pos)
  BY KnownGrows DEF Queued
<1>2. Top(h) \in Nat /\ \A i \in 1..Top(h) : Log(g)[i] = Log(h)[i]
  BY Grown, Tops
<1>3. f.pos.id \in 1..Top(h) /\ f.pos.id \in 1..more
  BY <1>2 DEF Queued
<1> QED
  BY <1>1, <1>2, <1>3 DEF Queued

\* A frame still follows.
LEMMA FrameGrows ==
    ASSUME NEW h, Chronicle(h), NEW g, Grows(h, g),
           NEW w, NEW f, f.pos \in Position, NEW q \in Position, Exact(h, q),
           FrameFollows(w, h, q, f)
    PROVE  FrameFollows(w, g, q, f)
<1>1. Exact(h, f.pos) /\ Exact(g, f.pos)
  BY ExactGrows DEF FrameFollows
<1>2. f.pos.id \in 0..Top(h) /\ q.id \in 0..Top(h)
  BY <1>1, Tops, PositionTypes DEF Exact
<1>3. Sight(w, g, f.pos.id) = Sight(w, h, f.pos.id) /\ Sight(w, g, q.id) = Sight(w, h, q.id)
  BY <1>2, Grown
<1> QED
  BY <1>1, <1>3 DEF FrameFollows, TellsOf

\* The database of a server that is behind is a past of the last one.
LEMMA ServedRight ==
    ASSUME NEW h, Chronicle(h), NEW a \in 1..Len(h)
    PROVE  /\ WellKept(h[a]) /\ h[a] \in Db /\ Len(h[a].log) \in 0..Top(h) /\ h[a].rv \in 1..Last(h).rv
           /\ \A i \in 1..Len(h[a].log) : h[a].log[i] = Log(h)[i]
           /\ \A i \in (Len(h[a].log) + 1)..Top(h) : Log(h)[i].row.rv > h[a].rv
           /\ RowsIn(h, Len(h[a].log)) = h[a].rows
           /\ h[a].rows \in [Keys -> Row \cup {NoRow}]
<1>1. /\ WellKept(h[a]) /\ h[a] \in Db /\ Len(h[a].log) <= Top(h) /\ Len(h[a].log) \in Nat
      /\ h[a].rv <= Last(h).rv
      /\ \A i \in 1..Len(h[a].log) : h[a].log[i] = Log(h)[i]
      /\ \A i \in (Len(h[a].log) + 1)..Top(h) : Log(h)[i].row.rv > h[a].rv
  BY ChroniclePart DEF Top, Log
<1>2. h[a].rv \in Nat /\ h[a].rv >= 1 /\ h[a].rows \in [Keys -> Row \cup {NoRow}]
  BY <1>1, DbTypes DEF WellKept
<1>3. RowsIn(h, Len(h[a].log)) = h[a].rows
  BY RowsInRight
<1> QED
  BY <1>1, <1>2, <1>3, Tops

\* The place of a position in the log of a server that has applied it.
LEMMA ServedReach ==
    ASSUME NEW h, Chronicle(h), NEW a \in 1..Len(h), NEW p \in Position,
           p.id <= Len(h[a].log), p.thru <= Len(h[a].log),
           p.id = 0 /\ p.thru = 0 => p.rv <= h[a].rv
    PROVE  /\ Reach(h, p) \in 0..Len(h[a].log)
           /\ Upto(h[a].log, p) = Reach(h, p)
<1> DEFINE L == Len(h[a].log)
<1>1. /\ WellKept(h[a]) /\ h[a] \in Db /\ L \in Nat /\ L <= Top(h) /\ Top(h) \in Nat
      /\ h[a].rv \in Nat
      /\ \A i \in 1..L : h[a].log[i] = Log(h)[i]
      /\ \A i \in (L + 1)..Top(h) : Log(h)[i].row.rv > h[a].rv
  BY ServedRight, Tops
<1>2. p.rv \in Nat /\ p.id \in Nat /\ p.thru \in Nat
  BY PositionTypes
<1>3. /\ Reach(h, p) \in 0..Top(h)
      /\ \A i \in 1..Top(h) : Represents(p, i, Log(h)[i].row.rv) <=> i <= Reach(h, p)
  BY ReachRight
<1>4. Reach(h, p) <= L
  <2>1. SUFFICES ASSUME Reach(h, p) > L PROVE FALSE
    BY <1>1, <1>3
  <2> DEFINE i == Reach(h, p)
  <2>2. i \in (L + 1)..Top(h) /\ i \in 1..Top(h)
    BY <2>1, <1>1, <1>3
  <2>3. Represents(p, i, Log(h)[i].row.rv)
    BY <2>2, <1>1, <1>3
  <2>4. Log(h)[i].row.rv > h[a].rv /\ Log(h)[i].row.rv \in Nat
    BY <2>2, <1>1, Tops
  <2> QED BY <2>2, <2>3, <2>4, <1>1, <1>2 DEF Represents
<1>5. \A i \in 1..L : Represents(p, i, h[a].log[i].row.rv) <=> i <= Reach(h, p)
  BY <1>1, <1>3
<1> QED
  BY <1>1, <1>3, <1>4, <1>5, PrefixUnique, SMTT(30)

\* advance_through moves a position to the event, also one that filters.
LEMMA AdvanceRight ==
    ASSUME NEW h, Chronicle(h), NEW p \in Position, Known(h, p), NEW i \in 1..Top(h), i > Reach(h, p),
           NEW q, q = AdvanceThrough(p, i, Log(h)[i].row.rv)
    PROVE  /\ q \in Position /\ q.id = i /\ Known(h, q) /\ Reach(h, q) = i /\ q.thru <= p.thru
           /\ p.thru = 0 => Exact(h, q)
<1> DEFINE rv == Log(h)[i].row.rv
<1>1. /\ p.rv \in Nat /\ p.id \in Nat /\ p.thru \in Nat /\ (p.thru > 0 => p.id < p.thru)
      /\ p = [rv |-> p.rv, id |-> p.id, thru |-> p.thru]
  BY PositionTypes
<1>2. /\ Top(h) \in Nat /\ Last(h).rv \in Nat
      /\ \A j \in 1..Top(h) : Log(h)[j].row.rv \in Nat /\ Log(h)[j].row.rv <= Last(h).rv
  BY Tops
<1>3. /\ Reach(h, p) \in 0..Top(h)
      /\ \A j \in 1..Top(h) : Represents(p, j, Log(h)[j].row.rv) <=> j <= Reach(h, p)
  BY ReachRight
<1>4. \A j \in 1..Top(h) : i < j => rv <= Log(h)[j].row.rv
  BY Tops DEF WellKept, Top, Log
<1>5. ~Represents(p, i, rv)
  BY <1>3, <1>2
<1>6. i \in Nat /\ rv \in Nat /\ rv <= Last(h).rv
  BY <1>2
<1> HIDE DEF rv
<1>7. CASE i < p.thru
  <2>1. q = [rv |-> p.rv, id |-> i, thru |-> p.thru]
    BY <1>7, <1>1 DEF AdvanceThrough, rv
  <2>2. q \in Position /\ q.id = i /\ q.rv = p.rv /\ q.thru = p.thru
    BY <2>1, <1>1, <1>6, <1>7 DEF Position
  <2>3. Known(h, q)
    BY <2>2, <1>1, <1>2 DEF Known
  <2>4. rv > p.rv
    BY <1>5, <1>7, <1>6, <1>1 DEF Represents
  <2>5. ASSUME NEW j \in 1..Top(h) PROVE Represents(q, j, Log(h)[j].row.rv) <=> j <= i
    BY <2>2, <2>4, <1>4, <1>1, <1>2, <1>6, <1>7 DEF Represents
  <2>6. Reach(h, q) = i
    BY <2>2, <2>5, <1>2, ReachUnique
  <2> QED BY <2>2, <2>3, <2>6, <1>1, <1>7, <1>6
<1>8. CASE ~(i < p.thru)
  <2>1. q = [rv |-> rv, id |-> i, thru |-> 0]
    BY <1>8 DEF AdvanceThrough, At, rv
  <2>2. q \in Position /\ q.id = i /\ q.rv = rv /\ q.thru = 0
    BY <2>1, <1>6 DEF Position
  <2>3. Exact(h, q)
    BY <2>2, <1>6, <1>2 DEF Exact
  <2> QED BY <2>2, <2>3, <1>1, ExactReach
<1> QED
  BY <1>7, <1>8

------------------------------------------------------------------------------
(* The session.                                                              *)

\* Types and places that follow from the invariant.
LEMMA SessionFacts ==
    ASSUME SessionInv
    PROVE  /\ Chronicle(history) /\ Top(history) \in Nat /\ Last(history).rv \in Nat
           /\ pos \in Position /\ Known(history, pos) /\ Reach(history, pos) \in 0..Top(history)
           /\ history \in Seq(Db) /\ applied \in 1..Len(history) /\ Served = history[applied]
           /\ WellKept(Served) /\ Served.rows \in [Keys -> Row \cup {NoRow}]
           /\ Len(Served.log) \in 0..Top(history)
           /\ pending \in Seq(Frame) /\ Len(pending) \in Nat
           /\ \A i \in 1..Len(pending) : pending[i] \in Frame /\ pending[i].pos \in Position
           /\ TargetOf(watcher) \subseteq Keys
<1>1. Chronicle(history) /\ Known(history, pos) /\ SessionTypeOK
  BY DEF SessionInv
<1>2. TargetOf(watcher) \subseteq Keys
  BY SessionAssumption DEF TargetOf
<1>3. Top(history) \in Nat /\ Last(history).rv \in Nat
  BY <1>1, Tops
<1>4. /\ pos \in Position /\ history \in Seq(Db) /\ applied \in 1..Len(history)
      /\ pending \in Seq(Frame)
  BY <1>1 DEF SessionTypeOK
<1>5. Reach(history, pos) \in 0..Top(history)
  BY <1>1, <1>4, ReachRight
<1>6. /\ Served = history[applied] /\ WellKept(Served) /\ Served.rows \in [Keys -> Row \cup {NoRow}]
      /\ Len(Served.log) \in 0..Top(history)
  BY <1>1, <1>4, ServedRight DEF Served
<1>7. ASSUME NEW i \in 1..Len(pending) PROVE pending[i] \in Frame /\ pending[i].pos \in Position
  <2>1. pending[i] \in Frame
    BY <1>4
  <2> QED BY <2>1 DEF Frame
<1> QED
  BY <1>1, <1>2, <1>3, <1>4, <1>5, <1>6, <1>7

\* The place of a session is a place in the log.
LEMMA PlaceRight ==
    ASSUME SessionInv
    PROVE  /\ Place \in 0..Top(history)
           /\ pending = <<>> => Place = Reach(history, pos)
           /\ pending # <<>> => /\ 1 \in 1..Len(pending) /\ pending[1].pos.id \in 1..Top(history)
                                /\ Place = pending[1].pos.id - 1
<1>1. /\ pending \in Seq(Frame) /\ Reach(history, pos) \in 0..Top(history) /\ Top(history) \in Nat
      /\ Len(Served.log) \in 0..Top(history)
  BY SessionFacts
<1>2. CASE pending = <<>>
  BY <1>1, <1>2 DEF Place, PlaceOf
<1>3. CASE pending # <<>>
  <2>1. 1 \in 1..Len(pending)
    BY <1>1, <1>3
  <2>2. Queued(watcher, history, Len(Served.log), pending[1])
    BY <2>1 DEF SessionInv, PageInv
  <2>3. pending[1].pos.id \in 1..Len(Served.log)
    BY <2>2 DEF Queued
  <2>4. Place = pending[1].pos.id - 1
    BY <1>3 DEF Place, PlaceOf
  <2> QED BY <1>1, <1>3, <2>1, <2>3, <2>4
<1> QED
  BY <1>2, <1>3

\* What the database of the server has more than before is to be published.
Announced ==
    /\ Len(Served.log) <= Len(Served'.log)
    /\ \A i \in (Len(Served.log) + 1)..Len(Served'.log) : Log(history')[i].key \in unpublished'
    /\ \A k \in Keys : Served.floor[k].id <= Served'.floor[k].id

\* A commit, or an apply by the server, behind the back of the session: the
\* subscription, made before anything is read, covers it.
LEMMA StoreMoves ==
    ASSUME SessionInv, Grows(history, history'), history' \in Seq(Db), applied' \in 1..Len(history'),
           unpublished = {}, unpublished' \subseteq Keys, Announced,
           watcher' = watcher, elections' = elections, UNCHANGED sessionVars, breaks' = breaks
    PROVE  SessionInv' /\ Place' = Place
<1> DEFINE L == Len(Served.log)
           M == Len(Served'.log)
           r == Reach(history, pos)
<1>0. /\ phase' = phase /\ pos' = pos /\ todo' = todo /\ found' = found /\ member' = member
      /\ pending' = pending /\ replay' = replay /\ queue' = queue /\ lagged' = lagged
  BY DEF sessionVars
<1>1. /\ Chronicle(history) /\ Top(history) \in Nat /\ pos \in Position /\ Known(history, pos)
      /\ r \in 0..Top(history) /\ L \in 0..Top(history)
      /\ \A i \in 1..Len(pending) : pending[i] \in Frame /\ pending[i].pos \in Position
      /\ TargetOf(watcher) \subseteq Keys
  BY SessionFacts
<1>2. /\ Chronicle(history') /\ Top(history') \in Nat /\ Top(history) <= Top(history')
      /\ \A i \in 1..Top(history) : Log(history')[i] = Log(history)[i]
      /\ \A n \in 0..Top(history) : RowsIn(history', n) = RowsIn(history, n)
  BY <1>1, Grown
<1>3. M \in 0..Top(history')
  BY <1>2, ServedRight DEF Served
<1>4. L <= M /\ L \in Nat /\ M \in Nat
  BY <1>3, <1>1, <1>2 DEF Announced
<1>5. Known(history', pos) /\ Reach(history', pos) = r
  BY <1>1, KnownGrows
<1>6. Place \in 0..Top(history)
  BY PlaceRight
<1>7. Place' = Place
  BY <1>0, <1>5 DEF Place, PlaceOf
<1>8. SessionTypeOK'
  BY <1>0 DEF SessionInv, SessionTypeOK
<1>9. phase' \in Opened => pos'.thru <= M
  <2>1. phase \in Opened => pos.thru <= L
    BY DEF SessionInv
  <2> QED BY <2>1, <1>0, <1>4, <1>1, PositionTypes
<1>10. PageInv'
  <2>1. \A i \in 1..Len(pending) : Queued(watcher, history', M, pending[i])
    <3>1. ASSUME NEW i \in 1..Len(pending) PROVE Queued(watcher, history', M, pending[i])
      <4>1. Queued(watcher, history, L, pending[i])
        BY DEF SessionInv, PageInv
      <4> HIDE DEF L, M
      <4> QED BY <4>1, <1>1, <1>4, QueuedGrows
    <3> QED BY <3>1
  <2>2. ASSUME NEW i \in 1..(Len(pending) - 1)
        PROVE  /\ pending[i].pos.id < pending[i + 1].pos.id
               /\ SilentIn(watcher, history', pending[i].pos.id, pending[i + 1].pos.id - 1)
    <3>1. /\ pending[i].pos.id < pending[i + 1].pos.id
          /\ SilentIn(watcher, history, pending[i].pos.id, pending[i + 1].pos.id - 1)
      BY DEF SessionInv, PageInv
    <3>2. i \in 1..Len(pending) /\ i + 1 \in 1..Len(pending)
      BY SessionFacts
    <3>3. pending[i].pos.id \in 1..L /\ pending[i + 1].pos.id \in 1..L
      BY <3>2 DEF SessionInv, PageInv, Queued
    <3>4. \A a \in 1..L, b \in 1..L : a \in Nat /\ b - 1 \in 0..Top(history)
      BY <1>1
    <3>5. pending[i].pos.id \in Nat /\ pending[i + 1].pos.id - 1 \in 0..Top(history)
      BY <3>3, <3>4
    <3> QED BY <3>1, <3>5, <1>1, SilentGrows
  <2>3. /\ phase # "live" => pending = <<>>
        /\ pending # <<>> => r = pending[Len(pending)].pos.id
    BY DEF SessionInv, PageInv
  <2> QED BY <2>1, <2>2, <2>3, <1>0, <1>5 DEF PageInv
<1>11. BaselineInv'
  <2>1. ASSUME NEW c \in r..L PROVE c \in r..M /\ RowsIn(history', c) = RowsIn(history, c)
    <3>1. c \in 0..Top(history) /\ c \in r..M
      BY <1>1, <1>4
    <3> QED BY <3>1, <1>2
  <2>2. ASSUME Intact(Served', TargetOf(watcher), r) PROVE Unpruned
    <3>1. ASSUME NEW k \in TargetOf(watcher) PROVE Served.floor[k].id <= r
      <4>1. Served.floor[k].id <= Served'.floor[k].id /\ Served'.floor[k].id <= r
        BY <2>2, <1>1 DEF Announced, Intact
      <4>2. Served.floor[k].id \in Nat /\ Served'.floor[k].id \in Nat
        <5>1. Served \in Db /\ Served' \in Db
          BY SessionFacts, <1>2, ServedRight DEF WellKept, Served
        <5> QED BY <5>1, <1>1, DbTypes
      <4> QED BY <4>1, <4>2, <1>1
    <3> QED BY <3>1 DEF Unpruned, Intact
  <2>3. phase \in {"touched", "events"} /\ Unpruned =>
          \E c \in r..M : \A k \in TargetOf(watcher) \ todo : RowsIn(history', c)[k] = NoRow
    <3>1. phase \in {"touched", "events"} /\ Unpruned =>
            \E c \in r..L : \A k \in TargetOf(watcher) \ todo : RowsIn(history, c)[k] = NoRow
      BY DEF SessionInv, BaselineInv
    <3> QED BY <3>1, <2>1
  <2>4. phase \in {"identity", "row", "history"} /\ Unpruned =>
          \A k \in TargetOf(watcher) \ todo : Tracks(watcher, history', member[k], k, r)
    BY <1>1, TracksGrows DEF SessionInv, BaselineInv
  <2>5. phase = "live" /\ watcher # "open" /\ (pending # <<>> \/ ~replay \/ Unpruned) =>
          \A k \in TargetOf(watcher) : Tracks(watcher, history', member[k], k, Place)
    BY <1>1, <1>6, TracksGrows DEF SessionInv, BaselineInv
  <2>6. phase = "history" => \E c \in r..M : found = RowsIn(history', c)[Candidate]
    <3>1. phase = "history" => \E c \in r..L : found = RowsIn(history, c)[Candidate]
      BY DEF SessionInv, BaselineInv
    <3> QED BY <3>1, <2>1
  <2>7. phase \in Checked => r <= M
    <3>1. phase \in Checked => r <= L
      BY DEF SessionInv, BaselineInv
    <3> QED BY <3>1, <1>1, <1>4
  <2>8. /\ phase \notin {"identity", "row", "history", "live"} => member = NoRows
        /\ todo \subseteq TargetOf(watcher) /\ (phase \in {"row", "history"} => todo # {})
    BY DEF SessionInv, BaselineInv
  <2>9. Candidate' = Candidate /\ Reach(history', pos') = r /\ (Unpruned' => Unpruned)
    BY <1>0, <1>5, <2>2 DEF Candidate, Unpruned
  <2> HIDE DEF r, M, L
  <2> QED BY <2>3, <2>4, <2>5, <2>6, <2>7, <2>8, <2>9, <1>0, <1>7 DEF BaselineInv, M
<1>12. SignalInv'
  <2>1. SUFFICES ASSUME phase = "live", ~replay
                 PROVE  \/ SilentIn(watcher, history', r, M)
                        \/ lagged \/ unpublished' \cap TargetOf(watcher) # {} \/ \E i \in 1..Len(queue) : queue[i]
    BY <1>0, <1>5 DEF SignalInv
  <2>2. \/ SilentIn(watcher, history, r, L)
        \/ lagged \/ \E i \in 1..Len(queue) : queue[i]
    BY <2>1, <1>1 DEF SessionInv, SignalInv
  <2>3. ASSUME SilentIn(watcher, history, r, L), unpublished' \cap TargetOf(watcher) = {}
        PROVE  SilentIn(watcher, history', r, M)
    <3>1. SilentIn(watcher, history', r, L)
      <4> HIDE DEF r, L, M
      <4> QED BY <2>3, <1>1, <1>4, SilentGrows
    <3>2. ASSUME NEW i \in (r + 1)..M PROVE Log(history')[i].key \notin TargetOf(watcher)
      <4>1. CASE i <= L
        <5>1. i \in (r + 1)..L
          BY <4>1, <1>1, <1>4
        <5> QED BY <5>1, <3>1 DEF SilentIn
      <4>2. CASE i > L
        <5>1. i \in (L + 1)..M
          BY <4>2, <1>1, <1>4
        <5> QED BY <5>1, <2>3 DEF Announced
      <4> QED BY <4>1, <4>2, <1>1, <1>4
    <3> QED BY <3>2 DEF SilentIn
  <2> QED BY <2>2, <2>3
<1> QED
  BY <1>0, <1>2, <1>5, <1>7, <1>8, <1>9, <1>10, <1>11, <1>12 DEF SessionInv

\* The signal reaches the queue, coalesces or marks the receiver lagged.
LEMMA PublishKeeps ==
    ASSUME SessionInv, Publish, breaks' = breaks
    PROVE  SessionInv' /\ Place' = Place
<1>0. /\ phase' = phase /\ pos' = pos /\ todo' = todo /\ found' = found /\ member' = member
      /\ pending' = pending /\ replay' = replay /\ watcher' = watcher /\ history' = history
      /\ applied' = applied /\ elections' = elections /\ unpublished' = {}
  BY DEF Publish
<1>1. queue \in Seq(BOOLEAN) /\ lagged \in BOOLEAN
  BY DEF SessionInv, SessionTypeOK
<1>2. Served' = Served /\ Place' = Place /\ Candidate' = Candidate /\ Unpruned' = Unpruned
  BY <1>0 DEF Served, Place, Candidate, Unpruned
<1>3. CASE phase \in {"closed", "expired", "refused"}
  <2>1. queue' = queue /\ lagged' = lagged
    BY <1>3 DEF Publish
  <2>2. SessionTypeOK'
    BY <1>0, <2>1 DEF SessionInv, SessionTypeOK
  <2>3. SignalInv'
    BY <1>0, <1>3 DEF SignalInv
  <2> QED BY <1>0, <1>2, <2>2, <2>3 DEF SessionInv, PageInv, BaselineInv
<1>4. CASE phase \notin {"closed", "expired", "refused"}
  <2> DEFINE b == unpublished \cap TargetOf(watcher) # {}
             q == IF Len(queue) = Capacity THEN Tail(queue) ELSE queue
  <2>1. queue' = Append(q, b) /\ lagged' = (lagged \/ Len(queue) = Capacity)
    BY <1>4 DEF Publish, Target, TargetOf, SignalDropped
  <2>2. q \in Seq(BOOLEAN) /\ b \in BOOLEAN
    <3>1. Len(queue) = Capacity => queue # <<>>
      BY SessionAssumption
    <3>2. CASE Len(queue) = Capacity
      BY <3>1, <3>2, <1>1
    <3>3. CASE Len(queue) # Capacity
      BY <3>3, <1>1
    <3> QED BY <3>2, <3>3
  <2>3. lagged' \in BOOLEAN
    BY <2>1, <1>1
  <2> HIDE DEF q
  <2>4. queue' \in Seq(BOOLEAN) /\ Len(queue') = Len(q) + 1 /\ queue'[Len(q) + 1] = b
        /\ Len(q) \in Nat /\ \A i \in 1..Len(q) : queue'[i] = q[i]
    BY <2>1, <2>2
  <2>5. SessionTypeOK'
    BY <1>0, <2>3, <2>4 DEF SessionInv, SessionTypeOK
  <2>6. SignalInv'
    <3>1. SUFFICES ASSUME phase = "live", ~replay
                   PROVE  \/ SilentIn(watcher, history, Reach(history, pos), Len(Served.log))
                          \/ lagged' \/ \E i \in 1..Len(queue') : queue'[i]
      BY <1>0, <1>2 DEF SignalInv
    <3>2. \/ SilentIn(watcher, history, Reach(history, pos), Len(Served.log))
          \/ lagged \/ unpublished \cap TargetOf(watcher) # {} \/ \E i \in 1..Len(queue) : queue[i]
      BY <3>1 DEF SessionInv, SignalInv
    <3>3. CASE lagged
      BY <3>3, <2>1
    <3>4. CASE unpublished \cap TargetOf(watcher) # {}
      <4>1. queue'[Len(q) + 1] /\ Len(q) + 1 \in 1..Len(queue')
        BY <3>4, <2>4
      <4> QED BY <4>1
    <3>5. CASE \E i \in 1..Len(queue) : queue[i]
      <4>1. CASE Len(queue) = Capacity
        BY <4>1, <2>1
      <4>2. CASE Len(queue) # Capacity
        <5>1. q = queue
          BY <4>2 DEF q
        <5> QED BY <5>1, <3>5, <2>4
      <4> QED BY <4>1, <4>2
    <3> QED BY <3>2, <3>3, <3>4, <3>5
  <2> QED BY <1>0, <1>2, <2>5, <2>6 DEF SessionInv, PageInv, BaselineInv
<1> QED
  BY <1>2, <1>3, <1>4

\* No rows are rows.
LEMMA NoRowsType == NoRows \in [Keys -> Row \cup {NoRow}]
  BY DEF NoRows

\* A session that ends leaves nothing behind.
LEMMA CloseKeeps ==
    ASSUME SessionInv, NEW as \in {"closed", "expired", "refused"}, Close(as),
           watcher' = watcher, history' = history, applied' \in 1..Len(history),
           unpublished' \subseteq Keys, elections' \in Nat, breaks' \in Nat
    PROVE  SessionInv'
<1>1. /\ phase' = as /\ pos' = At(0, 0) /\ todo' = {} /\ found' = NoRow /\ member' = NoRows /\ pending' = <<>>
      /\ replay' = FALSE /\ queue' = <<>> /\ lagged' = FALSE
  BY DEF Close
<1>2. At(0, 0) \in Position /\ At(0, 0).id = 0 /\ At(0, 0).thru = 0 /\ At(0, 0).rv = 0
  BY DEF At, Position
<1>3. Known(history, At(0, 0))
  BY <1>2, SessionFacts DEF Known
<1>4. SessionTypeOK'
  <2>1. history' \in Seq(Db) /\ applied' \in 1..Len(history') /\ watcher' \in Watchers
    BY DEF SessionInv, SessionTypeOK
  <2>2. phase' \in SessionPhases /\ pos' \in Position /\ todo' \subseteq Keys
        /\ found' \in Row \cup {NoRow} /\ member' \in [Keys -> Row \cup {NoRow}]
    BY <1>1, <1>2, NoRowsType DEF SessionPhases
  <2>a. <<>> \in Seq(Frame) /\ <<>> \in Seq(BOOLEAN)
    OBVIOUS
  <2>3. pending' \in Seq(Frame) /\ queue' \in Seq(BOOLEAN) /\ replay' \in BOOLEAN /\ lagged' \in BOOLEAN
    BY <2>a, <1>1, Zenon
  <2> QED BY <2>1, <2>2, <2>3 DEF SessionTypeOK
<1>5. PageInv'
  BY <1>1 DEF PageInv
<1>6. BaselineInv' /\ SignalInv'
  BY <1>1 DEF BaselineInv, SignalInv, Checked
<1>7. phase' \notin Opened
  BY <1>1 DEF Opened
<1> QED
  BY <1>1, <1>3, <1>4, <1>5, <1>6, <1>7 DEF SessionInv

\* A session that opens subscribes first.
LEMMA BeginKeeps ==
    ASSUME SessionInv, phase \in {"closed", "anchor"},
           phase' \in {"anchor", "current", "live"}, phase' = "live" => replay' /\ watcher = "open",
           replay' \in BOOLEAN,
           pos' \in Position, Known(history, pos'), pos'.thru <= Len(Served.log),
           UNCHANGED <<todo, found, member, pending, queue, lagged>>, UNCHANGED storeVars, breaks' = breaks
    PROVE  SessionInv'
<1>1. /\ todo' = todo /\ found' = found /\ member' = member /\ pending' = pending /\ queue' = queue /\ lagged' = lagged
      /\ watcher' = watcher /\ history' = history /\ applied' = applied /\ unpublished' = unpublished
      /\ elections' = elections
  BY DEF storeVars
<1>2. pending = <<>> /\ member = NoRows /\ todo \subseteq TargetOf(watcher)
  BY DEF SessionInv, PageInv, BaselineInv
<1>3. Served' = Served
  BY <1>1 DEF Served
<1>4. SessionTypeOK'
  BY <1>1 DEF SessionInv, SessionTypeOK, SessionPhases
<1>5. PageInv'
  BY <1>1, <1>2 DEF PageInv
<1>6. BaselineInv'
  BY <1>1, <1>2 DEF BaselineInv, Checked
<1>7. SignalInv'
  BY <1>1 DEF SignalInv
<1> QED
  BY <1>1, <1>3, <1>4, <1>5, <1>6, <1>7 DEF SessionInv

\* A step of the baseline.
LEMMA BaselineStep ==
    ASSUME SessionInv, phase \in Checked \cup {"current"}, phase' \in Checked \cup {"live"},
           phase' = "live" => replay', replay' \in BOOLEAN,
           member' \in [Keys -> Row \cup {NoRow}], todo' \subseteq TargetOf(watcher),
           found' \in Row \cup {NoRow}, BaselineInv',
           UNCHANGED <<pos, pending, queue, lagged>>, UNCHANGED storeVars, breaks' = breaks
    PROVE  SessionInv'
<1>1. /\ pos' = pos /\ pending' = pending /\ queue' = queue /\ lagged' = lagged
      /\ watcher' = watcher /\ history' = history /\ applied' = applied /\ unpublished' = unpublished
      /\ elections' = elections
  BY DEF storeVars
<1>2. pending = <<>> /\ TargetOf(watcher) \subseteq Keys /\ phase \in Opened
  BY SessionFacts DEF SessionInv, PageInv, Opened, Checked
<1>3. Served' = Served
  BY <1>1 DEF Served
<1>4. SessionTypeOK'
  BY <1>1, <1>2 DEF SessionInv, SessionTypeOK, SessionPhases, Checked
<1>5. PageInv'
  BY <1>1, <1>2 DEF PageInv
<1>6. SignalInv'
  BY <1>1 DEF SignalInv, Checked
<1> QED
  BY <1>1, <1>2, <1>3, <1>4, <1>5, <1>6 DEF SessionInv

\* The place of a session whose baseline is not expired on this server.
LEMMA ServedPlace ==
    ASSUME SessionInv, phase \in Opened, ~BaselineExpired(Served, Target, pos)
    PROVE  Reach(history, pos) \in 0..Len(Served.log)
<1>1. /\ Chronicle(history) /\ pos \in Position /\ applied \in 1..Len(history) /\ Served = history[applied]
      /\ Len(Served.log) \in 0..Top(history) /\ Top(history) \in Nat
      /\ WellKept(Served)
  BY SessionFacts
<1>2. pos.id \in Nat /\ pos.thru \in Nat /\ pos.rv \in Nat
  BY <1>1, PositionTypes
<1>3. Served.rv \in Nat
  BY <1>1, DbTypes DEF WellKept
<1>4. /\ ~(pos.id > Len(Served.log)) /\ ~(pos.thru > Len(Served.log))
      /\ ~(pos.id = 0 /\ pos.thru = 0 /\ pos.rv > Served.rv)
  BY DEF BaselineExpired
<1>5. /\ pos.id <= Len(Served.log) /\ pos.thru <= Len(Served.log)
      /\ pos.id = 0 /\ pos.thru = 0 => pos.rv <= Served.rv
  BY <1>1, <1>2, <1>3, <1>4
<1> QED
  BY <1>1, <1>5, ServedReach

\* The place of a session that has checked the floor once, on this server.
LEMMA CheckedPlace ==
    ASSUME SessionInv, phase \in Checked
    PROVE  /\ Reach(history, pos) \in 0..Len(Served.log)
           /\ Upto(Served.log, pos) = Reach(history, pos)
<1>1. /\ Chronicle(history) /\ pos \in Position /\ applied \in 1..Len(history) /\ Served = history[applied]
      /\ Len(Served.log) \in 0..Top(history) /\ Top(history) \in Nat /\ WellKept(Served)
      /\ Reach(history, pos) \in 0..Top(history)
  BY SessionFacts
<1>2. Reach(history, pos) \in 0..Len(Served.log)
  BY <1>1 DEF SessionInv, BaselineInv
<1>3. \A i \in 1..Len(Served.log) : Represents(pos, i, Served.log[i].row.rv) <=> i <= Reach(history, pos)
  <2>1. \A i \in 1..Top(history) : Represents(pos, i, Log(history)[i].row.rv) <=> i <= Reach(history, pos)
    BY <1>1, ReachRight
  <2>2. \A i \in 1..Len(Served.log) : Served.log[i] = Log(history)[i] /\ i \in 1..Top(history)
    BY <1>1, ServedRight
  <2> QED BY <2>1, <2>2
<1> QED
  BY <1>1, <1>2, <1>3, PrefixUnique, SMTT(30)

\* The statements that read the floor.
LEMMA CheckFloorKeeps ==
    ASSUME SessionInv, CheckFloor, UNCHANGED storeVars, breaks' = breaks
    PROVE  SessionInv'
<1>0. phase \in {"current", "touched", "identity"} /\ (phase = "identity" => todo # {})
  BY DEF CheckFloor, AfterFloor
<1>1. CASE BaselineExpired(Served, Target, pos)
  <2>1. Close("expired")
    BY <1>1 DEF CheckFloor
  <2> QED BY <2>1, CloseKeeps DEF storeVars, SessionInv, SessionTypeOK
<1>2. CASE ~BaselineExpired(Served, Target, pos)
  <2>1. /\ phase' = AfterFloor[phase]
        /\ UNCHANGED <<pos, todo, found, member, pending, replay, queue, lagged>>
    BY <1>2 DEF CheckFloor
  <2>2. \/ phase = "current" /\ phase' = "keys"
        \/ phase = "touched" /\ phase' = "events"
        \/ phase = "identity" /\ phase' = "row"
    BY <1>0, <2>1 DEF AfterFloor
  <2>3. Reach(history, pos) \in 0..Len(Served.log) /\ Len(Served.log) \in Nat
    BY <1>0, <1>2, ServedPlace, SessionFacts DEF Opened
  <2>4. watcher' = watcher /\ history' = history /\ applied' = applied
    BY DEF storeVars
  <2>5. Served' = Served /\ Unpruned' = Unpruned /\ Reach(history, pos) <= Len(Served.log)
    BY <2>1, <2>3, <2>4 DEF Served, Unpruned
  <2>6. BaselineInv'
    BY <1>0, <2>1, <2>2, <2>4, <2>5 DEF BaselineInv, SessionInv
  <2>7. phase \in Checked \cup {"current"} /\ phase' \in Checked \cup {"live"} /\ phase' # "live"
    BY <2>2 DEF Checked
  <2>8. /\ replay' \in BOOLEAN /\ member' \in [Keys -> Row \cup {NoRow}] /\ found' \in Row \cup {NoRow}
        /\ todo' \subseteq TargetOf(watcher)
    BY <2>1 DEF SessionInv, SessionTypeOK, BaselineInv
  <2> QED BY <2>1, <2>6, <2>7, <2>8, BaselineStep
<1> QED
  BY <1>1, <1>2

\* The first read: the rows that there are now.
LEMMA ReadCurrentKeeps ==
    ASSUME SessionInv, ReadCurrent, UNCHANGED storeVars, breaks' = breaks
    PROVE  SessionInv'
<1>1. /\ phase = "keys" /\ phase' = "touched"
      /\ todo' = {k \in TargetOf(watcher) : Served.rows[k] # NoRow}
      /\ UNCHANGED <<pos, found, member, pending, replay, queue, lagged>>
  BY DEF ReadCurrent, Target, TargetOf
<1>2. Reach(history, pos) \in 0..Len(Served.log)
  BY <1>1, CheckedPlace DEF Checked
<1>3. RowsIn(history, Len(Served.log)) = Served.rows
  BY SessionFacts, ServedRight
<1>4. Len(Served.log) \in Nat
  BY SessionFacts
<1>5. \E c \in Reach(history, pos)..Len(Served.log) :
         \A k \in TargetOf(watcher) \ todo' : RowsIn(history, c)[k] = NoRow
  <2>1. Len(Served.log) \in Reach(history, pos)..Len(Served.log)
    BY <1>2, <1>4
  <2> QED BY <1>1, <1>3, <2>1
<1>6. watcher' = watcher /\ history' = history /\ applied' = applied
  BY DEF storeVars
<1>7. BaselineInv'
  BY <1>1, <1>2, <1>4, <1>5, <1>6 DEF BaselineInv, SessionInv, Served
<1>8. phase \in Checked \cup {"current"} /\ phase' \in Checked \cup {"live"} /\ phase' # "live"
  BY <1>1 DEF Checked
<1>9. /\ replay' \in BOOLEAN /\ member' \in [Keys -> Row \cup {NoRow}] /\ found' \in Row \cup {NoRow}
      /\ todo' \subseteq TargetOf(watcher)
  BY <1>1 DEF SessionInv, SessionTypeOK
<1> QED
  BY <1>1, <1>7, <1>8, <1>9, BaselineStep

\* The second read: which keys had events since.
LEMMA ReadTouchedKeeps ==
    ASSUME SessionInv, ReadTouched, UNCHANGED storeVars, breaks' = breaks
    PROVE  SessionInv'
<1> DEFINE r == Reach(history, pos)
           L == Len(Served.log)
           T == TargetOf(watcher)
<1>1. /\ phase = "events" /\ phase' = "identity"
      /\ todo' = todo \cup Touched(Served, T, pos)
      /\ UNCHANGED <<pos, found, member, pending, replay, queue, lagged>>
  BY DEF ReadTouched, Target, TargetOf
<1>2. r \in 0..L /\ Upto(Served.log, pos) = r
  BY <1>1, CheckedPlace DEF Checked
<1>3. /\ Chronicle(history) /\ pos \in Position /\ L \in 0..Top(history) /\ Top(history) \in Nat
      /\ WellKept(Served) /\ T \subseteq Keys /\ applied \in 1..Len(history) /\ Served = history[applied]
  BY SessionFacts
<1>4. \A i \in 1..L : Served.log[i] = Log(history)[i]
  BY <1>3, ServedRight
<1>5. ASSUME Unpruned, NEW k \in T \ todo' PROVE Tracks(watcher, history, member[k], k, r)
  <2>0. PICK c \in r..L : \A x \in T \ todo : RowsIn(history, c)[x] = NoRow
    BY <1>1, <1>5 DEF SessionInv, BaselineInv
  <2>1. k \in T /\ k \notin todo /\ k \notin Touched(Served, T, pos) /\ k \in Keys
    BY <1>1, <1>3
  <2>2. ASSUME NEW i \in (r + 1)..L PROVE Log(history)[i].key # k
    <3>1. SUFFICES ASSUME Log(history)[i].key = k PROVE FALSE
      OBVIOUS
    <3>2. i \in 1..L /\ i > r
      BY <1>2, <1>3
    <3>3. Served.floor[k].id \in Nat /\ Served.floor[k].id <= r
      BY <1>3, <1>5, <2>1, DbTypes DEF Unpruned, Intact, WellKept
    <3>4. i \in Served.kept
      <4>1. i > Served.floor[Served.log[i].key].id
        BY <3>1, <3>2, <3>3, <1>2, <1>4
      <4> QED BY <4>1, <3>2, <1>3 DEF WellKept
    <3>5. i \in Kept(Served, k)
      BY <3>1, <3>2, <3>4, <1>4 DEF Kept
    <3>6. ~Represents(pos, i, Served.log[i].row.rv)
      BY <3>2, <1>2, <1>3, PrefixRight
    <3> QED BY <3>5, <3>6, <2>1 DEF Touched
  <2>3. c \in r..Top(history) /\ r \in 0..Top(history) /\ \A i \in (r + 1)..c : i \in (r + 1)..L
    BY <1>2, <1>3
  <2>4. RowsIn(history, c)[k] = RowsIn(history, r)[k]
    BY <2>1, <2>2, <2>3, <1>3, Untouched, SMTT(30) DEF Top, Log
  <2>5. RowsIn(history, r)[k] = NoRow
    BY <2>0, <2>1, <2>4
  <2>6. Sight(watcher, history, r)[k] = NoRow
    BY <2>1, <2>5 DEF Sight, FitsFor
  <2>7. member[k] = NoRow
    BY <1>1, <2>1 DEF SessionInv, BaselineInv, NoRows
  <2> QED BY <2>6, <2>7 DEF Tracks
<1>6. watcher' = watcher /\ history' = history /\ applied' = applied
  BY DEF storeVars
<1>7. todo' \subseteq T
  BY <1>1 DEF SessionInv, BaselineInv, Touched
<1>8. Unpruned' = Unpruned /\ Served' = Served /\ r <= L
  BY <1>1, <1>2, <1>3, <1>6 DEF Unpruned, Served
<1>9. BaselineInv'
  BY <1>1, <1>5, <1>6, <1>7, <1>8 DEF BaselineInv
<1>10. phase \in Checked \cup {"current"} /\ phase' \in Checked \cup {"live"} /\ phase' # "live"
  BY <1>1 DEF Checked
<1>11. replay' \in BOOLEAN /\ member' \in [Keys -> Row \cup {NoRow}] /\ found' \in Row \cup {NoRow}
  BY <1>1 DEF SessionInv, SessionTypeOK
<1> QED
  BY <1>1, <1>7, <1>9, <1>10, <1>11, BaselineStep

\* The next key is one of those left.
LEMMA LeastKey ==
    ASSUME NEW S, S \subseteq Keys, S # {}, NEW k, k = CHOOSE i \in S : \A j \in S : i <= j
    PROVE  k \in S
<1>1. S \subseteq Nat
  BY StoreAssumption
<1>2. \E i \in S : \A j \in S : i <= j
  BY <1>1, LeastNat
<1> QED
  BY <1>2

\* The third read: the row of one key as it is now.
LEMMA ReadRowKeeps ==
    ASSUME SessionInv, ReadRow, UNCHANGED storeVars, breaks' = breaks
    PROVE  SessionInv'
<1>1. /\ phase = "row" /\ phase' = "history" /\ found' = Served.rows[Candidate]
      /\ UNCHANGED <<pos, todo, member, pending, replay, queue, lagged>>
  BY DEF ReadRow
<1>2. Reach(history, pos) \in 0..Len(Served.log)
  BY <1>1, CheckedPlace DEF Checked
<1>3. /\ RowsIn(history, Len(Served.log)) = Served.rows /\ Len(Served.log) \in Nat
      /\ Served.rows \in [Keys -> Row \cup {NoRow}] /\ TargetOf(watcher) \subseteq Keys
  BY SessionFacts, ServedRight
<1>4. Candidate \in Keys /\ todo # {}
  <2>1. todo # {} /\ todo \subseteq Keys
    BY <1>1, <1>3 DEF SessionInv, BaselineInv
  <2> QED BY <2>1, LeastKey DEF Candidate
<1>5. watcher' = watcher /\ history' = history /\ applied' = applied
  BY DEF storeVars
<1>6. Served' = Served /\ Unpruned' = Unpruned /\ Candidate' = Candidate
  BY <1>1, <1>5 DEF Served, Unpruned, Candidate
<1>7. \E c \in Reach(history, pos)..Len(Served.log) : found' = RowsIn(history, c)[Candidate]
  <2>1. Len(Served.log) \in Reach(history, pos)..Len(Served.log)
    BY <1>2, <1>3
  <2> QED BY <2>1, <1>1, <1>3
<1>8. BaselineInv'
  <2>1. Reach(history, pos) <= Len(Served.log)
    BY <1>2, <1>3
  <2> QED BY <2>1, <1>1, <1>4, <1>5, <1>6, <1>7 DEF BaselineInv, SessionInv
<1>9. phase \in Checked \cup {"current"} /\ phase' \in Checked \cup {"live"} /\ phase' # "live"
  BY <1>1 DEF Checked
<1>10. /\ replay' \in BOOLEAN /\ member' \in [Keys -> Row \cup {NoRow}] /\ found' \in Row \cup {NoRow}
       /\ todo' \subseteq TargetOf(watcher)
  BY <1>1, <1>3, <1>4 DEF SessionInv, SessionTypeOK, BaselineInv
<1> QED
  BY <1>1, <1>8, <1>9, <1>10, BaselineStep

\* The fourth read: the key is reconstructed from the events after its row was
\* read, whatever was committed in between.
LEMMA ReadIdentityKeeps ==
    ASSUME SessionInv, ReadIdentity, UNCHANGED storeVars, breaks' = breaks
    PROVE  SessionInv'
<1> DEFINE k == Candidate
           read == Identity(Served, pos, k, found)
           r == Reach(history, pos)
           T == TargetOf(watcher)
<1>1. CASE read.expired
  <2>1. Close("expired")
    BY <1>1 DEF ReadIdentity
  <2> QED BY <2>1, CloseKeeps DEF storeVars, SessionInv, SessionTypeOK
<1>2. CASE ~read.expired
  <2>1. /\ phase = "history" /\ phase' = "identity" /\ found' = NoRow /\ todo' = todo \ {k}
        /\ member' = [member EXCEPT ![k] = IF FitsFor(watcher, read.row) THEN read.row ELSE NoRow]
        /\ UNCHANGED <<pos, pending, replay, queue, lagged>>
    BY <1>2 DEF ReadIdentity, Fits, FitsFor, HasSelector
  <2>2. r \in 0..Len(Served.log) /\ Upto(Served.log, pos) = r
    BY <2>1, CheckedPlace DEF Checked
  <2>3. /\ Chronicle(history) /\ pos \in Position /\ r \in 0..Top(history) /\ Len(Served.log) \in Nat
        /\ WellKept(Served) /\ T \subseteq Keys /\ applied \in 1..Len(history) /\ Served = history[applied]
    BY SessionFacts
  <2>4. todo \subseteq T /\ todo # {}
    BY <2>1 DEF SessionInv, BaselineInv
  <2>5. k \in todo /\ k \in T /\ k \in Keys
    BY <2>3, <2>4, LeastKey DEF Candidate
  <2>a. PICK c \in r..Len(Served.log) : found = RowsIn(history, c)[k]
    BY <2>1 DEF SessionInv, BaselineInv
  <2> HIDE DEF k
  <2>6. read.row \in Row \cup {NoRow}
    BY <2>3, <2>5, IdentityType DEF SessionInv, SessionTypeOK
  <2>7. Unpruned => Recalls(history, read.row, k, r)
    <3>1. SUFFICES ASSUME Unpruned PROVE Recalls(history, read.row, k, r)
      OBVIOUS
    <3>2. Served.floor[k].id <= r
      BY <3>1, <2>5 DEF Unpruned, Intact
    <3> QED BY <1>2, <2>2, <2>3, <2>5, <2>a, <3>2, IdentityRight
  <2> HIDE DEF read
  <2> DEFINE seen == IF FitsFor(watcher, read.row) THEN read.row ELSE NoRow
  <2>8. Unpruned => Tracks(watcher, history, seen, k, r)
    BY <2>3, <2>5, <2>6, <2>7, RecallsTracks
  <2>9. seen \in Row \cup {NoRow}
    BY <2>6
  <2>10. member \in [Keys -> Row \cup {NoRow}]
    BY DEF SessionInv, SessionTypeOK
  <2>11. member' = [member EXCEPT ![k] = seen]
    BY <2>1
  <2> HIDE DEF seen, r, T
  <2>12. /\ member' \in [Keys -> Row \cup {NoRow}] /\ member'[k] = seen
         /\ \A x \in Keys \ {k} : member'[x] = member[x]
    BY <2>5, <2>9, <2>10, <2>11
  <2>13. Unpruned => \A x \in T \ todo : Tracks(watcher, history, member[x], x, r)
    BY <2>1 DEF SessionInv, BaselineInv, T, r
  <2>14. ASSUME Unpruned, NEW x \in T \ todo' PROVE Tracks(watcher, history, member'[x], x, r)
    <3>1. CASE x = k
      BY <3>1, <2>8, <2>12, <2>14
    <3>2. CASE x # k
      <4>1. x \in T \ todo /\ x \in Keys
        BY <3>2, <2>1, <2>3
      <4> QED BY <4>1, <3>2, <2>12, <2>13, <2>14
    <3> QED BY <3>1, <3>2
  <2>15. watcher' = watcher /\ history' = history /\ applied' = applied
    BY DEF storeVars
  <2>16. todo' \subseteq T
    BY <2>1, <2>4
  <2>17. Served' = Served /\ Unpruned' = Unpruned /\ r <= Len(Served.log)
    BY <2>1, <2>2, <2>3, <2>15 DEF Served, Unpruned
  <2>18. BaselineInv'
    BY <2>1, <2>14, <2>15, <2>16, <2>17 DEF BaselineInv, T, r
  <2>19. phase \in Checked \cup {"current"} /\ phase' \in Checked \cup {"live"} /\ phase' # "live"
    BY <2>1 DEF Checked
  <2>20. replay' \in BOOLEAN /\ found' \in Row \cup {NoRow}
    BY <2>1 DEF SessionInv, SessionTypeOK
  <2> QED BY <2>1, <2>12, <2>16, <2>18, <2>19, <2>20, BaselineStep DEF T
<1> QED
  BY <1>1, <1>2

\* The session goes live, with a replay before it waits for signals.
LEMMA AcceptBaselineKeeps ==
    ASSUME SessionInv, AcceptBaseline, UNCHANGED storeVars, breaks' = breaks
    PROVE  SessionInv'
<1> DEFINE bad == pos.thru = 0 /\ \E k \in Target : member[k].rv > pos.rv
<1>1. CASE bad
  <2>1. Close("refused")
    BY <1>1 DEF AcceptBaseline
  <2> QED BY <2>1, CloseKeeps DEF storeVars, SessionInv, SessionTypeOK
<1>2. CASE ~bad
  <2>1. /\ phase = "identity" /\ todo = {} /\ phase' = "live" /\ replay' = TRUE
        /\ UNCHANGED <<pos, todo, found, member, pending, queue, lagged>>
    BY <1>2 DEF AcceptBaseline
  <2>2. watcher' = watcher /\ history' = history /\ applied' = applied
    BY DEF storeVars
  <2>3. pending = <<>>
    BY <2>1 DEF SessionInv, PageInv
  <2>4. Place' = Reach(history, pos) /\ Unpruned' = Unpruned
    BY <2>1, <2>2, <2>3 DEF Place, PlaceOf, Unpruned, Served
  <2>5. Unpruned => \A k \in TargetOf(watcher) : Tracks(watcher, history, member[k], k, Reach(history, pos))
    BY <2>1 DEF SessionInv, BaselineInv
  <2>6. BaselineInv'
    BY <2>1, <2>2, <2>3, <2>4, <2>5 DEF BaselineInv, Checked
  <2>7. phase \in Checked \cup {"current"} /\ phase' \in Checked \cup {"live"}
    BY <2>1 DEF Checked
  <2>8. /\ replay' \in BOOLEAN /\ member' \in [Keys -> Row \cup {NoRow}] /\ found' \in Row \cup {NoRow}
        /\ todo' \subseteq TargetOf(watcher)
    BY <2>1 DEF SessionInv, SessionTypeOK
  <2> QED BY <2>1, <2>6, <2>7, <2>8, BaselineStep
<1> QED
  BY <1>1, <1>2

\* A signal makes the session replay when it is about the watcher.
LEMMA RecvSignalKeeps ==
    ASSUME SessionInv, RecvSignal, UNCHANGED storeVars, breaks' = breaks
    PROVE  SessionInv' /\ Place' = Place
<1>1. /\ phase = "live" /\ pending = <<>> /\ ~replay
      /\ phase' = phase /\ pos' = pos /\ todo' = todo /\ found' = found /\ member' = member
      /\ pending' = pending
      /\ watcher' = watcher /\ history' = history /\ applied' = applied /\ unpublished' = unpublished
      /\ elections' = elections
  BY DEF RecvSignal, storeVars
<1>2. queue \in Seq(BOOLEAN) /\ lagged \in BOOLEAN
  BY DEF SessionInv, SessionTypeOK
<1>3. /\ queue' \in Seq(BOOLEAN) /\ lagged' \in BOOLEAN /\ replay' \in BOOLEAN
      /\ ~replay' => lagged' = lagged /\ ~lagged /\ \A i \in 1..Len(queue) : queue[i] => \E j \in 1..Len(queue') : queue'[j]
  <2>1. CASE lagged /\ replay' = TRUE /\ lagged' = FALSE /\ UNCHANGED queue
    BY <2>1, <1>2
  <2>2. CASE ~lagged /\ queue # <<>> /\ replay' = Head(queue) /\ queue' = Tail(queue) /\ UNCHANGED lagged
    <3>1. /\ Len(queue) \in Nat \ {0} /\ queue[1] \in BOOLEAN /\ replay' = queue[1] /\ queue' \in Seq(BOOLEAN)
          /\ Len(queue') = Len(queue) - 1 /\ \A j \in 1..Len(queue') : queue'[j] = queue[j + 1]
      BY <2>2, <1>2
    <3>2. ASSUME ~replay', NEW i \in 1..Len(queue), queue[i] PROVE \E j \in 1..Len(queue') : queue'[j]
      <4>1. i # 1
        BY <3>1, <3>2
      <4>2. i - 1 \in 1..Len(queue') /\ (i - 1) + 1 = i
        BY <4>1, <3>1
      <4>3. queue'[i - 1] = queue[i]
        BY <4>2, <3>1
      <4> QED BY <4>2, <4>3, <3>2
    <3> QED BY <3>1, <3>2, <2>2, <1>2
  <2> QED BY <2>1, <2>2 DEF RecvSignal
<1>4. Served' = Served /\ Place' = Place
  BY <1>1 DEF Served, Place
<1>5. SessionTypeOK'
  BY <1>1, <1>3 DEF SessionInv, SessionTypeOK
<1>7. BaselineInv'
  <2>1. watcher # "open" => \A k \in TargetOf(watcher) : Tracks(watcher, history, member[k], k, Place)
    BY <1>1 DEF SessionInv, BaselineInv
  <2> QED BY <2>1, <1>1, <1>4 DEF SessionInv, BaselineInv, Checked
<1>6. SignalInv'
  <2>1. \/ SilentIn(watcher, history, Reach(history, pos), Len(Served.log))
        \/ lagged \/ unpublished \cap TargetOf(watcher) # {} \/ \E i \in 1..Len(queue) : queue[i]
    BY <1>1 DEF SessionInv, SignalInv
  <2> QED BY <2>1, <1>1, <1>3, <1>4 DEF SignalInv
<1> QED
  BY <1>1, <1>4, <1>5, <1>6, <1>7 DEF SessionInv, PageInv

\* An empty page: advance_to_high_water moves the position to the place of the
\* last event and ends its filter by resourceVersion.
LEMMA HighWater ==
    ASSUME NEW h, Chronicle(h), NEW p \in Position, Known(h, p), NEW a \in 1..Len(h),
           p.id <= Len(h[a].log), p.thru <= Len(h[a].log), p.id = 0 => p.rv <= h[a].rv \/ p.thru > 0,
           NEW q, q = AdvanceToHighWater(p, Len(h[a].log))
    PROVE  /\ q \in Position /\ Known(h, q) /\ Reach(h, q) = Len(h[a].log) /\ q.thru = 0
           /\ Exact(h, p) => Exact(h, q)
<1> DEFINE L == Len(h[a].log)
<1>1. /\ p.rv \in Nat /\ p.id \in Nat /\ p.thru \in Nat /\ (p.thru > 0 => p.id < p.thru)
      /\ p = [rv |-> p.rv, id |-> p.id, thru |-> p.thru]
  BY PositionTypes
<1>2. L \in 0..Top(h) /\ L \in Nat /\ Top(h) \in Nat /\ Last(h).rv \in Nat
  BY ServedRight, Tops
<1>3. CASE L = p.id
  <2>1. q = p /\ p.thru = 0
    BY <1>1, <1>3 DEF AdvanceToHighWater
  <2>2. p.id = 0 => p.rv <= h[a].rv
    BY <2>1, <1>1
  <2>3. Reach(h, p) \in 0..L
    BY <2>1, <2>2, <1>1, <1>2, ServedReach
  <2>4. \A i \in 1..Top(h) : Represents(p, i, Log(h)[i].row.rv) <=> i <= Reach(h, p)
    BY ReachRight
  <2>5. Reach(h, p) = L
    <3>1. SUFFICES ASSUME Reach(h, p) # L PROVE FALSE
      OBVIOUS
    <3>2. L \in 1..Top(h) /\ ~(L <= Reach(h, p))
      BY <3>1, <2>3, <1>2
    <3>3. Represents(p, L, Log(h)[L].row.rv)
      BY <1>3, <1>2, <1>1 DEF Represents
    <3> QED BY <3>2, <3>3, <2>4
  <2> QED BY <2>1, <2>5
<1>4. CASE L # p.id
  <2>0. ~(L < p.thru)
    BY <1>1, <1>2
  <2>a. q = [p EXCEPT !.id = L, !.thru = 0]
    BY <2>0, <1>4 DEF AdvanceToHighWater
  <2>1. q = [rv |-> p.rv, id |-> L, thru |-> 0]
    <3> HIDE DEF L
    <3> QED BY <2>a, <1>1
  <2>2. q \in Position /\ q.rv = p.rv /\ q.id = L /\ q.thru = 0 /\ L > 0
    BY <2>1, <1>1, <1>2, <1>4 DEF Position
  <2>3. Exact(h, q)
    BY <2>2, <1>2, <1>1 DEF Exact, Known
  <2> QED BY <2>2, <2>3, ExactReach
<1> QED
  BY <1>3, <1>4

\* The place of a session whose page is not expired on this server.
LEMMA PageServed ==
    ASSUME SessionInv, phase \in Opened, ~PageExpired(Served, Target, pos)
    PROVE  /\ pos.id <= Len(Served.log) /\ pos.thru <= Len(Served.log)
           /\ pos.id = 0 => pos.rv <= Served.rv
           /\ Reach(history, pos) \in 0..Len(Served.log)
           /\ Upto(Served.log, pos) = Reach(history, pos)
<1>1. /\ Chronicle(history) /\ pos \in Position /\ applied \in 1..Len(history) /\ Served = history[applied]
      /\ Len(Served.log) \in 0..Top(history) /\ Top(history) \in Nat
      /\ WellKept(Served)
  BY SessionFacts
<1>2. pos.id \in Nat /\ pos.thru \in Nat /\ pos.rv \in Nat
  BY <1>1, PositionTypes
<1>3. Served.rv \in Nat
  BY <1>1, DbTypes DEF WellKept
<1>4. pos.id <= Len(Served.log) /\ (pos.id = 0 => pos.rv <= Served.rv)
  BY <1>1, <1>2, <1>3 DEF PageExpired
<1>5. pos.thru <= Len(Served.log)
  BY DEF SessionInv
<1> QED
  BY <1>1, <1>4, <1>5, ServedReach

\* replay_watch_history: the page continues where the session was.
LEMMA ReplayKeeps ==
    ASSUME SessionInv, ReplayOnce, ~PageExpired(Served, Target, pos), UNCHANGED storeVars, breaks' = breaks
    PROVE  /\ SessionInv'
           /\ pending' = <<>> => pos' = AdvanceToHighWater(pos, Len(Served.log))
           /\ Place' \in Reach(history, pos)..Top(history)
           /\ SilentIn(watcher, history, Reach(history, pos), Place')
           /\ pos.thru = 0 =>
                 /\ \A i \in 1..Len(pending') : pending'[i].pos.thru = 0
                 /\ Exact(history, pos) => Exact(history, pos')
<1> DEFINE r == Reach(history, pos)
           L == Len(Served.log)
           T == TargetOf(watcher)
           page == Page(Served, T, pos)
           N == Len(page)
<1>1. /\ Chronicle(history) /\ pos \in Position /\ applied \in 1..Len(history) /\ Served = history[applied]
      /\ L \in 0..Top(history) /\ Top(history) \in Nat /\ WellKept(Served) /\ T \subseteq Keys
      /\ Known(history, pos)
  BY SessionFacts
<1>2. /\ phase = "live" /\ pending = <<>> /\ phase' = phase /\ todo' = todo /\ member' = member
      /\ found' = found
      /\ queue' = queue /\ lagged' = lagged
      /\ watcher' = watcher /\ history' = history /\ applied' = applied /\ unpublished' = unpublished
      /\ elections' = elections /\ replay' = (page # <<>>)
      /\ pos' = AfterPage(Served, page, pos)
  BY DEF ReplayOnce, storeVars, Target, TargetOf, MoreToReplay
<1>3. pending' = [n \in DOMAIN page |->
                   [type |-> Served.log[page[n]].type, key |-> Served.log[page[n]].key,
                    row |-> Served.log[page[n]].row,
                    pos |-> AdvanceThrough(pos, page[n], Served.log[page[n]].row.rv)]]
  BY DEF ReplayOnce, Target, TargetOf
<1>4. Served' = Served
  BY <1>2 DEF Served
<1>5. /\ pos.id <= L /\ pos.thru <= L /\ (pos.id = 0 => pos.rv <= Served.rv)
      /\ r \in 0..L /\ Upto(Served.log, pos) = r
  BY <1>2, PageServed DEF Opened
<1>6. ~PageExpired(Served, T, pos)
  BY DEF Target, TargetOf
<1>7. /\ page \in Seq(Owed(Served, T, pos))
      /\ \A m, n \in 1..Len(page) : m < n => page[m] < page[n]
      /\ \A i \in Owed(Served, T, pos) : \A n \in 1..Len(page) :
            i <= page[n] => \E m \in 1..n : page[m] = i
      /\ page = <<>> => Owed(Served, T, pos) = {}
  BY <1>1, <1>6, PageRight
<1>8. Owed(Served, T, pos) = {i \in 1..L : i > r /\ Log(history)[i].key \in T}
  BY <1>1, <1>5, ServedRight DEF Owed
<1>9. \A i \in 1..L : Served.log[i] = Log(history)[i] /\ Log(history)[i] \in Event /\ i \in 1..Top(history)
  BY <1>1, ServedRight, Tops
<1>a. Unpruned
  BY <1>1, <1>5, <1>6, PageNotices DEF Unpruned
<1> HIDE DEF page, L, r, T
<1>10. /\ N \in Nat /\ DOMAIN page = 1..N
       /\ \A n \in 1..N : page[n] \in 1..L /\ page[n] > r /\ Log(history)[page[n]].key \in T
  <2>1. N \in Nat /\ DOMAIN page = 1..N /\ \A n \in 1..N : page[n] \in Owed(Served, T, pos)
    BY <1>7
  <2> QED BY <2>1, <1>8
<1>11. ASSUME NEW n \in 1..N
       PROVE  /\ pending'[n] \in Frame /\ pending'[n].pos \in Position
              /\ pending'[n].pos.id = page[n] /\ Queued(watcher, history, L, pending'[n])
              /\ Reach(history, pending'[n].pos) = page[n]
              /\ pending'[n].pos = AdvanceThrough(pos, page[n], Log(history)[page[n]].row.rv)
              /\ pos.thru = 0 => pending'[n].pos.thru = 0 /\ Exact(history, pending'[n].pos)
  <2> DEFINE i == page[n]
             e == Log(history)[i]
             q == AdvanceThrough(pos, i, e.row.rv)
  <2>1. i \in 1..L /\ i \in 1..Top(history) /\ i > r /\ e.key \in T /\ Served.log[i] = e /\ e \in Event
    BY <1>9, <1>10
  <2>2. /\ q \in Position /\ q.id = i /\ Known(history, q) /\ Reach(history, q) = i /\ q.thru <= pos.thru
        /\ pos.thru = 0 => Exact(history, q)
    BY <2>1, <1>1, AdvanceRight DEF r
  <2>3. pending'[n] = [type |-> e.type, key |-> e.key, row |-> e.row, pos |-> q]
    BY <1>3, <1>10, <2>1
  <2> HIDE DEF q, e, i
  <2>4. /\ e.type \in {"ADDED", "MODIFIED", "DELETED"} /\ e.key \in Keys /\ e.row \in Row
        /\ e = [type |-> e.type, key |-> e.key, row |-> e.row]
    BY <2>1 DEF Event
  <2>5. pending'[n] \in Frame
    BY <2>2, <2>3, <2>4 DEF Frame
  <2>6. /\ pending'[n].pos = q /\ pending'[n].type = e.type /\ pending'[n].key = e.key
        /\ pending'[n].row = e.row
    BY <2>3
  <2>7. Queued(watcher, history, L, pending'[n])
    BY <2>1, <2>2, <2>4, <2>6 DEF Queued, T, e
  <2>8. pos.thru = 0 => q.thru = 0
    BY <2>2 DEF Exact
  <2> QED BY <2>2, <2>5, <2>6, <2>7, <2>8 DEF i, q, e
<1>12. pending' \in Seq(Frame) /\ Len(pending') = N /\ (pending' = <<>> <=> page = <<>>)
  <2>1. pending' \in [1..N -> Frame]
    BY <1>3, <1>10, <1>11
  <2>2. pending' \in Seq(Frame) /\ Len(pending') = N
    BY <2>1, <1>10
  <2>3. page = <<>> <=> N = 0
    BY <1>7
  <2> QED BY <2>2, <2>3, <1>10
<1>13. CASE page = <<>>
  <2>1. pos' = AdvanceToHighWater(pos, L)
    BY <1>13, <1>2 DEF AfterPage, L
  <2>2. /\ pos' \in Position /\ Known(history, pos') /\ Reach(history, pos') = L /\ pos'.thru = 0
        /\ Exact(history, pos) => Exact(history, pos')
    BY <2>1, <1>1, <1>5, HighWater DEF L
  <2>3. SilentIn(watcher, history, r, L)
    <3>1. ASSUME NEW i \in (r + 1)..L PROVE Log(history)[i].key \notin T
      <4>1. i \in 1..L /\ i > r
        BY <1>5, <1>1
      <4> QED BY <4>1, <1>7, <1>8, <1>13
    <3> QED BY <3>1 DEF SilentIn, T
  <2>4. SessionTypeOK'
    BY <1>2, <1>12, <2>2 DEF SessionInv, SessionTypeOK
  <2>5. pending' = <<>> /\ Len(pending') = 0
    BY <1>13, <1>12
  <2>6. Place' = L
    BY <2>2, <2>5, <1>2 DEF Place, PlaceOf
  <2>7. PageInv'
    BY <2>5 DEF PageInv
  <2>8. BaselineInv'
    <3>1. Place = r
      BY <1>2, PlaceRight DEF r
    <3>2. ASSUME watcher # "open", NEW k \in T PROVE Tracks(watcher, history, member[k], k, L)
      <4>1. Tracks(watcher, history, member[k], k, r)
        BY <3>1, <3>2, <1>2, <1>a DEF SessionInv, BaselineInv, T
      <4>2. \A i \in (r + 1)..L : Log(history)[i].key # k
        BY <2>3, <3>2 DEF SilentIn, T
      <4>3. k \in Keys /\ r \in 0..Top(history) /\ L \in r..Top(history)
        BY <3>2, <1>1, <1>5
      <4> QED BY <4>1, <4>2, <4>3, <1>1, TracksOn
    <3>3. todo \subseteq TargetOf(watcher)
      BY DEF SessionInv, BaselineInv
    <3> QED BY <3>2, <3>3, <2>6, <1>2 DEF BaselineInv, Checked, T
  <2>9. SignalInv'
    <3>1. SilentIn(watcher, history, L, L)
      BY <1>1 DEF SilentIn
    <3> QED BY <3>1, <2>2, <1>2, <1>4 DEF SignalInv, L
  <2>10. pos'.thru <= L
    BY <2>2, <1>1
  <2>11. SessionInv'
    BY <2>2, <2>4, <2>7, <2>8, <2>9, <2>10, <1>1, <1>2, <1>4 DEF SessionInv, L
  <2>12. L \in r..Top(history)
    BY <1>1, <1>5
  <2> QED BY <2>1, <2>2, <2>3, <2>5, <2>6, <2>11, <2>12 DEF L, r
<1>14. CASE page # <<>>
  <2>1. N \in 1..N /\ 1 \in 1..N /\ N > 0
    BY <1>14, <1>7, <1>10
  <2>2. pos' = AdvanceThrough(pos, page[N], Log(history)[page[N]].row.rv)
    BY <1>14, <1>2, <1>9, <1>10, <2>1 DEF AfterPage
  <2>3. pos' = pending'[N].pos
    BY <2>1, <2>2, <1>11
  <2>4. /\ pos' \in Position /\ Known(history, pos') /\ Reach(history, pos') = page[N]
        /\ pos.thru = 0 => Exact(history, pos')
    BY <2>1, <2>3, <1>11 DEF Queued
  <2>5. pos'.thru <= L
    <3>1. pos'.thru <= pos.thru
      BY <2>1, <2>2, <1>9, <1>10, <1>1, AdvanceRight DEF r
    <3> QED BY <3>1, <2>4, <1>1, <1>5, PositionTypes
  <2>6. SessionTypeOK'
    BY <1>2, <1>12, <2>4 DEF SessionInv, SessionTypeOK
  <2>7. pending' # <<>>
    BY <1>12, <1>14
  <2>8. Place' = page[1] - 1
    BY <2>1, <2>7, <1>11 DEF Place, PlaceOf
  <2>9. SilentIn(watcher, history, r, page[1] - 1)
    <3>1. ASSUME NEW i \in (r + 1)..(page[1] - 1) PROVE Log(history)[i].key \notin T
      <4>1. SUFFICES ASSUME Log(history)[i].key \in T PROVE FALSE
        OBVIOUS
      <4>2. page[1] \in 1..L
        BY <2>1, <1>10
      <4>3. i \in 1..L /\ i > r /\ i <= page[1] /\ i # page[1]
        BY <4>2, <1>1, <1>5
      <4>4. i \in Owed(Served, T, pos)
        BY <4>1, <4>3, <1>8
      <4>5. PICK m \in 1..1 : page[m] = i
        BY <4>3, <4>4, <2>1, <1>7
      <4> QED BY <4>3, <4>5
    <3> QED BY <3>1 DEF SilentIn, T
  <2>10. ASSUME NEW n \in 1..(N - 1)
         PROVE  page[n] < page[n + 1] /\ SilentIn(watcher, history, page[n], page[n + 1] - 1)
    <3>1. n \in 1..N /\ n + 1 \in 1..N /\ n < n + 1
      BY <1>10
    <3>2. page[n] < page[n + 1] /\ page[n] \in 1..L /\ page[n + 1] \in 1..L /\ page[n] > r
      BY <3>1, <1>7, <1>10
    <3>3. ASSUME NEW i \in (page[n] + 1)..(page[n + 1] - 1) PROVE Log(history)[i].key \notin T
      <4>1. SUFFICES ASSUME Log(history)[i].key \in T PROVE FALSE
        OBVIOUS
      <4>2. i \in 1..L /\ i > r /\ i <= page[n + 1] /\ i < page[n + 1] /\ i > page[n]
        BY <3>2, <1>1, <1>5, SMTT(30)
      <4>3. i \in Owed(Served, T, pos)
        BY <4>1, <4>2, <1>8
      <4>4. PICK m \in 1..(n + 1) : page[m] = i
        BY <4>2, <4>3, <3>1, <1>7
      <4>5. m # n + 1 /\ m # n
        BY <4>4, <4>2
      <4>6. m < n /\ m \in 1..N
        BY <4>4, <4>5, <3>1
      <4>7. page[m] < page[n] /\ page[m] \in 1..L
        BY <4>6, <3>1, <1>7, <1>10
      <4> QED BY <4>2, <4>4, <4>7, <3>2
    <3> QED BY <3>2, <3>3 DEF SilentIn, T
  <2>11. PageInv'
    <3>1. \A i \in 1..Len(pending') : Queued(watcher, history, L, pending'[i])
      BY <1>11, <1>12
    <3>2. ASSUME NEW i \in 1..(Len(pending') - 1)
          PROVE  /\ pending'[i].pos.id < pending'[i + 1].pos.id
                 /\ SilentIn(watcher, history, pending'[i].pos.id, pending'[i + 1].pos.id - 1)
      <4>1. i \in 1..(N - 1) /\ i \in 1..N /\ i + 1 \in 1..N
        BY <1>10, <1>12
      <4>2. pending'[i].pos.id = page[i] /\ pending'[i + 1].pos.id = page[i + 1]
        BY <4>1, <1>11
      <4> QED BY <4>1, <4>2, <2>10
    <3>3. Reach(history, pos') = pending'[Len(pending')].pos.id
      BY <2>1, <2>4, <1>11, <1>12
    <3> QED BY <3>1, <3>2, <3>3, <1>2, <1>4 DEF PageInv, L
  <2>12. page[1] \in 1..L /\ page[1] > r
    BY <2>1, <1>10
  <2>13. r \in 0..Top(history) /\ page[1] - 1 \in r..Top(history)
    BY <2>12, <1>1, <1>5
  <2>14. BaselineInv'
    <3>1. Place = r
      BY <1>2, PlaceRight DEF r
    <3>2. ASSUME watcher # "open", NEW k \in T PROVE Tracks(watcher, history, member[k], k, page[1] - 1)
      <4>1. Tracks(watcher, history, member[k], k, r)
        BY <3>1, <3>2, <1>2, <1>a DEF SessionInv, BaselineInv, T
      <4>2. \A i \in (r + 1)..(page[1] - 1) : Log(history)[i].key # k
        BY <2>9, <3>2 DEF SilentIn, T
      <4>3. k \in Keys
        BY <3>2, <1>1
      <4> QED BY <4>1, <4>2, <4>3, <2>13, <1>1, TracksOn
    <3>3. todo \subseteq TargetOf(watcher)
      BY DEF SessionInv, BaselineInv
    <3> QED BY <3>2, <3>3, <2>8, <1>2 DEF BaselineInv, Checked, T
  <2>15. SignalInv'
    BY <1>2, <1>14 DEF SignalInv
  <2>16. SessionInv'
    BY <2>4, <2>5, <2>6, <2>11, <2>14, <2>15, <1>1, <1>2, <1>4 DEF SessionInv, L
  <2>17. pos.thru = 0 => \A i \in 1..Len(pending') : pending'[i].pos.thru = 0
    BY <1>11, <1>12
  <2> QED BY <2>4, <2>7, <2>8, <2>9, <2>13, <2>16, <2>17 DEF r
<1> QED
  BY <1>13, <1>14

\* The event that Pop takes.
LEMMA NextEvent ==
    ASSUME SessionInv, Pop, NEW e, e = pending[1], NEW i, i = e.pos.id
    PROVE  /\ e \in Frame /\ e.pos \in Position /\ e.key \in TargetOf(watcher) /\ e.key \in Keys
           /\ e.type \in {"ADDED", "MODIFIED", "DELETED"} /\ e.row \in Row
           /\ i \in 1..Top(history) /\ i - 1 \in 0..Top(history) /\ Place = i - 1
           /\ Log(history)[i] = [type |-> e.type, key |-> e.key, row |-> e.row]
           /\ Known(history, e.pos)
           /\ Sight(watcher, history, i) = [Sight(watcher, history, i - 1) EXCEPT ![e.key] =
                 IF e.type # "DELETED" /\ FitsFor(watcher, e.row) THEN e.row ELSE NoRow]
<1>1. pending # <<>>
  BY DEF Pop
<1>2. 1 \in 1..Len(pending) /\ i \in 1..Top(history) /\ Place = i - 1
  BY <1>1, PlaceRight
<1>3. e \in Frame /\ Chronicle(history) /\ Top(history) \in Nat
  BY <1>2, SessionFacts
<1>4. Queued(watcher, history, Len(Served.log), e)
  BY <1>2 DEF SessionInv, PageInv
<1>5. /\ Log(history)[i] = [type |-> e.type, key |-> e.key, row |-> e.row]
      /\ Known(history, e.pos) /\ e.key \in TargetOf(watcher)
  BY <1>4 DEF Queued
<1>6. /\ e.pos \in Position /\ e.key \in Keys /\ e.type \in {"ADDED", "MODIFIED", "DELETED"} /\ e.row \in Row
  BY <1>3 DEF Frame
<1>7. i - 1 \in 0..Top(history)
  BY <1>2, <1>3
<1>8. LET f == Log(history)[i] IN f.key = e.key /\ f.type = e.type /\ f.row = e.row
  BY <1>5
<1>9. Sight(watcher, history, i) = [Sight(watcher, history, i - 1) EXCEPT ![e.key] =
                 IF e.type # "DELETED" /\ FitsFor(watcher, e.row) THEN e.row ELSE NoRow]
  BY <1>2, <1>3, <1>5, <1>8, SightStep
<1> QED
  BY <1>2, <1>3, <1>5, <1>6, <1>7, <1>9

\* next_event: the member of the key follows the event.
LEMMA PopKeeps ==
    ASSUME SessionInv, Pop, UNCHANGED storeVars, breaks' = breaks, NEW i, i = pending[1].pos.id
    PROVE  /\ SessionInv'
           /\ Place' \in i..Top(history) /\ SilentIn(watcher, history, i, Place')
           /\ Sight(watcher, history, Place') = Sight(watcher, history, i)
<1> DEFINE e == pending[1]
           rest == Tail(pending)
           N == Len(pending)
           T == TargetOf(watcher)
<1>1. /\ phase = "live" /\ pending # <<>> /\ phase' = phase /\ pos' = pos /\ todo' = todo
      /\ found' = found
      /\ replay' = replay /\ queue' = queue /\ lagged' = lagged /\ pending' = rest
      /\ watcher' = watcher /\ history' = history /\ applied' = applied /\ unpublished' = unpublished
      /\ elections' = elections
  BY DEF Pop, storeVars
<1>2. /\ Chronicle(history) /\ Top(history) \in Nat /\ T \subseteq Keys /\ pending \in Seq(Frame)
      /\ Reach(history, pos) \in 0..Top(history) /\ Len(Served.log) \in 0..Top(history)
  BY SessionFacts
<1>3. /\ e.key \in T /\ e.key \in Keys /\ e.type \in {"ADDED", "MODIFIED", "DELETED"} /\ e.row \in Row
      /\ i \in 1..Top(history) /\ i - 1 \in 0..Top(history) /\ Place = i - 1
      /\ Log(history)[i] = [type |-> e.type, key |-> e.key, row |-> e.row]
      /\ Sight(watcher, history, i) = [Sight(watcher, history, i - 1) EXCEPT ![e.key] =
            IF e.type # "DELETED" /\ FitsFor(watcher, e.row) THEN e.row ELSE NoRow]
  BY NextEvent
<1>4. /\ N \in Nat \ {0} /\ rest \in Seq(Frame) /\ Len(rest) = N - 1
      /\ \A j \in 1..(N - 1) : rest[j] = pending[j + 1]
  BY <1>1, <1>2
<1>5. Served' = Served
  BY <1>1 DEF Served
<1>6. /\ \A j \in 1..N : Queued(watcher, history, Len(Served.log), pending[j])
      /\ \A j \in 1..(N - 1) :
            /\ pending[j].pos.id < pending[j + 1].pos.id
            /\ SilentIn(watcher, history, pending[j].pos.id, pending[j + 1].pos.id - 1)
      /\ Reach(history, pos) = pending[N].pos.id
  BY <1>1 DEF SessionInv, PageInv
<1> HIDE DEF e, rest, N, T
<1>7. PageInv'
  <2>1. ASSUME NEW j \in 1..Len(rest) PROVE Queued(watcher, history, Len(Served.log), rest[j])
    <3>1. j \in 1..(N - 1) /\ j + 1 \in 1..N
      BY <1>4
    <3> QED BY <3>1, <1>4, <1>6
  <2>2. ASSUME NEW j \in 1..(Len(rest) - 1)
        PROVE  /\ rest[j].pos.id < rest[j + 1].pos.id
               /\ SilentIn(watcher, history, rest[j].pos.id, rest[j + 1].pos.id - 1)
    <3>1. j \in 1..(N - 1) /\ j + 1 \in 1..(N - 1)
      BY <1>4
    <3>2. rest[j] = pending[j + 1] /\ rest[j + 1] = pending[(j + 1) + 1]
      BY <3>1, <1>4
    <3> QED BY <3>1, <3>2, <1>6
  <2>3. rest # <<>> => Reach(history, pos) = rest[Len(rest)].pos.id
    <3>1. rest # <<>> => Len(rest) \in 1..(N - 1) /\ Len(rest) + 1 = N
      BY <1>4
    <3> QED BY <3>1, <1>4, <1>6
  <2> QED BY <2>1, <2>2, <2>3, <1>1, <1>5 DEF PageInv
<1>8. Place' \in i..Top(history) /\ SilentIn(watcher, history, i, Place')
  <2>1. CASE rest = <<>>
    <3>1. N = 1
      BY <2>1, <1>4
    <3>2. Place' = Reach(history, pos)
      BY <2>1, <1>1 DEF Place, PlaceOf
    <3>3. Place' = i
      BY <3>1, <3>2, <1>6
    <3>4. SilentIn(watcher, history, i, i)
      BY <1>3 DEF SilentIn
    <3> QED BY <3>3, <3>4, <1>3
  <2>2. CASE rest # <<>>
    <3>1. 1 \in 1..(N - 1) /\ 1 + 1 \in 1..N
      BY <2>2, <1>4
    <3>2. Place' = rest[1].pos.id - 1
      BY <2>2, <1>1 DEF Place, PlaceOf
    <3>3. rest[1] = pending[1 + 1]
      BY <3>1, <1>4
    <3>4. i < pending[1 + 1].pos.id /\ SilentIn(watcher, history, i, pending[1 + 1].pos.id - 1)
      BY <3>1, <1>6
    <3>5. pending[1 + 1].pos.id \in 1..Len(Served.log)
      BY <3>1, <1>6 DEF Queued
    <3>6. pending[1 + 1].pos.id - 1 \in i..Top(history)
      BY <3>4, <3>5, <1>2, <1>3
    <3> QED BY <3>2, <3>3, <3>4, <3>6
  <2> QED BY <2>1, <2>2
<1>9. Sight(watcher, history, Place') = Sight(watcher, history, i)
  BY <1>2, <1>3, <1>8, SightSilent
<1>10. member \in [Keys -> Row \cup {NoRow}]
  BY DEF SessionInv, SessionTypeOK
<1>11. /\ member' \in [Keys -> Row \cup {NoRow}]
       /\ watcher # "open" =>
             /\ member'[e.key] = IF e.type # "DELETED" /\ FitsFor(watcher, e.row) THEN e.row ELSE NoRow
             /\ \A k \in Keys \ {e.key} : member'[k] = member[k]
  <2> DEFINE seen == IF e.type # "DELETED" /\ FitsFor(watcher, e.row) THEN e.row ELSE NoRow
  <2>1. CASE watcher # "open"
    <3>1. member' = [member EXCEPT ![e.key] = seen]
      BY <2>1 DEF Pop, Commits, HasSelector, Fits, FitsFor, e
    <3>2. seen \in Row \cup {NoRow}
      BY <1>3
    <3> HIDE DEF seen
    <3>3. member' \in [Keys -> Row \cup {NoRow}] /\ member'[e.key] = seen
          /\ \A k \in Keys \ {e.key} : member'[k] = member[k]
      BY <3>1, <3>2, <1>3, <1>10
    <3> QED BY <3>3 DEF seen
  <2>2. CASE watcher = "open"
    BY <2>2, <1>10 DEF Pop, HasSelector
  <2> QED BY <2>1, <2>2
<1>12. SessionTypeOK'
  BY <1>1, <1>4, <1>11 DEF SessionInv, SessionTypeOK
<1>13. BaselineInv'
  <2>1. ASSUME watcher # "open", NEW k \in T PROVE Tracks(watcher, history, member'[k], k, Place')
    <3>1. k \in Keys /\ i \in 0..Top(history)
      BY <2>1, <1>2, <1>3
    <3>2. Tracks(watcher, history, member'[k], k, i)
      <4>1. CASE k = e.key
        <5>1. Sight(watcher, history, i - 1) \in [Keys -> Row \cup {NoRow}]
          BY <1>2, <1>3, SightType
        <5>2. Sight(watcher, history, i)[k] = member'[k]
          BY <4>1, <5>1, <2>1, <1>3, <1>11
        <5> QED BY <5>2 DEF Tracks
      <4>2. CASE k # e.key
        <5>1. Tracks(watcher, history, member[k], k, i - 1)
          BY <2>1, <1>1, <1>3 DEF SessionInv, BaselineInv, T
        <5>2. member'[k] = member[k]
          BY <4>2, <3>1, <2>1, <1>11
        <5>3. ASSUME NEW j \in ((i - 1) + 1)..i PROVE Log(history)[j].key # k
          <6>1. j = i
            BY <1>3
          <6>2. Log(history)[i].key = e.key
            BY <1>3
          <6> QED BY <6>1, <6>2, <4>2
        <5>4. i \in (i - 1)..Top(history)
          BY <1>3
        <5> QED BY <5>1, <5>2, <5>3, <5>4, <3>1, <1>2, <1>3, TracksOn, SMTT(30)
      <4> QED BY <4>1, <4>2
    <3>3. \A j \in (i + 1)..Place' : Log(history)[j].key # k
      BY <2>1, <1>8 DEF SilentIn, T
    <3> QED BY <3>1, <3>2, <3>3, <1>2, <1>8, TracksOn
  <2>2. todo \subseteq TargetOf(watcher)
    BY DEF SessionInv, BaselineInv
  <2> QED BY <2>1, <2>2, <1>1 DEF BaselineInv, Checked, T
<1>14. SignalInv'
  BY <1>1, <1>5 DEF SessionInv, SignalInv
<1>15. SessionInv'
  BY <1>1, <1>5, <1>7, <1>12, <1>13, <1>14 DEF SessionInv
<1> QED
  BY <1>8, <1>9, <1>15

\* A row without uid is no row.
LEMMA UidTells ==
    ASSUME NEW a \in Row \cup {NoRow}, NEW b \in Row \cup {NoRow}, a.uid = b.uid
    PROVE  a = NoRow <=> b = NoRow
  BY DEF Row, NoRow

\* No row is newer than the events after it.
LEMMA RowsAge ==
    ASSUME NEW h, Chronicle(h), NEW i \in 1..Top(h), NEW k \in Keys
    PROVE  RowsIn(h, i - 1)[k].rv <= Log(h)[i].row.rv
<1>1. Top(h) \in Nat /\ \A j \in 1..Top(h) : Log(h)[j].row.rv \in Nat /\ Log(h)[j].row.rv >= 2
  BY Tops
<1>2. CASE i = 1
  <2>1. {j \in 1..0 : Last(h).log[j].key = k} = {}
    OBVIOUS
  <2>2. RowsIn(h, i - 1)[k].rv = 0
    BY <1>2, <2>1 DEF NoRow, RowsIn, RowsAt
  <2> QED BY <2>2, <1>1
<1>3. CASE i # 1
  <2>1. i - 1 \in 1..Top(h) /\ i - 1 \in 0..Top(h) /\ i - 1 < i
    BY <1>1, <1>3
  <2>2. RowsIn(h, i - 1)[k].rv <= Log(h)[i - 1].row.rv
    BY <2>1, OneEvent DEF Top, Log
  <2>3. Log(h)[i - 1].row.rv <= Log(h)[i].row.rv
    BY <2>1, Tops DEF WellKept, Top, Log
  <2>4. RowsIn(h, i - 1)[k] \in Row \cup {NoRow}
    BY <2>1, RowsInType DEF Top
  <2>5. RowsIn(h, i - 1)[k].rv \in Nat
    BY <2>4 DEF Row, NoRow
  <2> QED BY <2>1, <2>2, <2>3, <2>5, <1>1
<1> QED
  BY <1>2, <1>3

\* SelectorMembership::prepare: against a member that tracks the key, an event
\* is told exactly when it changes what the watcher sees, and as that change.
LEMMA ToldRight ==
    ASSUME SessionInv, Pop, NEW e, e = pending[1], NEW i, i = e.pos.id
    PROVE  \/ Told = {} /\ Sight(watcher, history, i) = Sight(watcher, history, i - 1)
           \/ \E f \in Frame : /\ Told = {f} /\ f.pos = e.pos /\ f.key = e.key
                               /\ TellsOf(watcher, history, i - 1, f) /\ f.row.rv <= e.row.rv
<1> DEFINE k == e.key
           a == Sight(watcher, history, i - 1)
           b == Sight(watcher, history, i)
           before == RowsIn(history, i - 1)[k]
           prior == member[k]
           F(r) == FitsFor(watcher, r)
<1>1. /\ e \in Frame /\ e.pos \in Position /\ k \in TargetOf(watcher) /\ k \in Keys
      /\ e.type \in {"ADDED", "MODIFIED", "DELETED"} /\ e.row \in Row
      /\ i \in 1..Top(history) /\ i - 1 \in 0..Top(history) /\ Place = i - 1
      /\ Log(history)[i] = [type |-> e.type, key |-> k, row |-> e.row]
      /\ b = [a EXCEPT ![k] = IF e.type # "DELETED" /\ F(e.row) THEN e.row ELSE NoRow]
  BY NextEvent
<1>2. Chronicle(history) /\ Top(history) \in Nat
  BY SessionFacts
<1>3. a \in [Keys -> Row \cup {NoRow}] /\ b \in [Keys -> Row \cup {NoRow}]
  BY <1>1, <1>2, SightType
<1>4. a[k] = IF F(before) THEN before ELSE NoRow
  BY <1>1 DEF Sight
<1>5. before \in Row \cup {NoRow}
  BY <1>1, <1>2, RowsInType DEF Top
<1>6. e.type = "DELETED" => before # NoRow /\ e.row.uid = before.uid /\ e.row.fits = before.fits
  <2>1. LET f == Log(history)[i] IN f.key = k /\ f.type = e.type /\ f.row = e.row
    BY <1>1
  <2>2. Turns(Log(history)[i], before, RowsIn(history, i)[k])
    BY <2>1, <1>1, <1>2, OneEvent, SMTT(30) DEF Top, Log
  <2> QED BY <2>1, <2>2 DEF Turns
<1>7. e.row # NoRow
  BY <1>1 DEF Row, NoRow
<1>8. e.type = "DELETED" => (F(e.row) <=> a[k] # NoRow) /\ (a[k] # NoRow => a[k].uid = e.row.uid)
  <2>1. F(NoRow) = FALSE
    BY DEF FitsFor
  <2> QED BY <1>4, <1>6, <1>7, <2>1 DEF FitsFor
<1>9. phase = "live" /\ pending # <<>>
  BY DEF Pop
<1>10. a = [a EXCEPT ![k] = a[k]]
  BY <1>1, <1>3
<1>13. e.row.rv \in Nat /\ e.row.rv <= e.row.rv
  BY <1>1 DEF Row
<1>11. CASE watcher = "open"
  <2>1. Told = {e}
    BY <1>11 DEF Told, HasSelector
  <2>2. \A r \in Row : F(r)
    BY <1>11 DEF FitsFor, Row, NoRow
  <2>3. TellsOf(watcher, history, i - 1, e)
    BY <2>2, <1>1, <1>8 DEF TellsOf
  <2> QED BY <2>1, <2>3, <1>1, <1>13
<1>12. CASE watcher # "open"
  <2>1. prior \in Row \cup {NoRow}
    BY <1>1 DEF SessionInv, SessionTypeOK
  <2>2. Tracks(watcher, history, prior, k, i - 1)
    BY <1>1, <1>9, <1>12 DEF SessionInv, BaselineInv
  <2>3. e.type # "DELETED" => prior = a[k]
    <3>1. SUFFICES ASSUME prior # a[k] PROVE e.type = "DELETED"
      OBVIOUS
    <3>2. PICK j \in ((i - 1) + 1)..Top(history) :
             /\ Log(history)[j].key = k /\ Log(history)[j].type = "DELETED"
             /\ \A m \in ((i - 1) + 1)..(j - 1) : Log(history)[m].key # k
      BY <3>1, <2>2 DEF Tracks
    <3>3. Log(history)[i].key = k /\ Log(history)[i].type = e.type
      BY <1>1
    <3>4. j = i \/ i \in ((i - 1) + 1)..(j - 1)
      BY <1>1, <1>2
    <3> QED BY <3>2, <3>3, <3>4
  <2>4. prior.uid = a[k].uid
    BY <2>2 DEF Tracks
  <2>5. prior = NoRow <=> a[k] = NoRow
    BY <2>1, <2>4, <1>1, <1>3, UidTells
  <2>6. Told = IF e.type = "DELETED" THEN IF prior # NoRow \/ F(e.row) THEN {e} ELSE {}
               ELSE IF F(e.row) THEN {[e EXCEPT !.type = IF prior = NoRow THEN "ADDED" ELSE e.type]}
               ELSE IF prior # NoRow THEN {[e EXCEPT !.type = "DELETED", !.row = prior]}
               ELSE {}
    BY <1>12 DEF Told, Transition, HasSelector, Fits, FitsFor
  <2>7. e = [type |-> e.type, key |-> e.key, row |-> e.row, pos |-> e.pos]
    BY <1>1 DEF Frame
  <2>8. CASE e.type = "DELETED" /\ a[k] # NoRow
    <3>1. Told = {e}
      BY <2>5, <2>6, <2>8
    <3>2. TellsOf(watcher, history, i - 1, e)
      BY <2>8, <1>1, <1>8 DEF TellsOf
    <3> QED BY <3>1, <3>2, <1>1, <1>13
  <2>9. CASE e.type = "DELETED" /\ a[k] = NoRow
    <3>1. Told = {}
      BY <2>5, <2>6, <2>9, <1>8
    <3>2. b = a
      BY <2>9, <1>1, <1>10
    <3> QED BY <3>1, <3>2
  <2>10. CASE e.type # "DELETED" /\ F(e.row)
    <3> DEFINE ty == IF prior = NoRow THEN "ADDED" ELSE e.type
               f == [type |-> ty, key |-> k, row |-> e.row, pos |-> e.pos]
    <3>1. ty \in {"ADDED", "MODIFIED"}
      BY <2>10, <1>1
    <3>2. Told = {[e EXCEPT !.type = ty]}
      BY <2>6, <2>10
    <3> HIDE DEF ty
    <3>3. [e EXCEPT !.type = ty] = f
      BY <2>7
    <3>4. f \in Frame /\ f.row = e.row
      BY <3>1, <1>1 DEF Frame
    <3>5. TellsOf(watcher, history, i - 1, f)
      BY <3>1, <2>10, <1>1 DEF TellsOf
    <3> QED BY <3>2, <3>3, <3>4, <3>5, <1>13
  <2>11. CASE e.type # "DELETED" /\ ~F(e.row) /\ prior # NoRow
    <3>0. PICK p : p = prior
      OBVIOUS
    <3>1. PICK f : f = [e EXCEPT !.type = "DELETED", !.row = p]
      OBVIOUS
    <3>a. e \in Frame
      BY <1>1
    <3>2. Told = {f}
      BY <3>0, <3>1, <2>6, <2>11
    <3>3. prior \in Row /\ prior = a[k]
      BY <2>1, <2>3, <2>11
    <3>4. f = [type |-> "DELETED", key |-> e.key, row |-> p, pos |-> e.pos]
      BY <3>1, <3>a DEF Frame
    <3>5. f \in Frame /\ f.type = "DELETED" /\ f.key = k /\ f.row = prior /\ f.pos = e.pos
      BY <3>0, <3>3, <3>4, <1>1 DEF Frame
    <3>6. TellsOf(watcher, history, i - 1, f)
      BY <3>3, <3>5, <2>11, <1>1 DEF TellsOf
    <3>7. before.rv <= e.row.rv
      <4>1. Log(history)[i].row = e.row
        BY <1>1
      <4> QED BY <4>1, <1>1, <1>2, RowsAge
    <3>8. prior = before
      BY <3>3, <2>11, <1>4
    <3>9. prior.rv <= e.row.rv
      <4>1. prior.rv \in Nat
        BY <3>3 DEF Row
      <4> QED BY <4>1, <3>7, <3>8, <1>13
    <3> QED BY <3>2, <3>5, <3>6, <3>9
  <2>12. CASE e.type # "DELETED" /\ ~F(e.row) /\ prior = NoRow
    <3>1. Told = {}
      BY <2>6, <2>12
    <3>2. b = a
      BY <2>3, <2>12, <1>1, <1>10
    <3> QED BY <3>1, <3>2
  <2> QED BY <2>8, <2>9, <2>10, <2>11, <2>12
<1> QED
  BY <1>11, <1>12

------------------------------------------------------------------------------
(* The mirror.                                                               *)

\* A listed or sent position is a cursor.
LEMMA ExactCursor ==
    ASSUME NEW h, NEW p, Exact(h, p)
    PROVE  p # NoCursor
  BY DEF Exact, NoCursor

\* Types and places that follow from the invariant of the mirror.
LEMMA MirrorFacts ==
    ASSUME SessionInv, MirrorInv
    PROVE  /\ cursor \in Position /\ sent \in Position /\ Len(wire) \in Nat /\ wire \in Seq(Frame \cup Heartbeats)
           /\ \A j \in 1..Len(wire) : /\ wire[j] \in Frame \cup Heartbeats /\ wire[j].pos \in Position
                                      /\ Exact(history, wire[j].pos)
           /\ cursor # NoCursor =>
                 \A j \in 1..(Len(wire) + 1) :
                    Ahead(cursor, wire, j) \in Position /\ Exact(history, Ahead(cursor, wire, j))
<1>1. cursor \in Position /\ sent \in Position /\ wire \in Seq(Frame \cup Heartbeats)
  BY DEF MirrorInv, MirrorTypeOK
<1>2. ASSUME NEW j \in 1..Len(wire)
      PROVE  /\ wire[j] \in Frame \cup Heartbeats /\ wire[j].pos \in Position
             /\ Exact(history, wire[j].pos)
  <2>1. wire[j] \in Frame \cup Heartbeats
    BY <1>1
  <2>2. wire[j].pos \in Position
    BY <2>1 DEF Frame, Heartbeats
  <2>3. FrameFollows(watcher, history, Ahead(cursor, wire, j), wire[j])
    BY DEF MirrorInv
  <2> QED BY <2>1, <2>2, <2>3 DEF FrameFollows
<1>3. ASSUME cursor # NoCursor, NEW j \in 1..(Len(wire) + 1)
      PROVE  Ahead(cursor, wire, j) \in Position /\ Exact(history, Ahead(cursor, wire, j))
  <2>1. CASE j = 1
    <3>1. Exact(history, cursor)
      BY <1>3 DEF MirrorInv
    <3> QED BY <2>1, <3>1, <1>1 DEF Ahead
  <2>2. CASE j # 1
    <3>1. j - 1 \in 1..Len(wire)
      BY <2>2, <1>1
    <3> QED BY <2>2, <3>1, <1>2 DEF Ahead
  <2> QED BY <2>1, <2>2
<1> QED
  BY <1>1, <1>2, <1>3

\* Another watcher has no mirror.
LEMMA NotWorker ==
    ASSUME MirrorInv, watcher # "worker", watcher' = watcher, UNCHANGED mirrorVars
    PROVE  MirrorInv'
<1>1. /\ cursor' = cursor /\ reflected' = reflected /\ projected' = projected /\ wire' = wire /\ sent' = sent
  BY DEF mirrorVars
<1>2. wire = <<>> /\ cursor = NoCursor
  BY DEF MirrorInv
<1>3. MirrorTypeOK'
  BY <1>1 DEF MirrorInv, MirrorTypeOK
<1> QED
  BY <1>1, <1>2, <1>3 DEF MirrorInv

\* What the cursor, the mirror and the frames on the wire are is not changed by
\* the server.
LEMMA WireKeeps ==
    ASSUME SessionInv, MirrorInv, Grows(history, history'), watcher' = watcher,
           cursor' = cursor, reflected' = reflected, projected' = projected, wire' = wire
    PROVE  /\ watcher' # "worker" => wire' = <<>>
           /\ cursor' # NoCursor => /\ watcher' = "worker" /\ Exact(history', cursor')
                                    /\ reflected' = Sight(watcher', history', cursor'.id)
                                    /\ projected' = reflected'
           /\ wire' # <<>> => cursor' # NoCursor
           /\ \A j \in 1..Len(wire') : FrameFollows(watcher', history', Ahead(cursor', wire', j), wire'[j])
<1>1. Chronicle(history) /\ Top(history) \in Nat
  BY SessionFacts
<1>2. ASSUME cursor # NoCursor
      PROVE  watcher = "worker" /\ Exact(history', cursor) /\ reflected = Sight(watcher, history', cursor.id)
             /\ projected = reflected
  <2>1. watcher = "worker" /\ Exact(history, cursor) /\ reflected = Sight(watcher, history, cursor.id)
        /\ projected = reflected
    BY <1>2 DEF MirrorInv
  <2>2. cursor \in Position /\ cursor.id \in 0..Top(history)
    BY <2>1, <1>1, MirrorFacts, PositionTypes DEF Exact
  <2> QED BY <2>1, <2>2, <1>1, ExactGrows, Grown
<1>3. ASSUME NEW j \in 1..Len(wire)
      PROVE  FrameFollows(watcher, history', Ahead(cursor, wire, j), wire[j])
  <2>1. wire # <<>> /\ cursor # NoCursor
    BY DEF MirrorInv
  <2>2. FrameFollows(watcher, history, Ahead(cursor, wire, j), wire[j])
    BY DEF MirrorInv
  <2>3. j \in 1..(Len(wire) + 1) /\ wire[j].pos \in Position
    BY MirrorFacts
  <2>4. Ahead(cursor, wire, j) \in Position /\ Exact(history, Ahead(cursor, wire, j))
    BY <2>1, <2>3, MirrorFacts
  <2> QED BY <2>2, <2>3, <2>4, <1>1, FrameGrows
<1> QED
  BY <1>2, <1>3 DEF MirrorInv

\* Steps of the server, as the mirror sees them.
LEMMA ServerKeeps ==
    ASSUME SessionInv, MirrorInv, Grows(history, history'), watcher' = watcher, UNCHANGED mirrorVars,
           watcher = "worker" => /\ phase' # "anchor" /\ \A i \in 1..Len(pending') : pending'[i].pos.thru = 0,
           watcher = "worker" /\ phase' \in Opened =>
              /\ cursor # NoCursor /\ sent = Ahead(cursor, wire, Len(wire) + 1) /\ Exact(history', pos')
              /\ phase' # "live" => pos' = sent
              /\ phase' = "live" => /\ sent.id <= Place'
                                    /\ Sight(watcher, history', sent.id) = Sight(watcher, history', Place')
    PROVE  MirrorInv'
<1>1. /\ cursor' = cursor /\ reflected' = reflected /\ projected' = projected /\ wire' = wire /\ sent' = sent
  BY DEF mirrorVars
<1>2. MirrorTypeOK'
  BY <1>1 DEF MirrorInv, MirrorTypeOK
<1>3. /\ watcher' # "worker" => wire' = <<>>
      /\ cursor' # NoCursor => /\ watcher' = "worker" /\ Exact(history', cursor')
                               /\ reflected' = Sight(watcher', history', cursor'.id)
                               /\ projected' = reflected'
      /\ wire' # <<>> => cursor' # NoCursor
      /\ \A j \in 1..Len(wire') : FrameFollows(watcher', history', Ahead(cursor', wire', j), wire'[j])
  BY <1>1, WireKeeps
<1> QED
  BY <1>1, <1>2, <1>3 DEF MirrorInv

\* The session of a worker.
LEMMA WorkerSession ==
    ASSUME SessionInv, MirrorInv, watcher = "worker"
    PROVE  /\ phase # "anchor" /\ \A i \in 1..Len(pending) : pending[i].pos.thru = 0
           /\ phase \in Opened =>
                 /\ cursor # NoCursor /\ sent = Ahead(cursor, wire, Len(wire) + 1) /\ Exact(history, pos)
                 /\ Exact(history, sent) /\ sent.id \in 0..Top(history) /\ Reach(history, pos) = pos.id
                 /\ phase # "live" => pos = sent
                 /\ phase = "live" => /\ sent.id <= Place /\ Place \in 0..Top(history)
                                      /\ Sight(watcher, history, sent.id) = Sight(watcher, history, Place)
<1>1. /\ phase # "anchor" /\ \A i \in 1..Len(pending) : pending[i].pos.thru = 0
      /\ phase \in Opened =>
            /\ cursor # NoCursor /\ sent = Ahead(cursor, wire, Len(wire) + 1) /\ Exact(history, pos)
            /\ phase # "live" => pos = sent
            /\ phase = "live" => /\ sent.id <= Place
                                 /\ Sight(watcher, history, sent.id) = Sight(watcher, history, Place)
  BY DEF MirrorInv
<1>2. Chronicle(history) /\ pos \in Position /\ sent \in Position /\ Len(wire) \in Nat /\ Top(history) \in Nat
  BY SessionFacts, MirrorFacts
<1>3. ASSUME phase \in Opened
      PROVE  Exact(history, sent) /\ sent.id \in 0..Top(history) /\ Reach(history, pos) = pos.id
  <2>1. Len(wire) + 1 \in 1..(Len(wire) + 1)
    BY <1>2
  <2>2. Exact(history, sent)
    BY <1>1, <1>3, <2>1, MirrorFacts
  <2>3. sent.id \in 0..Top(history)
    BY <2>2, <1>2, PositionTypes DEF Exact
  <2> QED BY <2>2, <2>3, <1>1, <1>2, <1>3, ExactReach
<1> QED
  BY <1>1, <1>3, PlaceRight

\* The store and the signals do not touch the mirror.
LEMMA StoreKeepsMirror ==
    ASSUME SessionInv, MirrorInv, Grows(history, history'), watcher' = watcher, UNCHANGED mirrorVars,
           phase' = phase, pos' = pos, pending' = pending, Place' = Place
    PROVE  MirrorInv'
<1>1. Chronicle(history) /\ pos \in Position
  BY SessionFacts
<1>2. ASSUME watcher = "worker", phase \in Opened
      PROVE  /\ Exact(history', pos)
             /\ phase = "live" => Sight(watcher, history', sent.id) = Sight(watcher, history', Place)
  <2>1. /\ Exact(history, pos) /\ sent.id \in 0..Top(history)
        /\ phase = "live" => /\ Place \in 0..Top(history)
                             /\ Sight(watcher, history, sent.id) = Sight(watcher, history, Place)
    BY <1>2, WorkerSession
  <2> QED BY <2>1, <1>1, ExactGrows, Grown
<1> QED
  BY <1>2, WorkerSession, ServerKeeps

\* The session ends; what is on the wire stays there.
LEMMA CloseKeepsMirror ==
    ASSUME SessionInv, MirrorInv, NEW as \in {"closed", "expired", "refused"}, Close(as),
           history' = history, watcher' = watcher, UNCHANGED mirrorVars
    PROVE  MirrorInv'
<1>1. Grows(history, history')
  BY DEF Grows
<1>2. phase' \notin Opened /\ phase' # "anchor" /\ pending' = <<>>
  BY DEF Close, Opened
<1> QED
  BY <1>1, <1>2, ServerKeeps

\* The stream ends with the session.
LEMMA CutKeepsMirror ==
    ASSUME SessionInv, MirrorInv, NEW as \in {"closed", "expired", "refused"}, Close(as),
           history' = history, watcher' = watcher, watcher = "worker", wire' = <<>>,
           cursor' \in {cursor, NoCursor}, reflected' = reflected, projected' = projected, sent' = sent
    PROVE  MirrorInv'
<1>1. phase' \notin Opened /\ phase' # "anchor" /\ pending' = <<>>
  BY DEF Close, Opened
<1>2. NoCursor \in Position
  BY DEF NoCursor, Position
<1>3. <<>> \in Seq(Frame \cup Heartbeats)
  OBVIOUS
<1>4. MirrorTypeOK'
  BY <1>2, <1>3 DEF MirrorInv, MirrorTypeOK
<1>5. cursor' # NoCursor => cursor' = cursor
  OBVIOUS
<1> QED
  BY <1>1, <1>4, <1>5 DEF MirrorInv

\* The baseline is read at the cursor.
LEMMA BaselineKeepsMirror ==
    ASSUME SessionInv, MirrorInv, phase \in Opened, phase # "live", phase' \in Opened, pos' = pos, pending' = pending,
           UNCHANGED storeVars, UNCHANGED mirrorVars
    PROVE  MirrorInv'
<1>1. watcher' = watcher /\ history' = history /\ Grows(history, history')
  BY DEF storeVars, Grows
<1>2. pending = <<>>
  BY DEF SessionInv, PageInv
<1>3. Place' = Reach(history, pos)
  BY <1>1, <1>2 DEF Place, PlaceOf
<1>4. ASSUME watcher = "worker"
      PROVE  /\ cursor # NoCursor /\ sent = Ahead(cursor, wire, Len(wire) + 1) /\ Exact(history, pos)
             /\ pos = sent /\ Place' = sent.id /\ sent.id <= Place' /\ phase' # "anchor"
  <2>1. /\ cursor # NoCursor /\ sent = Ahead(cursor, wire, Len(wire) + 1) /\ Exact(history, pos)
        /\ pos = sent /\ Reach(history, pos) = pos.id /\ sent.id \in 0..Top(history)
    BY <1>4, WorkerSession
  <2>2. phase' # "anchor"
    BY DEF Opened
  <2> QED BY <2>1, <2>2, <1>3
<1> QED
  BY <1>1, <1>2, <1>4, ServerKeeps

\* Every step of a session before it is live.
LEMMA ServeKeeps ==
    ASSUME SessionInv, MirrorInv, Serve, UNCHANGED storeVars, breaks' = breaks, UNCHANGED mirrorVars
    PROVE  SessionInv' /\ MirrorInv'
<1>1. SessionInv'
  BY CheckFloorKeeps, ReadCurrentKeeps, ReadTouchedKeeps, ReadRowKeeps, ReadIdentityKeeps,
     AcceptBaselineKeeps DEF Serve
<1>2. \/ Close("expired") \/ Close("refused")
      \/ /\ phase \in Checked \cup {"current"} /\ phase' \in Checked \cup {"live"}
         /\ pos' = pos /\ pending' = pending
  BY DEF Serve, CheckFloor, AfterFloor, ReadCurrent, ReadTouched, ReadRow, ReadIdentity, AcceptBaseline,
         Checked
<1>3. watcher' = watcher /\ history' = history
  BY DEF storeVars
<1> QED
  BY <1>1, <1>2, <1>3, CloseKeepsMirror, BaselineKeepsMirror DEF Opened, Checked

\* Every pull of a live session.
LEMMA PullKeeps ==
    ASSUME SessionInv, MirrorInv, Pull, UNCHANGED storeVars, breaks' = breaks, UNCHANGED mirrorVars
    PROVE  SessionInv' /\ MirrorInv'
<1>1. watcher' = watcher /\ history' = history /\ Grows(history, history')
  BY DEF storeVars, Grows
<1>2. CASE RecvSignal
  <2>1. SessionInv' /\ Place' = Place
    BY <1>2, RecvSignalKeeps
  <2>2. phase' = phase /\ pos' = pos /\ pending' = pending
    BY <1>2 DEF RecvSignal
  <2> QED BY <2>1, <2>2, <1>1, StoreKeepsMirror
<1>3. CASE ReplayOnce /\ PageExpired(Served, Target, pos)
  <2>1. Close("expired")
    BY <1>3 DEF ReplayOnce
  <2>2. SessionInv'
    BY <2>1, CloseKeeps DEF storeVars, SessionInv, SessionTypeOK
  <2> QED BY <2>1, <2>2, <1>1, CloseKeepsMirror
<1>4. CASE ReplayOnce /\ ~PageExpired(Served, Target, pos)
  <2>1. /\ SessionInv'
        /\ Place' \in Reach(history, pos)..Top(history)
        /\ SilentIn(watcher, history, Reach(history, pos), Place')
        /\ pos.thru = 0 =>
              /\ \A i \in 1..Len(pending') : pending'[i].pos.thru = 0
              /\ Exact(history, pos) => Exact(history, pos')
    BY <1>4, ReplayKeeps
  <2>2. phase = "live" /\ phase' = "live" /\ phase \in Opened /\ pending = <<>>
    BY <1>4 DEF ReplayOnce, Opened
  <2>3. Place = Reach(history, pos)
    BY <2>2, PlaceRight
  <2>4. Chronicle(history) /\ Reach(history, pos) \in 0..Top(history) /\ Top(history) \in Nat
    BY SessionFacts
  <2>5. Sight(watcher, history, Place') = Sight(watcher, history, Place)
    BY <2>1, <2>3, <2>4, SightSilent
  <2>6. ASSUME watcher = "worker"
        PROVE  /\ \A i \in 1..Len(pending') : pending'[i].pos.thru = 0
               /\ cursor # NoCursor /\ sent = Ahead(cursor, wire, Len(wire) + 1) /\ Exact(history, pos')
               /\ sent.id <= Place' /\ Sight(watcher, history, sent.id) = Sight(watcher, history, Place')
    <3>1. /\ cursor # NoCursor /\ sent = Ahead(cursor, wire, Len(wire) + 1) /\ Exact(history, pos)
          /\ sent.id \in 0..Top(history)
          /\ sent.id <= Place /\ Sight(watcher, history, sent.id) = Sight(watcher, history, Place)
      BY <2>2, <2>6, WorkerSession
    <3>2. pos.thru = 0
      BY <3>1 DEF Exact
    <3>3. sent.id <= Place'
      BY <3>1, <2>1, <2>3, <2>4
    <3> QED BY <3>1, <3>2, <3>3, <2>1, <2>5
  <2>7. MirrorInv'
    BY <1>1, <2>2, <2>6, ServerKeeps
  <2> QED BY <2>1, <2>7
<1> QED
  BY <1>2, <1>3, <1>4 DEF Pull

\* A list is what is to be seen at its position.
LEMMA ListedRight ==
    ASSUME SessionInv
    PROVE  /\ CurrentPosition(Served) \in Position /\ CurrentPosition(Served).id = Len(Served.log)
           /\ Exact(history, CurrentPosition(Served)) /\ CurrentPosition(Served).rv = Served.rv
           /\ Matching(Served.rows) = Sight(watcher, history, Len(Served.log))
           /\ Matching(Served.rows) \in [Keys -> Row \cup {NoRow}]
           /\ Served.rv \in Nat
<1>1. /\ Chronicle(history) /\ applied \in 1..Len(history) /\ Served = history[applied] /\ Top(history) \in Nat
      /\ Last(history).rv \in Nat /\ WellKept(Served) /\ Len(Served.log) \in 0..Top(history)
  BY SessionFacts
<1>2. Served.rv \in 1..Last(history).rv /\ RowsIn(history, Len(Served.log)) = Served.rows
  BY <1>1, ServedRight
<1>3. Served.rv \in Nat /\ Len(Served.log) \in Nat /\ Served.log \in Seq(Event)
  BY <1>1, DbTypes DEF WellKept
<1>4. Len(Served.log) = 0 => Served.rv <= 1
  BY <1>1, <1>3 DEF WellKept
<1>5. CurrentPosition(Served) = [rv |-> Served.rv, id |-> Len(Served.log), thru |-> 0]
  BY DEF CurrentPosition, At
<1>6. CurrentPosition(Served) \in Position
  BY <1>3, <1>5 DEF Position
<1>7. Exact(history, CurrentPosition(Served))
  BY <1>1, <1>2, <1>3, <1>4, <1>5 DEF Exact
<1>8. Matching(Served.rows) = Sight(watcher, history, Len(Served.log))
  BY <1>2 DEF Matching, Sight, Target, TargetOf, Fits, FitsFor, HasSelector
<1>9. Sight(watcher, history, Len(Served.log)) \in [Keys -> Row \cup {NoRow}]
  BY <1>1, SightType
<1> QED
  BY <1>3, <1>5, <1>6, <1>7, <1>8, <1>9

\* Nothing changed.
LEMMA UnchangedSession ==
    ASSUME SessionInv, UNCHANGED sessionVars, UNCHANGED storeVars, breaks' = breaks
    PROVE  SessionInv' /\ Place' = Place
<1>1. /\ phase' = phase /\ pos' = pos /\ todo' = todo /\ found' = found /\ member' = member
      /\ pending' = pending
      /\ replay' = replay /\ queue' = queue /\ lagged' = lagged
      /\ watcher' = watcher /\ history' = history /\ applied' = applied /\ unpublished' = unpublished
      /\ elections' = elections
  BY DEF sessionVars, storeVars
<1>2. Served' = Served /\ Place' = Place
  BY <1>1 DEF Served, Place
<1> QED
  BY <1>1, <1>2 DEF SessionInv, SessionTypeOK, PageInv, BaselineInv, Unpruned,
                         Candidate, SignalInv

\* The mirror lists: its cursor is the position of the list.
LEMMA MirrorListKeeps ==
    ASSUME SessionInv, MirrorInv, MirrorList, UNCHANGED storeVars
    PROVE  SessionInv' /\ MirrorInv'
<1>1. /\ watcher = "worker" /\ phase = "closed" /\ wire = <<>> /\ wire' = wire /\ sent' = sent
      /\ cursor' = CurrentPosition(Served) /\ reflected' = Matching(Served.rows) /\ projected' = reflected'
      /\ UNCHANGED sessionVars /\ breaks' = breaks
  BY DEF MirrorList
<1>2. SessionInv'
  BY <1>1, UnchangedSession
<1>3. /\ phase' = phase /\ pending' = pending /\ watcher' = watcher /\ history' = history
  BY <1>1 DEF sessionVars, storeVars
<1>4. phase' \notin Opened /\ phase' # "anchor" /\ pending' = <<>>
  BY <1>1, <1>3 DEF SessionInv, PageInv, Opened
<1>5. /\ cursor' \in Position /\ Exact(history, cursor') /\ reflected' = Sight(watcher, history, cursor'.id)
      /\ reflected' \in [Keys -> Row \cup {NoRow}]
  BY <1>1, ListedRight
<1>6. MirrorTypeOK'
  BY <1>1, <1>5 DEF MirrorInv, MirrorTypeOK
<1>7. cursor' # NoCursor
  BY <1>5, ExactCursor
<1>8. MirrorInv'
  BY <1>1, <1>3, <1>4, <1>5, <1>6, <1>7 DEF MirrorInv
<1> QED
  BY <1>2, <1>8

\* The mirror opens a stream at its cursor.
LEMMA MirrorOpenKeeps ==
    ASSUME SessionInv, MirrorInv, MirrorOpen, UNCHANGED storeVars
    PROVE  SessionInv' /\ MirrorInv'
<1>1. /\ watcher = "worker" /\ wire = <<>> /\ cursor # NoCursor /\ sent' = cursor /\ pos' = cursor
      /\ phase = "closed" /\ phase' = "current" /\ replay' = FALSE
      /\ UNCHANGED <<todo, found, member, pending, queue, lagged>>
      /\ cursor' = cursor /\ reflected' = reflected /\ projected' = projected /\ wire' = wire /\ breaks' = breaks
  BY DEF MirrorOpen, Open, HasSelector
<1>2. watcher' = watcher /\ history' = history /\ Grows(history, history')
  BY DEF storeVars, Grows
<1>3. /\ cursor \in Position /\ Exact(history, cursor) /\ Chronicle(history)
      /\ Len(Served.log) \in Nat
  BY <1>1, MirrorFacts, SessionFacts DEF MirrorInv
<1>4. Known(history, cursor) /\ cursor.thru = 0
  BY <1>3, ExactReach DEF Exact
<1>5. SessionInv'
  <2>1. phase' \in {"anchor", "current", "live"} /\ phase' # "live" /\ replay' \in BOOLEAN
        /\ phase \in {"closed", "anchor"}
    BY <1>1
  <2>2. pos' \in Position /\ Known(history, pos') /\ pos'.thru <= Len(Served.log)
    BY <1>1, <1>3, <1>4
  <2> QED BY <2>1, <2>2, <1>1, BeginKeeps
<1>6. pending = <<>> /\ pending' = <<>>
  BY <1>1 DEF SessionInv, PageInv
<1>7. MirrorTypeOK'
  BY <1>1 DEF MirrorInv, MirrorTypeOK
<1>8. sent' = Ahead(cursor', wire', Len(wire') + 1)
  BY <1>1 DEF Ahead
<1>9. MirrorInv'
  BY <1>1, <1>2, <1>3, <1>6, <1>7, <1>8 DEF MirrorInv
<1> QED
  BY <1>5, <1>9

\* A frame is put on the wire.
LEMMA WireGrows ==
    ASSUME SessionInv, MirrorInv, watcher = "worker", phase = "live",
           NEW f \in Frame \cup Heartbeats, FrameFollows(watcher, history, sent, f),
           wire' = Append(wire, f), sent' = f.pos,
           cursor' = cursor, reflected' = reflected, projected' = projected,
           watcher' = watcher, history' = history, phase' = "live", pos' = pos,
           \A i \in 1..Len(pending') : pending'[i].pos.thru = 0,
           f.pos.id <= Place', Sight(watcher, history, f.pos.id) = Sight(watcher, history, Place')
    PROVE  MirrorInv'
<1>1. phase \in Opened /\ Grows(history, history')
  BY DEF Opened, Grows
<1>2. /\ cursor # NoCursor /\ sent = Ahead(cursor, wire, Len(wire) + 1) /\ Exact(history, pos)
  BY <1>1, WorkerSession
<1>3. wire \in Seq(Frame \cup Heartbeats) /\ Len(wire) \in Nat /\ cursor \in Position
  BY MirrorFacts
<1>4. /\ wire' \in Seq(Frame \cup Heartbeats) /\ Len(wire') = Len(wire) + 1 /\ wire'[Len(wire) + 1] = f
      /\ \A j \in 1..Len(wire) : wire'[j] = wire[j]
  BY <1>3
<1>5. f.pos \in Position
  BY DEF Frame, Heartbeats
<1>6. MirrorTypeOK'
  BY <1>4, <1>5 DEF MirrorInv, MirrorTypeOK
<1>7. ASSUME NEW j \in 1..Len(wire') PROVE FrameFollows(watcher, history, Ahead(cursor, wire', j), wire'[j])
  <2>1. j \in 1..(Len(wire) + 1)
    BY <1>4
  <2>2. Ahead(cursor, wire', j) = Ahead(cursor, wire, j)
    <3>1. CASE j = 1
      BY <3>1 DEF Ahead
    <3>2. CASE j # 1
      <4>1. j - 1 \in 1..Len(wire)
        BY <3>2, <2>1, <1>3
      <4> QED BY <4>1, <3>2, <1>4 DEF Ahead
    <3> QED BY <3>1, <3>2
  <2>3. CASE j = Len(wire) + 1
    BY <2>2, <2>3, <1>2, <1>4
  <2>4. CASE j # Len(wire) + 1
    <3>1. j \in 1..Len(wire)
      BY <2>4, <2>1, <1>3
    <3>2. FrameFollows(watcher, history, Ahead(cursor, wire, j), wire[j])
      BY <3>1 DEF MirrorInv
    <3> QED BY <3>1, <3>2, <2>2, <1>4
  <2> QED BY <2>3, <2>4
<1>8. sent' = Ahead(cursor, wire', Len(wire') + 1)
  BY <1>3, <1>4 DEF Ahead
<1>9. cursor # NoCursor => /\ watcher = "worker" /\ Exact(history, cursor)
                           /\ reflected = Sight(watcher, history, cursor.id) /\ projected = reflected
  BY DEF MirrorInv
<1>10. phase' \in Opened
  BY DEF Opened
<1> QED
  BY <1>2, <1>6, <1>7, <1>8, <1>9, <1>10 DEF MirrorInv

\* A heartbeat carries the position of the last frame.
LEMMA HeartbeatKeeps ==
    ASSUME SessionInv, MirrorInv, Heartbeat, UNCHANGED storeVars
    PROVE  SessionInv' /\ MirrorInv'
<1> DEFINE f == [type |-> "BOOKMARK", pos |-> sent]
<1>1. /\ watcher = "worker" /\ phase = "live" /\ wire' = Append(wire, f)
      /\ cursor' = cursor /\ reflected' = reflected /\ projected' = projected /\ sent' = sent
      /\ UNCHANGED sessionVars /\ breaks' = breaks
  BY DEF Heartbeat
<1>2. SessionInv' /\ Place' = Place
  BY <1>1, UnchangedSession
<1>3. /\ phase' = phase /\ pos' = pos /\ pending' = pending /\ watcher' = watcher /\ history' = history
  BY <1>1 DEF sessionVars, storeVars
<1>4. phase \in Opened
  BY <1>1 DEF Opened
<1>5. /\ \A i \in 1..Len(pending) : pending[i].pos.thru = 0
      /\ Exact(history, sent) /\ sent.id <= Place
      /\ Sight(watcher, history, sent.id) = Sight(watcher, history, Place)
  BY <1>1, <1>4, WorkerSession
<1>6. sent \in Position
  BY MirrorFacts
<1>7. f \in Heartbeats /\ f.pos = sent /\ f.type = "BOOKMARK"
  BY <1>6 DEF Heartbeats
<1> HIDE DEF f
<1>8. FrameFollows(watcher, history, sent, f)
  BY <1>5, <1>7 DEF FrameFollows
<1>9. MirrorInv'
  BY <1>1, <1>2, <1>3, <1>5, <1>7, <1>8, WireGrows
<1> QED
  BY <1>2, <1>9

\* Nothing to send.
LEMMA NoFrames == SetToSeq({}) = <<>>
<1>1. Cardinality({}) = 0
  BY FS_EmptySet
<1>2. <<>> \in [1..0 -> {}] /\ \A f \in [1..0 -> {}] : f = <<>>
  OBVIOUS
<1>3. IsInjective(<<>>)
  BY DEF IsInjective
<1>4. SetToSeq({}) = CHOOSE f \in [1..0 -> {}] : IsInjective(f)
  BY <1>1 DEF SetToSeq
<1> QED
  BY <1>2, <1>3, <1>4

\* One frame to send.
LEMMA OneFrame == ASSUME NEW x PROVE SetToSeq({x}) = <<x>>
<1>1. Cardinality({x}) = 1
  BY FS_Singleton
<1>2. <<x>> \in [1..1 -> {x}] /\ \A f \in [1..1 -> {x}] : f = <<x>>
  OBVIOUS
<1>3. IsInjective(<<x>>)
  BY DEF IsInjective
<1>4. SetToSeq({x}) = CHOOSE f \in [1..1 -> {x}] : IsInjective(f)
  BY <1>1 DEF SetToSeq
<1> QED
  BY <1>2, <1>3, <1>4

\* The server sends what prepare made of the next event.
LEMMA MirrorSendKeeps ==
    ASSUME SessionInv, MirrorInv, MirrorSend, UNCHANGED storeVars
    PROVE  SessionInv' /\ MirrorInv'
<1> DEFINE e == pending[1]
           i == e.pos.id
<1>1. /\ watcher = "worker" /\ Pop /\ wire' = wire \o SetToSeq(Told)
      /\ sent' = IF Told = {} THEN sent ELSE e.pos
      /\ cursor' = cursor /\ reflected' = reflected /\ projected' = projected /\ breaks' = breaks
  BY DEF MirrorSend, LastPosition
<1>2. /\ SessionInv' /\ Place' \in i..Top(history)
      /\ Sight(watcher, history, Place') = Sight(watcher, history, i)
  BY <1>1, PopKeeps
<1>3. /\ phase = "live" /\ pending # <<>> /\ pending' = Tail(pending) /\ phase' = "live" /\ pos' = pos
      /\ watcher' = watcher /\ history' = history /\ phase \in Opened /\ phase' \in Opened
      /\ Grows(history, history')
  BY <1>1 DEF Pop, storeVars, Opened, Grows
<1>4. /\ \A j \in 1..Len(pending) : pending[j].pos.thru = 0
      /\ cursor # NoCursor /\ sent = Ahead(cursor, wire, Len(wire) + 1) /\ Exact(history, pos)
      /\ sent.id <= Place /\ sent.id \in 0..Top(history)
      /\ Sight(watcher, history, sent.id) = Sight(watcher, history, Place)
  BY <1>1, <1>3, WorkerSession
<1>5. /\ e \in Frame /\ e.pos \in Position /\ i \in 1..Top(history) /\ i - 1 \in 0..Top(history)
      /\ Place = i - 1 /\ Known(history, e.pos)
  BY <1>1, NextEvent, ZenonT(30)
<1>6. pending \in Seq(Frame) /\ Top(history) \in Nat /\ Chronicle(history)
  BY SessionFacts
<1>7. \A j \in 1..Len(pending') : pending'[j].pos.thru = 0
  <2>1. /\ Len(pending) \in Nat /\ Len(pending') = Len(pending) - 1
        /\ \A j \in 1..Len(pending') : pending'[j] = pending[j + 1]
    BY <1>3, <1>6
  <2>2. \A j \in 1..Len(pending') : j + 1 \in 1..Len(pending)
    BY <2>1
  <2> QED BY <2>1, <2>2, <1>4
<1>8. Exact(history, e.pos)
  <2>1. e.pos.thru = 0
    BY <1>3, <1>4, <1>6
  <2> QED BY <2>1, <1>5 DEF Exact, Known
<1>9. sent.id < i /\ i <= Place' /\ Place' \in Nat /\ i \in Nat
  BY <1>2, <1>4, <1>5, <1>6, SMTT(30)
<1>10. wire \in Seq(Frame \cup Heartbeats)
  BY MirrorFacts
<1> HIDE DEF e, i
<1>11. CASE Told = {} /\ Sight(watcher, history, i) = Sight(watcher, history, i - 1)
  <2>1. wire' = wire /\ sent' = sent
    BY <1>1, <1>10, <1>11, NoFrames
  <2>2. UNCHANGED mirrorVars
    BY <2>1, <1>1 DEF mirrorVars
  <2>3. sent.id <= Place' /\ Sight(watcher, history, sent.id) = Sight(watcher, history, Place')
    BY <1>2, <1>4, <1>5, <1>9, <1>11
  <2>4. MirrorInv'
    BY <2>2, <2>3, <1>3, <1>4, <1>7, ServerKeeps
  <2> QED BY <2>4, <1>2
<1>12. ASSUME NEW f \in Frame, Told = {f}, f.pos = e.pos, f.key = e.key, TellsOf(watcher, history, i - 1, f)
       PROVE  MirrorInv'
  <2>1. SetToSeq(Told) = <<f>>
    BY <1>12, OneFrame
  <2>2. wire' = Append(wire, f) /\ sent' = f.pos
    BY <2>1, <1>1, <1>10, <1>12
  <2>3. f.type # "BOOKMARK" /\ f.pos.id = i
    BY <1>12 DEF Frame, i
  <2>4. TellsOf(watcher, history, sent.id, f)
    BY <1>4, <1>5, <1>12 DEF TellsOf
  <2>5. FrameFollows(watcher, history, sent, f)
    BY <2>3, <2>4, <1>8, <1>9, <1>12 DEF FrameFollows
  <2>6. f \in Frame \cup Heartbeats
    OBVIOUS
  <2> QED BY <2>2, <2>3, <2>5, <2>6, <1>1, <1>2, <1>3, <1>7, <1>9, WireGrows
<1>13. \/ Told = {} /\ Sight(watcher, history, i) = Sight(watcher, history, i - 1)
       \/ \E f \in Frame : /\ Told = {f} /\ f.pos = e.pos /\ f.key = e.key
                           /\ TellsOf(watcher, history, i - 1, f)
  BY <1>1, ToldRight DEF e, i
<1> QED
  BY <1>2, <1>11, <1>12, <1>13

\* The next frame follows the cursor.
LEMMA NextFrame ==
    ASSUME SessionInv, MirrorInv, wire # <<>>, NEW f, f = wire[1]
    PROVE  /\ 1 \in 1..Len(wire) /\ f \in Frame \cup Heartbeats /\ f.pos \in Position
           /\ cursor # NoCursor /\ watcher = "worker" /\ cursor \in Position
           /\ Exact(history, cursor) /\ Exact(history, f.pos)
           /\ FrameFollows(watcher, history, cursor, f)
           /\ PermitsSuccessor(cursor, f.pos)
<1>1. wire \in Seq(Frame \cup Heartbeats) /\ cursor \in Position
  BY MirrorFacts
<1>2. 1 \in 1..Len(wire)
  BY <1>1
<1>3. f \in Frame \cup Heartbeats /\ f.pos \in Position /\ Exact(history, f.pos)
  BY <1>2, MirrorFacts
<1>4. cursor # NoCursor /\ watcher = "worker" /\ Exact(history, cursor)
  BY DEF MirrorInv
<1>5. FrameFollows(watcher, history, Ahead(cursor, wire, 1), f)
  BY <1>2 DEF MirrorInv
<1>6. FrameFollows(watcher, history, cursor, f)
  BY <1>5 DEF Ahead
<1>7. cursor.id \in Nat /\ f.pos.id \in Nat
  BY <1>1, <1>3, PositionTypes
<1>8. PermitsSuccessor(cursor, f.pos)
  <2>1. CASE f.type = "BOOKMARK"
    BY <2>1, <1>6, <1>7 DEF FrameFollows, PermitsSuccessor
  <2>2. CASE f.type # "BOOKMARK"
    BY <2>2, <1>3, <1>4, <1>6, <1>7 DEF FrameFollows, PermitsSuccessor, Exact
  <2> QED BY <2>1, <2>2
<1> QED
  BY <1>1, <1>2, <1>3, <1>4, <1>6, <1>8

\* The mirror after an event that follows its cursor: the store applies it and
\* the reflector accepts it as a transition.
LEMMA AppliedRight ==
    ASSUME SessionInv, NEW f \in Frame, NEW m \in 0..Top(history), NEW rows, rows = Sight(watcher, history, m),
           TellsOf(watcher, history, m, f), watcher = "worker"
    PROVE  /\ Commits(rows, f) = Sight(watcher, history, f.pos.id)
           /\ Transition(rows, f) # {}
           /\ Observed(rows, CHOOSE g \in Transition(rows, f) : TRUE) = Sight(watcher, history, f.pos.id)
<1> DEFINE k == f.key
           seen == IF f.type = "DELETED" THEN NoRow ELSE f.row
           prior == rows[k]
<1>1. /\ f.type \in {"ADDED", "MODIFIED", "DELETED"} /\ k \in Keys /\ f.row \in Row
      /\ f = [type |-> f.type, key |-> f.key, row |-> f.row, pos |-> f.pos]
  BY DEF Frame
<1>2. rows \in [Keys -> Row \cup {NoRow}]
  BY SessionFacts, SightType
<1>3. /\ Sight(watcher, history, f.pos.id) = [rows EXCEPT ![k] = seen]
      /\ f.type = "DELETED" => prior # NoRow /\ prior.uid = f.row.uid
      /\ f.type # "DELETED" => FitsFor(watcher, f.row)
  BY DEF TellsOf
<1>4. \A r : Fits(r) <=> FitsFor(watcher, r)
  BY DEF Fits, FitsFor, HasSelector
<1>5. CASE f.type = "DELETED"
  <2>1. Commits(rows, f) = [rows EXCEPT ![k] = seen]
    BY <1>5 DEF Commits
  <2>2. Transition(rows, f) = {f}
    BY <1>3, <1>5 DEF Transition
  <2>3. (CHOOSE g \in Transition(rows, f) : TRUE) = f
    BY <2>2
  <2>4. Observed(rows, f) = [rows EXCEPT ![k] = seen]
    BY <1>3, <1>5 DEF Observed
  <2> QED BY <2>1, <2>2, <2>3, <2>4, <1>3
<1>6. CASE f.type # "DELETED"
  <2> DEFINE ty == IF prior = NoRow THEN "ADDED" ELSE f.type
             g == [f EXCEPT !.type = ty]
  <2>1. Commits(rows, f) = [rows EXCEPT ![k] = seen]
    BY <1>3, <1>4, <1>6 DEF Commits
  <2>2. Transition(rows, f) = {g}
    BY <1>3, <1>4, <1>6 DEF Transition
  <2>3. (CHOOSE x \in Transition(rows, f) : TRUE) = g
    BY <2>2
  <2>4. ty # "DELETED"
    BY <1>6
  <2> HIDE DEF ty
  <2>5. g.type # "DELETED" /\ g.key = k /\ g.row = f.row
    BY <2>4, <1>1
  <2> HIDE DEF g
  <2>6. Observed(rows, g) = [rows EXCEPT ![k] = f.row]
    BY <2>5 DEF Observed
  <2> QED BY <2>1, <2>2, <2>3, <2>6, <1>3, <1>6
<1> QED
  BY <1>5, <1>6

\* The mirror applies a frame and moves its cursor.
LEMMA MirrorApplyKeeps ==
    ASSUME SessionInv, MirrorInv, MirrorApply, UNCHANGED storeVars
    PROVE  SessionInv' /\ MirrorInv'
<1> DEFINE f == wire[1]
<1>1. wire # <<>>
  BY DEF MirrorApply
<1>2. /\ 1 \in 1..Len(wire) /\ f \in Frame \cup Heartbeats /\ f.pos \in Position
      /\ cursor # NoCursor /\ watcher = "worker" /\ cursor \in Position
      /\ Exact(history, cursor) /\ Exact(history, f.pos)
      /\ FrameFollows(watcher, history, cursor, f) /\ PermitsSuccessor(cursor, f.pos)
  BY <1>1, NextFrame
<1>3. /\ cursor' = f.pos /\ wire' = Tail(wire) /\ UNCHANGED sessionVars /\ sent' = sent /\ breaks' = breaks
      /\ f.type = "BOOKMARK" => reflected' = reflected /\ projected' = projected
      /\ f.type # "BOOKMARK" =>
            /\ projected' = Commits(projected, f)
            /\ reflected' = IF Transition(projected, f) = {} THEN reflected
                            ELSE Observed(reflected, CHOOSE g \in Transition(projected, f) : TRUE)
  BY <1>2 DEF MirrorApply
<1>4. SessionInv' /\ Place' = Place
  BY <1>3, UnchangedSession
<1>5. /\ phase' = phase /\ pos' = pos /\ pending' = pending /\ watcher' = watcher /\ history' = history
  BY <1>3 DEF sessionVars, storeVars
<1>6. reflected = Sight(watcher, history, cursor.id) /\ projected = reflected
  BY <1>2 DEF MirrorInv
<1>7. Chronicle(history) /\ cursor.id \in 0..Top(history) /\ f.pos.id \in 0..Top(history)
  BY <1>2, SessionFacts, PositionTypes DEF Exact
<1> HIDE DEF f
<1>8. reflected' = Sight(watcher, history, f.pos.id) /\ projected' = reflected'
  <2>1. CASE f.type = "BOOKMARK"
    <3>1. f.pos = cursor
      BY <2>1, <1>2 DEF FrameFollows
    <3> QED BY <2>1, <3>1, <1>3, <1>6
  <2>2. CASE f.type # "BOOKMARK"
    <3>1. f \in Frame
      BY <2>2, <1>2 DEF Heartbeats
    <3>2. TellsOf(watcher, history, cursor.id, f)
      BY <2>2, <1>2 DEF FrameFollows
    <3>3. /\ Commits(reflected, f) = Sight(watcher, history, f.pos.id)
          /\ Transition(reflected, f) # {}
          /\ Observed(reflected, CHOOSE g \in Transition(reflected, f) : TRUE) = Sight(watcher, history, f.pos.id)
      BY <3>1, <3>2, <1>2, <1>6, <1>7, AppliedRight
    <3> QED BY <2>2, <3>3, <1>3, <1>6
  <2> QED BY <2>1, <2>2
<1>9. Sight(watcher, history, f.pos.id) \in [Keys -> Row \cup {NoRow}]
  BY <1>7, SightType
<1>10. wire \in Seq(Frame \cup Heartbeats) /\ Len(wire) \in Nat
  BY MirrorFacts
<1>11. /\ wire' \in Seq(Frame \cup Heartbeats) /\ Len(wire') = Len(wire) - 1
       /\ \A j \in 1..Len(wire') : wire'[j] = wire[j + 1]
  BY <1>1, <1>3, <1>10
<1>12. MirrorTypeOK'
  BY <1>2, <1>3, <1>8, <1>9, <1>11 DEF MirrorInv, MirrorTypeOK
<1>13. ASSUME NEW j \in 1..(Len(wire') + 1) PROVE Ahead(cursor', wire', j) = Ahead(cursor, wire, j + 1)
  <2>1. CASE j = 1
    BY <2>1, <1>3 DEF Ahead, f
  <2>2. CASE j # 1
    <3>1. j - 1 \in 1..Len(wire') /\ (j - 1) + 1 = j /\ (j + 1) - 1 = j /\ j + 1 # 1
      BY <2>2, <1>10, <1>11
    <3> QED BY <2>2, <3>1, <1>11 DEF Ahead
  <2> QED BY <2>1, <2>2
<1>14. ASSUME NEW j \in 1..Len(wire')
       PROVE  FrameFollows(watcher, history, Ahead(cursor', wire', j), wire'[j])
  <2>1. j + 1 \in 1..Len(wire) /\ j \in 1..(Len(wire') + 1)
    BY <1>10, <1>11
  <2>2. FrameFollows(watcher, history, Ahead(cursor, wire, j + 1), wire[j + 1])
    BY <2>1 DEF MirrorInv
  <2> QED BY <2>1, <2>2, <1>11, <1>13
<1>15. cursor' # NoCursor
  BY <1>2, <1>3, ExactCursor
<1>16. phase \in Opened => sent = Ahead(cursor', wire', Len(wire') + 1)
  <2>1. Len(wire') + 1 \in 1..(Len(wire') + 1) /\ (Len(wire') + 1) + 1 = Len(wire) + 1
    BY <1>1, <1>10, <1>11
  <2> QED BY <2>1, <1>2, <1>13, WorkerSession
<1>17. MirrorInv'
  BY <1>2, <1>3, <1>4, <1>5, <1>8, <1>12, <1>14, <1>15, <1>16, WorkerSession DEF MirrorInv
<1> QED
  BY <1>4, <1>17

------------------------------------------------------------------------------
(* Every step.                                                               *)

\* Steps of the apply task.
LEMMA AppliesKeeps ==
    ASSUME WatchInv, Applies
    PROVE  WatchInv'
<1>1. SessionInv /\ MirrorInv /\ ApiBounds
  BY DEF WatchInv
<1>2. CASE CatchUp /\ UNCHANGED <<sessionVars, breaks, mirrorVars, apiVars>>
  <2> DEFINE next == history[applied + 1]
             L == Len(Served.log)
  <2>1. /\ applied < Len(history) /\ unpublished = {} /\ applied' = applied + 1
        /\ unpublished' = {next.log[i].key : i \in (L + 1)..Len(next.log)}
        /\ watcher' = watcher /\ history' = history /\ elections' = elections
        /\ UNCHANGED sessionVars /\ breaks' = breaks /\ UNCHANGED mirrorVars /\ UNCHANGED apiVars
    BY <1>2 DEF CatchUp
  <2>2. /\ history \in Seq(Db) /\ applied \in 1..Len(history) /\ Chronicle(history) /\ Served = history[applied]
        /\ WellKept(Served) /\ Top(history) \in Nat
    BY <1>1, SessionFacts
  <2>3. applied + 1 \in 1..Len(history) /\ applied < applied + 1
    BY <2>1, <2>2
  <2>4. Served' = next
    BY <2>1 DEF Served
  <2>5. L <= Len(next.log) /\ \A k \in Keys : Served.floor[k].id <= next.floor[k].id
    BY <2>2, <2>3 DEF Chronicle, Lineage, Extends
  <2>6. /\ L \in Nat /\ Len(next.log) \in 0..Top(history)
        /\ \A n \in 1..Len(next.log) : next.log[n] = Log(history)[n]
    <3>1. L \in Nat
      BY <2>2, DbTypes DEF WellKept
    <3> QED BY <3>1, <2>2, <2>3, ServedRight
  <2>7. ASSUME NEW i \in (L + 1)..Len(next.log)
        PROVE  next.log[i].key = Log(history)[i].key /\ next.log[i].key \in Keys
    <3>1. i \in 1..Len(next.log) /\ i \in 1..Top(history)
      BY <2>2, <2>6
    <3> QED BY <3>1, <2>2, <2>6, Tops
  <2>8. unpublished' \subseteq Keys /\ Announced
    BY <2>1, <2>4, <2>5, <2>7 DEF Announced
  <2>9. SessionInv' /\ Place' = Place
    BY <2>1, <2>2, <2>3, <2>8, <1>1, StoreMoves DEF Grows
  <2>10. MirrorInv'
    BY <2>1, <2>9, <1>1, StoreKeepsMirror DEF sessionVars, Grows
  <2> QED BY <2>1, <2>9, <2>10, <1>1 DEF WatchInv, ApiBounds, ApiTypeOK, apiVars
<1>3. CASE Publish /\ UNCHANGED <<breaks, mirrorVars, apiVars>>
  <2>1. SessionInv' /\ Place' = Place
    BY <1>1, <1>3, PublishKeeps
  <2>2. phase' = phase /\ pos' = pos /\ pending' = pending /\ watcher' = watcher /\ history' = history
    BY <1>3 DEF Publish
  <2>3. MirrorInv'
    BY <2>1, <2>2, <1>1, <1>3, StoreKeepsMirror DEF Grows
  <2> QED BY <2>1, <2>2, <2>3, <1>1, <1>3 DEF WatchInv, ApiBounds, ApiTypeOK, apiVars
<1> QED
  BY <1>2, <1>3 DEF Applies

\* A command, by its effect on the last database.
LEMMA CommandKeeps ==
    ASSUME WatchInv, NEW next, NEW keys, keys \subseteq Keys, Commit(next, keys), Succeeds(Latest, next),
           \A i \in (Len(Latest.log) + 1)..Len(next.log) : next.log[i].key \in keys,
           UNCHANGED <<sessionVars, breaks, mirrorVars, apiVars>>
    PROVE  WatchInv'
<1>1. SessionInv /\ MirrorInv /\ ApiBounds
  BY DEF WatchInv
<1>2. /\ applied = Len(history) /\ unpublished = {} /\ history' = Append(history, next)
      /\ applied' = applied + 1 /\ unpublished' = keys /\ watcher' = watcher /\ elections' = elections
  BY DEF Commit, Leads
<1>3. Chronicle(history) /\ history \in Seq(Db) /\ Served = history[applied] /\ applied \in 1..Len(history)
  BY <1>1, SessionFacts
<1>4. Latest = Last(history) /\ Latest = Served
  BY <1>2, <1>3, Tops DEF Latest
<1>5. Grows(history, history')
  BY <1>2, <1>4 DEF Grows
<1>6. Chronicle(history') /\ Last(history).rv <= Last(history').rv /\ Last(history').rv \in Nat
  BY <1>3, <1>5, Grown
<1>7. next \in Db /\ history' \in Seq(Db)
  <2>1. next \in Db
    BY DEF Succeeds, WellKept
  <2> QED BY <2>1, <1>2, <1>3
<1>8. Len(history') = Len(history) + 1 /\ history'[Len(history) + 1] = next /\ applied' \in 1..Len(history')
  BY <1>2, <1>3, <1>7
<1>9. Served' = next
  BY <1>2, <1>8 DEF Served
<1>10. Last(history') = next
  BY <1>6, <1>8, Tops
<1>11. Announced
  BY <1>2, <1>4, <1>9, <1>10 DEF Announced, Log, Succeeds
<1>12. SessionInv' /\ Place' = Place
  BY <1>1, <1>2, <1>5, <1>7, <1>8, <1>11, StoreMoves
<1>13. MirrorInv'
  BY <1>1, <1>2, <1>5, <1>12, StoreKeepsMirror DEF sessionVars
<1>14. ApiBounds'
  <2>1. Last(history).rv \in Nat /\ clientRv \in Nat /\ delivered \in Nat
    BY <1>1, SessionFacts DEF ApiBounds, ApiTypeOK
  <2> QED BY <2>1, <1>1, <1>6 DEF ApiBounds, ApiTypeOK, apiVars
<1> QED
  BY <1>12, <1>13, <1>14 DEF WatchInv

\* What a command writes on a key.
LEMMA WritesRight ==
    ASSUME SessionInv, NEW k \in Keys, NEW e \in Puts(k) \cup Deletes(k)
    PROVE  Apt(Latest, e) /\ e \in Event /\ e.key = k
<1>1. WellKept(Latest)
  BY SessionFacts, Tops DEF Latest
<1>2. CASE e \in Puts(k)
  <2>1. PICK fits \in BOOLEAN : e = Put(Latest, k, fits)
    BY <1>2 DEF Puts
  <2> QED BY <2>1, <1>1, PutApt DEF Apt
<1>3. CASE e \in Deletes(k)
  <2>1. e = Delete(Latest, k) /\ Latest.rows[k] # NoRow
    BY <1>3 DEF Deletes
  <2> QED BY <2>1, <1>1, DeleteApt DEF Apt
<1> QED
  BY <1>2, <1>3

\* The events of a command are new in the log, about different keys.
LEMMA LoggedForm ==
    ASSUME SessionInv, NEW ks \in Seq(Keys), ks # <<>>, IsInjective(ks), NEW events,
           DOMAIN events = DOMAIN ks, events = [n \in DOMAIN events |-> events[n]],
           \A n \in DOMAIN ks : events[n].key = ks[n],
           \A n \in DOMAIN ks : \E k \in Keys : events[n] \in Puts(k) \cup Deletes(k),
           NEW next, next = Logged(Latest, events)
    PROVE  /\ Succeeds(Latest, next) /\ Range(ks) \subseteq Keys
           /\ \A i \in (Len(Latest.log) + 1)..Len(next.log) : next.log[i].key \in Range(ks)
<1>1. WellKept(Latest) /\ Len(Latest.log) \in Nat
  BY SessionFacts, Tops DEF Latest, Top
<1>2. Len(ks) \in Nat \ {0} /\ DOMAIN ks = 1..Len(ks)
  OBVIOUS
<1>3. \A n \in 1..Len(ks) : Apt(Latest, events[n]) /\ events[n] \in Event
  BY <1>2, WritesRight
<1>4. events \in [1..Len(ks) -> Event]
  BY <1>2, <1>3
<1>5. events \in Seq(Event) /\ Len(events) = Len(ks) /\ events # <<>>
  BY <1>2, <1>4
<1>6. \A m, n \in 1..Len(events) : m # n => events[m].key # events[n].key
  <2>1. \A m, n \in DOMAIN ks : ks[m] = ks[n] => m = n
    BY DEF IsInjective
  <2> QED BY <2>1, <1>2, <1>5
<1>7. /\ Succeeds(Latest, next) /\ Len(next.log) = Len(Latest.log) + Len(ks)
      /\ \A i \in 1..Len(ks) : next.log[Len(Latest.log) + i] = events[i]
  <2>1. \A n \in 1..Len(events) : Apt(Latest, events[n])
    BY <1>3, <1>5
  <2>2. /\ Succeeds(Latest, Logged(Latest, events))
        /\ Len(Logged(Latest, events).log) = Len(Latest.log) + Len(events)
        /\ \A i \in 1..Len(events) : Logged(Latest, events).log[Len(Latest.log) + i] = events[i]
    BY <2>1, <1>1, <1>5, <1>6, LoggedSucceeds, Zenon
  <2> QED BY <2>2, <1>5
<1>8. ASSUME NEW i \in (Len(Latest.log) + 1)..Len(next.log) PROVE next.log[i].key \in Range(ks)
  <2>1. i - Len(Latest.log) \in 1..Len(ks) /\ Len(Latest.log) + (i - Len(Latest.log)) = i
    BY <1>1, <1>2, <1>7
  <2>2. next.log[i].key = ks[i - Len(Latest.log)]
    BY <2>1, <1>2, <1>7
  <2> QED BY <2>1, <2>2, <1>2 DEF Range
<1>9. Range(ks) \subseteq Keys
  BY <1>2 DEF Range
<1> QED
  BY <1>7, <1>8, <1>9

\* Every command appends a successor of the last database, and its signal is
\* about the keys of its events.
LEMMA CommandForm ==
    ASSUME SessionInv, Commands
    PROVE  \E next : \E keys \in SUBSET Keys :
              /\ Commit(next, keys) /\ Succeeds(Latest, next)
              /\ \A i \in (Len(Latest.log) + 1)..Len(next.log) : next.log[i].key \in keys
<1>1. ASSUME NEW k \in Keys, NEW e \in Puts(k) \cup Deletes(k), Commit(Logged(Latest, <<e>>), {k})
      PROVE  \E next : \E keys \in SUBSET Keys :
                /\ Commit(next, keys) /\ Succeeds(Latest, next)
                /\ \A i \in (Len(Latest.log) + 1)..Len(next.log) : next.log[i].key \in keys
  <2>1. e.key = k /\ e \in Event
    BY WritesRight
  <2>2. /\ <<k>> \in Seq(Keys) /\ <<k>> # <<>> /\ IsInjective(<<k>>) /\ DOMAIN <<e>> = DOMAIN <<k>>
        /\ Range(<<k>>) = {k}
    BY DEF IsInjective, Range
  <2>3. /\ <<e>> = [n \in DOMAIN <<e>> |-> <<e>>[n]]
        /\ \A n \in DOMAIN <<k>> : <<e>>[n].key = <<k>>[n]
        /\ \A n \in DOMAIN <<k>> : \E j \in Keys : <<e>>[n] \in Puts(j) \cup Deletes(j)
    BY <2>1
  <2>4. /\ Succeeds(Latest, Logged(Latest, <<e>>)) /\ Range(<<k>>) \subseteq Keys
        /\ \A i \in (Len(Latest.log) + 1)..Len(Logged(Latest, <<e>>).log) :
              Logged(Latest, <<e>>).log[i].key \in Range(<<k>>)
    BY <2>2, <2>3, LoggedForm
  <2> QED BY <2>2, <2>4, <1>1
<1>2. ASSUME NEW k \in Keys, PutResource(k) \/ DeleteResource(k)
      PROVE  \E e \in Puts(k) \cup Deletes(k) : Commit(Logged(Latest, <<e>>), {k})
  BY <1>2 DEF PutResource, DeleteResource
<1>3. ASSUME NEW ks \in Batches, ApplyResourceBatch(ks)
      PROVE  \E next : \E keys \in SUBSET Keys :
                /\ Commit(next, keys) /\ Succeeds(Latest, next)
                /\ \A i \in (Len(Latest.log) + 1)..Len(next.log) : next.log[i].key \in keys
  <2> DEFINE Writes == UNION {Puts(k) \cup Deletes(k) : k \in Range(ks)}
  <2>1. ks \in Seq(Keys) /\ ks # <<>> /\ IsInjective(ks)
    BY SessionAssumption
  <2>2. PICK events \in [DOMAIN ks -> Writes] :
           /\ \A n \in DOMAIN ks : events[n].key = ks[n]
           /\ Commit(Logged(Latest, events), Range(ks))
    BY <1>3 DEF ApplyResourceBatch
  <2>3. Range(ks) \subseteq Keys
    BY <2>1 DEF Range
  <2>4. \A n \in DOMAIN ks : \E k \in Keys : events[n] \in Puts(k) \cup Deletes(k)
    BY <2>2, <2>3
  <2>5. DOMAIN events = DOMAIN ks /\ events = [n \in DOMAIN events |-> events[n]]
    BY <2>2
  <2>6. /\ Succeeds(Latest, Logged(Latest, events))
        /\ \A i \in (Len(Latest.log) + 1)..Len(Logged(Latest, events).log) :
              Logged(Latest, events).log[i].key \in Range(ks)
    BY <2>1, <2>2, <2>4, <2>5, LoggedForm
  <2> QED BY <2>2, <2>3, <2>6
<1>4. ASSUME GcHistory
      PROVE  \E next : \E keys \in SUBSET Keys :
                /\ Commit(next, keys) /\ Succeeds(Latest, next)
                /\ \A i \in (Len(Latest.log) + 1)..Len(next.log) : next.log[i].key \in keys
  <2>1. WellKept(Latest) /\ Latest \in Db /\ Len(Latest.log) \in Nat
    BY SessionFacts, Tops DEF Latest, Top
  <2>2. GcCandidates(Latest) # {} /\ Commit(GcWatchEvents(Latest), {})
    BY <1>4 DEF GcHistory
  <2>3. Succeeds(Latest, GcWatchEvents(Latest))
    BY <2>1, <2>2, GcSucceeds
  <2>4. GcWatchEvents(Latest).log = Latest.log
    BY <2>1 DEF GcWatchEvents, Db
  <2>5. \A i \in (Len(Latest.log) + 1)..Len(GcWatchEvents(Latest).log) :
           GcWatchEvents(Latest).log[i].key \in {}
    BY <2>1, <2>4
  <2> QED BY <2>2, <2>3, <2>5
<1> QED
  BY <1>1, <1>2, <1>3, <1>4 DEF Commands

\* Committed commands, retention included.
LEMMA CommandsKeep ==
    ASSUME WatchInv, Commands
    PROVE  WatchInv'
<1>1. SessionInv /\ UNCHANGED <<sessionVars, breaks, mirrorVars, apiVars>>
  BY DEF WatchInv, Commands
<1> QED
  BY <1>1, CommandForm, CommandKeeps

\* A request by resourceVersion is anchored: the position filters the events
\* already in the log by resourceVersion and takes every later one.
LEMMA AnchorKeeps ==
    ASSUME SessionInv, MirrorInv, ReadAnchor, UNCHANGED storeVars, breaks' = breaks, UNCHANGED mirrorVars
    PROVE  SessionInv' /\ MirrorInv'
<1>1. /\ phase = "anchor"
      /\ pos' = IF pos.rv = 0 THEN CurrentPosition(Served)
                ELSE [rv |-> pos.rv, id |-> 0, thru |-> Len(Served.log)]
      /\ phase' = IF watcher # "open" THEN "current" ELSE "live"
      /\ replay' = ~(watcher # "open")
      /\ UNCHANGED <<todo, found, member, pending, queue, lagged>>
  BY DEF ReadAnchor, HasSelector
<1>2. watcher' = watcher
  BY DEF storeVars
<1>3. watcher # "worker"
  BY <1>1, WorkerSession
<1>4. /\ Len(Served.log) \in 0..Top(history) /\ Top(history) \in Nat /\ pos \in Position /\ Known(history, pos)
      /\ Chronicle(history) /\ Last(history).rv \in Nat
  BY SessionFacts
<1>5. pos' \in Position /\ Known(history, pos') /\ pos'.thru <= Len(Served.log)
  <2>1. CASE pos.rv = 0
    <3>1. /\ pos' = CurrentPosition(Served) /\ pos' \in Position /\ Exact(history, pos')
      BY <2>1, <1>1, ListedRight
    <3>2. Known(history, pos') /\ pos'.thru = 0
      BY <3>1, <1>4, ExactReach DEF Exact
    <3> QED BY <3>1, <3>2, <1>4
  <2>2. CASE pos.rv # 0
    <3> DEFINE L == Len(Served.log)
    <3>1. pos' = [rv |-> pos.rv, id |-> 0, thru |-> L] /\ L \in Nat /\ pos.rv \in Nat
      BY <2>2, <1>1, <1>4, PositionTypes
    <3>2. L <= Top(history)
      BY <1>4
    <3> HIDE DEF L
    <3>3. pos' \in Position /\ pos'.rv = pos.rv /\ pos'.id = 0 /\ pos'.thru = L
      BY <3>1 DEF Position
    <3> QED BY <3>1, <3>2, <3>3, <1>4 DEF Known, L
  <2> QED BY <2>1, <2>2
<1>6. SessionInv'
  <2>1. phase' \in {"anchor", "current", "live"} /\ (phase' = "live" => replay' /\ watcher = "open")
        /\ replay' \in BOOLEAN /\ phase \in {"closed", "anchor"}
    BY <1>1
  <2> QED BY <2>1, <1>1, <1>5, BeginKeeps
<1>7. MirrorInv'
  BY <1>2, <1>3, NotWorker
<1> QED
  BY <1>6, <1>7

\* An event is delivered to an API client.
LEMMA ApiDeliverKeeps ==
    ASSUME WatchInv, ApiDeliver, UNCHANGED storeVars, UNCHANGED mirrorVars
    PROVE  WatchInv'
<1>1. SessionInv /\ MirrorInv /\ ApiBounds
  BY DEF WatchInv
<1>2. watcher # "worker" /\ Pop /\ breaks' = breaks /\ baseline' = baseline /\ phase = "live" /\ pending # <<>>
  BY DEF ApiDeliver, Pop
<1>3. watcher' = watcher /\ history' = history
  BY DEF storeVars
<1>4. SessionInv' /\ MirrorInv'
  BY <1>1, <1>2, <1>3, PopKeeps, NotWorker
<1> DEFINE e == pending[1]
           i == e.pos.id
<1>5. /\ e.pos \in Position /\ i \in 1..Top(history) /\ e.row \in Row
      /\ Log(history)[i] = [type |-> e.type, key |-> e.key, row |-> e.row] /\ e.key \in Keys
  BY <1>1, <1>2, NextEvent
<1>6. Chronicle(history) /\ Top(history) \in Nat /\ Last(history).rv \in Nat
  BY <1>1, SessionFacts
<1>7. e.row.rv \in Nat /\ e.row.rv <= Last(history).rv
  <2>1. Log(history)[i].row = e.row
    BY <1>5
  <2> QED BY <2>1, <1>5, <1>6, Tops
<1>8. i \in Nat /\ through \in Nat /\ clientRv \in Nat /\ delivered \in Nat
      /\ clientView \in [Keys -> Row \cup {NoRow}]
      /\ clientRv <= Last(history).rv /\ delivered <= Last(history).rv
  BY <1>1, <1>5, <1>6 DEF ApiBounds, ApiTypeOK
<1>9. through' \in Nat
  BY <1>8 DEF ApiDeliver, Larger
<1>10. /\ clientRv' \in Nat /\ delivered' \in Nat /\ clientView' \in [Keys -> Row \cup {NoRow}]
       /\ clientRv' <= Last(history).rv /\ delivered' <= Last(history).rv
  <2>1. CASE Told = {}
    BY <2>1, <1>8 DEF ApiDeliver
  <2>2. CASE Told # {}
    <3>1. PICK f \in Frame : Told = {f} /\ f.key = e.key /\ f.row.rv <= e.row.rv
      BY <2>2, <1>1, <1>2, ToldRight
    <3>2. (CHOOSE g \in Told : TRUE) = f
      BY <3>1
    <3>3. /\ delivered' = Larger(delivered, f.row.rv) /\ clientRv' = f.row.rv
          /\ clientView' = [clientView EXCEPT ![f.key] = IF f.type = "DELETED" THEN NoRow ELSE f.row]
      BY <2>2, <3>2 DEF ApiDeliver
    <3>4. f.row \in Row /\ f.row.rv \in Nat /\ f.key \in Keys
      BY DEF Frame, Row
    <3>5. f.row.rv <= Last(history).rv
      BY <3>1, <3>4, <1>6, <1>7
    <3>6. delivered' \in Nat /\ delivered' <= Last(history).rv
      BY <3>3, <3>4, <3>5, <1>8 DEF Larger
    <3>7. clientView' \in [Keys -> Row \cup {NoRow}]
      BY <3>3, <3>4, <1>8
    <3> QED BY <3>3, <3>4, <3>5, <3>6, <3>7
  <2> QED BY <2>1, <2>2
<1>11. ApiBounds'
  BY <1>1, <1>2, <1>3, <1>9, <1>10 DEF ApiBounds, ApiTypeOK
<1> QED
  BY <1>4, <1>11 DEF WatchInv

\* Steps of the stream task.
LEMMA StreamsKeep ==
    ASSUME WatchInv, Streams
    PROVE  WatchInv'
<1>1. SessionInv /\ MirrorInv /\ ApiBounds
  BY DEF WatchInv
<1>2. watcher' = watcher /\ history' = history /\ UNCHANGED storeVars
  BY DEF Streams, storeVars
<1>3. CASE (Serve \/ PullAfterInitial) /\ UNCHANGED <<storeVars, breaks, mirrorVars, apiVars>>
  <2>1. SessionInv' /\ MirrorInv'
    BY <1>1, <1>3, ServeKeeps, PullKeeps DEF PullAfterInitial
  <2>2. ApiBounds'
    BY <1>1, <1>2, <1>3 DEF ApiBounds, ApiTypeOK, apiVars
  <2> QED BY <2>1, <2>2 DEF WatchInv
<1>4. CASE MirrorSend /\ UNCHANGED <<storeVars, apiVars>>
  <2>1. SessionInv' /\ MirrorInv'
    BY <1>1, <1>4, MirrorSendKeeps
  <2>2. ApiBounds'
    BY <1>1, <1>2, <1>4 DEF ApiBounds, ApiTypeOK, apiVars
  <2> QED BY <2>1, <2>2 DEF WatchInv
<1>5. CASE ApiAnchor /\ UNCHANGED <<storeVars, mirrorVars>>
  <2>1. SessionInv' /\ MirrorInv'
    BY <1>1, <1>5, AnchorKeeps DEF ApiAnchor
  <2>2. through' \in Nat
    <3>1. Len(Served.log) \in Nat /\ through \in Nat
      BY <1>1, SessionFacts DEF ApiBounds, ApiTypeOK
    <3> QED BY <3>1, <1>5 DEF ApiAnchor
  <2>3. ApiBounds'
    BY <2>2, <1>1, <1>2, <1>5 DEF ApiBounds, ApiTypeOK, ApiAnchor
  <2> QED BY <2>1, <2>3 DEF WatchInv
<1>6. CASE ApiInitial /\ UNCHANGED <<storeVars, mirrorVars>>
  <2>1. /\ baseline # NoBaseline /\ clientView' = baseline /\ clientRv' = delivered /\ through' = pos.id
        /\ baseline' = NoBaseline /\ delivered' = delivered /\ breaks' = breaks /\ UNCHANGED sessionVars
    BY <1>6 DEF ApiInitial
  <2>2. SessionInv' /\ Place' = Place
    BY <2>1, <1>1, <1>6, UnchangedSession
  <2>3. MirrorInv'
    BY <2>1, <2>2, <1>1, <1>2, <1>6, StoreKeepsMirror DEF sessionVars, Grows
  <2>4. pos.id \in Nat
    BY <1>1, SessionFacts, PositionTypes
  <2>5. ApiBounds'
    BY <2>1, <2>4, <1>1, <1>2 DEF ApiBounds, ApiTypeOK
  <2> QED BY <2>2, <2>3, <2>5 DEF WatchInv
<1>7. CASE ApiDeliver /\ UNCHANGED <<storeVars, mirrorVars>>
  BY <1>7, ApiDeliverKeeps
<1> QED
  BY <1>3, <1>4, <1>5, <1>6, <1>7 DEF Streams

\* An API client opens a watch.
LEMMA ClientWatchKeeps ==
    ASSUME WatchInv, ClientWatch, UNCHANGED storeVars, UNCHANGED mirrorVars
    PROVE  WatchInv'
<1>1. SessionInv /\ MirrorInv /\ ApiBounds
  BY DEF WatchInv
<1>2. /\ watcher # "worker" /\ clientRv' = clientRv /\ clientView' = clientView /\ through' = through
      /\ breaks' = breaks
  BY DEF ClientWatch
<1>3. watcher' = watcher /\ history' = history
  BY DEF storeVars
<1>4. MirrorInv'
  BY <1>1, <1>2, <1>3, NotWorker
<1>5. /\ CurrentPosition(Served) \in Position /\ Exact(history, CurrentPosition(Served))
      /\ Matching(Served.rows) \in [Keys -> Row \cup {NoRow}] /\ Served.rv \in Nat
  BY <1>1, ListedRight
<1>6. /\ Chronicle(history) /\ Top(history) \in Nat /\ Last(history).rv \in Nat /\ Len(Served.log) \in Nat
      /\ applied \in 1..Len(history) /\ Served = history[applied]
  BY <1>1, SessionFacts
<1>7. Served.rv <= Last(history).rv
  BY <1>6, ServedRight
<1>8. clientRv \in Nat /\ clientRv <= Last(history).rv
  BY <1>1 DEF ApiBounds, ApiTypeOK
<1>9. ASSUME NEW rv \in Nat, rv <= Last(history).rv
      PROVE  At(rv, 0) \in Position /\ Known(history, At(rv, 0)) /\ At(rv, 0).thru = 0
  <2>1. At(rv, 0) = [rv |-> rv, id |-> 0, thru |-> 0]
    BY DEF At
  <2> QED BY <2>1, <1>6, <1>9 DEF Position, Known
<1>10. ASSUME NEW start \in Position, NEW positioned \in BOOLEAN, Known(history, start), start.thru = 0,
              Open(start, positioned)
       PROVE  SessionInv'
  <2>1. /\ phase = "closed" /\ pos' = start /\ replay' = (positioned /\ ~HasSelector)
        /\ phase' = IF ~positioned THEN "anchor" ELSE IF HasSelector THEN "current" ELSE "live"
        /\ UNCHANGED <<todo, found, member, pending, queue, lagged>>
    BY <1>10 DEF Open
  <2>2. phase' \in {"anchor", "current", "live"} /\ (phase' = "live" => replay' /\ watcher = "open")
        /\ replay' \in BOOLEAN /\ phase \in {"closed", "anchor"}
    BY <2>1 DEF HasSelector
  <2>3. pos' \in Position /\ Known(history, pos') /\ pos'.thru <= Len(Served.log)
    BY <2>1, <1>6, <1>10
  <2> QED BY <2>1, <2>2, <2>3, <1>1, <1>2, BeginKeeps
<1>11. CASE clientRv > 0 /\ Fresh(clientRv) /\ delivered' = clientRv /\ Open(At(clientRv, 0), FALSE)
            /\ UNCHANGED baseline
  <2>1. SessionInv'
    BY <1>8, <1>9, <1>10, <1>11
  <2>2. ApiBounds'
    BY <1>1, <1>2, <1>3, <1>8, <1>11 DEF ApiBounds, ApiTypeOK
  <2> QED BY <2>1, <2>2, <1>4 DEF WatchInv
<1>12. CASE delivered' = Served.rv /\ baseline' = Matching(Served.rows) /\ Open(CurrentPosition(Served), TRUE)
  <2>1. Known(history, CurrentPosition(Served)) /\ CurrentPosition(Served).thru = 0
    BY <1>5, <1>6, ExactReach DEF Exact
  <2>2. SessionInv'
    BY <2>1, <1>5, <1>10, <1>12
  <2>3. ApiBounds'
    BY <1>1, <1>2, <1>3, <1>5, <1>7, <1>12 DEF ApiBounds, ApiTypeOK
  <2> QED BY <2>2, <2>3, <1>4 DEF WatchInv
<1>13. CASE delivered' = 0 /\ Open(At(0, 0), FALSE) /\ UNCHANGED baseline
  <2>1. SessionInv'
    <3>1. 0 \in Nat /\ 0 <= Last(history).rv
      BY <1>6
    <3>2. At(0, 0) \in Position /\ Known(history, At(0, 0)) /\ At(0, 0).thru = 0
      BY <3>1, <1>9
    <3> QED BY <3>2, <1>10, <1>13
  <2>2. ApiBounds'
    BY <1>1, <1>2, <1>3, <1>6, <1>13 DEF ApiBounds, ApiTypeOK
  <2> QED BY <2>1, <2>2, <1>4 DEF WatchInv
<1> QED
  BY <1>11, <1>12, <1>13 DEF ClientWatch

\* Steps of the consumer.
LEMMA ConsumesKeep ==
    ASSUME WatchInv, Consumes
    PROVE  WatchInv'
<1>1. SessionInv /\ MirrorInv /\ ApiBounds
  BY DEF WatchInv
<1>2. watcher' = watcher /\ history' = history /\ UNCHANGED storeVars /\ applied' = applied
      /\ unpublished' = unpublished /\ elections' = elections
  BY DEF Consumes, storeVars
<1>3. CASE (MirrorList \/ MirrorOpen \/ MirrorRejected \/ MirrorApply) /\ UNCHANGED <<storeVars, apiVars>>
  <2>1. ApiBounds'
    BY <1>1, <1>2, <1>3 DEF ApiBounds, ApiTypeOK, apiVars
  <2>2. CASE MirrorRejected
    <3>1. /\ watcher = "worker" /\ wire = <<>> /\ wire' = wire /\ Close("closed")
          /\ cursor' \in {cursor, NoCursor} /\ reflected' = reflected /\ projected' = projected
          /\ sent' = sent /\ breaks' = breaks
      BY <2>2 DEF MirrorRejected
    <3>2. SessionInv'
      BY <3>1, <1>1, <1>2, CloseKeeps DEF SessionInv, SessionTypeOK
    <3>3. MirrorInv'
      BY <3>1, <1>1, <1>2, CutKeepsMirror
    <3> QED BY <2>1, <3>2, <3>3 DEF WatchInv
  <2> QED BY <1>1, <1>3, <2>1, <2>2, MirrorListKeeps, MirrorOpenKeeps, MirrorApplyKeeps DEF WatchInv
<1>4. CASE ClientList /\ UNCHANGED <<storeVars, mirrorVars>>
  <2>1. /\ clientRv' = Served.rv /\ clientView' = Matching(Served.rows) /\ through' = Len(Served.log)
        /\ delivered' = delivered /\ baseline' = baseline /\ breaks' = breaks /\ UNCHANGED sessionVars
    BY <1>4 DEF ClientList
  <2>2. SessionInv' /\ Place' = Place
    BY <2>1, <1>1, <1>2, UnchangedSession
  <2>3. MirrorInv'
    BY <2>1, <2>2, <1>1, <1>2, <1>4, StoreKeepsMirror DEF sessionVars, Grows
  <2>4. /\ Matching(Served.rows) \in [Keys -> Row \cup {NoRow}] /\ Served.rv \in Nat
        /\ Len(Served.log) \in Nat /\ Served.rv <= Last(history).rv
    BY <1>1, ListedRight, SessionFacts, ServedRight
  <2>5. ApiBounds'
    BY <2>1, <2>4, <1>1, <1>2 DEF ApiBounds, ApiTypeOK
  <2> QED BY <2>2, <2>3, <2>5 DEF WatchInv
<1>5. CASE ClientWatch /\ UNCHANGED <<storeVars, mirrorVars>>
  BY <1>5, ClientWatchKeeps
<1>6. CASE ClientRejected /\ UNCHANGED <<storeVars, mirrorVars>>
  <2>1. /\ clientRv' \in {0, clientRv} /\ baseline' = NoBaseline /\ Close("closed")
        /\ clientView' = clientView /\ through' = through /\ delivered' = delivered /\ breaks' = breaks
    BY <1>6 DEF ClientRejected
  <2>2. SessionInv'
    BY <2>1, <1>1, <1>2, CloseKeeps DEF SessionInv, SessionTypeOK
  <2>3. MirrorInv'
    BY <2>1, <1>1, <1>2, <1>6, CloseKeepsMirror
  <2>4. ApiBounds'
    <3>1. Last(history).rv \in Nat
      BY <1>1, SessionFacts
    <3>2. clientRv' \in Nat /\ clientRv' <= Last(history).rv
      BY <2>1, <3>1, <1>1 DEF ApiBounds, ApiTypeOK
    <3> QED BY <2>1, <3>2, <1>1, <1>2 DEF ApiBounds, ApiTypeOK
  <2> QED BY <2>2, <2>3, <2>4 DEF WatchInv
<1> QED
  BY <1>3, <1>4, <1>5, <1>6 DEF Consumes

\* Heartbeats and bookmarks.
LEMMA TicksKeep ==
    ASSUME WatchInv, Ticks
    PROVE  WatchInv'
<1>1. SessionInv /\ MirrorInv /\ ApiBounds
  BY DEF WatchInv
<1>2. watcher' = watcher /\ history' = history /\ UNCHANGED storeVars
  BY DEF Ticks, storeVars
<1>3. CASE Heartbeat /\ UNCHANGED <<storeVars, apiVars>>
  <2>1. ApiBounds'
    BY <1>1, <1>2, <1>3 DEF ApiBounds, ApiTypeOK, apiVars
  <2> QED BY <2>1, <1>1, <1>3, HeartbeatKeeps DEF WatchInv
<1>4. CASE Bookmark /\ UNCHANGED <<storeVars, mirrorVars>>
  <2>1. /\ clientRv' \in {Served.rv, delivered} /\ clientView' = clientView /\ through' = through
        /\ delivered' = delivered /\ baseline' = baseline /\ breaks' = breaks /\ UNCHANGED sessionVars
    BY <1>4 DEF Bookmark, BookmarkRv
  <2>2. SessionInv' /\ Place' = Place
    BY <2>1, <1>1, <1>2, UnchangedSession
  <2>3. MirrorInv'
    BY <2>1, <2>2, <1>1, <1>2, <1>4, StoreKeepsMirror DEF sessionVars, Grows
  <2>4. Served.rv \in Nat /\ Served.rv <= Last(history).rv
    BY <1>1, ListedRight, SessionFacts, ServedRight
  <2>5. clientRv' \in Nat /\ clientRv' <= Last(history).rv
    BY <2>1, <2>4, <1>1 DEF ApiBounds, ApiTypeOK
  <2>6. ApiBounds'
    BY <2>1, <2>5, <1>1, <1>2 DEF ApiBounds, ApiTypeOK
  <2> QED BY <2>2, <2>3, <2>6 DEF WatchInv
<1> QED
  BY <1>3, <1>4 DEF Ticks

\* Failovers, broken streams and timeouts.
LEMMA FaultsKeep ==
    ASSUME WatchInv, Faults
    PROVE  WatchInv'
<1>1. SessionInv /\ MirrorInv /\ ApiBounds
  BY DEF WatchInv
<1>2. elections \in Nat /\ breaks \in Nat /\ unpublished \subseteq Keys /\ applied \in 1..Len(history)
  BY <1>1 DEF SessionInv, SessionTypeOK
<1>3. CASE /\ Failover /\ baseline' = NoBaseline
           /\ UNCHANGED <<breaks, mirrorVars, clientRv, clientView, through, delivered>>
  <2>1. /\ elections' = elections + 1 /\ applied' \in 1..Len(history) /\ unpublished' = {} /\ Close("closed")
        /\ watcher' = watcher /\ history' = history
    BY <1>3 DEF Failover
  <2>2. SessionInv'
    BY <2>1, <1>1, <1>2, <1>3, CloseKeeps
  <2>3. MirrorInv'
    BY <2>1, <1>1, <1>3, CloseKeepsMirror
  <2>4. ApiBounds'
    BY <2>1, <1>1, <1>3 DEF ApiBounds, ApiTypeOK
  <2> QED BY <2>2, <2>3, <2>4 DEF WatchInv
<1>4. CASE MirrorBreak /\ UNCHANGED <<storeVars, apiVars>>
  <2>1. /\ watcher = "worker" /\ breaks' = breaks + 1 /\ wire' = <<>> /\ Close("closed") /\ cursor' = cursor
        /\ reflected' = reflected /\ projected' = projected /\ sent' = sent
    BY <1>4 DEF MirrorBreak, ResumeCursor
  <2>2. /\ watcher' = watcher /\ history' = history /\ applied' = applied /\ unpublished' = unpublished
        /\ elections' = elections
    BY <1>4 DEF storeVars
  <2>3. SessionInv'
    BY <2>1, <2>2, <1>1, <1>2, CloseKeeps
  <2>4. MirrorInv'
    BY <2>1, <2>2, <1>1, CutKeepsMirror
  <2>5. ApiBounds'
    BY <2>2, <1>1, <1>4 DEF ApiBounds, ApiTypeOK, apiVars
  <2> QED BY <2>3, <2>4, <2>5 DEF WatchInv
<1>5. CASE ClientBreak /\ UNCHANGED <<storeVars, mirrorVars>>
  <2>1. /\ breaks' = breaks + 1 /\ Close("closed") /\ baseline' = NoBaseline
        /\ clientRv' = clientRv /\ clientView' = clientView /\ through' = through /\ delivered' = delivered
    BY <1>5 DEF ClientBreak
  <2>2. /\ watcher' = watcher /\ history' = history /\ applied' = applied /\ unpublished' = unpublished
        /\ elections' = elections
    BY <1>5 DEF storeVars
  <2>3. SessionInv'
    BY <2>1, <2>2, <1>1, <1>2, CloseKeeps
  <2>4. MirrorInv'
    BY <2>1, <2>2, <1>1, <1>5, CloseKeepsMirror
  <2>5. ApiBounds'
    BY <2>1, <2>2, <1>1 DEF ApiBounds, ApiTypeOK
  <2> QED BY <2>3, <2>4, <2>5 DEF WatchInv
<1> QED
  BY <1>3, <1>4, <1>5 DEF Faults

\* The initial states.
LEMMA WatchStarts == Init => WatchInv
<1> SUFFICES ASSUME Init PROVE WatchInv
  OBVIOUS
<1>1. SessionInv
  <2>1. /\ watcher \in Watchers /\ history = <<EmptyDb>> /\ applied = 1 /\ unpublished = {} /\ elections = 0
        /\ phase = "closed" /\ pos = At(0, 0) /\ todo = {} /\ found = NoRow /\ member = NoRows
        /\ pending = <<>> /\ replay = FALSE
        /\ queue = <<>> /\ lagged = FALSE /\ breaks = 0
    BY DEF Init, SessionInit
  <2>2. Chronicle(history)
    BY <2>1, ChronicleStarts
  <2>3. history \in Seq(Db) /\ Len(history) = 1
    BY <2>1, <2>2 DEF Chronicle, Lineage
  <2>4. pos \in Position /\ pos.id = 0 /\ pos.rv = 0 /\ pos.thru = 0
    BY <2>1 DEF At, Position
  <2>5. Known(history, pos)
    BY <2>2, <2>4, Tops DEF Known
  <2>6. <<>> \in Seq(Frame) /\ <<>> \in Seq(BOOLEAN)
    OBVIOUS
  <2>7. pending \in Seq(Frame) /\ queue \in Seq(BOOLEAN)
    BY <2>1, <2>6, Zenon
  <2>8. SessionTypeOK
    <3>1. member \in [Keys -> Row \cup {NoRow}] /\ todo \subseteq Keys /\ found \in Row \cup {NoRow}
      BY <2>1, NoRowsType
    <3>2. replay \in BOOLEAN /\ lagged \in BOOLEAN /\ phase \in SessionPhases
      BY <2>1 DEF SessionPhases
    <3>3. applied \in 1..Len(history) /\ unpublished \subseteq Keys /\ elections \in Nat /\ breaks \in Nat
      BY <2>1, <2>3
    <3> QED BY <3>1, <3>2, <3>3, <2>1, <2>3, <2>4, <2>7 DEF SessionTypeOK
  <2>9. PageInv /\ BaselineInv /\ SignalInv
    BY <2>1 DEF PageInv, BaselineInv, Checked, SignalInv
  <2>10. phase \notin Opened
    BY <2>1 DEF Opened
  <2> QED BY <2>2, <2>5, <2>8, <2>9, <2>10 DEF SessionInv
<1>2. MirrorInv
  <2>1. cursor = NoCursor /\ sent = NoCursor /\ reflected = NoRows /\ projected = NoRows /\ wire = <<>>
        /\ phase = "closed" /\ pending = <<>>
    BY DEF Init, MirrorInit, SessionInit
  <2>2. NoCursor \in Position
    BY DEF NoCursor, Position
  <2>3. <<>> \in Seq(Frame \cup Heartbeats)
    OBVIOUS
  <2>4. MirrorTypeOK
    BY <2>1, <2>2, <2>3, NoRowsType DEF MirrorTypeOK
  <2>5. phase \notin Opened
    BY <2>1 DEF Opened
  <2> QED BY <2>1, <2>4, <2>5 DEF MirrorInv
<1>3. ApiBounds
  <2>1. Last(history).rv \in Nat
    BY <1>1, SessionFacts
  <2> QED BY <2>1, NoRowsType DEF ApiBounds, ApiTypeOK, Init, ApiInit
<1> QED
  BY <1>1, <1>2, <1>3 DEF WatchInv

\* The invariant holds in every reachable state, whatever the page limit, the
\* retention, the capacity of the signal channel and the number of faults.
THEOREM WatchInvariant == Spec => []WatchInv
<1>1. Init => WatchInv
  BY WatchStarts
<1>2. WatchInv /\ [Next]_vars => WatchInv'
  <2> SUFFICES ASSUME WatchInv, [Next]_vars PROVE WatchInv'
    OBVIOUS
  <2>1. CASE UNCHANGED vars
    <3>1. SessionInv /\ MirrorInv /\ ApiBounds
      BY DEF WatchInv
    <3>2. /\ UNCHANGED sessionVars /\ UNCHANGED storeVars /\ breaks' = breaks /\ UNCHANGED mirrorVars
          /\ UNCHANGED apiVars
      BY <2>1 DEF vars
    <3>3. SessionInv' /\ Place' = Place
      BY <3>1, <3>2, UnchangedSession
    <3>4. MirrorInv'
      BY <3>1, <3>2, <3>3, StoreKeepsMirror DEF sessionVars, storeVars, Grows
    <3>5. ApiBounds'
      BY <3>1, <3>2 DEF ApiBounds, ApiTypeOK, apiVars, storeVars
    <3> QED BY <3>3, <3>4, <3>5 DEF WatchInv
  <2>2. CASE Next
    BY <2>2, AppliesKeeps, StreamsKeep, ConsumesKeep, TicksKeep, CommandsKeep, FaultsKeep DEF Next
  <2> QED BY <2>1, <2>2
<1> QED
  BY <1>1, <1>2, PTL DEF Spec

------------------------------------------------------------------------------
(* The properties.                                                           *)

\* The terms of the properties are those of the invariant.
LEMMA SeenAfter ==
    ASSUME SessionInv
    PROVE  /\ Latest = Last(history) /\ Target = TargetOf(watcher)
           /\ \A p : Prefix(p) = Reach(history, p)
           /\ \A n : Matching(RowsAfter(n)) = Sight(watcher, history, n)
           /\ Matching(Latest.rows) = Sight(watcher, history, Top(history))
<1>1. Chronicle(history)
  BY SessionFacts
<1>2. Latest = Last(history)
  BY <1>1, Tops DEF Latest
<1>3. \A p : Prefix(p) = Reach(history, p)
  BY <1>2 DEF Prefix, Reach, Upto
<1>4. \A n : RowsAfter(n) = RowsIn(history, n)
  BY <1>2 DEF RowsAfter, RowsIn
<1>5. Target = TargetOf(watcher)
  BY DEF Target, TargetOf
<1>6. \A rows : Matching(rows) =
         [k \in Keys |-> IF k \in TargetOf(watcher) /\ FitsFor(watcher, rows[k]) THEN rows[k] ELSE NoRow]
  BY <1>5 DEF Matching, Fits, HasSelector, FitsFor
<1>7. \A n : Matching(RowsAfter(n)) = Sight(watcher, history, n)
  BY <1>4, <1>6 DEF Sight
<1>8. RowsIn(history, Top(history)) = Latest.rows
  BY <1>1, <1>2, Tops
<1>9. Matching(Latest.rows) = Sight(watcher, history, Top(history))
  BY <1>6, <1>8 DEF Sight
<1> QED
  BY <1>2, <1>3, <1>5, <1>7, <1>9

\* Every variable of the store, the session and its consumers has its type.
THEOREM TypesKept == Spec => []TypeOK
<1>1. WatchInv => TypeOK
  BY DEF WatchInv, SessionInv, MirrorInv, ApiBounds, TypeOK
<1> QED
  BY <1>1, WatchInvariant, PTL

\* The membership a session builds from separate statements, between any two of
\* which commands are applied and history is pruned, is what matched at its
\* place in the log from the first page on that does not come out expired
\* (open_session, replay_once, SelectorMembership).
THEOREM MembershipKept == Spec => []MembershipFaithful
<1>1. ASSUME WatchInv PROVE MembershipFaithful
  <2> SUFFICES ASSUME phase = "live", HasSelector, pending # <<>> \/ ~replay, NEW k \in Target
               PROVE  member[k].uid =
                        Matching(RowsAfter(IF pending = <<>> THEN Prefix(pos) ELSE pending[1].pos.id - 1))[k].uid
    BY DEF MembershipFaithful
  <2>1. SessionInv
    BY <1>1 DEF WatchInv
  <2>2. Place = IF pending = <<>> THEN Prefix(pos) ELSE pending[1].pos.id - 1
    BY <2>1, SeenAfter DEF Place, PlaceOf
  <2>3. k \in TargetOf(watcher) /\ watcher # "open"
    BY <2>1, SeenAfter DEF HasSelector
  <2>4. Tracks(watcher, history, member[k], k, Place)
    BY <2>1, <2>3 DEF SessionInv, BaselineInv
  <2>5. member[k].uid = Sight(watcher, history, Place)[k].uid
    BY <2>4 DEF Tracks
  <2> QED BY <2>1, <2>2, <2>5, SeenAfter
<1> QED
  BY <1>1, WatchInvariant, PTL

\* A worker shows the Pods of its node as they were at its cursor, after any
\* number of lists, resumed streams, failovers and lost frames.
THEOREM MirrorExact == Spec => []MirrorMatchesCursor
<1>1. ASSUME WatchInv PROVE MirrorMatchesCursor
  <2> SUFFICES ASSUME cursor # NoCursor PROVE reflected = Matching(RowsAfter(Prefix(cursor)))
    BY DEF MirrorMatchesCursor
  <2>1. SessionInv /\ MirrorInv
    BY <1>1 DEF WatchInv
  <2>2. cursor \in Position /\ Exact(history, cursor) /\ reflected = Sight(watcher, history, cursor.id)
    BY <2>1, MirrorFacts DEF MirrorInv
  <2>3. Prefix(cursor) = cursor.id
    BY <2>1, <2>2, ExactReach, SessionFacts, SeenAfter
  <2> QED BY <2>1, <2>2, <2>3, SeenAfter
<1> QED
  BY <1>1, WatchInvariant, PTL

\* advance_after_apply never refuses a frame.
THEOREM StreamNeverRefused == Spec => []FramesFollowCursor
<1>1. ASSUME WatchInv PROVE FramesFollowCursor
  BY <1>1, NextFrame DEF WatchInv, FramesFollowCursor
<1> QED
  BY <1>1, WatchInvariant, PTL

\* A worker whose stream is idle shows the store: no dropped, coalesced or
\* early signal leaves it behind.
THEOREM QuietMirrorCurrent == Spec => [](watcher = "worker" => QuietMeansCurrent)
<1>1. ASSUME WatchInv, watcher = "worker" PROVE QuietMeansCurrent
  <2> SUFFICES ASSUME AtRest PROVE reflected = Matching(Latest.rows)
    BY <1>1 DEF QuietMeansCurrent, View
  <2>1. SessionInv /\ MirrorInv
    BY <1>1 DEF WatchInv
  <2>2. /\ phase = "live" /\ pending = <<>> /\ ~replay /\ queue = <<>> /\ ~lagged /\ unpublished = {}
        /\ applied = Len(history) /\ wire = <<>>
    BY DEF AtRest, Quiet
  <2>3. Chronicle(history) /\ Top(history) \in Nat /\ Reach(history, pos) \in 0..Top(history)
    BY <2>1, SessionFacts
  <2>4. Len(Served.log) = Top(history)
    BY <2>2, <2>3, Tops DEF Served, Top
  <2>5. SilentIn(watcher, history, Reach(history, pos), Top(history))
    <3>1. ~ \E i \in 1..Len(queue) : queue[i]
      BY <2>2
    <3> QED BY <2>1, <2>2, <2>3, <2>4, <3>1 DEF SessionInv, SignalInv
  <2>6. Sight(watcher, history, Top(history)) = Sight(watcher, history, Reach(history, pos))
    BY <2>3, <2>5, SightSilent
  <2>7. Place = Reach(history, pos)
    BY <2>1, <2>2, PlaceRight
  <2>8. cursor # NoCursor /\ sent = Ahead(cursor, wire, Len(wire) + 1)
        /\ Sight(watcher, history, sent.id) = Sight(watcher, history, Place)
        /\ reflected = Sight(watcher, history, cursor.id)
    BY <1>1, <2>1, <2>2 DEF MirrorInv, Opened
  <2>9. sent = cursor
    BY <2>2, <2>8 DEF Ahead
  <2> QED BY <2>1, <2>6, <2>7, <2>8, <2>9, SeenAfter
<1> QED
  BY <1>1, WatchInvariant, PTL
==============================================================================
