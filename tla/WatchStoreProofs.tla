-------------------------- MODULE WatchStoreProofs ---------------------------
(*****************************************************************************)
(* Theorems about the watch store: what a position stands for, what          *)
(* retention leaves of the log after it, what a page and a reconstructed     *)
(* baseline hold, for every history of committed commands.                   *)
(*****************************************************************************)
EXTENDS WatchStore, FiniteSetTheorems, WellFoundedInduction, TLAPS

\* A database whose log numbers its events by resourceVersions that never fall
\* (those of a batch share one), and which has kept exactly the events above the floors of their scopes.
WellKept(d) ==
    /\ d \in Db /\ d.rv >= 1
    /\ d.log = <<>> => d.rv = 1
    /\ d.kept = {i \in 1..Len(d.log) : i > d.floor[d.log[i].key].id}
    /\ \A k \in Keys :
          \/ d.floor[k] = [rv |-> 0, id |-> 0]
          \/ d.floor[k].id \in 1..Len(d.log) /\ d.floor[k].rv = d.log[d.floor[k].id].row.rv
    /\ \A i, j \in 1..Len(d.log) : i < j => d.log[i].row.rv <= d.log[j].row.rv
    /\ \A i \in 1..Len(d.log) : d.log[i].row.rv \in 2..d.rv

\* The rows after the first n events, in a history of databases.
RowsIn(h, n) == RowsAt(Last(h).log, n)

\* An event tells what it did to the row of its key.
Turns(e, before, after) ==
    /\ e.type = "ADDED" => before = NoRow /\ after = e.row
    /\ e.type = "MODIFIED" => before # NoRow /\ after = e.row /\ e.row.uid = before.uid
    /\ e.type = "DELETED" => /\ before # NoRow /\ after = NoRow
                             /\ e.row.uid = before.uid /\ e.row.fits = before.fits

\* A later database of the same history.
Extends(d, e) ==
    /\ Len(d.log) <= Len(e.log)
    /\ \A n \in 1..Len(d.log) : d.log[n] = e.log[n]
    /\ d.rv < e.rv
    /\ \A k \in Keys : d.floor[k].id <= e.floor[k].id
    /\ \A n \in (Len(d.log) + 1)..Len(e.log) : e.log[n].row.rv > d.rv

\* Databases, each a later one of those before it.
Lineage(h) ==
    /\ h \in Seq(Db) /\ h # <<>>
    /\ \A j \in 1..Len(h) : WellKept(h[j])
    /\ \A i, j \in 1..Len(h) : i < j => Extends(h[i], h[j])

\* A lineage in which the log tells every change of the rows.
Chronicle(h) ==
    /\ Lineage(h)
    /\ \A j \in 1..Len(h) : h[j].rows = RowsIn(h, Len(h[j].log))
    /\ \A n \in 1..Len(Last(h).log) :
          LET e == Last(h).log[n]
          IN  Turns(e, RowsIn(h, n - 1)[e.key], RowsIn(h, n)[e.key])

------------------------------------------------------------------------------
(* Sets of ids.                                                              *)

\* Induction over the naturals: a nonempty set has a least element.
LEMMA LeastNat ==
    ASSUME NEW T, T \subseteq Nat, T # {}
    PROVE  \E x \in T : \A y \in T : x <= y
<1>1. \E x \in T : \A y \in T : ~ (<<y, x>> \in OpToRel(<, Nat))
  BY WFMin, NatLessThanWellFounded, Zenon
<1>2. PICK x \in T : \A y \in T : ~ (<<y, x>> \in OpToRel(<, Nat))
  BY <1>1
<1>3. \A y \in T : ~(y < x)
  BY <1>2 DEF OpToRel
<1> QED
  BY <1>3

\* A nonempty bounded set has a greatest element.
LEMMA GreatestBelow ==
    ASSUME NEW L \in Nat, NEW S, S \subseteq 1..L, S # {}
    PROVE  \E x \in S : \A y \in S : y <= x
<1> DEFINE T == {n \in 0..L : \E i \in S : n = L - i}
<1>1. T # {} /\ T \subseteq Nat
  <2>1. PICK i \in S : TRUE
    OBVIOUS
  <2>2. i \in 1..L
    OBVIOUS
  <2>3. L - i \in 0..L
    BY <2>2
  <2>4. L - i \in T
    BY <2>3
  <2>5. T \subseteq Nat
    OBVIOUS
  <2> HIDE DEF T
  <2> QED BY <2>4, <2>5
<1>2. PICK t \in T : \A y \in T : t <= y
  BY <1>1, LeastNat, Zenon
<1>3. PICK x \in S : t = L - x
  BY <1>2
<1>4. ASSUME NEW y \in S PROVE y <= x
  <2>1. y \in 1..L /\ x \in 1..L
    OBVIOUS
  <2>2. L - y \in T
    BY <2>1
  <2>3. t <= L - y
    BY <2>2, <1>2
  <2> QED BY <2>1, <2>3, <1>3
<1> QED
  BY <1>4

\* A set of ids closed downwards is an interval, and its cardinality its end.
LEMMA InitialSegment ==
    ASSUME NEW L \in Nat, NEW S, S \subseteq 1..L,
           \A i \in S : \A j \in 1..L : j <= i => j \in S
    PROVE  Cardinality(S) \in 0..L /\ S = 1..Cardinality(S)
<1> DEFINE T == {i \in 1..(L + 1) : i \notin S}
<1>1. L + 1 \in T /\ T \subseteq Nat
  OBVIOUS
<1>2. PICK t \in T : \A y \in T : t <= y
  BY <1>1, LeastNat
<1>3. S = 1..(t - 1)
  <2>1. ASSUME NEW i \in S PROVE i \in 1..(t - 1)
    <3>1. CASE i >= t
      <4>1. t \in 1..L /\ t <= i
        BY <3>1, <1>2
      <4>2. t \in S
        BY <4>1
      <4> QED BY <4>2, <1>2
    <3>2. CASE i < t
      BY <3>2, <1>2
    <3> QED BY <3>1, <3>2, <1>2
  <2>2. ASSUME NEW i \in 1..(t - 1) PROVE i \in S
    BY <1>2
  <2> QED BY <2>1, <2>2
<1>4. Cardinality(1..(t - 1)) = t - 1
  BY FS_Interval, <1>2
<1> QED
  BY <1>3, <1>4, <1>2

\* The set has an ascending enumeration.
Sortable(S) ==
    \E f \in [1..Cardinality(S) -> S] : \A m, n \in 1..Cardinality(S) : m < n => f[m] < f[n]

\* A set of ids up to a bound is finite.
LEMMA BoundedIsFinite ==
    ASSUME NEW L \in Nat, NEW S, S \subseteq 1..L
    PROVE  IsFiniteSet(S) /\ Cardinality(S) \in Nat
<1>1. IsFiniteSet(1..L)
  BY FS_Interval
<1>2. IsFiniteSet(S)
  BY <1>1, FS_Subset
<1> QED
  BY <1>2, FS_CardinalityType

\* An enumeration is extended by a new largest element.
LEMMA SortableStep ==
    ASSUME NEW n \in Nat \ {0}, NEW S, S \subseteq 1..n, n \in S, Sortable(S \ {n})
    PROVE  Sortable(S)
<1> DEFINE R == S \ {n}
           c == Cardinality(R)
<1>1. IsFiniteSet(S) /\ c \in Nat /\ R \subseteq 1..(n - 1)
  <2>1. R \subseteq 1..(n - 1) /\ n - 1 \in Nat
    OBVIOUS
  <2> QED BY <2>1, BoundedIsFinite
<1>2. Cardinality(S) = c + 1
  <2>1. Cardinality(R) = Cardinality(S) - 1
    BY <1>1, FS_RemoveElement
  <2>2. Cardinality(S) \in Nat
    BY BoundedIsFinite
  <2> QED BY <2>1, <2>2
<1>3. PICK f \in [1..c -> R] : \A a, b \in 1..c : a < b => f[a] < f[b]
  BY DEF Sortable
<1> DEFINE g == [i \in 1..(c + 1) |-> IF i = c + 1 THEN n ELSE f[i]]
<1> HIDE DEF c
<1>4. \A i \in 1..(c + 1) : /\ i # c + 1 => i \in 1..c /\ g[i] = f[i] /\ f[i] \in R
                            /\ i = c + 1 => g[i] = n
  BY <1>1, <1>3
<1>5. g \in [1..(c + 1) -> S]
  <2>1. \A i \in 1..(c + 1) : (IF i = c + 1 THEN n ELSE f[i]) \in S
    BY <1>1, <1>3
  <2> QED BY <2>1
<1> HIDE DEF g
<1>6. ASSUME NEW a \in 1..(c + 1), NEW b \in 1..(c + 1), a < b PROVE g[a] < g[b]
  <2>1. a \in 1..c /\ g[a] = f[a] /\ f[a] \in R
    <3>1. a # c + 1
      BY <1>6, <1>1
    <3> QED BY <3>1, <1>4, Zenon
  <2>2. CASE b = c + 1
    <3>1. g[b] = n /\ f[a] \in 1..(n - 1)
      BY <2>2, <1>4, <2>1, <1>1
    <3> QED BY <2>1, <3>1
  <2>3. CASE b # c + 1
    <3>1. b \in 1..c /\ g[b] = f[b]
      BY <2>3, <1>4, Zenon
    <3> QED BY <2>1, <3>1, <1>3, <1>6
  <2> QED BY <2>2, <2>3
<1> QED
  BY <1>2, <1>5, <1>6 DEF Sortable

\* Every bounded set of ids can be sorted (ORDER BY id ASC has an answer).
LEMMA AllSortable ==
    ASSUME NEW L \in Nat, NEW S, S \subseteq 1..L
    PROVE  Sortable(S)
<1> DEFINE T == {n \in Nat : \E R \in SUBSET (1..n) : ~Sortable(R)}
<1>1. SUFFICES ASSUME T # {} PROVE FALSE
  OBVIOUS
<1>2. PICK n \in T : \A y \in T : n <= y
  BY <1>1, LeastNat
<1>3. n \in Nat
  BY <1>2
<1>4. PICK R \in SUBSET (1..n) : ~Sortable(R)
  BY <1>2
<1>5. ASSUME NEW Q \in SUBSET (1..(n - 1)), n # 0 PROVE Sortable(Q)
  <2>1. n - 1 \in Nat /\ n - 1 \notin T
    BY <1>5, <1>2, <1>3
  <2> QED BY <2>1
<1> HIDE DEF T
<1>6. n # 0
  <2>1. SUFFICES ASSUME n = 0 PROVE FALSE
    OBVIOUS
  <2>2. R = {} /\ Cardinality({}) = 0
    BY <2>1, FS_EmptySet
  <2>3. <<>> \in [1..0 -> {}] /\ \A a, b \in 1..0 : a < b => <<>>[a] < <<>>[b]
    OBVIOUS
  <2> QED BY <2>2, <2>3, <1>4 DEF Sortable
<1>7. n \in R
  <2>1. SUFFICES ASSUME n \notin R PROVE FALSE
    OBVIOUS
  <2>2. R \in SUBSET (1..(n - 1))
    BY <2>1, <1>3
  <2> QED BY <2>2, <1>5, <1>6, <1>4
<1>8. R \ {n} \in SUBSET (1..(n - 1))
  BY <1>3
<1> QED
  BY <1>3, <1>4, <1>5, <1>6, <1>7, <1>8, SortableStep

\* Ascending enumerates the set, in order and completely.
LEMMA AscendingRight ==
    ASSUME NEW L \in Nat, NEW S, S \subseteq 1..L
    PROVE  /\ Cardinality(S) \in Nat
           /\ Ascending(S) \in [1..Cardinality(S) -> S]
           /\ \A m, n \in 1..Cardinality(S) : m < n => Ascending(S)[m] < Ascending(S)[n]
           /\ \A i \in S : \E n \in 1..Cardinality(S) : Ascending(S)[n] = i
<1> DEFINE f == Ascending(S)
           c == Cardinality(S)
<1>1. IsFiniteSet(S) /\ c \in Nat
  BY BoundedIsFinite
<1>2. \E g \in [1..c -> S] : \A m, n \in DOMAIN g : m < n => g[m] < g[n]
  <2>1. PICK g \in [1..c -> S] : \A m, n \in 1..c : m < n => g[m] < g[n]
    BY AllSortable DEF Sortable
  <2>2. DOMAIN g = 1..c
    OBVIOUS
  <2> QED BY <2>1, <2>2
<1>3. f \in [1..c -> S] /\ \A m, n \in DOMAIN f : m < n => f[m] < f[n]
  BY <1>2 DEF Ascending
<1>4. DOMAIN f = 1..c
  BY <1>3
<1>a. Cardinality(S) = c /\ Ascending(S) = f
  OBVIOUS
<1> HIDE DEF f, c
<1>5. ASSUME NEW i \in S, \A n \in 1..c : f[n] # i PROVE FALSE
  <2>1. f \in [1..c -> S \ {i}]
    BY <1>3, <1>5
  <2>2. IsFiniteSet(S \ {i}) /\ Cardinality(S \ {i}) = c - 1
    BY <1>1, <1>a, FS_RemoveElement
  <2>3. IsFiniteSet(1..c) /\ Cardinality(1..c) = c
    BY <1>1, FS_Interval
  <2>4. \E m, n \in 1..c : m # n /\ f[m] = f[n]
    BY <2>1, <2>2, <2>3, <1>1, FS_PigeonHole
  <2>5. PICK m, n \in 1..c : m # n /\ f[m] = f[n]
    BY <2>4
  <2>6. f[m] \in Nat /\ f[n] \in Nat
    <3>1. f[m] \in S /\ f[n] \in S
      BY <1>3
    <3>2. S \subseteq Nat
      OBVIOUS
    <3> QED BY <3>1, <3>2, Zenon
  <2>7. m < n \/ n < m
    BY <2>5
  <2> QED BY <2>5, <2>6, <2>7, <1>3, <1>4
<1> QED
  BY <1>1, <1>3, <1>4, <1>5, <1>a

------------------------------------------------------------------------------
(* Positions, floors and pages.                                              *)

\* How many events of the log a position represents.
Upto(log, p) == Cardinality({i \in 1..Len(log) : Represents(p, i, log[i].row.rv)})

\* The fields of a position.
LEMMA PositionTypes ==
    ASSUME NEW p \in Position
    PROVE  p.rv \in Nat /\ p.id \in Nat /\ p.thru \in Nat /\ (p.thru > 0 => p.id < p.thru)
           /\ p = [rv |-> p.rv, id |-> p.id, thru |-> p.thru]
  BY DEF Position

\* The fields of a database.
LEMMA DbTypes ==
    ASSUME NEW d \in Db
    PROVE  /\ d.rv \in Nat /\ d.log \in Seq(Event) /\ Len(d.log) \in Nat
           /\ d.rows \in [Keys -> Row \cup {NoRow}]
           /\ d.kept \subseteq Nat
           /\ d.floor \in [Keys -> [rv : Nat, id : Nat]]
           /\ \A i \in 1..Len(d.log) :
                 /\ d.log[i] \in Event /\ d.log[i].key \in Keys /\ d.log[i].row \in Row
                 /\ d.log[i].row.rv \in Nat
<1>1. /\ d.rv \in Nat /\ d.log \in Seq(Event) /\ d.kept \subseteq Nat
      /\ d.rows \in [Keys -> Row \cup {NoRow}] /\ d.floor \in [Keys -> [rv : Nat, id : Nat]]
  BY DEF Db
<1>2. Len(d.log) \in Nat /\ \A i \in 1..Len(d.log) : d.log[i] \in Event
  BY <1>1
<1>3. \A e \in Event : e.key \in Keys /\ e.row \in Row /\ e.row.rv \in Nat
  BY DEF Event, Row
<1> QED
  BY <1>1, <1>2, <1>3

\* represents_event holds of a prefix of the log: a position, also one that
\* filters by resourceVersion, is a place in the log.
LEMMA PrefixRight ==
    ASSUME NEW d, WellKept(d), NEW p \in Position
    PROVE  /\ Upto(d.log, p) \in 0..Len(d.log)
           /\ \A i \in 1..Len(d.log) : Represents(p, i, d.log[i].row.rv) <=> i <= Upto(d.log, p)
<1> DEFINE L == Len(d.log)
           S == {i \in 1..L : Represents(p, i, d.log[i].row.rv)}
<1>1. d \in Db /\ \A i, j \in 1..L : i < j => d.log[i].row.rv <= d.log[j].row.rv
  BY DEF WellKept
<1>2. L \in Nat /\ \A i \in 1..L : d.log[i].row.rv \in Nat
  BY <1>1, DbTypes
<1>3. ASSUME NEW i \in S, NEW j \in 1..L, j <= i PROVE j \in S
  <2>1. d.log[j].row.rv <= d.log[i].row.rv
    BY <1>1, <1>2, <1>3
  <2>2. Represents(p, i, d.log[i].row.rv)
    OBVIOUS
  <2>3. Represents(p, j, d.log[j].row.rv)
    BY <2>1, <2>2, <1>2, <1>3, PositionTypes DEF Represents
  <2> QED BY <2>3
<1>4. Cardinality(S) \in 0..L /\ S = 1..Cardinality(S)
  BY <1>2, <1>3, InitialSegment
<1>5. Upto(d.log, p) = Cardinality(S)
  BY DEF Upto
<1> QED
  <2>1. ASSUME NEW i \in 1..L PROVE Represents(p, i, d.log[i].row.rv) <=> i <= Upto(d.log, p)
    <3>1. Represents(p, i, d.log[i].row.rv) <=> i \in S
      OBVIOUS
    <3> HIDE DEF S
    <3>2. i \in S <=> i <= Cardinality(S)
      BY <1>4, <1>2
    <3> QED BY <3>1, <3>2, <1>5
  <2> QED BY <2>1, <1>4, <1>5

\* That place is the only one.
LEMMA PrefixUnique ==
    ASSUME NEW d, WellKept(d), NEW p \in Position, NEW m \in 0..Len(d.log),
           \A i \in 1..Len(d.log) : Represents(p, i, d.log[i].row.rv) <=> i <= m
    PROVE  Upto(d.log, p) = m
<1> DEFINE u == Upto(d.log, p)
<1>1. u \in 0..Len(d.log) /\ \A i \in 1..Len(d.log) : i <= u <=> i <= m
  BY PrefixRight
<1>2. Len(d.log) \in Nat
  BY DbTypes DEF WellKept
<1> HIDE DEF u
<1>3. CASE u < m
  <2>1. u + 1 \in 1..Len(d.log) /\ u + 1 <= m /\ ~(u + 1 <= u)
    BY <1>1, <1>2, <1>3
  <2> QED BY <2>1, <1>1
<1>4. CASE m < u
  <2>1. m + 1 \in 1..Len(d.log) /\ m + 1 <= u /\ ~(m + 1 <= m)
    BY <1>1, <1>2, <1>4
  <2> QED BY <2>1, <1>1
<1> QED
  BY <1>1, <1>2, <1>3, <1>4 DEF u

\* classify_all: a position that is not below the floors represents every
\* event that was pruned.
THEOREM FloorCovered ==
    ASSUME NEW d, WellKept(d), NEW p \in Position, NEW target, target \subseteq Keys,
           NEW k \in target, ~BelowFloor(d, target, p)
    PROVE  d.floor[k].id <= Upto(d.log, p)
<1> DEFINE f == d.floor[k]
<1>1. d \in Db /\ k \in Keys
  BY DEF WellKept
<1>2. f.rv \in Nat /\ f.id \in Nat /\ Len(d.log) \in Nat
  BY <1>1, DbTypes
<1>3. \/ f = [rv |-> 0, id |-> 0]
      \/ f.id \in 1..Len(d.log) /\ f.rv = d.log[f.id].row.rv
  BY <1>1 DEF WellKept
<1>4. ~(CASE p.id > 0   -> p.id < f.id
          [] p.thru > 0 /\ p.id = 0 -> p.rv < f.rv \/ p.thru < f.id
          [] OTHER      -> p.rv < f.rv)
  BY DEF BelowFloor
<1>5. Upto(d.log, p) \in 0..Len(d.log)
  BY PrefixRight
<1>6. CASE f = [rv |-> 0, id |-> 0]
  BY <1>6, <1>5, <1>2
<1>7. CASE f.id \in 1..Len(d.log) /\ f.rv = d.log[f.id].row.rv
  <2>1. Represents(p, f.id, f.rv)
    BY <1>4, <1>2, PositionTypes DEF Represents
  <2> HIDE DEF f
  <2> QED BY <2>1, <1>7, PrefixRight DEF f
<1> QED
  BY <1>3, <1>6, <1>7

\* Nothing after the first m events of the log was pruned in these scopes.
Intact(d, target, m) == \A k \in target : d.floor[k].id <= m

\* replay_watch_history notices in time: a page is expired when events after
\* its position were pruned.
LEMMA PageNotices ==
    ASSUME NEW d, WellKept(d), NEW p \in Position, NEW target, target \subseteq Keys,
           ~PageExpired(d, target, p)
    PROVE  Intact(d, target, Upto(d.log, p))
<1>1. SUFFICES ASSUME NEW k \in target PROVE d.floor[k].id <= Upto(d.log, p)
  BY DEF Intact
<1>2. d \in Db /\ k \in Keys
  BY DEF WellKept
<1>3. d.floor[k].id \in Nat /\ Len(d.log) \in Nat /\ d.rv \in Nat
  BY <1>2, DbTypes
<1>4. d.floor[k].id <= Len(d.log) /\ \A i \in 1..Len(d.log) : d.log[i].row.rv \in 2..d.rv
  <2>1. d.floor[k] = [rv |-> 0, id |-> 0] \/ d.floor[k].id \in 1..Len(d.log)
    BY <1>2 DEF WellKept
  <2> QED BY <2>1, <1>3 DEF WellKept
<1>5. Upto(d.log, p) \in 0..Len(d.log) /\ \A i \in 1..Len(d.log) : Represents(p, i, d.log[i].row.rv) <=> i <= Upto(d.log, p)
  BY PrefixRight
<1>6. CASE Len(d.log) = 0
  BY <1>6, <1>3, <1>4, <1>5
<1>7. CASE Len(d.log) > 0 /\ Represents(p, Len(d.log), d.log[Len(d.log)].row.rv)
  BY <1>7, <1>3, <1>4, <1>5
<1>8. CASE Len(d.log) > 0 /\ ~Represents(p, Len(d.log), d.log[Len(d.log)].row.rv)
  <2>1. Len(d.log) \in 1..Len(d.log)
    BY <1>8, <1>3
  <2>2. d.log[Len(d.log)].row.rv \in 2..d.rv
    BY <2>1, <1>4
  <2>3. p.id < Len(d.log) /\ ~(p.thru >= Len(d.log) /\ p.rv >= d.rv)
    BY <2>2, <1>8, <1>3, PositionTypes DEF Represents
  <2>4. ~BelowFloor(d, target, p)
    BY <2>3 DEF PageExpired
  <2> QED BY <2>4, FloorCovered
<1> QED
  BY <1>3, <1>6, <1>7, <1>8

\* What comes after a position that is not expired is still in watch_events.
LEMMA NothingPruned ==
    ASSUME NEW d, WellKept(d), NEW p \in Position, NEW target, target \subseteq Keys,
           ~PageExpired(d, target, p) \/ ~BelowFloor(d, target, p),
           NEW i \in 1..Len(d.log), i > Upto(d.log, p), d.log[i].key \in target
    PROVE  i \in d.kept
<1> DEFINE k == d.log[i].key
<1>1. d \in Db
  BY DEF WellKept
<1>2. Len(d.log) \in Nat /\ d.rv \in Nat /\ d.log[i].row.rv \in Nat /\ d.floor[k].id \in Nat
  BY <1>1, DbTypes
<1>3. Upto(d.log, p) \in 0..Len(d.log) /\ ~Represents(p, i, d.log[i].row.rv)
  BY PrefixRight
<1>4. d.log[i].row.rv <= d.rv
  BY DEF WellKept
<1>5. ~BelowFloor(d, target, p)
  BY <1>2, <1>3, <1>4, PositionTypes DEF PageExpired, Represents
<1>6. d.floor[k].id <= Upto(d.log, p)
  BY <1>5, FloorCovered
<1>7. i > d.floor[k].id
  BY <1>6, <1>2, <1>3
<1> QED
  BY <1>7 DEF WellKept

\* The events of the scopes after a position.
Owed(d, target, p) ==
    {i \in 1..Len(d.log) : i > Upto(d.log, p) /\ d.log[i].key \in target}

\* replay_watch_history: a page that is not expired holds the next events of
\* the scopes after the position, in order and without a gap; an empty page
\* means that there are none.
THEOREM PageRight ==
    ASSUME NEW d, WellKept(d), NEW p \in Position, NEW target, target \subseteq Keys,
           ~PageExpired(d, target, p),
           NEW page, page = Page(d, target, p)
    PROVE  /\ page \in Seq(Owed(d, target, p))
           /\ \A m, n \in 1..Len(page) : m < n => page[m] < page[n]
           /\ \A i \in Owed(d, target, p) : \A n \in 1..Len(page) :
                 i <= page[n] => \E m \in 1..n : page[m] = i
           /\ page = <<>> => Owed(d, target, p) = {}
<1> DEFINE ids == {i \in d.kept : d.log[i].key \in target /\ ~Represents(p, i, d.log[i].row.rv)}
           P == {i \in ids : Cardinality({j \in ids : j <= i}) <= PageLimit}
           L == Len(d.log)
<1>1. L \in Nat /\ d.kept \subseteq 1..L
  BY DbTypes DEF WellKept
<1>2. ids = Owed(d, target, p)
  <2>1. ASSUME NEW i \in ids PROVE i \in Owed(d, target, p)
    <3>1. i \in 1..L /\ ~(i <= Upto(d.log, p))
      BY <1>1, PrefixRight
    <3>2. Upto(d.log, p) \in 0..L
      BY PrefixRight
    <3> QED BY <3>1, <3>2, <1>1 DEF Owed
  <2>2. ASSUME NEW i \in Owed(d, target, p) PROVE i \in ids
    <3>1. i \in 1..L /\ i > Upto(d.log, p) /\ d.log[i].key \in target
      BY DEF Owed
    <3>2. i \in d.kept
      BY <3>1, NothingPruned
    <3>3. Upto(d.log, p) \in 0..L
      BY PrefixRight
    <3>4. ~Represents(p, i, d.log[i].row.rv)
      BY <3>1, <3>3, <1>1, PrefixRight
    <3> QED BY <3>1, <3>2, <3>4
  <2> QED BY <2>1, <2>2
<1>3. page = Ascending(P)
  BY DEF Page
<1>4. ids \subseteq 1..L /\ ids \subseteq Nat
  BY <1>1
<1> HIDE DEF ids
<1>5. P \subseteq 1..L /\ P \subseteq ids
  BY <1>4
<1>6. ASSUME NEW i \in P, NEW j \in ids, j <= i PROVE j \in P
  <2>1. {m \in ids : m <= j} \subseteq {m \in ids : m <= i}
    <3>1. i \in Nat /\ j \in Nat
      BY <1>4, <1>5
    <3>2. ASSUME NEW m \in ids, m <= j PROVE m <= i
      <4>1. m \in Nat
        BY <1>4
      <4> QED BY <4>1, <3>1, <3>2, <1>6
    <3> QED BY <3>2
  <2>2. {m \in ids : m <= i} \subseteq 1..L
    BY <1>4
  <2>3. IsFiniteSet({m \in ids : m <= i}) /\ Cardinality({m \in ids : m <= i}) \in Nat
    BY <2>2, <1>1, BoundedIsFinite
  <2>4. Cardinality({m \in ids : m <= j}) \in Nat
    BY <2>1, <2>2, <1>1, BoundedIsFinite
  <2>5. Cardinality({m \in ids : m <= j}) <= Cardinality({m \in ids : m <= i})
    BY <2>1, <2>3, FS_Subset
  <2>6. Cardinality({m \in ids : m <= i}) <= PageLimit
    OBVIOUS
  <2>7. Cardinality({m \in ids : m <= j}) <= PageLimit
    BY <2>3, <2>4, <2>5, <2>6, StoreAssumption
  <2> QED BY <2>7
<1>7. ids # {} => P # {}
  <2>1. SUFFICES ASSUME ids # {} PROVE P # {}
    OBVIOUS
  <2>2. PICK i \in ids : \A j \in ids : i <= j
    <3>1. ids \subseteq Nat
      BY <1>4
    <3> QED BY <2>1, <3>1, LeastNat, Zenon
  <2>3. {j \in ids : j <= i} = {i}
    <3>1. ASSUME NEW j \in ids, j <= i PROVE j = i
      <4>1. i \in Nat /\ j \in Nat /\ i <= j
        BY <1>4, <2>2
      <4> QED BY <4>1, <3>1
    <3>2. i \in Nat
      BY <1>4
    <3>3. i <= i
      BY <3>2
    <3> QED BY <3>1, <3>3
  <2>4. Cardinality({j \in ids : j <= i}) = 1
    BY <2>3, FS_Singleton
  <2>5. Cardinality({j \in ids : j <= i}) <= PageLimit
    BY <2>4, StoreAssumption
  <2> QED BY <2>5, <2>2
<1> HIDE DEF P
<1> DEFINE c == Cardinality(P)
<1>8. /\ c \in Nat /\ page \in [1..c -> P]
      /\ \A m, n \in 1..c : m < n => page[m] < page[n]
      /\ \A i \in P : \E n \in 1..c : page[n] = i
  BY <1>1, <1>3, <1>5, AscendingRight, ZenonT(30)
<1> HIDE DEF c
<1>9. page \in Seq(P) /\ Len(page) = c
  BY <1>8
<1>10. page \in Seq(Owed(d, target, p))
  <2>1. page \in [1..c -> Owed(d, target, p)]
    <3>1. P \subseteq Owed(d, target, p)
      BY <1>2, <1>5
    <3> QED BY <1>8, <3>1
  <2> QED BY <2>1, <1>8
<1>11. ASSUME NEW i \in Owed(d, target, p), NEW n \in 1..c, i <= page[n]
       PROVE \E m \in 1..n : page[m] = i
  <2>1. page[n] \in P
    BY <1>8
  <2>2. i \in P
    BY <1>2, <2>1, <1>6, <1>11
  <2>3. PICK m \in 1..c : page[m] = i
    BY <2>2, <1>8
  <2>4. ~(n < m)
    <3>1. SUFFICES ASSUME n < m PROVE FALSE
      OBVIOUS
    <3>2. page[n] < page[m]
      BY <3>1, <1>8
    <3>3. page[n] \in 1..L /\ page[m] \in 1..L
      BY <1>8, <1>5
    <3> QED BY <3>2, <3>3, <2>3, <1>11
  <2>5. m \in 1..n
    BY <2>4, <1>8
  <2> QED BY <2>5, <2>3
<1>12. ASSUME page = <<>> PROVE Owed(d, target, p) = {}
  <2>1. c = 0
    BY <1>9, <1>12
  <2>2. P = {}
    BY <2>1, <1>8
  <2> QED BY <2>2, <1>7, <1>2
<1> QED
  BY <1>8, <1>9, <1>10, <1>11, <1>12

------------------------------------------------------------------------------
(* The rows that a log tells.                                                *)

\* What the row of a key is after n events: none, or what its last event left.
LEMMA RowsLast ==
    ASSUME NEW log \in Seq(Event), NEW n \in 0..Len(log), NEW k \in Keys
    PROVE  \/ /\ \A j \in 1..n : log[j].key # k
              /\ RowsAt(log, n)[k] = NoRow
           \/ \E i \in 1..n : /\ log[i].key = k /\ RowsAt(log, n)[k] = Left(log[i])
                             /\ \A j \in (i + 1)..n : log[j].key # k
<1> DEFINE ids == {i \in 1..n : log[i].key = k}
           i == CHOOSE x \in ids : \A j \in ids : j <= x
<1>1. RowsAt(log, n)[k] = IF ids = {} THEN NoRow ELSE Left(log[i])
  BY DEF RowsAt
<1>2. n \in Nat /\ ids \subseteq 1..n
  OBVIOUS
<1>3. CASE ids = {}
  BY <1>1, <1>3
<1>4. CASE ids # {}
  <2>1. \E x \in ids : \A j \in ids : j <= x
    <3> HIDE DEF ids
    <3> QED BY <1>2, <1>4, GreatestBelow
  <2>2. i \in ids /\ \A j \in ids : j <= i
    BY <2>1
  <2>3. RowsAt(log, n)[k] = Left(log[i])
    BY <1>1, <1>4
  <2> HIDE DEF i
  <2>4. \A j \in (i + 1)..n : log[j].key # k
    BY <2>2
  <2> QED BY <2>2, <2>3, <2>4
<1> QED
  BY <1>3, <1>4

\* There is only one such row.
LEMMA RowsFrom ==
    ASSUME NEW log \in Seq(Event), NEW n \in 0..Len(log), NEW k \in Keys,
           NEW i \in 1..n, log[i].key = k, \A j \in (i + 1)..n : log[j].key # k
    PROVE  RowsAt(log, n)[k] = Left(log[i])
<1>1. CASE \A j \in 1..n : log[j].key # k
  BY <1>1
<1>2. ASSUME NEW x \in 1..n, log[x].key = k, RowsAt(log, n)[k] = Left(log[x]),
             \A j \in (x + 1)..n : log[j].key # k
      PROVE  RowsAt(log, n)[k] = Left(log[i])
  <2>1. ~(x < i) /\ ~(i < x)
    BY <1>2
  <2>2. x = i
    BY <2>1
  <2> QED BY <2>2, <1>2
<1> QED
  BY <1>1, <1>2, RowsLast

\* A key without events between two places has the same row at both.
LEMMA RowsKeep ==
    ASSUME NEW log \in Seq(Event), NEW m \in 0..Len(log), NEW n \in m..Len(log), NEW k \in Keys,
           \A j \in (m + 1)..n : log[j].key # k
    PROVE  RowsAt(log, n)[k] = RowsAt(log, m)[k]
<1>1. CASE \A j \in 1..m : log[j].key # k
  <2>1. \A j \in 1..n : log[j].key # k
    <3>1. \A j \in 1..n : j \in 1..m \/ j \in (m + 1)..n
      OBVIOUS
    <3> QED BY <3>1, <1>1
  <2>2. n \in 0..Len(log)
    OBVIOUS
  <2>3. RowsAt(log, n)[k] = NoRow
    BY <2>1, <2>2, RowsLast
  <2>4. RowsAt(log, m)[k] = NoRow
    BY <1>1, RowsLast
  <2> QED BY <2>3, <2>4
<1>2. CASE \E j \in 1..m : log[j].key = k
  <2>1. PICK i \in 1..m : /\ log[i].key = k /\ RowsAt(log, m)[k] = Left(log[i])
                          /\ \A j \in (i + 1)..m : log[j].key # k
    BY <1>2, RowsLast
  <2>2. i \in 1..n /\ n \in 0..Len(log)
    OBVIOUS
  <2>3. \A j \in (i + 1)..n : log[j].key # k
    <3>1. \A j \in (i + 1)..n : j \in (i + 1)..m \/ j \in (m + 1)..n
      OBVIOUS
    <3> QED BY <3>1, <2>1
  <2>4. RowsAt(log, n)[k] = Left(log[i])
    BY <2>1, <2>2, <2>3, RowsFrom
  <2> QED BY <2>1, <2>4
<1> QED
  BY <1>1, <1>2

\* Logs that agree on their first n events tell the same rows.
LEMMA RowsSame ==
    ASSUME NEW log \in Seq(Event), NEW other \in Seq(Event),
           NEW n \in 0..Len(log), n <= Len(other), \A i \in 1..n : log[i] = other[i]
    PROVE  RowsAt(log, n) = RowsAt(other, n)
<1>1. ASSUME NEW k \in Keys PROVE RowsAt(log, n)[k] = RowsAt(other, n)[k]
  <2>0. n \in 0..Len(other)
    OBVIOUS
  <2>1. CASE \A j \in 1..n : log[j].key # k
    <3>1. \A j \in 1..n : other[j].key # k
      BY <2>1
    <3>2. RowsAt(log, n)[k] = NoRow
      BY <2>1, RowsLast
    <3>3. RowsAt(other, n)[k] = NoRow
      BY <3>1, <2>0, RowsLast
    <3> QED BY <3>2, <3>3
  <2>2. CASE \E j \in 1..n : log[j].key = k
    <3>1. PICK i \in 1..n : /\ log[i].key = k /\ RowsAt(log, n)[k] = Left(log[i])
                            /\ \A j \in (i + 1)..n : log[j].key # k
      BY <2>2, RowsLast
    <3>2. other[i].key = k /\ \A j \in (i + 1)..n : other[j].key # k
      BY <3>1
    <3>3. RowsAt(other, n)[k] = Left(other[i])
      BY <3>2, <2>0, RowsFrom
    <3> QED BY <3>1, <3>3
  <2> QED BY <2>1, <2>2
<1>2. /\ RowsAt(log, n) = [k \in Keys |-> RowsAt(log, n)[k]]
      /\ RowsAt(other, n) = [k \in Keys |-> RowsAt(other, n)[k]]
  BY DEF RowsAt
<1> QED
  BY <1>1, <1>2

\* The body an event leaves.
LEMMA LeftType ==
    ASSUME NEW e \in Event
    PROVE  Left(e) \in Row \cup {NoRow} /\ Left(e).rv \in Nat /\ Left(e).rv <= e.row.rv /\ e.row.rv \in Nat
  BY DEF Left, Event, Row, NoRow

\* The rows a log tells are rows, no newer than its last event.
LEMMA RowsTyped ==
    ASSUME NEW d, WellKept(d), NEW n \in 0..Len(d.log)
    PROVE  /\ RowsAt(d.log, n) \in [Keys -> Row \cup {NoRow}]
           /\ \A k \in Keys : n > 0 => RowsAt(d.log, n)[k].rv <= d.log[n].row.rv
<1>1. d \in Db /\ \A i, j \in 1..Len(d.log) : i < j => d.log[i].row.rv <= d.log[j].row.rv
  BY DEF WellKept
<1>2. d.log \in Seq(Event) /\ Len(d.log) \in Nat /\ \A i \in 1..Len(d.log) : d.log[i] \in Event
  BY <1>1, DbTypes
<1>3. ASSUME NEW k \in Keys
      PROVE  /\ RowsAt(d.log, n)[k] \in Row \cup {NoRow}
             /\ n > 0 => RowsAt(d.log, n)[k].rv <= d.log[n].row.rv
  <2>1. CASE RowsAt(d.log, n)[k] = NoRow
    <3>1. n > 0 => d.log[n].row.rv \in Nat
      BY <1>2, LeftType
    <3> QED BY <2>1, <3>1 DEF NoRow
  <2>2. CASE \E i \in 1..n : RowsAt(d.log, n)[k] = Left(d.log[i])
    <3>1. PICK i \in 1..n : RowsAt(d.log, n)[k] = Left(d.log[i])
      BY <2>2
    <3>2. d.log[i] \in Event /\ d.log[n] \in Event /\ i \in 1..Len(d.log) /\ n \in 1..Len(d.log)
      BY <1>2
    <3>3. /\ Left(d.log[i]) \in Row \cup {NoRow} /\ Left(d.log[i]).rv \in Nat
          /\ Left(d.log[i]).rv <= d.log[i].row.rv /\ d.log[i].row.rv \in Nat /\ d.log[n].row.rv \in Nat
      BY <3>2, LeftType
    <3>4. d.log[i].row.rv <= d.log[n].row.rv
      BY <3>2, <3>3, <1>1
    <3> QED BY <3>1, <3>3, <3>4
  <2> QED BY <2>1, <2>2, <1>2, RowsLast
<1>4. RowsAt(d.log, n) = [k \in Keys |-> RowsAt(d.log, n)[k]]
  BY DEF RowsAt
<1> QED
  BY <1>3, <1>4

------------------------------------------------------------------------------
(* Reconstruction of a key.                                                  *)

\* The state of MembershipReconstructor.
Acc == [row : Row \cup {NoRow}, needs : BOOLEAN, expired : BOOLEAN]

\* A step function on the reconstructor can be iterated.
LEMMA Iterates ==
    ASSUME NEW s \in Acc, NEW G \in [Nat -> [Acc -> Acc]]
    PROVE  \E f \in [Nat -> Acc] : f[0] = s /\ \A n \in Nat \ {0} : f[n] = G[n][f[n - 1]]
<1> DEFINE Run(g, n) == /\ g \in [0..n -> Acc] /\ g[0] = s
                        /\ \A i \in 1..n : g[i] = G[i][g[i - 1]]
<1>1. ASSUME NEW n \in Nat, NEW g, Run(g, n) PROVE \E h : Run(h, n + 1)
  <2> DEFINE h == [i \in 0..(n + 1) |-> IF i = n + 1 THEN G[n + 1][g[n]] ELSE g[i]]
  <2>1. g[n] \in Acc /\ G[n + 1] \in [Acc -> Acc]
    BY <1>1
  <2>2. h \in [0..(n + 1) -> Acc]
    <3>1. \A i \in 0..(n + 1) : (IF i = n + 1 THEN G[n + 1][g[n]] ELSE g[i]) \in Acc
      BY <1>1, <2>1
    <3> QED BY <3>1
  <2>3. \A i \in 0..n : h[i] = g[i]
    OBVIOUS
  <2>4. h[n + 1] = G[n + 1][g[n]]
    OBVIOUS
  <2> HIDE DEF h
  <2>5. ASSUME NEW i \in 1..(n + 1) PROVE h[i] = G[i][h[i - 1]]
    <3>1. CASE i = n + 1
      BY <3>1, <2>3, <2>4
    <3>2. CASE i # n + 1
      <4>1. i \in 1..n /\ i - 1 \in 0..n /\ i \in 0..n
        BY <3>2
      <4> QED BY <4>1, <2>3, <1>1
    <3> QED BY <3>1, <3>2
  <2>6. h[0] = s
    BY <2>3, <1>1
  <2> QED BY <2>2, <2>5, <2>6
<1>2. \A n \in Nat : \E g : Run(g, n)
  <2> DEFINE T == {n \in Nat : ~\E g : Run(g, n)}
  <2>1. SUFFICES ASSUME T # {} PROVE FALSE
    OBVIOUS
  <2>2. T \subseteq Nat
    OBVIOUS
  <2>3. PICK t \in T : \A y \in T : t <= y
    BY <2>1, <2>2, LeastNat, Zenon
  <2>4. t # 0
    <3>1. SUFFICES ASSUME t = 0 PROVE FALSE
      OBVIOUS
    <3> DEFINE g == [i \in 0..0 |-> s]
    <3>2. Run(g, 0)
      OBVIOUS
    <3> QED BY <3>1, <3>2, <2>3
  <2>5. t - 1 \in Nat /\ ~(t <= t - 1)
    BY <2>4
  <2>6. \E g : Run(g, t - 1)
    BY <2>3, <2>5
  <2>7. \E h : Run(h, (t - 1) + 1)
    <3> HIDE DEF Run
    <3> QED BY <2>6, <2>5, <1>1
  <2>8. (t - 1) + 1 = t
    BY <2>3
  <2> QED BY <2>7, <2>8, <2>3
<1>3. ASSUME NEW m \in Nat, NEW n \in Nat, m <= n, NEW g, NEW h, Run(g, m), Run(h, n)
      PROVE  \A i \in 0..m : g[i] = h[i]
  <2> DEFINE T == {i \in 0..m : g[i] # h[i]}
  <2>1. SUFFICES ASSUME T # {} PROVE FALSE
    OBVIOUS
  <2>2. T \subseteq Nat
    OBVIOUS
  <2>3. PICK t \in T : \A y \in T : t <= y
    BY <2>1, <2>2, LeastNat, Zenon
  <2>4. t # 0
    BY <2>3, <1>3
  <2>5. t \in 1..m /\ t \in 1..n /\ t - 1 \in 0..m /\ ~(t <= t - 1)
    BY <2>3, <2>4, <1>3
  <2>6. g[t - 1] = h[t - 1]
    BY <2>3, <2>5
  <2>7. g[t] = G[t][g[t - 1]] /\ h[t] = G[t][h[t - 1]]
    BY <2>5, <1>3
  <2> QED BY <2>3, <2>6, <2>7
<1> DEFINE R(n) == CHOOSE g : Run(g, n)
           f == [n \in Nat |-> R(n)[n]]
<1>4. \A n \in Nat : Run(R(n), n)
  <2> HIDE DEF Run
  <2> QED BY <1>2
<1>5. f \in [Nat -> Acc]
  <2>1. ASSUME NEW n \in Nat PROVE R(n)[n] \in Acc
    <3> HIDE DEF R
    <3> QED BY <1>4
  <2> QED BY <2>1
<1>6. f[0] = s
  <2>1. Run(R(0), 0)
    BY <1>4
  <2> HIDE DEF R
  <2> QED BY <2>1
<1>7. ASSUME NEW n \in Nat \ {0} PROVE f[n] = G[n][f[n - 1]]
  <2>1. n - 1 \in Nat /\ n - 1 <= n /\ n \in 1..n /\ n - 1 \in 0..(n - 1)
    OBVIOUS
  <2> HIDE DEF R
  <2>2. R(n)[n] = G[n][R(n)[n - 1]]
    BY <1>4, <2>1
  <2>3. R(n - 1)[n - 1] = R(n)[n - 1]
    <3>1. Run(R(n - 1), n - 1) /\ Run(R(n), n)
      BY <1>4, <2>1
    <3> HIDE DEF Run
    <3>2. \A i \in 0..(n - 1) : R(n - 1)[i] = R(n)[i]
      BY <3>1, <2>1, <1>3
    <3> QED BY <3>2, <2>1
  <2> QED BY <2>1, <2>2, <2>3
<1> HIDE DEF f
<1> QED
  BY <1>5, <1>6, <1>7

\* MembershipReconstructor::observe keeps its state well formed.
LEMMA ObserveType ==
    ASSUME NEW d \in Db, NEW p, NEW acc \in Acc, NEW i \in 1..Len(d.log)
    PROVE  Observe(d, p, acc, i) \in Acc
<1>1. d.log[i] \in Event
  BY DbTypes
<1>2. d.log[i].row \in Row /\ d.log[i].type \in {"ADDED", "MODIFIED", "DELETED"}
  BY <1>1 DEF Event
<1> DEFINE e == d.log[i]
           back == [acc EXCEPT !.needs = FALSE, !.row = IF acc.needs THEN e.row ELSE acc.row]
<1>3. back \in Acc
  BY <1>2 DEF Acc
<1>4. [acc EXCEPT !.expired = TRUE] \in Acc
  BY DEF Acc
<1> HIDE DEF back
<1>5. /\ [back EXCEPT !.row = NoRow] \in Acc /\ [back EXCEPT !.needs = TRUE] \in Acc
      /\ [back EXCEPT !.row = e.row] \in Acc
  BY <1>3, <1>2 DEF Acc
<1> QED
  BY <1>2, <1>3, <1>4, <1>5 DEF Observe, back

\* The reconstruction exists and goes through the kept ids from the newest.
LEMMA ObservingRight ==
    ASSUME NEW d, WellKept(d), NEW p \in Position, NEW k \in Keys,
           NEW found \in Row \cup {NoRow}, NEW f, f = Observing(d, p, k, found)
    PROVE  /\ f \in [Nat -> Acc]
           /\ f[0] = [row |-> found, needs |-> FALSE, expired |-> FALSE]
           /\ \A n \in Nat \ {0} :
                 f[n] = IF Len(d.log) + 1 - n \in Kept(d, k)
                        THEN Observe(d, p, f[n - 1], Len(d.log) + 1 - n) ELSE f[n - 1]
<1> DEFINE s == [row |-> found, needs |-> FALSE, expired |-> FALSE]
           Step(a, n) == IF Len(d.log) + 1 - n \in Kept(d, k)
                         THEN Observe(d, p, a, Len(d.log) + 1 - n) ELSE a
           G == [n \in Nat |-> [a \in Acc |-> Step(a, n)]]
<1>1. d \in Db /\ d.kept \subseteq 1..Len(d.log)
  BY DEF WellKept
<1>2. s \in Acc
  BY DEF Acc
<1>3. ASSUME NEW a \in Acc, NEW n \in Nat PROVE Step(a, n) \in Acc
  BY <1>1, ObserveType DEF Kept
<1> HIDE DEF s, Step
<1>4. G \in [Nat -> [Acc -> Acc]]
  BY <1>3
<1>5. PICK g \in [Nat -> Acc] : g[0] = s /\ \A n \in Nat \ {0} : g[n] = G[n][g[n - 1]]
  <2> HIDE DEF G
  <2> QED BY <1>2, <1>4, Iterates
<1>6. \A n \in Nat \ {0} : g[n] = Step(g[n - 1], n)
  <2>1. ASSUME NEW n \in Nat \ {0} PROVE g[n] = Step(g[n - 1], n)
    <3>1. n - 1 \in Nat /\ g[n - 1] \in Acc
      BY <1>5
    <3>2. G[n][g[n - 1]] = Step(g[n - 1], n)
      BY <3>1
    <3> HIDE DEF G
    <3> QED BY <1>5, <3>2
  <2> QED BY <2>1
<1> DEFINE Body(h) == [n \in Nat |-> IF n = 0 THEN s ELSE Step(h[n - 1], n)]
<1>7. g = Body(g)
  <2>1. \A n \in Nat : g[n] = IF n = 0 THEN s ELSE Step(g[n - 1], n)
    BY <1>5, <1>6
  <2> QED BY <2>1
<1>8. f = CHOOSE h : h = Body(h)
  BY DEF Observing, s, Step
<1>9. f = Body(f)
  <2> HIDE DEF Body
  <2> QED BY <1>7, <1>8
<1>10. f[0] = s
  BY <1>9
<1>11. \A n \in Nat \ {0} : f[n] = Step(f[n - 1], n)
  BY <1>9
<1>12. \A n \in Nat : f[n] \in Acc
  <2> DEFINE T == {n \in Nat : f[n] \notin Acc}
  <2>1. SUFFICES ASSUME T # {} PROVE FALSE
    OBVIOUS
  <2>2. T \subseteq Nat
    OBVIOUS
  <2>3. PICK t \in T : \A y \in T : t <= y
    BY <2>1, <2>2, LeastNat, Zenon
  <2>4. t # 0
    BY <2>3, <1>10, <1>2
  <2>5. t - 1 \in Nat /\ ~(t <= t - 1)
    BY <2>3, <2>4
  <2>6. f[t - 1] \in Acc
    BY <2>3, <2>5
  <2>7. f[t] = Step(f[t - 1], t)
    BY <1>11, <2>3, <2>4
  <2> QED BY <2>3, <2>6, <2>7, <1>3
<1>13. f \in [Nat -> Acc]
  <2>1. f = [n \in Nat |-> f[n]]
    BY <1>9
  <2> QED BY <2>1, <1>12
<1> QED
  BY <1>10, <1>11, <1>13 DEF s, Step

\* Each database of a history holds a prefix of the last one.
LEMMA ChroniclePart ==
    ASSUME NEW h, Chronicle(h), NEW j \in 1..Len(h)
    PROVE  /\ Len(h) \in Nat \ {0} /\ WellKept(h[j]) /\ h[j] \in Db
           /\ WellKept(Last(h)) /\ Last(h) \in Db
           /\ Len(h[j].log) \in Nat /\ Len(Last(h).log) \in Nat
           /\ Len(h[j].log) <= Len(Last(h).log)
           /\ \A n \in 1..Len(h[j].log) : h[j].log[n] = Last(h).log[n]
           /\ h[j].rv <= Last(h).rv
           /\ \A n \in (Len(h[j].log) + 1)..Len(Last(h).log) : Last(h).log[n].row.rv > h[j].rv
           /\ Last(h).log \in Seq(Event)
<1>1. h \in Seq(Db) /\ h # <<>> /\ \A i \in 1..Len(h) : WellKept(h[i])
  BY DEF Chronicle, Lineage
<1>2. Len(h) \in Nat \ {0} /\ Last(h) = h[Len(h)] /\ Len(h) \in 1..Len(h)
  BY <1>1 DEF Last
<1>3. WellKept(h[j]) /\ WellKept(Last(h))
  BY <1>1, <1>2
<1>4. h[j] \in Db /\ Last(h) \in Db
  BY <1>3 DEF WellKept
<1>5. /\ Len(h[j].log) \in Nat /\ Len(Last(h).log) \in Nat /\ h[j].rv \in Nat /\ Last(h).rv \in Nat
      /\ Last(h).log \in Seq(Event)
  BY <1>4, DbTypes
<1>6. CASE j = Len(h)
  BY <1>6, <1>2, <1>3, <1>4, <1>5
<1>7. CASE j # Len(h)
  <2>1. Extends(h[j], Last(h))
    BY <1>7, <1>2 DEF Chronicle, Lineage
  <2> QED BY <2>1, <1>2, <1>3, <1>4, <1>5 DEF Extends
<1> QED
  BY <1>6, <1>7

\* A database has the rows after the events it holds.
LEMMA RowsInRight ==
    ASSUME NEW h, Chronicle(h), NEW j \in 1..Len(h)
    PROVE  RowsIn(h, Len(h[j].log)) = h[j].rows
  BY DEF Chronicle

\* The last database of a history.
LEMMA LastWellKept ==
    ASSUME NEW h, Chronicle(h)
    PROVE  /\ WellKept(Last(h)) /\ Last(h) \in Db /\ Len(Last(h).log) \in Nat
           /\ Last(h).log \in Seq(Event)
<1>1. Len(h) \in Nat \ {0} /\ Len(h) \in 1..Len(h)
  BY DEF Chronicle, Lineage
<1> QED
  BY <1>1, ChroniclePart

\* There are rows after every number of events.
LEMMA RowsInType ==
    ASSUME NEW h, Chronicle(h), NEW n \in 0..Len(Last(h).log)
    PROVE  RowsIn(h, n) \in [Keys -> Row \cup {NoRow}]
  BY LastWellKept, RowsTyped DEF RowsIn

\* A key without events between two places has the same row at both.
LEMMA Untouched ==
    ASSUME NEW h, Chronicle(h), NEW k \in Keys,
           NEW m \in 0..Len(Last(h).log), NEW n \in m..Len(Last(h).log),
           \A i \in (m + 1)..n : Last(h).log[i].key # k
    PROVE  RowsIn(h, n)[k] = RowsIn(h, m)[k]
  BY LastWellKept, RowsKeep DEF RowsIn

\* What one event of the log changed.
LEMMA OneEvent ==
    ASSUME NEW h, Chronicle(h), NEW n \in 1..Len(Last(h).log)
    PROVE  /\ Last(h).log[n].key \in Keys
           /\ Turns(Last(h).log[n], RowsIn(h, n - 1)[Last(h).log[n].key], RowsIn(h, n)[Last(h).log[n].key])
           /\ \A k \in Keys \ {Last(h).log[n].key} : RowsIn(h, n)[k] = RowsIn(h, n - 1)[k]
           /\ \A k \in Keys : RowsIn(h, n)[k].rv <= Last(h).log[n].row.rv
<1>1. WellKept(Last(h)) /\ Last(h) \in Db /\ Len(Last(h).log) \in Nat
  BY LastWellKept
<1>2. Last(h).log[n].key \in Keys
  BY <1>1, DbTypes
<1>3. ASSUME NEW k \in Keys \ {Last(h).log[n].key} PROVE RowsIn(h, n)[k] = RowsIn(h, n - 1)[k]
  <2>1. n - 1 \in 0..Len(Last(h).log) /\ n \in (n - 1)..Len(Last(h).log)
    BY <1>1
  <2>2. \A i \in ((n - 1) + 1)..n : Last(h).log[i].key # k
    <3>1. \A i \in ((n - 1) + 1)..n : i = n
      BY <1>1
    <3> QED BY <3>1
  <2> QED BY <2>1, <2>2, Untouched
<1>4. \A k \in Keys : RowsIn(h, n)[k].rv <= Last(h).log[n].row.rv
  <2>1. n \in 0..Len(Last(h).log) /\ n > 0
    BY <1>1
  <2> QED BY <2>1, <1>1, RowsTyped DEF RowsIn
<1> QED
  BY <1>2, <1>3, <1>4 DEF Chronicle

\* The row of k after n events, or the body that the next event of k, a
\* DELETED, carries.
Recalls(h, row, k, n) ==
    \/ row = RowsIn(h, n)[k]
    \/ \E i \in (n + 1)..Len(Last(h).log) :
          /\ Last(h).log[i].key = k /\ Last(h).log[i].type = "DELETED" /\ row = Last(h).log[i].row
          /\ \A j \in (n + 1)..(i - 1) : Last(h).log[j].key # k

\* What the rows were after n events they were before an event of another key.
LEMMA RecallsBack ==
    ASSUME NEW h, Chronicle(h), NEW k \in Keys, NEW n \in 1..Len(Last(h).log),
           NEW row, Recalls(h, row, k, n), Last(h).log[n].key # k
    PROVE  Recalls(h, row, k, n - 1)
<1>0. Len(Last(h).log) \in Nat
  BY LastWellKept
<1>1. CASE row = RowsIn(h, n)[k]
  BY <1>1, OneEvent DEF Recalls
<1>2. CASE row # RowsIn(h, n)[k]
  <2>1. PICK i \in (n + 1)..Len(Last(h).log) :
          /\ Last(h).log[i].key = k /\ Last(h).log[i].type = "DELETED" /\ row = Last(h).log[i].row
          /\ \A j \in (n + 1)..(i - 1) : Last(h).log[j].key # k
    BY <1>2 DEF Recalls
  <2>2. i \in ((n - 1) + 1)..Len(Last(h).log)
    BY <1>0
  <2>3. ASSUME NEW j \in ((n - 1) + 1)..(i - 1) PROVE Last(h).log[j].key # k
    <3>1. j = n \/ j \in (n + 1)..(i - 1)
      BY <1>0
    <3> QED BY <3>1, <2>1
  <2> QED BY <2>1, <2>2, <2>3 DEF Recalls
<1> QED
  BY <1>1, <1>2

\* A Boolean field of a record.
LEMMA EitherField ==
    ASSUME NEW x \in BOOLEAN, NEW y \in BOOLEAN, NEW r,
           NEW z, z = [row |-> r, expired |-> x \/ y]
    PROVE  z.expired = (x \/ y)
<1>1. CASE x \/ y
  <2>1. (x \/ y) = TRUE
    BY <1>1
  <2> QED BY <2>1
<1>2. CASE ~(x \/ y)
  <2>1. (x \/ y) = FALSE
    BY <1>2
  <2> QED BY <2>1
<1> QED
  BY <1>1, <1>2

\* What is read of a key is a row, whatever was pruned.
LEMMA IdentityType ==
    ASSUME NEW d, WellKept(d), NEW p \in Position, NEW k \in Keys, NEW found \in Row \cup {NoRow}
    PROVE  Identity(d, p, k, found).row \in Row \cup {NoRow}
<1>1. PICK f : f = Observing(d, p, k, found)
  OBVIOUS
<1>2. f \in [Nat -> Acc]
  BY <1>1, ObservingRight
<1>3. Len(d.log) \in Nat
  BY DbTypes DEF WellKept
<1>4. Identity(d, p, k, found).row = f[Len(d.log)].row
  BY <1>1 DEF Identity
<1> QED
  BY <1>2, <1>3, <1>4 DEF Acc

\* historical_identity_at_position: if nothing after the position has been
\* pruned when the events are read, the row read backwards from them is the one
\* the key had at the position, or the body of the delete that came next; else
\* it is expired. The row it starts from may be older than the events.
THEOREM IdentityRight ==
    ASSUME NEW h, Chronicle(h), NEW a \in 1..Len(h), NEW p \in Position, NEW k \in Keys,
           NEW m, m = Upto(h[a].log, p), h[a].floor[k].id <= m,
           NEW c \in m..Len(h[a].log),
           NEW read, read = Identity(h[a], p, k, RowsIn(h, c)[k])
    PROVE  /\ read.row \in Row \cup {NoRow}
           /\ ~read.expired => Recalls(h, read.row, k, m)
<1> DEFINE d == h[a]
           L == Len(d.log)
           log == Last(h).log
           found == RowsIn(h, c)[k]
           f == Observing(d, p, k, found)
<1>1. /\ WellKept(d) /\ d \in Db /\ L \in Nat /\ L <= Len(log) /\ Len(log) \in Nat
      /\ \A n \in 1..L : d.log[n] = log[n]
  BY ChroniclePart
<1>2. m \in 0..L /\ \A i \in 1..L : Represents(p, i, d.log[i].row.rv) <=> i <= m
  BY <1>1, PrefixRight
<1>0. c \in 0..Len(log) /\ c \in m..L
  BY <1>1, <1>2
<1>a. found \in Row \cup {NoRow}
  BY <1>0, RowsInType
<1>3. /\ f \in [Nat -> Acc]
      /\ f[0] = [row |-> found, needs |-> FALSE, expired |-> FALSE]
      /\ \A n \in Nat \ {0} : f[n] = IF L + 1 - n \in Kept(d, k)
                                     THEN Observe(d, p, f[n - 1], L + 1 - n) ELSE f[n - 1]
  <2> HIDE DEF found, d
  <2> QED BY <1>1, <1>a, ObservingRight, SMTT(30)
<1>4. \A i \in 1..L : i \in Kept(d, k) <=> log[i].key = k /\ i > d.floor[k].id
  BY <1>1 DEF WellKept, Kept
<1>5. d.floor[k].id \in Nat /\ d.floor[k].id <= m
  BY <1>1, DbTypes
<1>6. \A i \in 1..L : log[i].type \in {"ADDED", "MODIFIED", "DELETED"}
  <2>1. \A i \in 1..L : d.log[i] \in Event
    BY <1>1, DbTypes
  <2> QED BY <2>1, <1>1 DEF Event
<1> DEFINE Fine(acc, n) ==
             \/ acc.expired
             \/ n >= m /\ (~acc.needs => Recalls(h, acc.row, k, n))
             \/ n > c /\ acc.row = found
             \/ n < m /\ ~acc.needs /\ Recalls(h, acc.row, k, m)
             \/ n < m /\ acc.needs /\ \A j \in (n + 1)..m : j \notin Kept(d, k)
<1> HIDE DEF f, L, log, d, found
<1>7. Fine(f[0], L)
  <2>1. f[0].row = found
    BY <1>3
  <2>2. CASE L = c
    <3>1. Recalls(h, found, k, L)
      BY <2>2 DEF Recalls, found
    <3> QED BY <3>1, <2>1, <1>2, <1>1
  <2>3. CASE L > c
    BY <2>1, <2>3
  <2> QED BY <2>2, <2>3, <1>0, <1>1
<1>8. ASSUME NEW acc \in Acc, NEW n \in 1..L, Fine(acc, n), n \notin Kept(d, k)
      PROVE  Fine(acc, n - 1)
  <2>1. CASE acc.expired
    BY <2>1
  <2>2. CASE ~acc.expired /\ n > m
    <3>1. log[n].key # k
      BY <2>2, <1>4, <1>5, <1>8, <1>2
    <3>2. n \in 1..Len(log) /\ n - 1 >= m
      BY <1>1, <2>2, <1>2
    <3>3. CASE n > c /\ acc.row = found
      <4>1. n - 1 = c \/ n - 1 > c
        BY <3>3, <1>0, <1>1
      <4>2. n - 1 = c => Recalls(h, acc.row, k, n - 1)
        BY <3>3 DEF Recalls, found
      <4> QED BY <4>1, <4>2, <3>2, <3>3
    <3>4. CASE ~acc.needs => Recalls(h, acc.row, k, n)
      <4>1. ~acc.needs => Recalls(h, acc.row, k, n - 1)
        BY <3>1, <3>2, <3>4, RecallsBack DEF log
      <4> QED BY <3>2, <4>1
    <3> QED BY <3>3, <3>4, <1>8, <2>2, <1>2
  <2>3. CASE ~acc.expired /\ n <= m
    <3>1. n - 1 < m
      BY <2>3, <1>2
    <3>2. CASE ~acc.needs
      <4>1. Recalls(h, acc.row, k, m)
        <5>1. n = m \/ n < m
          BY <2>3, <1>2
        <5> QED BY <5>1, <3>2, <2>3, <1>8, <1>2, <1>0
      <4> QED BY <4>1, <3>1, <3>2
    <3>3. CASE acc.needs
      <4>1. ASSUME NEW j \in ((n - 1) + 1)..m PROVE j \notin Kept(d, k)
        <5>1. j = n \/ (j \in (n + 1)..m /\ n < m)
          BY <1>2
        <5> QED BY <5>1, <3>3, <2>3, <1>8, <1>2, <1>0
      <4> QED BY <4>1, <3>1, <3>3
    <3> QED BY <3>2, <3>3
  <2> QED BY <2>1, <2>2, <2>3, <1>2
<1>9. ASSUME NEW acc \in Acc, NEW n \in 1..L, Fine(acc, n), n \in Kept(d, k)
      PROVE  Fine(Observe(d, p, acc, n), n - 1)
  <2> DEFINE e == d.log[n]
             back == [acc EXCEPT !.needs = FALSE, !.row = IF acc.needs THEN e.row ELSE acc.row]
  <2>1. e = log[n] /\ log[n].key = k /\ n \in 1..Len(log) /\ n - 1 \in 0..Len(log)
    BY <1>1, <1>4, <1>9
  <2>2. Turns(log[n], RowsIn(h, n - 1)[k], RowsIn(h, n)[k])
    BY <2>1, OneEvent DEF log
  <2>3. acc.needs \in BOOLEAN /\ acc.expired \in BOOLEAN /\ back.expired = acc.expired
        /\ back.needs = FALSE /\ (back.row = IF acc.needs THEN e.row ELSE acc.row)
    BY DEF Acc
  <2>4. CASE acc.expired \/ (acc.needs /\ e.type = "DELETED")
    <3>1. Observe(d, p, acc, n) = [acc EXCEPT !.expired = TRUE]
      BY <2>4 DEF Observe
    <3>2. [acc EXCEPT !.expired = TRUE].expired
      BY DEF Acc
    <3> QED BY <3>1, <3>2
  <2>5. CASE ~(acc.expired \/ (acc.needs /\ e.type = "DELETED")) /\ n > m
    <3>1. ~Represents(p, n, e.row.rv)
      BY <2>5, <1>2
    <3>2. n - 1 >= m
      BY <2>5, <1>2
    <3>3. CASE e.type = "ADDED"
      <4>1. Observe(d, p, acc, n) = [back EXCEPT !.row = NoRow]
        BY <2>5, <3>1, <3>3 DEF Observe
      <4>2. [back EXCEPT !.row = NoRow].row = NoRow
        BY DEF Acc
      <4>3. RowsIn(h, n - 1)[k] = NoRow
        BY <2>1, <2>2, <3>3 DEF Turns
      <4>4. Recalls(h, NoRow, k, n - 1)
        BY <4>3 DEF Recalls
      <4> QED BY <4>1, <4>2, <4>4, <3>2
    <3>4. CASE e.type = "MODIFIED"
      <4>1. Observe(d, p, acc, n) = [back EXCEPT !.needs = TRUE]
        BY <2>5, <3>1, <3>4 DEF Observe
      <4>2. [back EXCEPT !.needs = TRUE].needs
        BY DEF Acc
      <4> QED BY <4>1, <4>2, <3>2
    <3>5. CASE e.type = "DELETED"
      <4>1. Observe(d, p, acc, n) = [back EXCEPT !.row = e.row]
        BY <2>5, <3>1, <3>5 DEF Observe
      <4>2. [back EXCEPT !.row = e.row].row = e.row
        BY DEF Acc
      <4>3. n \in ((n - 1) + 1)..Len(log) /\ \A j \in ((n - 1) + 1)..(n - 1) : log[j].key # k
        BY <2>1
      <4>4. Recalls(h, e.row, k, n - 1)
        BY <2>1, <3>5, <4>3 DEF Recalls, log
      <4> QED BY <4>1, <4>2, <4>4, <3>2
    <3> QED BY <3>3, <3>4, <3>5, <1>6, <2>1
  <2>6. CASE ~(acc.expired \/ (acc.needs /\ e.type = "DELETED")) /\ n <= m
    <3>1. Represents(p, n, e.row.rv)
      BY <2>6, <1>2
    <3>2. Observe(d, p, acc, n) = back
      BY <2>6, <3>1 DEF Observe
    <3>3. n - 1 < m
      BY <2>6, <1>2
    <3>4. CASE ~acc.needs
      <4>1. Recalls(h, acc.row, k, m)
        <5>1. n = m \/ n < m
          BY <2>6, <1>2
        <5> QED BY <5>1, <3>4, <2>6, <1>9, <1>2, <1>0
      <4> QED BY <4>1, <3>2, <3>3, <3>4, <2>3
    <3>5. CASE acc.needs
      <4>1. e.type # "DELETED"
        BY <3>5, <2>6
      <4>2. RowsIn(h, n)[k] = e.row
        BY <4>1, <2>1, <2>2, <1>6 DEF Turns
      <4>3. ASSUME NEW j \in (n + 1)..m PROVE log[j].key # k
        <5>0. n > d.floor[k].id
          BY <1>4, <1>9
        <5>1. j \in 1..L /\ j > d.floor[k].id /\ n < m
          BY <1>1, <1>2, <1>5, <5>0
        <5>2. j \notin Kept(d, k)
          BY <5>1, <3>5, <2>6, <1>9, <1>2, <1>0
        <5> QED BY <5>1, <5>2, <1>4
      <4>4. RowsIn(h, m)[k] = RowsIn(h, n)[k]
        <5>1. n \in 0..Len(log) /\ m \in n..Len(log)
          BY <2>1, <1>1, <1>2, <2>6
        <5> QED BY <5>1, <4>3, Untouched DEF log
      <4>5. Recalls(h, e.row, k, m)
        BY <4>2, <4>4 DEF Recalls
      <4> QED BY <4>5, <3>2, <3>3, <3>5, <2>3
    <3> QED BY <3>4, <3>5
  <2> QED BY <2>4, <2>5, <2>6, <1>2
<1>10. \A x \in 0..L : Fine(f[x], L - x)
  <2> DEFINE T == {x \in 0..L : ~Fine(f[x], L - x)}
  <2> HIDE DEF Fine
  <2>1. SUFFICES ASSUME T # {} PROVE FALSE
    OBVIOUS
  <2>2. T \subseteq Nat
    OBVIOUS
  <2>3. PICK t \in T : \A y \in T : t <= y
    BY <2>1, <2>2, LeastNat, Zenon
  <2>4. t # 0
    <3>1. L - 0 = L
      BY <1>1
    <3> QED BY <2>3, <1>7, <3>1
  <2>5. t - 1 \in 0..L /\ ~(t <= t - 1) /\ L + 1 - t \in 1..L /\ t \in Nat \ {0} /\ t - 1 \in Nat
    BY <2>3, <2>4, <1>1
  <2> DEFINE n == L + 1 - t
  <2>6. L - (t - 1) = n /\ L - t = n - 1
    BY <2>3, <1>1
  <2>7. Fine(f[t - 1], n) /\ f[t - 1] \in Acc
    BY <2>3, <2>5, <2>6, <1>3
  <2>8. f[t] = IF n \in Kept(d, k) THEN Observe(d, p, f[t - 1], n) ELSE f[t - 1]
    BY <1>3, <2>5
  <2> HIDE DEF n
  <2>9. Fine(f[t], n - 1)
    <3>1. n \in 1..L
      BY <2>5 DEF n
    <3>2. CASE n \in Kept(d, k)
      BY <3>1, <3>2, <2>7, <2>8, <1>9
    <3>3. CASE n \notin Kept(d, k)
      BY <3>1, <3>3, <2>7, <2>8, <1>8
    <3> QED BY <3>2, <3>3
  <2> QED BY <2>9, <2>6, <2>3
<1>11. f[L] \in Acc /\ Fine(f[L], 0)
  <2>1. L \in 0..L /\ L - L = 0
    BY <1>1
  <2> HIDE DEF Fine
  <2> QED BY <2>1, <1>1, <1>3, <1>10
<1>12. read = [row |-> f[L].row, expired |-> f[L].expired \/ f[L].needs]
  BY DEF Identity, d, L, f, found
<1>13. f[L].row \in Row \cup {NoRow} /\ read.row = f[L].row
  BY <1>11, <1>12 DEF Acc
<1>14. ASSUME ~read.expired PROVE Recalls(h, read.row, k, m)
  <2>1. ~f[L].expired /\ ~f[L].needs
    <3>1. f[L].expired \in BOOLEAN /\ f[L].needs \in BOOLEAN
      BY <1>11 DEF Acc
    <3>2. read.expired = (f[L].expired \/ f[L].needs)
      BY <1>12, <3>1, EitherField
    <3> QED BY <3>1, <3>2, <1>14, Zenon
  <2>2. CASE m = 0
    BY <2>1, <2>2, <1>0, <1>11, <1>13
  <2>3. CASE m # 0
    BY <2>1, <2>3, <1>0, <1>2, <1>11, <1>13
  <2> QED BY <2>2, <2>3
<1> QED
  BY <1>13, <1>14

------------------------------------------------------------------------------
(* Committed commands.                                                       *)

\* What a committed command makes of the last database: events of one
\* resourceVersion, at most one for a key.
Succeeds(d, next) ==
    /\ WellKept(next) /\ next.rv = d.rv + 1 /\ Len(d.log) <= Len(next.log)
    /\ \A n \in 1..Len(d.log) : next.log[n] = d.log[n]
    /\ \A k \in Keys : d.floor[k].id <= next.floor[k].id
    /\ \A n \in (Len(d.log) + 1)..Len(next.log) :
          LET e == next.log[n]
          IN  /\ e.row.rv = d.rv + 1 /\ Turns(e, d.rows[e.key], Left(e)) /\ next.rows[e.key] = Left(e)
              /\ \A m \in (Len(d.log) + 1)..Len(next.log) : m # n => next.log[m].key # e.key
    /\ \A k \in Keys : (\A n \in (Len(d.log) + 1)..Len(next.log) : next.log[n].key # k) =>
                           next.rows[k] = d.rows[k]

\* An event that a command may write next.
Apt(d, e) == e \in Event /\ e.row.rv = d.rv + 1 /\ Turns(e, d.rows[e.key], Left(e))

\* A transaction that writes rows and their events keeps the database well kept.
LEMMA LoggedSucceeds ==
    ASSUME NEW d, WellKept(d), NEW events \in Seq(Event), events # <<>>,
           \A n \in 1..Len(events) : Apt(d, events[n]),
           \A m, n \in 1..Len(events) : m # n => events[m].key # events[n].key
    PROVE  /\ Succeeds(d, Logged(d, events))
           /\ Len(Logged(d, events).log) = Len(d.log) + Len(events)
           /\ \A i \in 1..Len(events) : Logged(d, events).log[Len(d.log) + i] = events[i]
<1> DEFINE n == Logged(d, events)
           L == Len(d.log)
           E == Len(events)
           Writes(k) == {i \in DOMAIN events : events[i].key = k}
<1>1. d \in Db /\ d.rv >= 1
  BY DEF WellKept
<1>2. /\ d.rv \in Nat /\ d.log \in Seq(Event) /\ L \in Nat /\ d.rows \in [Keys -> Row \cup {NoRow}]
      /\ d.kept \subseteq Nat /\ d.floor \in [Keys -> [rv : Nat, id : Nat]]
      /\ \A i \in 1..L : d.log[i] \in Event /\ d.log[i].key \in Keys /\ d.log[i].row.rv \in Nat
  BY <1>1, DbTypes
<1>3. E \in Nat /\ E > 0 /\ DOMAIN events = 1..E
  OBVIOUS
<1>4. \A i \in 1..E : events[i] \in Event /\ events[i].key \in Keys /\ events[i].row.rv = d.rv + 1
  BY DEF Apt, Event
<1> DEFINE rv2 == d.rv + 1
           kept2 == d.kept \cup (L + 1)..(L + E)
           log2 == d.log \o events
           rows2 == [k \in Keys |-> IF Writes(k) = {} THEN d.rows[k]
                                    ELSE Left(events[CHOOSE i \in Writes(k) : TRUE])]
<1>a. n = [d EXCEPT !.rv = rv2, !.log = log2, !.kept = kept2, !.rows = rows2]
  BY DEF Logged
<1>5. ASSUME NEW k \in Keys
      PROVE  /\ \A i \in 1..E : events[i].key = k => rows2[k] = Left(events[i])
             /\ (\A i \in 1..E : events[i].key # k) => rows2[k] = d.rows[k]
             /\ rows2[k] \in Row \cup {NoRow}
  <2> DEFINE c == CHOOSE i \in Writes(k) : TRUE
  <2>0. rows2[k] = IF Writes(k) = {} THEN d.rows[k] ELSE Left(events[c])
    OBVIOUS
  <2> HIDE DEF rows2
  <2>1. CASE Writes(k) = {}
    BY <2>0, <2>1, <1>2, <1>3
  <2>2. CASE Writes(k) # {}
    <3>1. c \in Writes(k)
      BY <2>2
    <3>2. c \in 1..E /\ events[c].key = k /\ rows2[k] = Left(events[c])
      BY <3>1, <2>0, <2>2, <1>3
    <3> HIDE DEF c
    <3>3. \A i \in 1..E : events[i].key = k => i = c
      BY <3>2
    <3>4. Left(events[c]) \in Row \cup {NoRow}
      BY <3>2, <1>4, LeftType
    <3> QED BY <3>2, <3>3, <3>4
  <2> QED BY <2>1, <2>2
<1>6. rows2 \in [Keys -> Row \cup {NoRow}]
  <2>1. rows2 = [k \in Keys |-> rows2[k]]
    OBVIOUS
  <2> HIDE DEF rows2
  <2> QED BY <2>1, <1>5
<1>7. /\ log2 \in Seq(Event) /\ Len(log2) = L + E
      /\ \A i \in 1..L : log2[i] = d.log[i]
      /\ \A i \in 1..E : log2[L + i] = events[i]
  BY <1>2, <1>3
<1> HIDE DEF n, rv2, kept2, log2, rows2, Writes, L, E
<1>b. /\ n.rv = rv2 /\ n.kept = kept2 /\ n.log = log2 /\ n.floor = d.floor /\ n.rows = rows2
      /\ n = [rv |-> n.rv, rows |-> n.rows, log |-> n.log, kept |-> n.kept, floor |-> n.floor]
  BY <1>a, <1>1 DEF Db
<1>8. n.rv = d.rv + 1 /\ n.kept = d.kept \cup (L + 1)..(L + E) /\ n.rv \in Nat /\ n.kept \in SUBSET Nat
  BY <1>b, <1>2, <1>3 DEF rv2, kept2
<1>9. n \in Db
  BY <1>b, <1>2, <1>6, <1>7, <1>8 DEF Db
\* Where an event of the new log comes from.
<1>10. ASSUME NEW i \in 1..(L + E)
       PROVE  \/ i \in 1..L /\ n.log[i] = d.log[i]
              \/ i \in (L + 1)..(L + E) /\ i - L \in 1..E /\ n.log[i] = events[i - L] /\ L + (i - L) = i
  <2>1. CASE i \in 1..L
    BY <2>1, <1>b, <1>7
  <2>2. CASE i \notin 1..L
    <3>1. i \in (L + 1)..(L + E) /\ i - L \in 1..E /\ L + (i - L) = i
      BY <2>2, <1>2, <1>3
    <3> QED BY <3>1, <1>b, <1>7
  <2> QED BY <2>1, <2>2
<1>11. \A k \in Keys : L + 1 > d.floor[k].id /\ d.floor[k].id \in Nat
  <2>1. ASSUME NEW k \in Keys PROVE L + 1 > d.floor[k].id /\ d.floor[k].id \in Nat
    <3>1. d.floor[k] = [rv |-> 0, id |-> 0] \/ d.floor[k].id \in 1..L
      BY DEF WellKept, L
    <3> QED BY <3>1, <1>2
  <2> QED BY <2>1
<1>12. n.kept = {i \in 1..(L + E) : i > n.floor[n.log[i].key].id}
  <2>1. d.kept = {i \in 1..L : i > d.floor[d.log[i].key].id}
    BY DEF WellKept, L
  <2>2. ASSUME NEW i \in 1..(L + E) PROVE i \in n.kept <=> i > n.floor[n.log[i].key].id
    <3>1. CASE i \in 1..L /\ n.log[i] = d.log[i]
      <4>1. i \notin (L + 1)..(L + E) /\ n.floor = d.floor
        BY <3>1, <1>2, <1>b
      <4> QED BY <3>1, <4>1, <2>1, <1>8
    <3>2. CASE i \in (L + 1)..(L + E) /\ i - L \in 1..E /\ n.log[i] = events[i - L]
      <4>1. n.log[i].key \in Keys /\ n.floor = d.floor
        BY <3>2, <1>4, <1>b
      <4>2. i > n.floor[n.log[i].key].id
        BY <4>1, <3>2, <1>2, <1>3, <1>11
      <4> QED BY <4>2, <3>2, <1>8
    <3> QED BY <3>1, <3>2, <1>10
  <2>3. n.kept \subseteq 1..(L + E)
    BY <2>1, <1>2, <1>3, <1>8
  <2> QED BY <2>2, <2>3
<1>13. ASSUME NEW c \in Keys
      PROVE  \/ n.floor[c] = [rv |-> 0, id |-> 0]
             \/ n.floor[c].id \in 1..Len(n.log) /\ n.floor[c].rv = n.log[n.floor[c].id].row.rv
  <2>1. \/ d.floor[c] = [rv |-> 0, id |-> 0]
        \/ d.floor[c].id \in 1..L /\ d.floor[c].rv = d.log[d.floor[c].id].row.rv
    BY DEF WellKept, L
  <2> QED BY <2>1, <1>2, <1>3, <1>b, <1>7
<1>14. \A i \in 1..L : d.log[i].row.rv \in 2..d.rv
  BY DEF WellKept, L
<1>15. ASSUME NEW i \in 1..(L + E) PROVE n.log[i].row.rv \in 2..n.rv
  <2>1. CASE i \in 1..L /\ n.log[i] = d.log[i]
    BY <2>1, <1>14, <1>2, <1>8
  <2>2. CASE i - L \in 1..E /\ n.log[i] = events[i - L]
    BY <2>2, <1>1, <1>2, <1>4, <1>8
  <2> QED BY <2>1, <2>2, <1>10
<1>16. ASSUME NEW i \in 1..(L + E), NEW j \in 1..(L + E), i < j
       PROVE  n.log[i].row.rv <= n.log[j].row.rv
  <2>1. CASE j - L \in 1..E /\ n.log[j] = events[j - L]
    BY <2>1, <1>15, <1>2, <1>4, <1>8
  <2>2. CASE j \in 1..L /\ n.log[j] = d.log[j]
    <3>1. i \in 1..L
      BY <2>2, <1>16, <1>2
    <3>2. n.log[i] = d.log[i]
      BY <3>1, <1>b, <1>7
    <3>3. d.log[i].row.rv <= d.log[j].row.rv
      BY <3>1, <2>2, <1>16 DEF WellKept, L
    <3> QED BY <3>2, <3>3, <2>2
  <2> QED BY <2>1, <2>2, <1>10
<1>17. WellKept(n)
  <2>1. n.rv >= 1 /\ Len(n.log) = L + E /\ n.log # <<>>
    BY <1>2, <1>3, <1>8, <1>b, <1>7
  <2> QED BY <2>1, <1>9, <1>12, <1>13, <1>15, <1>16 DEF WellKept
<1>18. ASSUME NEW i \in (L + 1)..(L + E), NEW e, e = n.log[i]
       PROVE  /\ e.row.rv = d.rv + 1 /\ Turns(e, d.rows[e.key], Left(e)) /\ n.rows[e.key] = Left(e)
              /\ \A m \in (L + 1)..(L + E) : m # i => n.log[m].key # e.key
  <2>1. i - L \in 1..E /\ e = events[i - L]
    BY <1>18, <1>10, <1>2, <1>3
  <2>2. Apt(d, e) /\ e.key \in Keys
    BY <2>1, <1>4 DEF E
  <2>3. n.rows[e.key] = Left(e)
    BY <2>1, <2>2, <1>5, <1>b
  <2>4. ASSUME NEW m \in (L + 1)..(L + E), m # i PROVE n.log[m].key # e.key
    <3>1. m - L \in 1..E /\ n.log[m] = events[m - L] /\ m - L # i - L
      BY <2>4, <1>10, <1>2, <1>3
    <3> QED BY <3>1, <2>1 DEF E
  <2> QED BY <2>2, <2>3, <2>4 DEF Apt
<1>19. ASSUME NEW k \in Keys, \A i \in (L + 1)..(L + E) : n.log[i].key # k PROVE n.rows[k] = d.rows[k]
  <2>1. ASSUME NEW i \in 1..E PROVE events[i].key # k
    <3>1. L + i \in (L + 1)..(L + E) /\ n.log[L + i] = events[i]
      BY <1>2, <1>3, <1>b, <1>7
    <3> QED BY <3>1, <1>19
  <2> QED BY <2>1, <1>5, <1>b
<1>20. Len(n.log) = L + E /\ L <= L + E /\ \A k \in Keys : d.floor[k].id <= n.floor[k].id
  BY <1>2, <1>3, <1>b, <1>7, <1>11
<1>21. \A i \in 1..L : n.log[i] = d.log[i]
  BY <1>b, <1>7
<1>22. Succeeds(d, n)
  BY <1>8, <1>17, <1>18, <1>19, <1>20, <1>21 DEF Succeeds, L
<1> QED
  BY <1>22, <1>b, <1>7 DEF n, L, E

\* A create or an update.
LEMMA PutApt ==
    ASSUME NEW d, WellKept(d), NEW k \in Keys, NEW fits \in BOOLEAN
    PROVE  Apt(d, Put(d, k, fits)) /\ Put(d, k, fits).key = k
<1> DEFINE old == d.rows[k]
           new == [uid |-> IF old = NoRow THEN d.rv + 1 ELSE old.uid, rv |-> d.rv + 1, fits |-> fits]
           type == IF old = NoRow THEN "ADDED" ELSE "MODIFIED"
           e == [type |-> type, key |-> k, row |-> new]
<1>1. d.rv \in Nat /\ old \in Row \cup {NoRow}
  BY DbTypes DEF WellKept
<1>2. old # NoRow => old.uid \in Nat \ {0}
  BY <1>1 DEF Row
<1>3. new \in Row /\ new.rv = d.rv + 1 /\ (old # NoRow => new.uid = old.uid)
  BY <1>1, <1>2 DEF Row
<1>4. type \in {"ADDED", "MODIFIED", "DELETED"} /\ type # "DELETED"
  OBVIOUS
<1>5. Put(d, k, fits) = e
  BY DEF Put
<1> HIDE DEF new, old
<1>6. e \in Event /\ e.type = type /\ e.key = k /\ e.row = new
  BY <1>3, <1>4 DEF Event
<1>7. Left(e) = new
  BY <1>4, <1>6 DEF Left
<1>8. Turns(e, old, new)
  BY <1>3, <1>6 DEF Turns
<1> QED
  BY <1>3, <1>5, <1>6, <1>7, <1>8 DEF old, Apt

\* A delete.
LEMMA DeleteApt ==
    ASSUME NEW d, WellKept(d), NEW k \in Keys, d.rows[k] # NoRow
    PROVE  Apt(d, Delete(d, k)) /\ Delete(d, k).key = k
<1> DEFINE old == d.rows[k]
           body == [old EXCEPT !.rv = d.rv + 1]
           e == [type |-> "DELETED", key |-> k, row |-> body]
<1>1. d.rv \in Nat /\ old \in Row
  BY DbTypes DEF WellKept
<1>2. body \in Row /\ body.rv = d.rv + 1 /\ body.uid = old.uid /\ body.fits = old.fits
  BY <1>1 DEF Row
<1>3. Delete(d, k) = e
  BY DEF Delete
<1> HIDE DEF body, old
<1>4. e \in Event /\ e.type = "DELETED" /\ e.key = k /\ e.row = body
  BY <1>2 DEF Event
<1>5. Left(e) = NoRow
  BY <1>4 DEF Left
<1>6. Turns(e, old, NoRow)
  BY <1>2, <1>4 DEF Turns, old
<1> QED
  BY <1>2, <1>3, <1>4, <1>5, <1>6 DEF old, Apt

\* Cardinalities of bounded sets.
LEMMA FewerBelow ==
    ASSUME NEW L \in Nat, NEW S, NEW T, S \subseteq T, T \subseteq 1..L
    PROVE  Cardinality(S) \in Nat /\ Cardinality(T) \in Nat /\ Cardinality(S) <= Cardinality(T)
<1>1. IsFiniteSet(T) /\ Cardinality(T) \in Nat /\ Cardinality(S) \in Nat
  BY BoundedIsFinite
<1> QED
  BY <1>1, FS_Subset

\* gc_watch_events_in_tx prunes the events of a scope from the oldest on,
\* whatever the shares of the scopes and the batch cap.
LEMMA PrunedOldestFirst ==
    ASSUME NEW d, WellKept(d), NEW k \in Keys, NEW i \in GcCandidates(d) \cap Kept(d, k),
           NEW j \in Kept(d, k), j < i
    PROVE  j \in GcCandidates(d)
<1> DEFINE L == Len(d.log)
           old == {x \in d.kept : \E y \in d.kept : y - x >= MaxRows}
           beyond == {x \in old : Cardinality({y \in Kept(d, d.log[x].key) : y >= x}) > MinScopeRows(d)}
<1>1. L \in Nat /\ d.kept \subseteq 1..L
  BY DbTypes DEF WellKept
<1>2. GcCandidates(d) = {x \in beyond : Cardinality({y \in beyond : y <= x}) <= BatchCap}
  BY DEF GcCandidates
<1>3. /\ i \in d.kept /\ j \in d.kept /\ d.log[i].key = k /\ d.log[j].key = k
      /\ i \in 1..L /\ j \in 1..L /\ Kept(d, k) \subseteq 1..L
  BY <1>1 DEF Kept
<1>4. i \in beyond /\ Cardinality({y \in beyond : y <= i}) <= BatchCap
  BY <1>2
<1>5. j \in old
  <2>1. PICK y \in d.kept : y - i >= MaxRows
    BY <1>4
  <2>2. y \in 1..L
    BY <1>1
  <2>3. y - j >= MaxRows
    BY <2>1, <2>2, <1>3, StoreAssumption
  <2> QED BY <2>3, <2>1, <1>3
<1>6. MinScopeRows(d) \in Nat
  <2> DEFINE keys == {d.log[x].key : x \in d.kept}
  <2>1. keys \subseteq Keys
    BY <1>1, DbTypes DEF WellKept
  <2>2. IsFiniteSet(keys) /\ k \in keys
    BY <2>1, <1>3, StoreAssumption, FS_Subset
  <2>3. Cardinality(keys) \in Nat /\ Cardinality(keys) # 0
    BY <2>2, FS_CardinalityType, FS_EmptySet
  <2>4. MinScopeRows(d) = LET share == MaxRows \div Cardinality(keys) IN IF share = 0 THEN 1 ELSE share
    BY DEF MinScopeRows
  <2> HIDE DEF keys
  <2>5. MaxRows \div Cardinality(keys) \in Nat
    BY <2>3, StoreAssumption
  <2> QED BY <2>4, <2>5
<1>7. Cardinality({y \in Kept(d, k) : y >= j}) > MinScopeRows(d)
  <2>1. {y \in Kept(d, k) : y >= i} \subseteq {y \in Kept(d, k) : y >= j}
    BY <1>3
  <2>2. {y \in Kept(d, k) : y >= j} \subseteq 1..L
    BY <1>3
  <2>3. /\ Cardinality({y \in Kept(d, k) : y >= i}) \in Nat /\ Cardinality({y \in Kept(d, k) : y >= j}) \in Nat
        /\ Cardinality({y \in Kept(d, k) : y >= i}) <= Cardinality({y \in Kept(d, k) : y >= j})
    BY <2>1, <2>2, <1>1, FewerBelow
  <2>4. Cardinality({y \in Kept(d, k) : y >= i}) > MinScopeRows(d)
    BY <1>4, <1>3
  <2> QED BY <2>3, <2>4, <1>6
<1>8. j \in beyond
  BY <1>5, <1>7, <1>3
<1>9. beyond \subseteq 1..L
  BY <1>1
<1> HIDE DEF beyond
<1>10. Cardinality({y \in beyond : y <= j}) <= BatchCap
  <2>1. {y \in beyond : y <= j} \subseteq {y \in beyond : y <= i}
    <3>1. ASSUME NEW y \in beyond, y <= j PROVE y <= i
      <4>1. y \in 1..L
        BY <1>9
      <4> QED BY <4>1, <3>1, <1>3
    <3> QED BY <3>1
  <2>2. {y \in beyond : y <= i} \subseteq 1..L
    BY <1>9
  <2>3. /\ Cardinality({y \in beyond : y <= i}) \in Nat /\ Cardinality({y \in beyond : y <= j}) \in Nat
        /\ Cardinality({y \in beyond : y <= j}) <= Cardinality({y \in beyond : y <= i})
    BY <2>1, <2>2, <1>1, FewerBelow
  <2> QED BY <2>3, <1>4, StoreAssumption
<1> QED
  BY <1>2, <1>8, <1>10

\* gc_watch_events_in_tx: the floors rise to exactly what was pruned, so that
\* no position at or above them misses an event.
THEOREM GcSucceeds ==
    ASSUME NEW d, WellKept(d), GcCandidates(d) # {}
    PROVE  Succeeds(d, GcWatchEvents(d))
<1> DEFINE L == Len(d.log)
           P == GcCandidates(d)
           Newest(k) == CHOOSE i \in P \cap Kept(d, k) : \A j \in P \cap Kept(d, k) : j <= i
           floor2 == [k \in Keys |-> IF P \cap Kept(d, k) = {} THEN d.floor[k]
                                     ELSE [rv |-> d.log[Newest(k)].row.rv, id |-> Newest(k)]]
           kept2 == d.kept \ P
           rv2 == d.rv + 1
           n == GcWatchEvents(d)
<1>1. d \in Db /\ d.kept = {i \in 1..L : i > d.floor[d.log[i].key].id}
  BY DEF WellKept
<1>2. /\ d.rv \in Nat /\ d.log \in Seq(Event) /\ L \in Nat /\ d.rows \in [Keys -> Row \cup {NoRow}]
      /\ d.kept \subseteq Nat /\ d.floor \in [Keys -> [rv : Nat, id : Nat]]
      /\ \A i \in 1..L : d.log[i] \in Event /\ d.log[i].key \in Keys /\ d.log[i].row.rv \in Nat
  BY <1>1, DbTypes
<1>3. P \subseteq d.kept
  BY DEF GcCandidates
<1>4. n = [d EXCEPT !.rv = rv2, !.kept = kept2, !.floor = floor2]
  BY DEF GcWatchEvents
<1> HIDE DEF P, Newest, floor2, kept2, rv2, n
<1>5. /\ n.rv = rv2 /\ n.kept = kept2 /\ n.floor = floor2 /\ n.log = d.log /\ n.rows = d.rows
      /\ n = [rv |-> n.rv, rows |-> n.rows, log |-> n.log, kept |-> n.kept, floor |-> n.floor]
  BY <1>1, <1>4 DEF Db
<1>6. ASSUME NEW k \in Keys, P \cap Kept(d, k) # {}
      PROVE  \E m \in 1..L : /\ m \in P /\ m \in Kept(d, k)
                             /\ \A j \in P \cap Kept(d, k) : j <= m
                             /\ floor2[k] = [rv |-> d.log[m].row.rv, id |-> m]
  <2>1. P \cap Kept(d, k) \subseteq 1..L
    BY <1>1 DEF Kept
  <2>2. \E x \in P \cap Kept(d, k) : \A y \in P \cap Kept(d, k) : y <= x
    BY <2>1, <1>2, <1>6, GreatestBelow
  <2> DEFINE m == CHOOSE i \in P \cap Kept(d, k) : \A j \in P \cap Kept(d, k) : j <= i
  <2>3. m \in P \cap Kept(d, k) /\ \A j \in P \cap Kept(d, k) : j <= m
    BY <2>2
  <2>4. floor2[k] = [rv |-> d.log[m].row.rv, id |-> m]
    BY <1>6 DEF floor2, Newest
  <2> HIDE DEF m
  <2>5. m \in 1..L /\ m \in P /\ m \in Kept(d, k)
    BY <2>1, <2>3
  <2> QED BY <2>3, <2>4, <2>5
<1>7. \A k \in Keys : P \cap Kept(d, k) = {} => floor2[k] = d.floor[k]
  BY DEF floor2
<1>8. floor2 \in [Keys -> [rv : Nat, id : Nat]]
  <2>1. ASSUME NEW k \in Keys PROVE floor2[k] \in [rv : Nat, id : Nat]
    <3>1. CASE P \cap Kept(d, k) = {}
      BY <3>1, <1>7, <1>2
    <3>2. CASE P \cap Kept(d, k) # {}
      <4>1. PICK m \in 1..L : floor2[k] = [rv |-> d.log[m].row.rv, id |-> m]
        BY <3>2, <1>6
      <4>2. m \in Nat /\ d.log[m].row.rv \in Nat
        BY <1>2
      <4> QED BY <4>1, <4>2
    <3> QED BY <3>1, <3>2
  <2>2. floor2 = [k \in Keys |-> floor2[k]]
    BY DEF floor2
  <2> QED BY <2>1, <2>2
<1>9. n \in Db
  <2>1. n.kept \in SUBSET Nat /\ n.rv \in Nat
    BY <1>2, <1>5 DEF kept2, rv2
  <2> QED BY <2>1, <1>2, <1>5, <1>8 DEF Db
<1>10. ASSUME NEW i \in 1..L PROVE i \in kept2 <=> i > floor2[d.log[i].key].id
  <2> DEFINE k == d.log[i].key
  <2>1. k \in Keys
    BY <1>2
  <2>2. CASE P \cap Kept(d, k) = {}
    <3>1. i \in d.kept => i \notin P
      BY <2>2 DEF Kept
    <3>2. i \in kept2 <=> i \in d.kept
      BY <3>1 DEF kept2
    <3> QED BY <3>2, <2>1, <2>2, <1>1, <1>7
  <2>3. CASE P \cap Kept(d, k) # {}
    <3>0. PICK m \in 1..L : /\ m \in P /\ m \in Kept(d, k)
                            /\ \A j \in P \cap Kept(d, k) : j <= m
                            /\ floor2[k] = [rv |-> d.log[m].row.rv, id |-> m]
      BY <2>1, <2>3, <1>6
    <3>1. /\ m \in P /\ m \in Kept(d, k) /\ m \in 1..L /\ floor2[k].id = m
          /\ \A j \in P \cap Kept(d, k) : j <= m
      <4>1. floor2[k].id = m
        BY <3>0
      <4> QED BY <3>0, <4>1, Zenon
    <3>2. ASSUME i > m PROVE i \in kept2
      <4>1. m > d.floor[k].id
        BY <3>1, <1>1 DEF Kept
      <4>2. i > d.floor[k].id
        BY <4>1, <3>1, <3>2, <2>1, <1>2
      <4>3. i \in d.kept
        BY <4>2, <1>1
      <4>4. i \notin P
        <5>1. i \in P => i <= m
          BY <3>1, <4>3 DEF Kept
        <5> QED BY <5>1, <3>1, <3>2
      <4> QED BY <4>3, <4>4 DEF kept2
    <3>3. ASSUME i \in kept2 PROVE i > m
      <4>1. i \in d.kept /\ i \notin P /\ i \in Kept(d, k)
        BY <3>3 DEF kept2, Kept
      <4>2. ~(i < m)
        <5>1. i < m => i \in P
          BY <4>1, <3>1, <2>1, PrunedOldestFirst DEF P
        <5> QED BY <5>1, <4>1
      <4>3. i # m
        BY <4>1, <3>1
      <4> QED BY <4>2, <4>3, <3>1
    <3> QED BY <3>1, <3>2, <3>3
  <2> QED BY <2>2, <2>3
<1>11. n.kept = {i \in 1..Len(n.log) : i > n.floor[n.log[i].key].id}
  <2>1. kept2 \subseteq 1..L
    BY <1>1 DEF kept2
  <2> QED BY <2>1, <1>10, <1>5
<1>12. ASSUME NEW k \in Keys
       PROVE  \/ n.floor[k] = [rv |-> 0, id |-> 0]
              \/ n.floor[k].id \in 1..Len(n.log) /\ n.floor[k].rv = n.log[n.floor[k].id].row.rv
  <2>1. CASE P \cap Kept(d, k) = {}
    BY <2>1, <1>5, <1>7 DEF WellKept
  <2>2. CASE P \cap Kept(d, k) # {}
    <3>1. PICK m \in 1..L : floor2[k] = [rv |-> d.log[m].row.rv, id |-> m]
      BY <2>2, <1>6
    <3> QED BY <3>1, <1>5
  <2> QED BY <2>1, <2>2
<1>13. n.log # <<>>
  <2>1. PICK i \in P : TRUE
    BY DEF P
  <2>2. i \in 1..L
    BY <1>1, <1>3
  <2> QED BY <2>2, <1>5, <1>2
<1>14. \A i \in 1..Len(n.log) : n.log[i].row.rv \in 2..n.rv
  <2>1. \A i \in 1..L : d.log[i].row.rv \in 2..d.rv
    BY DEF WellKept
  <2> QED BY <2>1, <1>2, <1>5 DEF rv2
<1>15. WellKept(n)
  <2>1. n.rv >= 1
    BY <1>2, <1>5 DEF rv2
  <2>2. \A i, j \in 1..Len(n.log) : i < j => n.log[i].row.rv <= n.log[j].row.rv
    BY <1>5 DEF WellKept
  <2> QED BY <2>1, <2>2, <1>9, <1>11, <1>12, <1>13, <1>14 DEF WellKept
<1>16. ASSUME NEW k \in Keys PROVE d.floor[k].id <= n.floor[k].id
  <2>0. d.floor[k].id \in Nat
    BY <1>2
  <2>1. CASE P \cap Kept(d, k) = {}
    BY <2>0, <2>1, <1>5, <1>7
  <2>2. CASE P \cap Kept(d, k) # {}
    <3>1. PICK m \in 1..L : m \in Kept(d, k) /\ floor2[k] = [rv |-> d.log[m].row.rv, id |-> m]
      BY <2>2, <1>6
    <3>2. m > d.floor[k].id
      BY <3>1, <1>1 DEF Kept
    <3> QED BY <3>1, <3>2, <2>0, <1>5
  <2> QED BY <2>1, <2>2
<1>17. (L + 1)..Len(n.log) = {} /\ Len(n.log) = L
  BY <1>2, <1>5
<1> QED
  BY <1>2, <1>5, <1>15, <1>16, <1>17 DEF Succeeds, rv2, n

\* The empty database.
LEMMA ChronicleStarts == Chronicle(<<EmptyDb>>)
<1> DEFINE h == <<EmptyDb>>
           d == EmptyDb
<1>1. /\ d.rv = 1 /\ d.log = <<>> /\ d.kept = {} /\ Len(d.log) = 0
      /\ d.floor = [k \in Keys |-> [rv |-> 0, id |-> 0]]
      /\ d.rows = [k \in Keys |-> NoRow]
  BY DEF EmptyDb
<1>2. d \in Db
  <2>1. d.rows \in [Keys -> Row \cup {NoRow}] /\ d.floor \in [Keys -> [rv : Nat, id : Nat]]
    BY <1>1
  <2>2. d.log \in Seq(Event) /\ d.kept \in SUBSET Nat /\ d.rv \in Nat
    BY <1>1
  <2> QED BY <2>1, <2>2 DEF Db, EmptyDb
<1>3. WellKept(d)
  BY <1>1, <1>2 DEF WellKept
<1> HIDE DEF d
<1>4. h \in Seq(Db) /\ Len(h) = 1 /\ h[1] = d /\ h # <<>> /\ Last(h) = d
  BY <1>2 DEF d, Last
<1> HIDE DEF h
<1>5. Lineage(h)
  BY <1>3, <1>4 DEF Lineage
<1>6. RowsIn(h, 0) = [k \in Keys |-> NoRow]
  <2>1. ASSUME NEW k \in Keys PROVE RowsAt(d.log, 0)[k] = NoRow
    <3>1. d.log \in Seq(Event) /\ 0 \in 0..Len(d.log) /\ 1..0 = {}
      BY <1>1
    <3> QED BY <3>1, RowsLast
  <2>2. RowsAt(d.log, 0) = [k \in Keys |-> RowsAt(d.log, 0)[k]]
    BY DEF RowsAt
  <2> QED BY <2>1, <2>2, <1>4 DEF RowsIn
<1> QED
  BY <1>1, <1>4, <1>5, <1>6 DEF Chronicle, h

\* A committed command extends the history and leaves the past as it was.
LEMMA ChronicleGrows ==
    ASSUME NEW h, Chronicle(h), NEW next, Succeeds(Last(h), next),
           NEW g, g = Append(h, next)
    PROVE  /\ Chronicle(g) /\ Last(g) = next
           /\ Len(Last(h).log) <= Len(next.log) /\ next.rv = Last(h).rv + 1
           /\ \A n \in 1..Len(Last(h).log) : next.log[n] = Last(h).log[n]
           /\ \A n \in (Len(Last(h).log) + 1)..Len(next.log) : next.log[n].row.rv = Last(h).rv + 1
           /\ \A n \in 0..Len(Last(h).log) : RowsIn(g, n) = RowsIn(h, n)
<1> DEFINE d == Last(h)
           N == Len(h)
           L == Len(d.log)
           M == Len(next.log)
<1>1. Lineage(h) /\ h \in Seq(Db) /\ N \in Nat \ {0} /\ d = h[N] /\ N \in 1..N
  BY DEF Chronicle, Lineage, Last
<1>2. WellKept(d) /\ d \in Db /\ L \in Nat /\ d.rv \in Nat /\ d.log \in Seq(Event)
  BY <1>1, ChroniclePart, DbTypes
<1>3. /\ WellKept(next) /\ next \in Db /\ next.rv = d.rv + 1 /\ L <= M
      /\ \A n \in 1..L : next.log[n] = d.log[n]
      /\ \A k \in Keys : d.floor[k].id <= next.floor[k].id
      /\ \A n \in (L + 1)..M : next.log[n].row.rv = d.rv + 1
  BY DEF Succeeds, WellKept
<1>a. next.log \in Seq(Event) /\ M \in Nat /\ \A n \in 1..M : next.log[n] \in Event /\ next.log[n].key \in Keys
  BY <1>3, DbTypes
<1>4. g \in Seq(Db) /\ Len(g) = N + 1 /\ g[N + 1] = next /\ \A j \in 1..N : g[j] = h[j]
  BY <1>1, <1>3
<1>5. Last(g) = next /\ g # <<>>
  BY <1>4, <1>1 DEF Last
<1>6. ASSUME NEW n \in (L + 1)..M, NEW e, e = next.log[n]
      PROVE  /\ Turns(e, d.rows[e.key], Left(e)) /\ next.rows[e.key] = Left(e)
             /\ \A m \in (L + 1)..M : m # n => next.log[m].key # e.key
  BY <1>6 DEF Succeeds
<1>7. \A k \in Keys : (\A n \in (L + 1)..M : next.log[n].key # k) => next.rows[k] = d.rows[k]
  BY DEF Succeeds
<1> HIDE DEF d, N, L, M
<1>8. ASSUME NEW j \in 1..N PROVE Extends(h[j], next)
  <2>1. /\ Len(h[j].log) \in Nat /\ Len(h[j].log) <= L /\ h[j].rv <= d.rv /\ h[j] \in Db
        /\ \A n \in 1..Len(h[j].log) : h[j].log[n] = d.log[n]
        /\ \A n \in (Len(h[j].log) + 1)..L : d.log[n].row.rv > h[j].rv
    BY ChroniclePart DEF d, L, N
  <2>2. h[j].rv \in Nat /\ \A k \in Keys : h[j].floor[k].id \in Nat
    BY <2>1, DbTypes
  <2>3. \A k \in Keys : h[j].floor[k].id <= d.floor[k].id
    <3>1. CASE j = N
      BY <3>1, <2>2, <1>1
    <3>2. CASE j # N
      <4>1. Extends(h[j], h[N])
        BY <3>2, <1>1 DEF Lineage, N
      <4> QED BY <4>1, <1>1 DEF Extends
    <3> QED BY <3>1, <3>2
  <2>4. \A n \in 1..Len(h[j].log) : h[j].log[n] = next.log[n]
    BY <2>1, <1>2, <1>3
  <2>5. ASSUME NEW n \in (Len(h[j].log) + 1)..M PROVE next.log[n].row.rv > h[j].rv
    <3>1. CASE n <= L
      <4>1. n \in 1..L /\ n \in (Len(h[j].log) + 1)..L
        BY <3>1, <2>1, <1>2
      <4> QED BY <4>1, <2>1, <1>3
    <3>2. CASE n > L
      <4>1. n \in (L + 1)..M
        BY <3>2, <1>2, <1>a
      <4> QED BY <4>1, <1>3, <1>2, <2>1, <2>2, SMTT(30)
    <3> QED BY <3>1, <3>2, <1>2, <2>1
  <2>6. \A k \in Keys : h[j].floor[k].id <= next.floor[k].id
    <3>1. \A k \in Keys : d.floor[k].id \in Nat /\ next.floor[k].id \in Nat
      BY <1>2, <1>3, DbTypes
    <3> QED BY <3>1, <2>2, <2>3, <1>3
  <2>7. Len(h[j].log) <= M /\ h[j].rv < next.rv
    BY <2>1, <2>2, <1>2, <1>3, <1>a
  <2> QED BY <2>4, <2>5, <2>6, <2>7 DEF Extends, M
<1>10. Lineage(g)
  <2>1. ASSUME NEW j \in 1..(N + 1) PROVE WellKept(g[j])
    <3>1. CASE j = N + 1
      BY <3>1, <1>3, <1>4
    <3>2. CASE j # N + 1
      <4>1. j \in 1..N
        BY <3>2, <1>1
      <4> QED BY <4>1, <1>1, <1>4 DEF Lineage, N
    <3> QED BY <3>1, <3>2
  <2>2. ASSUME NEW i \in 1..(N + 1), NEW j \in 1..(N + 1), i < j PROVE Extends(g[i], g[j])
    <3>1. i \in 1..N /\ g[i] = h[i]
      BY <2>2, <1>1, <1>4
    <3>2. CASE j = N + 1
      BY <3>1, <3>2, <1>4, <1>8
    <3>3. CASE j # N + 1
      <4>1. j \in 1..N /\ g[j] = h[j]
        BY <3>3, <1>1, <1>4
      <4> QED BY <4>1, <3>1, <2>2, <1>1 DEF Lineage, N
    <3> QED BY <3>2, <3>3
  <2> QED BY <2>1, <2>2, <1>4, <1>5 DEF Lineage
<1>11. ASSUME NEW n \in 0..L PROVE RowsIn(g, n) = RowsIn(h, n)
  <2>1. \A i \in 1..n : d.log[i] = next.log[i]
    BY <1>2, <1>3
  <2>2. n \in 0..Len(d.log) /\ n <= Len(next.log)
    BY <1>2, <1>3, <1>a DEF L, M
  <2>3. RowsAt(d.log, n) = RowsAt(next.log, n)
    BY <2>1, <2>2, <1>2, <1>a, RowsSame
  <2> QED BY <2>3, <1>5 DEF RowsIn, d
<1>12. RowsIn(h, L) = d.rows
  BY <1>1, RowsInRight DEF N, L
<1>13. RowsIn(g, L) = d.rows
  BY <1>11, <1>12, <1>2
\* The new events one by one.
<1>14. ASSUME NEW n \in (L + 1)..M, NEW e, e = next.log[n]
       PROVE  /\ RowsIn(g, n - 1)[e.key] = d.rows[e.key] /\ RowsIn(g, n)[e.key] = Left(e)
              /\ RowsIn(g, M)[e.key] = Left(e)
  <2>1. n \in 1..M /\ e \in Event /\ e.key \in Keys /\ n - 1 \in L..M /\ L \in 0..M
    BY <1>2, <1>3, <1>a, <1>14
  <2>2. \A m \in (L + 1)..M : m # n => next.log[m].key # e.key
    BY <1>6, <1>14
  <2>3. RowsAt(next.log, n - 1)[e.key] = RowsAt(next.log, L)[e.key]
    <3>1. \A j \in (L + 1)..(n - 1) : next.log[j].key # e.key
      <4>1. \A j \in (L + 1)..(n - 1) : j \in (L + 1)..M /\ j # n
        BY <2>1, <1>2, <1>a
      <4> QED BY <4>1, <2>2
    <3> QED BY <3>1, <2>1, <1>a, RowsKeep DEF M
  <2>4. ASSUME NEW c \in n..M PROVE RowsAt(next.log, c)[e.key] = Left(e)
    <3>1. c \in 0..M /\ n \in 1..c
      BY <2>1, <1>a
    <3>2. \A j \in (n + 1)..c : next.log[j].key # e.key
      <4>1. \A j \in (n + 1)..c : j \in (L + 1)..M /\ j # n
        BY <2>1, <1>2, <1>a
      <4> QED BY <4>1, <2>2
    <3>3. next.log[n].key = e.key
      BY <1>14
    <3>4. RowsAt(next.log, c)[e.key] = Left(next.log[n])
      BY <3>1, <3>2, <3>3, <2>1, <1>a, RowsFrom DEF M
    <3> QED BY <3>4, <1>14
  <2>5. n \in n..M /\ M \in n..M
    BY <2>1, <1>a
  <2> QED BY <2>3, <2>4, <2>5, <1>5, <1>13 DEF RowsIn
<1>15. RowsIn(g, M) = next.rows
  <2>1. ASSUME NEW k \in Keys PROVE RowsIn(g, M)[k] = next.rows[k]
    <3>1. CASE \A n \in (L + 1)..M : next.log[n].key # k
      <4>1. L \in 0..M /\ M \in L..M
        BY <1>2, <1>3, <1>a
      <4>2. RowsAt(next.log, M)[k] = RowsAt(next.log, L)[k]
        BY <4>1, <3>1, <1>a, RowsKeep DEF M
      <4> QED BY <4>2, <3>1, <1>5, <1>7, <1>13 DEF RowsIn
    <3>2. CASE \E n \in (L + 1)..M : next.log[n].key = k
      <4>1. PICK n \in (L + 1)..M : next.log[n].key = k
        BY <3>2
      <4>2. next.rows[k] = Left(next.log[n])
        BY <4>1, <1>6
      <4>3. RowsIn(g, M)[k] = Left(next.log[n])
        BY <4>1, <1>14
      <4> QED BY <4>2, <4>3
    <3> QED BY <3>1, <3>2
  <2>2. next.rows \in [Keys -> Row \cup {NoRow}]
    BY <1>3, DbTypes
  <2>3. RowsIn(g, M) = [k \in Keys |-> RowsIn(g, M)[k]]
    BY DEF RowsIn, RowsAt
  <2> QED BY <2>1, <2>2, <2>3
<1>16. ASSUME NEW n \in 1..M, NEW e, e = next.log[n]
       PROVE  Turns(e, RowsIn(g, n - 1)[e.key], RowsIn(g, n)[e.key])
  <2>1. CASE n <= L
    <3>1. n \in 1..L /\ n \in 0..L /\ n - 1 \in 0..L
      BY <2>1, <1>2
    <3>2. e = d.log[n] /\ RowsIn(g, n) = RowsIn(h, n) /\ RowsIn(g, n - 1) = RowsIn(h, n - 1)
      BY <3>1, <1>3, <1>11, <1>16
    <3> QED BY <3>1, <3>2, OneEvent DEF d, L
  <2>2. CASE n > L
    <3>1. n \in (L + 1)..M
      BY <2>2, <1>2, <1>a
    <3> QED BY <3>1, <1>6, <1>14, <1>16
  <2> QED BY <2>1, <2>2, <1>2
<1>17. ASSUME NEW j \in 1..(N + 1) PROVE g[j].rows = RowsIn(g, Len(g[j].log))
  <2>1. CASE j = N + 1
    BY <2>1, <1>4, <1>15 DEF M
  <2>2. CASE j # N + 1
    <3>1. j \in 1..N /\ g[j] = h[j]
      BY <2>2, <1>1, <1>4
    <3>2. Len(h[j].log) \in 0..L /\ RowsIn(h, Len(h[j].log)) = h[j].rows
      BY <3>1, <1>2, ChroniclePart, RowsInRight DEF N, L, d
    <3> QED BY <3>1, <3>2, <1>11
  <2> QED BY <2>1, <2>2
<1>18. Chronicle(g)
  BY <1>4, <1>5, <1>10, <1>16, <1>17 DEF Chronicle, M
<1> QED
  BY <1>2, <1>3, <1>5, <1>11, <1>18 DEF d, L, M
==============================================================================
