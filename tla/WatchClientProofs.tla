-------------------------- MODULE WatchClientProofs --------------------------
(*****************************************************************************)
(* Theorems about clients of the API server: what the resourceVersion they   *)
(* hold covers has been delivered, and an idle watch is a current one.       *)
(*****************************************************************************)
EXTENDS WatchConsumersProofs

\* The hypothesis of the theorems: every watch starts from a list or an initial
\* state, and a server that is behind is waited for (build_label_selector_watch_
\* stream; README, section 5). The invariant is also under RvsApart: no batch
\* has written two objects of the watch.
RequestsSafe == "unset" \notin Requests /\ ~WaitEnds
\* How many events a resourceVersion covers.
Below(h, rv) == Reach(h, At(rv, 0))
\* Nothing to see after m up to n.
Even(w, h, m, n) == \A i \in m..n : Sight(w, h, i) = Sight(w, h, m)
\* A view that continues from place x will be right: each row is one of a place
\* between x and the last one delivered, so that a replay from x repairs it, and
\* after the last one delivered nothing was to be seen up to x.
Resumable(w, h, view, last, x) ==
    /\ last <= Top(h)
    /\ \A k \in Keys : \E y \in 0..last : (y >= x \/ y = last) /\ view[k] = Sight(w, h, y)[k]
    /\ Even(w, h, last, x)
\* The client can continue from place x.
Owes(x) == Resumable(watcher, history, clientView, through, x)
\* The initial frames, not yet sent, are what is to be seen at the position of
\* the session, and their resourceVersion covers nothing after it.
InitialInv ==
    baseline # NoBaseline =>
        /\ clientRv = 0 /\ phase \in Opened \cup {"expired", "refused"}
        /\ phase \in Opened =>
              /\ pending = <<>> /\ Exact(history, pos) /\ baseline = Sight(watcher, history, pos.id)
              /\ delivered > 0 /\ Below(history, delivered) <= pos.id
\* A request by resourceVersion waits for its anchor on a server that has
\* applied that resourceVersion.
AnchorInv ==
    phase = "anchor" => pos = At(clientRv, 0) /\ clientRv > 0 /\ delivered = clientRv /\ clientRv <= Served.rv
\* The client can continue from the place of its session, which has passed
\* every event of the watch that last_delivered_rv, and hence a bookmark, covers.
DeliveryInv ==
    phase \in Opened /\ baseline = NoBaseline =>
        /\ delivered > 0 /\ clientRv <= delivered /\ Owes(Place)
        /\ SilentIn(watcher, history, Place, Below(history, delivered))
\* A client without a session can continue from its resourceVersion.
AwayInv == phase \notin Opened /\ clientRv > 0 => Owes(Below(history, clientRv))
\* The inductive invariant of the client, over WatchInv.
ClientInv ==
    /\ watcher = "worker" => clientRv = 0 /\ baseline = NoBaseline
    /\ watcher # "worker" => InitialInv /\ AnchorInv /\ DeliveryInv /\ AwayInv

------------------------------------------------------------------------------
(* ResourceVersions and views.                                               *)

\* A resourceVersion covers a prefix of the log.
LEMMA BelowRight ==
    ASSUME NEW h, Chronicle(h), NEW rv \in Nat
    PROVE  /\ Below(h, rv) \in 0..Top(h) /\ Top(h) \in Nat
           /\ \A i \in 1..Top(h) : Log(h)[i].row.rv <= rv <=> i <= Below(h, rv)
<1>1. At(rv, 0) \in Position
  BY DEF At, Position
<1>2. /\ Below(h, rv) \in 0..Top(h)
      /\ \A i \in 1..Top(h) : Represents(At(rv, 0), i, Log(h)[i].row.rv) <=> i <= Below(h, rv)
  BY <1>1, ReachRight DEF Below
<1>3. Top(h) \in Nat
  BY Tops
<1>4. \A i \in 1..Top(h) : Represents(At(rv, 0), i, Log(h)[i].row.rv) <=> Log(h)[i].row.rv <= rv
  BY <1>3 DEF Represents, At
<1> QED
  BY <1>2, <1>3, <1>4

\* That prefix is the only one.
LEMMA BelowUnique ==
    ASSUME NEW h, Chronicle(h), NEW rv \in Nat, NEW m \in 0..Top(h),
           \A i \in 1..Top(h) : Log(h)[i].row.rv <= rv <=> i <= m
    PROVE  Below(h, rv) = m
<1> DEFINE u == Below(h, rv)
<1>1. u \in 0..Top(h) /\ Top(h) \in Nat /\ \A i \in 1..Top(h) : i <= u <=> i <= m
  BY BelowRight
<1> HIDE DEF u
<1>2. CASE u < m
  <2>1. m \in 1..Top(h)
    BY <1>1, <1>2
  <2> QED BY <2>1, <1>1, <1>2
<1>3. CASE m < u
  <2>1. u \in 1..Top(h)
    BY <1>1, <1>3
  <2> QED BY <2>1, <1>1, <1>3
<1> QED
  BY <1>1, <1>2, <1>3 DEF u

\* A larger resourceVersion covers no less.
LEMMA BelowRises ==
    ASSUME NEW h, Chronicle(h), NEW a \in Nat, NEW b \in Nat, a <= b
    PROVE  Below(h, a) <= Below(h, b)
<1>1. /\ Below(h, a) \in 0..Top(h) /\ Below(h, b) \in 0..Top(h) /\ Top(h) \in Nat
      /\ \A i \in 1..Top(h) : Log(h)[i].row.rv <= a <=> i <= Below(h, a)
      /\ \A i \in 1..Top(h) : Log(h)[i].row.rv <= b <=> i <= Below(h, b)
      /\ \A i \in 1..Top(h) : Log(h)[i].row.rv \in Nat
  <2>1. \A i \in 1..Top(h) : Log(h)[i].row.rv \in Nat
    BY Tops
  <2> QED BY <2>1, BelowRight
<1>2. CASE Below(h, a) = 0
  BY <1>1, <1>2
<1>3. CASE Below(h, a) # 0
  <2>1. Below(h, a) \in 1..Top(h)
    BY <1>1, <1>3
  <2>2. Log(h)[Below(h, a)].row.rv <= a /\ Log(h)[Below(h, a)].row.rv \in Nat
    BY <2>1, <1>1
  <2>3. Log(h)[Below(h, a)].row.rv <= b
    BY <2>2
  <2> QED BY <2>1, <2>3, <1>1
<1> QED
  BY <1>2, <1>3

\* What is committed later has a larger resourceVersion.
LEMMA BelowGrows ==
    ASSUME NEW h, Chronicle(h), NEW g, Grows(h, g), NEW rv \in Nat, rv <= Last(h).rv
    PROVE  Below(g, rv) = Below(h, rv)
<1>1. At(rv, 0) \in Position /\ Known(h, At(rv, 0))
  BY Tops DEF At, Position, Known
<1> QED
  BY <1>1, KnownGrows DEF Below

\* The resourceVersion of a list covers the events its server has applied.
LEMMA BelowServed ==
    ASSUME NEW h, Chronicle(h), NEW a \in 1..Len(h)
    PROVE  Below(h, h[a].rv) = Len(h[a].log)
<1> DEFINE n == Len(h[a].log)
           v == h[a].rv
<1>1. /\ WellKept(h[a]) /\ n \in 0..Top(h) /\ v \in 1..Last(h).rv
      /\ \A i \in 1..n : h[a].log[i] = Log(h)[i]
      /\ \A i \in (n + 1)..Top(h) : Log(h)[i].row.rv > v
  BY ServedRight
<1>2. Top(h) \in Nat /\ Last(h).rv \in Nat /\ \A i \in 1..Top(h) : Log(h)[i].row.rv \in Nat
  BY Tops
<1>3. \A i \in 1..n : Log(h)[i].row.rv <= v
  <2>1. \A i \in 1..n : h[a].log[i].row.rv \in 2..v
    BY <1>1 DEF WellKept
  <2> QED BY <2>1, <1>1
<1> HIDE DEF n, v
<1>4. \A i \in 1..Top(h) : Log(h)[i].row.rv <= v <=> i <= n
  <2>1. ASSUME NEW i \in 1..Top(h) PROVE Log(h)[i].row.rv <= v <=> i <= n
    <3>1. CASE i <= n
      <4>1. i \in 1..n
        BY <3>1, <1>1, <1>2
      <4> QED BY <4>1, <3>1, <1>3
    <3>2. CASE i > n
      <4>1. i \in (n + 1)..Top(h)
        BY <3>2, <1>1, <1>2
      <4>2. Log(h)[i].row.rv > v /\ Log(h)[i].row.rv \in Nat /\ v \in Nat /\ n \in Nat
        BY <4>1, <1>1, <1>2
      <4> QED BY <4>2, <3>2
    <3>3. n \in Nat
      BY <1>1, <1>2
    <3> QED BY <3>1, <3>2, <3>3
  <2> QED BY <2>1
<1>5. v \in Nat
  BY <1>1, <1>2
<1>6. Below(h, v) = n
  BY <1>1, <1>4, <1>5, BelowUnique
<1> QED
  BY <1>6 DEF n, v

\* A part of a stretch without events about the watcher.
LEMMA SilentWithin ==
    ASSUME NEW h, NEW w, NEW m \in Nat, NEW n \in Nat, SilentIn(w, h, m, n),
           NEW a \in Nat, m <= a, NEW b \in Nat, b <= n
    PROVE  SilentIn(w, h, a, b)
<1>1. \A i \in (a + 1)..b : i \in (m + 1)..n
  OBVIOUS
<1> QED
  BY <1>1 DEF SilentIn

\* The resourceVersion of an event of the watch covers no later one.
LEMMA BelowEvent ==
    ASSUME SessionInv, RvsApart, NEW i \in 1..Top(history), Log(history)[i].key \in TargetOf(watcher),
           NEW v \in Nat, v <= Log(history)[i].row.rv
    PROVE  SilentIn(watcher, history, i, Below(history, v))
<1>1. Chronicle(history)
  BY SessionFacts
<1>2. Latest.log = Log(history) /\ Len(Latest.log) = Top(history) /\ Target = TargetOf(watcher)
  BY SeenAfter DEF Log, Top
<1>3. /\ Below(history, v) \in 0..Top(history) /\ Top(history) \in Nat
      /\ \A j \in 1..Top(history) : Log(history)[j].row.rv <= v <=> j <= Below(history, v)
  BY <1>1, BelowRight
<1>4. \A j \in 1..Top(history) : Log(history)[j].row.rv \in Nat
  BY <1>1, Tops
<1>5. ASSUME NEW j \in (i + 1)..Below(history, v) PROVE Log(history)[j].key \notin TargetOf(watcher)
  <2>1. j \in 1..Top(history) /\ i < j /\ j <= Below(history, v)
    BY <1>3
  <2>2. Log(history)[j].row.rv <= v
    BY <2>1, <1>3
  <2>3. ~(Log(history)[i].row.rv < Log(history)[j].row.rv)
    BY <2>1, <2>2, <1>4
  <2> QED BY <2>1, <2>3, <1>2 DEF RvsApart
<1> QED
  BY <1>5 DEF SilentIn

\* Without events about the watcher there is nothing to see.
LEMMA SilentEven ==
    ASSUME NEW h, Chronicle(h), NEW w, NEW m \in 0..Top(h), NEW n \in m..Top(h), SilentIn(w, h, m, n)
    PROVE  Even(w, h, m, n)
<1>1. Top(h) \in Nat
  BY Tops
<1>2. ASSUME NEW i \in m..n PROVE Sight(w, h, i) = Sight(w, h, m)
  <2>1. i \in m..Top(h) /\ \A j \in (m + 1)..i : j \in (m + 1)..n
    BY <1>1
  <2>2. SilentIn(w, h, m, i)
    BY <2>1 DEF SilentIn
  <2> QED BY <2>1, <2>2, SightSilent
<1> QED
  BY <1>2 DEF Even

\* The session moves on past events that are not to be seen.
LEMMA ResumableOn ==
    ASSUME NEW h, Chronicle(h), NEW w, NEW view, NEW last \in Nat, NEW x \in Nat, NEW z \in Nat, x <= z, z <= Top(h),
           Resumable(w, h, view, last, x), Even(w, h, x, z)
    PROVE  Resumable(w, h, view, last, z)
<1>1. \A i \in x..z : Sight(w, h, i) = Sight(w, h, x)
  BY DEF Even
<1>2. last <= Top(h) /\ \A i \in last..x : Sight(w, h, i) = Sight(w, h, last)
  BY DEF Resumable, Even
<1>3. ASSUME NEW k \in Keys
      PROVE  \E y \in 0..last : (y >= z \/ y = last) /\ view[k] = Sight(w, h, y)[k]
  <2>1. PICK y \in 0..last : (y >= x \/ y = last) /\ view[k] = Sight(w, h, y)[k]
    BY DEF Resumable
  <2>2. CASE y >= z \/ y = last
    BY <2>1, <2>2
  <2>3. CASE ~(y >= z \/ y = last)
    <3>1. y \in x..z
      BY <2>1, <2>3
    <3>2. CASE last <= z
      <4>1. last \in x..z /\ last \in 0..last
        BY <3>1, <3>2
      <4>2. view[k] = Sight(w, h, last)[k]
        BY <4>1, <3>1, <2>1, <1>1
      <4> QED BY <4>1, <4>2
    <3>3. CASE last > z
      <4>1. z \in x..z /\ z \in 0..last /\ z >= z
        BY <3>3
      <4>2. view[k] = Sight(w, h, z)[k]
        BY <4>1, <3>1, <2>1, <1>1
      <4> QED BY <4>1, <4>2
    <3> QED BY <3>2, <3>3
  <2> QED BY <2>2, <2>3
<1>4. ASSUME NEW i \in last..z PROVE Sight(w, h, i) = Sight(w, h, last)
  <2>1. CASE i <= x
    <3>1. i \in last..x
      BY <2>1
    <3> QED BY <3>1, <1>2
  <2>2. CASE i > x /\ last <= x
    <3>1. i \in x..z /\ x \in last..x
      BY <2>2
    <3>2. Sight(w, h, i) = Sight(w, h, x) /\ Sight(w, h, x) = Sight(w, h, last)
      BY <3>1, <1>1, <1>2
    <3> QED BY <3>2
  <2>3. CASE i > x /\ last > x
    <3>1. i \in x..z /\ last \in x..z
      BY <2>3
    <3> QED BY <3>1, <1>1
  <2> QED BY <2>1, <2>2, <2>3
<1> QED
  BY <1>2, <1>3, <1>4 DEF Resumable, Even

\* A replay may start earlier.
LEMMA ResumableBack ==
    ASSUME NEW h, NEW w, NEW view, NEW last \in Nat, NEW x \in Nat, NEW z \in Nat, x <= z,
           Resumable(w, h, view, last, z)
    PROVE  Resumable(w, h, view, last, x)
<1>1. ASSUME NEW k \in Keys
      PROVE  \E y \in 0..last : (y >= x \/ y = last) /\ view[k] = Sight(w, h, y)[k]
  <2>1. PICK y \in 0..last : (y >= z \/ y = last) /\ view[k] = Sight(w, h, y)[k]
    BY DEF Resumable
  <2>2. y >= x \/ y = last
    BY <2>1
  <2> QED BY <2>1, <2>2
<1>2. Even(w, h, last, x)
  <2>1. \A i \in last..x : i \in last..z
    OBVIOUS
  <2> QED BY <2>1 DEF Resumable, Even
<1> QED
  BY <1>1, <1>2 DEF Resumable

\* What is committed later is replayed later.
LEMMA ResumableGrows ==
    ASSUME NEW h, Chronicle(h), NEW g, Grows(h, g), NEW w, NEW view, NEW last \in Nat, NEW x \in 0..Top(h),
           Resumable(w, h, view, last, x)
    PROVE  Resumable(w, g, view, last, x)
<1>1. Top(h) \in Nat /\ Top(g) \in Nat /\ Top(h) <= Top(g) /\ \A n \in 0..Top(h) : Sight(w, g, n) = Sight(w, h, n)
  BY Grown, Tops
<1>2. last <= Top(h)
  BY DEF Resumable
<1>3. ASSUME NEW k \in Keys
      PROVE  \E y \in 0..last : (y >= x \/ y = last) /\ view[k] = Sight(w, g, y)[k]
  <2>1. PICK y \in 0..last : (y >= x \/ y = last) /\ view[k] = Sight(w, h, y)[k]
    BY DEF Resumable
  <2>2. y \in 0..Top(h)
    BY <1>1, <1>2
  <2> QED BY <2>1, <2>2, <1>1
<1>4. Even(w, g, last, x)
  <2>1. \A i \in last..x : i \in 0..Top(h)
    BY <1>1
  <2>2. last \in 0..Top(h)
    BY <1>1, <1>2
  <2>3. ASSUME NEW i \in last..x PROVE Sight(w, g, i) = Sight(w, g, last)
    <3>1. Sight(w, h, i) = Sight(w, h, last)
      BY DEF Resumable, Even
    <3> QED BY <3>1, <2>1, <2>2, <1>1
  <2> QED BY <2>3 DEF Even
<1> QED
  BY <1>1, <1>2, <1>3, <1>4 DEF Resumable

\* A list, or an initial state, is right at its place.
LEMMA ResumableAt ==
    ASSUME NEW h, NEW w, NEW x \in Nat, x <= Top(h), NEW view, view = Sight(w, h, x)
    PROVE  Resumable(w, h, view, x, x)
<1>1. x \in 0..x /\ \A i \in x..x : i = x
  OBVIOUS
<1> QED
  BY <1>1 DEF Resumable, Even

------------------------------------------------------------------------------
(* The session and its client.                                               *)

\* Types and places that follow from WatchInv.
LEMMA ClientFacts ==
    ASSUME WatchInv
    PROVE  /\ SessionInv /\ Chronicle(history) /\ Top(history) \in Nat /\ Last(history).rv \in Nat
           /\ clientRv \in Nat /\ delivered \in Nat /\ through \in Nat
           /\ clientRv <= Last(history).rv /\ delivered <= Last(history).rv
           /\ clientView \in [Keys -> Row \cup {NoRow}]
           /\ Place \in 0..Top(history) /\ pos \in Position /\ Known(history, pos)
           /\ Reach(history, pos) \in 0..Top(history)
           /\ Below(history, clientRv) \in 0..Top(history) /\ Below(history, delivered) \in 0..Top(history)
<1>1. SessionInv /\ ApiBounds
  BY DEF WatchInv
<1>2. /\ Chronicle(history) /\ Top(history) \in Nat /\ Last(history).rv \in Nat
      /\ pos \in Position /\ Known(history, pos) /\ Reach(history, pos) \in 0..Top(history)
  BY <1>1, SessionFacts
<1>3. /\ clientRv \in Nat /\ delivered \in Nat /\ through \in Nat /\ clientView \in [Keys -> Row \cup {NoRow}]
      /\ clientRv <= Last(history).rv /\ delivered <= Last(history).rv
  BY <1>1 DEF ApiBounds, ApiTypeOK
<1>4. Place \in 0..Top(history)
  BY <1>1, PlaceRight
<1>5. Below(history, clientRv) \in 0..Top(history) /\ Below(history, delivered) \in 0..Top(history)
  BY <1>2, <1>3, BelowRight
<1> QED
  BY <1>1, <1>2, <1>3, <1>4, <1>5

\* A worker is no client of the API server.
LEMMA WorkerClient ==
    ASSUME ClientInv, watcher = "worker", watcher' = watcher, clientRv' = clientRv, baseline' = baseline
    PROVE  ClientInv'
  BY DEF ClientInv

\* A session that was not pulled is where it was.
LEMMA PlaceKept ==
    ASSUME SessionInv, Grows(history, history'), pending' = pending, pos' = pos
    PROVE  Place' = Place
<1>1. Reach(history', pos) = Reach(history, pos)
  BY SessionFacts, KnownGrows
<1> QED
  BY <1>1 DEF Place, PlaceOf

\* Commits, the apply task, and the reads of a baseline: the client is owed the
\* same.
LEMMA MovesKeepClient ==
    ASSUME WatchInv, ClientInv, watcher # "worker", Grows(history, history'), watcher' = watcher,
           phase' = phase \/ (phase \in Opened /\ phase' \in Opened),
           pos' = pos, pending' = pending, UNCHANGED apiVars,
           phase = "anchor" => Served.rv <= Served'.rv /\ Served.rv \in Nat /\ Served'.rv \in Nat
    PROVE  ClientInv'
<1>1. /\ SessionInv /\ Chronicle(history) /\ Top(history) \in Nat /\ clientRv \in Nat /\ delivered \in Nat /\ through \in Nat
      /\ clientRv <= Last(history).rv /\ delivered <= Last(history).rv /\ Place \in 0..Top(history)
      /\ pos \in Position /\ Below(history, clientRv) \in 0..Top(history)
      /\ Below(history, delivered) \in 0..Top(history)
  BY ClientFacts
<1>2. InitialInv /\ AnchorInv /\ DeliveryInv /\ AwayInv
  BY DEF ClientInv
<1>3. UNCHANGED <<clientRv, clientView, through, delivered, baseline>>
  BY DEF apiVars
<1>4. Place' = Place
  BY <1>1, PlaceKept
<1>5. /\ Below(history', clientRv) = Below(history, clientRv)
      /\ Below(history', delivered) = Below(history, delivered)
  BY <1>1, BelowGrows
<1>6. ASSUME NEW x \in 0..Top(history), Owes(x)
      PROVE  Resumable(watcher', history', clientView', through', x)
  BY <1>1, <1>3, <1>6, ResumableGrows DEF Owes
<1>7. "anchor" \notin Opened
  BY DEF Opened
<1>8. InitialInv'
  <2> SUFFICES ASSUME baseline # NoBaseline
               PROVE  /\ clientRv' = 0 /\ phase' \in Opened \cup {"expired", "refused"}
                      /\ phase' \in Opened =>
                            /\ pending' = <<>> /\ Exact(history', pos')
                            /\ baseline' = Sight(watcher', history', pos'.id)
                            /\ delivered' > 0 /\ Below(history', delivered') <= pos'.id
    BY <1>3 DEF InitialInv
  <2>1. clientRv' = 0 /\ phase' \in Opened \cup {"expired", "refused"}
    BY <1>2, <1>3 DEF InitialInv
  <2>2. ASSUME phase' \in Opened
        PROVE  /\ pending' = <<>> /\ Exact(history', pos')
               /\ baseline' = Sight(watcher', history', pos'.id)
               /\ delivered' > 0 /\ Below(history', delivered') <= pos'.id
    <3>1. /\ pending = <<>> /\ Exact(history, pos) /\ baseline = Sight(watcher, history, pos.id)
          /\ delivered > 0 /\ Below(history, delivered) <= pos.id
      BY <2>2, <1>2 DEF InitialInv
    <3>2. Exact(history', pos)
      BY <3>1, <1>1, ExactGrows
    <3>3. pos.id \in 0..Top(history)
      BY <3>1, <1>1, PositionTypes DEF Exact
    <3>4. Sight(watcher, history', pos.id) = Sight(watcher, history, pos.id)
      BY <3>3, <1>1, Grown
    <3> QED BY <3>1, <3>2, <3>4, <1>3, <1>5
  <2> QED BY <2>1, <2>2
<1>9. AnchorInv'
  BY <1>1, <1>2, <1>3, <1>7 DEF AnchorInv
<1>10. DeliveryInv'
  <2> SUFFICES ASSUME phase' \in Opened, baseline' = NoBaseline
               PROVE  /\ delivered' > 0 /\ clientRv' <= delivered' /\ Owes(Place)'
                      /\ SilentIn(watcher', history', Place', Below(history', delivered'))
    BY DEF DeliveryInv
  <2>1. /\ delivered > 0 /\ clientRv <= delivered /\ Owes(Place)
        /\ SilentIn(watcher, history, Place, Below(history, delivered))
    BY <1>2, <1>3 DEF DeliveryInv
  <2>3. SilentIn(watcher, history', Place, Below(history, delivered))
    <3>1. Place \in Nat
      BY <1>1
    <3> QED BY <3>1, <2>1, <1>1, SilentGrows
  <2>2. Resumable(watcher', history', clientView', through', Place)
    BY <2>1, <1>1, <1>6
  <2> QED BY <2>1, <2>2, <2>3, <1>3, <1>4, <1>5 DEF Owes
<1>11. AwayInv'
  <2> SUFFICES ASSUME phase' \notin Opened, clientRv' > 0 PROVE Owes(Below(history, clientRv))'
    BY DEF AwayInv
  <2>1. Owes(Below(history, clientRv))
    BY <1>2, <1>3 DEF AwayInv
  <2>2. Resumable(watcher', history', clientView', through', Below(history, clientRv))
    BY <2>1, <1>1, <1>6
  <2> QED BY <2>2, <1>3, <1>5 DEF Owes
<1> QED
  BY <1>8, <1>9, <1>10, <1>11 DEF ClientInv

\* A client with a resourceVersion can continue from it, with a session or not.
LEMMA OwesBelow ==
    ASSUME WatchInv, ClientInv, watcher # "worker", clientRv > 0
    PROVE  Owes(Below(history, clientRv))
<1> DEFINE B == Below(history, clientRv)
           D == Below(history, delivered)
<1>1. /\ Chronicle(history) /\ Top(history) \in Nat /\ clientRv \in Nat /\ delivered \in Nat /\ through \in Nat
      /\ Place \in 0..Top(history) /\ B \in 0..Top(history) /\ D \in 0..Top(history)
  BY ClientFacts
<1>2. InitialInv /\ DeliveryInv /\ AwayInv
  BY DEF ClientInv
<1>3. CASE phase \notin Opened
  BY <1>3, <1>2 DEF AwayInv
<1>4. CASE phase \in Opened
  <2>1. baseline = NoBaseline
    BY <1>1, <1>2 DEF InitialInv
  <2>2. clientRv <= delivered /\ Owes(Place) /\ SilentIn(watcher, history, Place, D)
    BY <2>1, <1>2, <1>4 DEF DeliveryInv
  <2>3. B <= D
    BY <2>2, <1>1, BelowRises
  <2> HIDE DEF B, D
  <2>4. Place \in Nat /\ B \in Nat /\ D \in Nat /\ B <= Top(history)
    BY <1>1
  <2>5. ASSUME B <= Place PROVE Owes(B)
    BY <2>2, <2>4, <2>5, <1>1, ResumableBack DEF Owes
  <2>6. ASSUME Place <= B PROVE Owes(B)
    <3>1. SilentIn(watcher, history, Place, B)
      BY <2>2, <2>3, <2>4, SilentWithin
    <3>2. B \in Place..Top(history)
      BY <2>4, <2>6, <1>1
    <3>3. Even(watcher, history, Place, B)
      BY <3>1, <3>2, <1>1, SilentEven
    <3> QED BY <3>3, <2>2, <2>4, <2>6, <1>1, ResumableOn DEF Owes
  <2>7. Owes(B)
    BY <2>4, <2>5, <2>6
  <2> QED BY <2>7 DEF B
<1> QED
  BY <1>3, <1>4

\* The session ends by a failover, a timeout or an answer: the client continues
\* from its resourceVersion, which covers nothing that the session has still to
\* tell, or starts over.
LEMMA CloseKeepsClient ==
    ASSUME WatchInv, ClientInv, watcher # "worker", watcher' = watcher, history' = history,
           phase' \in {"closed", "expired", "refused"},
           UNCHANGED <<clientView, through>>, clientRv' \in {clientRv, 0},
           \/ baseline' = NoBaseline
           \/ baseline' = baseline /\ clientRv' = clientRv /\ phase \in Opened /\ phase' # "closed"
    PROVE  ClientInv'
<1>2. InitialInv /\ AnchorInv /\ DeliveryInv /\ AwayInv
  BY DEF ClientInv
<1>3. phase' \notin Opened /\ phase' # "anchor"
  BY DEF Opened
<1>4. InitialInv' /\ AnchorInv' /\ DeliveryInv'
  BY <1>2, <1>3 DEF InitialInv, AnchorInv, DeliveryInv
<1>5. AwayInv'
  <2> SUFFICES ASSUME clientRv' > 0 PROVE Owes(Below(history, clientRv))'
    BY DEF AwayInv
  <2>1. clientRv' = clientRv /\ clientRv > 0
    OBVIOUS
  <2>2. Owes(Below(history, clientRv))
    BY <2>1, OwesBelow
  <2> QED BY <2>1, <2>2 DEF Owes
<1> QED
  BY <1>4, <1>5 DEF ClientInv

\* A page is read: nothing was to be seen before its first event.
LEMMA ReplayKeepsClient ==
    ASSUME WatchInv, ClientInv, watcher # "worker", ReplayOnce, ~PageExpired(Served, Target, pos),
           baseline = NoBaseline, UNCHANGED storeVars, breaks' = breaks, UNCHANGED apiVars
    PROVE  ClientInv'
<1>1. /\ SessionInv /\ Chronicle(history) /\ Top(history) \in Nat /\ delivered \in Nat /\ through \in Nat
      /\ Place \in 0..Top(history) /\ Reach(history, pos) \in 0..Top(history)
      /\ Below(history, delivered) \in 0..Top(history)
  BY ClientFacts
<1>2. DeliveryInv
  BY DEF ClientInv
<1>3. UNCHANGED <<clientRv, clientView, through, delivered, baseline>> /\ watcher' = watcher /\ history' = history
  BY DEF apiVars, storeVars
<1>4. phase = "live" /\ phase' = "live" /\ pending = <<>>
  BY DEF ReplayOnce
<1>5. Place' \in Reach(history, pos)..Top(history) /\ SilentIn(watcher, history, Reach(history, pos), Place')
  BY <1>1, ReplayKeeps
<1>6. Place = Reach(history, pos)
  BY <1>1, <1>4, PlaceRight
<1>7. "live" \in Opened /\ "live" # "anchor"
  BY DEF Opened
<1>8. /\ delivered > 0 /\ clientRv <= delivered /\ Owes(Place)
      /\ SilentIn(watcher, history, Place, Below(history, delivered))
  BY <1>2, <1>4, <1>7 DEF DeliveryInv
<1>9. Even(watcher, history, Place, Place')
  BY <1>1, <1>5, <1>6, SilentEven
<1>10. Place \in Nat /\ Place' \in Nat /\ Place <= Place' /\ Place' <= Top(history)
  BY <1>1, <1>5, <1>6
<1>11. Resumable(watcher, history, clientView, through, Place')
  BY <1>1, <1>8, <1>9, <1>10, ResumableOn DEF Owes
<1>12. SilentIn(watcher, history, Place', Below(history, delivered))
  <2>1. Below(history, delivered) \in Nat /\ Below(history, delivered) <= Below(history, delivered)
    BY <1>1
  <2> QED BY <2>1, <1>8, <1>10, SilentWithin
<1>13. InitialInv' /\ AnchorInv' /\ AwayInv'
  BY <1>3, <1>4, <1>7 DEF InitialInv, AnchorInv, AwayInv
<1>14. DeliveryInv'
  BY <1>3, <1>8, <1>11, <1>12 DEF DeliveryInv, Owes
<1> QED
  BY <1>3, <1>13, <1>14 DEF ClientInv

\* The reads of the baseline.
LEMMA ServeKeepsClient ==
    ASSUME WatchInv, ClientInv, Serve, UNCHANGED storeVars, UNCHANGED apiVars
    PROVE  ClientInv'
<1>1. UNCHANGED <<clientRv, clientView, through, delivered, baseline>> /\ watcher' = watcher /\ history' = history
      /\ Grows(history, history')
  BY DEF apiVars, storeVars, Grows
<1>2. CASE watcher = "worker"
  BY <1>1, <1>2, WorkerClient
<1>3. CASE watcher # "worker"
  <2>1. phase \in Checked \cup {"current"}
    BY DEF Serve, CheckFloor, AfterFloor, ReadCurrent, ReadTouched, ReadRow, ReadIdentity, AcceptBaseline,
           Checked
  <2>2. phase \in Opened /\ phase # "anchor"
    BY <2>1 DEF Opened, Checked
  <2>3. \/ phase' \in {"expired", "refused"}
        \/ phase' \in Opened /\ pos' = pos /\ pending' = pending
    <3>1. CASE ReadCurrent
      BY <3>1 DEF ReadCurrent, Close, Opened
    <3>2. CASE ReadTouched
      BY <3>2 DEF ReadTouched, Close, Opened
    <3>3. CASE ReadIdentity
      BY <3>3 DEF ReadIdentity, Close, Opened
    <3>4. CASE AcceptBaseline
      BY <3>4 DEF AcceptBaseline, Close, Opened
    <3>5. CASE CheckFloor
      BY <3>5 DEF CheckFloor, AfterFloor, Close, Opened
    <3>6. CASE ReadRow
      BY <3>6 DEF ReadRow, Opened
    <3> QED BY <3>1, <3>2, <3>3, <3>4, <3>5, <3>6 DEF Serve
  <2>4. CASE phase' \in {"expired", "refused"}
    BY <2>2, <2>4, <1>1, <1>3, CloseKeepsClient
  <2>5. CASE phase' \in Opened /\ pos' = pos /\ pending' = pending
    BY <2>2, <2>5, <1>1, <1>3, MovesKeepClient
  <2> QED BY <2>3, <2>4, <2>5
<1> QED
  BY <1>2, <1>3

\* The session is pulled.
LEMMA PullKeepsClient ==
    ASSUME WatchInv, ClientInv, PullAfterInitial, UNCHANGED storeVars, breaks' = breaks, UNCHANGED apiVars
    PROVE  ClientInv'
<1>1. UNCHANGED <<clientRv, clientView, through, delivered, baseline>> /\ watcher' = watcher /\ history' = history
      /\ Grows(history, history')
  BY DEF apiVars, storeVars, Grows
<1>2. CASE watcher = "worker"
  BY <1>1, <1>2, WorkerClient
<1>3. CASE watcher # "worker"
  <2>1. baseline = NoBaseline /\ (ReplayOnce \/ RecvSignal)
    BY DEF PullAfterInitial, Pull
  <2>2. CASE RecvSignal
    <3>1. phase' = phase /\ phase = "live" /\ pos' = pos /\ pending' = pending
      BY <2>2 DEF RecvSignal
    <3>2. phase \in Opened /\ phase' \in Opened /\ phase # "anchor"
      BY <3>1 DEF Opened
    <3> QED BY <3>1, <3>2, <1>1, <1>3, MovesKeepClient
  <2>3. CASE ReplayOnce /\ PageExpired(Served, Target, pos)
    <3>1. phase' = "expired" /\ phase = "live"
      BY <2>3 DEF ReplayOnce, Close
    <3>2. phase \in Opened
      BY <3>1 DEF Opened
    <3> QED BY <3>1, <3>2, <1>1, <1>3, CloseKeepsClient
  <2>4. CASE ReplayOnce /\ ~PageExpired(Served, Target, pos)
    BY <2>1, <2>4, <1>3, ReplayKeepsClient
  <2> QED BY <2>1, <2>2, <2>3, <2>4
<1> QED
  BY <1>2, <1>3

\* The resourceVersion and the events of a list.
LEMMA ListedBelow ==
    ASSUME SessionInv
    PROVE  /\ Below(history, Served.rv) = Len(Served.log) /\ Served.rv \in Nat /\ Served.rv > 0
           /\ Len(Served.log) \in 0..Top(history)
<1>1. Chronicle(history) /\ applied \in 1..Len(history) /\ Served = history[applied]
  BY SessionFacts
<1>2. Below(history, Served.rv) = Len(Served.log)
  BY <1>1, BelowServed
<1>3. Served.rv \in 1..Last(history).rv /\ Len(Served.log) \in 0..Top(history)
  BY <1>1, ServedRight
<1>4. Last(history).rv \in Nat
  BY <1>1, Tops
<1> QED
  BY <1>2, <1>3, <1>4

\* The client lists.
LEMMA ClientListKeeps ==
    ASSUME WatchInv, ClientInv, ClientList, UNCHANGED storeVars
    PROVE  ClientInv'
<1>1. /\ watcher # "worker" /\ watcher' = watcher /\ history' = history /\ phase = "closed" /\ phase' = "closed"
      /\ clientRv' = Served.rv /\ clientView' = Matching(Served.rows) /\ through' = Len(Served.log)
      /\ baseline' = baseline
  BY DEF ClientList, storeVars, sessionVars
<1>2. SessionInv /\ Top(history) \in Nat
  BY ClientFacts
<1>3. /\ Below(history, Served.rv) = Len(Served.log) /\ Len(Served.log) \in 0..Top(history)
  BY <1>2, ListedBelow
<1>4. clientView' = Sight(watcher, history, Len(Served.log))
  BY <1>1, <1>2, ListedRight
<1>5. "closed" \notin Opened \cup {"expired", "refused"} /\ "closed" # "anchor"
  BY DEF Opened
<1>6. baseline = NoBaseline
  BY <1>1, <1>5 DEF ClientInv, InitialInv
<1>7. Len(Served.log) \in Nat /\ Len(Served.log) <= Top(history)
  BY <1>2, <1>3
<1>8. Resumable(watcher, history, clientView', Len(Served.log), Len(Served.log))
  BY <1>4, <1>7, ResumableAt
<1>9. InitialInv' /\ AnchorInv' /\ DeliveryInv'
  BY <1>1, <1>5, <1>6 DEF InitialInv, AnchorInv, DeliveryInv
<1>10. AwayInv'
  BY <1>1, <1>3, <1>8 DEF AwayInv, Owes
<1> QED
  BY <1>1, <1>9, <1>10 DEF ClientInv

------------------------------------------------------------------------------
(* Steps of the API server and of the client.                                *)

\* The client opens a watch by resourceVersion or with an initial state.
LEMMA ClientWatchOwes ==
    ASSUME WatchInv, ClientInv, RequestsSafe, ClientWatch, UNCHANGED storeVars
    PROVE  ClientInv'
<1>1. /\ SessionInv /\ Chronicle(history) /\ Top(history) \in Nat
  BY ClientFacts
<1>2. /\ watcher # "worker" /\ watcher' = watcher /\ history' = history /\ Served' = Served
      /\ phase = "closed" /\ UNCHANGED <<clientRv, clientView, through>> /\ pending' = pending
  BY DEF ClientWatch, Open, storeVars, Served
<1>3. InitialInv /\ AwayInv
  BY <1>2 DEF ClientInv
<1>4. "closed" \notin Opened \cup {"expired", "refused"} /\ "anchor" \notin Opened \cup {"expired", "refused"}
  BY DEF Opened
<1>5. baseline = NoBaseline
  BY <1>2, <1>3, <1>4 DEF InitialInv
<1>6. pending = <<>>
  BY <1>1, <1>2 DEF SessionInv, PageInv
<1>7. CASE clientRv > 0 /\ Fresh(clientRv) /\ delivered' = clientRv /\ Open(At(clientRv, 0), FALSE) /\ UNCHANGED baseline
  <2>1. phase' = "anchor" /\ pos' = At(clientRv, 0)
    BY <1>7 DEF Open
  <2>2. Served.rv >= clientRv
    BY <1>7 DEF Fresh, RequestsSafe
  <2>3. clientRv <= Served.rv
    BY <2>2, <1>1, ListedBelow, ClientFacts
  <2>4. InitialInv' /\ DeliveryInv'
    BY <2>1, <1>4, <1>5, <1>7 DEF InitialInv, DeliveryInv
  <2>5. AnchorInv'
    BY <2>1, <2>3, <1>2, <1>7 DEF AnchorInv
  <2>6. AwayInv'
    BY <1>2, <1>3, <1>4, <1>7 DEF AwayInv, Owes
  <2> QED BY <2>4, <2>5, <2>6, <1>2 DEF ClientInv
<1>8. CASE /\ clientRv = 0 /\ delivered' = Served.rv /\ baseline' = Matching(Served.rows)
           /\ Open(CurrentPosition(Served), TRUE)
  <2>1. phase' \in {"current", "live"} /\ pos' = CurrentPosition(Served)
    BY <1>8 DEF Open
  <2>2. phase' \in Opened /\ phase' # "anchor"
    BY <2>1 DEF Opened
  <2>3. /\ Exact(history, pos') /\ pos'.id = Len(Served.log) /\ Len(Served.log) \in Nat
        /\ baseline' = Sight(watcher, history, pos'.id)
    BY <2>1, <1>1, <1>8, ListedRight, ListedBelow
  <2>4. Below(history, delivered') = Len(Served.log) /\ delivered' > 0
    BY <1>1, <1>8, ListedBelow
  <2>5. baseline' # NoBaseline
    <3>1. DOMAIN Matching(Served.rows) = Keys
      BY DEF Matching
    <3>2. DOMAIN <<>> = {}
      OBVIOUS
    <3> QED BY <3>1, <3>2, <1>8, RequestsAssumption DEF NoBaseline
  <2>6. InitialInv'
    BY <2>2, <2>3, <2>4, <1>2, <1>6, <1>8 DEF InitialInv
  <2>7. AnchorInv' /\ DeliveryInv' /\ AwayInv'
    BY <2>2, <2>5 DEF AnchorInv, DeliveryInv, AwayInv
  <2> QED BY <2>6, <2>7, <1>2 DEF ClientInv
<1> QED
  BY <1>7, <1>8 DEF ClientWatch, RequestsSafe

\* replay_position_at_anchor: the position filters by the resourceVersion of the
\* client, and is where that resourceVersion is, because the server has applied
\* it.
LEMMA AnchorOwes ==
    ASSUME WatchInv, ClientInv, ApiAnchor, UNCHANGED storeVars
    PROVE  ClientInv'
<1> DEFINE L == Len(Served.log)
           B == Below(history, clientRv)
<1>1. /\ SessionInv /\ Chronicle(history) /\ Top(history) \in Nat /\ clientRv \in Nat /\ B \in 0..Top(history)
  BY ClientFacts
<1>2. phase = "anchor" /\ watcher # "worker"
  BY DEF ApiAnchor, ReadAnchor, WatchInv, MirrorInv
<1>3. InitialInv /\ AnchorInv /\ AwayInv
  BY <1>2 DEF ClientInv
<1>4. "anchor" \notin Opened \cup {"expired", "refused"}
  BY DEF Opened
<1>5. baseline = NoBaseline
  BY <1>2, <1>3, <1>4 DEF InitialInv
<1>6. pos = At(clientRv, 0) /\ clientRv > 0 /\ delivered = clientRv /\ clientRv <= Served.rv
  BY <1>2, <1>3 DEF AnchorInv
<1>7. pending = <<>>
  BY <1>1, <1>2 DEF SessionInv, PageInv
<1>8. pos.rv = clientRv
  BY <1>6 DEF At
<1>9. /\ pos' = [rv |-> clientRv, id |-> 0, thru |-> L] /\ through' = through /\ pending' = <<>>
      /\ phase' \in {"current", "live"}
      /\ UNCHANGED <<clientRv, clientView, delivered, baseline>> /\ watcher' = watcher /\ history' = history
  BY <1>6, <1>7, <1>8 DEF ApiAnchor, ReadAnchor, storeVars
<1>10. L \in 0..Top(history) /\ Served.rv \in Nat /\ \A i \in (L + 1)..Top(history) : Log(history)[i].row.rv > Served.rv
  BY <1>1, ServedRight, SessionFacts, ListedBelow
<1>11. /\ \A i \in 1..Top(history) : Log(history)[i].row.rv <= clientRv <=> i <= B
       /\ \A i \in 1..Top(history) : Log(history)[i].row.rv \in Nat
  <2>1. \A i \in 1..Top(history) : Log(history)[i].row.rv \in Nat
    BY <1>1, Tops
  <2> QED BY <2>1, <1>1, BelowRight
<1> HIDE DEF L, B
<1> DEFINE q == [rv |-> clientRv, id |-> 0, thru |-> L]
<1>12. q \in Position /\ q.rv = clientRv /\ q.id = 0 /\ q.thru = L
  BY <1>1, <1>10 DEF Position
<1> HIDE DEF q
<1>13. ASSUME NEW i \in 1..Top(history) PROVE Represents(q, i, Log(history)[i].row.rv) <=> i <= B
  <2>1. CASE i <= L
    <3>1. L > 0 /\ ~(i <= 0)
      BY <2>1, <1>1, <1>10
    <3>2. Represents(q, i, Log(history)[i].row.rv) <=> Log(history)[i].row.rv <= clientRv
      BY <3>1, <2>1, <1>12 DEF Represents
    <3> QED BY <3>2, <1>11
  <2>2. CASE ~(i <= L)
    <3>1. i \in (L + 1)..Top(history)
      BY <2>2, <1>1, <1>10
    <3>2. ~(Log(history)[i].row.rv <= clientRv)
      BY <3>1, <1>1, <1>6, <1>10, <1>11
    <3>3. ~Represents(q, i, Log(history)[i].row.rv)
      BY <3>2, <2>2, <1>12 DEF Represents
    <3> QED BY <3>2, <3>3, <1>11
  <2> QED BY <2>1, <2>2
<1>14. Reach(history, q) = B
  BY <1>1, <1>12, <1>13, ReachUnique
<1>15. Place' = B
  BY <1>9, <1>14 DEF Place, PlaceOf, q
<1>16. phase' \in Opened /\ phase' # "anchor"
  BY <1>9 DEF Opened
<1>17. Owes(B)
  BY <1>2, <1>3, <1>4, <1>6 DEF AwayInv, B
<1>18. DeliveryInv'
  <2>1. delivered' > 0 /\ clientRv' <= delivered'
    BY <1>1, <1>6, <1>9
  <2>2. SilentIn(watcher', history', Place', Below(history', delivered'))
    <3>1. Below(history', delivered') = B
      BY <1>6, <1>9 DEF B
    <3>2. SilentIn(watcher, history, B, B)
      BY <1>1 DEF SilentIn
    <3> QED BY <3>1, <3>2, <1>9, <1>15
  <2>3. Owes(Place)'
    BY <1>9, <1>15, <1>17 DEF Owes
  <2> QED BY <2>1, <2>2, <2>3 DEF DeliveryInv
<1>19. InitialInv' /\ AnchorInv' /\ AwayInv'
  BY <1>5, <1>9, <1>16 DEF InitialInv, AnchorInv, AwayInv
<1> QED
  BY <1>2, <1>9, <1>18, <1>19 DEF ClientInv

\* The initial frames are sent.
LEMMA InitialOwes ==
    ASSUME WatchInv, ClientInv, ApiInitial, UNCHANGED storeVars
    PROVE  ClientInv'
<1>1. /\ SessionInv /\ Chronicle(history) /\ Top(history) \in Nat /\ pos \in Position /\ delivered \in Nat
      /\ Below(history, delivered) \in 0..Top(history)
  BY ClientFacts
<1>2. /\ phase = "live" /\ baseline # NoBaseline /\ clientView' = baseline /\ clientRv' = delivered /\ through' = pos.id
      /\ baseline' = NoBaseline /\ delivered' = delivered /\ phase' = "live" /\ pos' = pos /\ pending' = pending
      /\ watcher' = watcher /\ history' = history
  BY DEF ApiInitial, sessionVars, storeVars
<1>3. watcher # "worker" /\ InitialInv
  BY <1>2 DEF ClientInv
<1>4. "live" \in Opened /\ "live" # "anchor"
  BY DEF Opened
<1>5. /\ pending = <<>> /\ Exact(history, pos) /\ baseline = Sight(watcher, history, pos.id)
      /\ delivered > 0 /\ Below(history, delivered) <= pos.id
  BY <1>2, <1>3, <1>4 DEF InitialInv
<1>6. Reach(history, pos) = pos.id
  BY <1>1, <1>5, ExactReach
<1>7. Place' = pos.id
  BY <1>2, <1>5, <1>6 DEF Place, PlaceOf
<1>8. pos.id \in Nat /\ pos.id <= Top(history)
  BY <1>1, <1>5, PositionTypes DEF Exact
<1>9. Resumable(watcher, history, clientView', pos.id, pos.id)
  BY <1>2, <1>5, <1>8, ResumableAt
<1>10. DeliveryInv'
  <2>1. SilentIn(watcher, history, pos.id, Below(history, delivered))
    BY <1>1, <1>5, <1>8 DEF SilentIn
  <2> QED BY <2>1, <1>1, <1>2, <1>5, <1>7, <1>9 DEF DeliveryInv, Owes
<1>11. InitialInv' /\ AnchorInv' /\ AwayInv'
  BY <1>2, <1>4 DEF InitialInv, AnchorInv, AwayInv
<1> QED
  BY <1>2, <1>3, <1>10, <1>11 DEF ClientInv

\* resolve_periodic_bookmark_rv: last_delivered_rv covers nothing that the
\* session has still to tell.
LEMMA BookmarkOwes ==
    ASSUME WatchInv, ClientInv, Bookmark, UNCHANGED storeVars
    PROVE  ClientInv'
<1>1. delivered \in Nat
  BY ClientFacts
<1>2. /\ watcher # "worker" /\ phase = "live" /\ baseline = NoBaseline /\ clientRv' = BookmarkRv
      /\ UNCHANGED <<clientView, through, delivered, baseline>> /\ UNCHANGED <<phase, pos, pending>>
      /\ watcher' = watcher /\ history' = history
  BY DEF Bookmark, sessionVars, storeVars
<1>3. "live" \in Opened /\ "live" # "anchor"
  BY DEF Opened
<1>4. delivered > 0 /\ SilentIn(watcher, history, Place, Below(history, delivered)) /\ Owes(Place)
  BY <1>2, <1>3 DEF ClientInv, DeliveryInv
<1>5. clientRv' = delivered
  BY <1>1, <1>2, <1>4 DEF BookmarkRv
<1>6. Place' = Place
  BY <1>2 DEF Place, PlaceOf
<1>7. DeliveryInv'
  BY <1>1, <1>2, <1>4, <1>5, <1>6 DEF DeliveryInv, Owes
<1>8. InitialInv' /\ AnchorInv' /\ AwayInv'
  BY <1>2, <1>3 DEF InitialInv, AnchorInv, AwayInv
<1> QED
  BY <1>2, <1>7, <1>8 DEF ClientInv

\* One event is delivered, in a view that may already be past it.
LEMMA ResumableStep ==
    ASSUME NEW h, Chronicle(h), NEW w, NEW view, NEW last \in Nat, NEW i \in 1..Top(h),
           Resumable(w, h, view, last, i - 1), NEW seen, NEW next, next = Larger(last, i),
           \A k \in Keys : \/ seen[k] = Sight(w, h, i)[k]
                           \/ seen[k] = view[k] /\ Sight(w, h, i)[k] = Sight(w, h, i - 1)[k]
    PROVE  Resumable(w, h, seen, next, i)
<1>1. Top(h) \in Nat
  BY Tops
<1>2. last <= Top(h) /\ \A j \in last..(i - 1) : Sight(w, h, j) = Sight(w, h, last)
  BY DEF Resumable, Even
<1>3. next \in Nat /\ next >= last /\ next >= i /\ next <= Top(h) /\ i \in 0..next /\ i >= i
  BY <1>1, <1>2 DEF Larger
<1>4. ASSUME NEW k \in Keys
      PROVE  \E y \in 0..next : (y >= i \/ y = next) /\ seen[k] = Sight(w, h, y)[k]
  <2>1. CASE seen[k] = Sight(w, h, i)[k]
    BY <2>1, <1>3
  <2>2. CASE seen[k] = view[k] /\ Sight(w, h, i)[k] = Sight(w, h, i - 1)[k]
    <3>1. PICK y \in 0..last : (y >= i - 1 \/ y = last) /\ view[k] = Sight(w, h, y)[k]
      BY DEF Resumable
    <3>2. CASE y >= i
      <4>1. y \in 0..next
        BY <1>3
      <4> QED BY <4>1, <3>1, <3>2, <2>2
    <3>3. CASE y = i - 1
      <4>1. seen[k] = Sight(w, h, i)[k]
        BY <3>1, <3>3, <2>2
      <4> QED BY <4>1, <1>3
    <3>4. CASE y = last /\ y < i
      <4>1. i - 1 \in last..(i - 1)
        BY <3>4
      <4>2. Sight(w, h, i - 1) = Sight(w, h, last)
        BY <4>1, <1>2
      <4>3. seen[k] = Sight(w, h, i)[k]
        BY <4>2, <3>1, <3>4, <2>2
      <4> QED BY <4>3, <1>3
    <3>5. y >= i \/ y = i - 1 \/ (y = last /\ y < i)
      BY <3>1
    <3> QED BY <3>2, <3>3, <3>4, <3>5
  <2> QED BY <2>1, <2>2
<1>5. \A j \in next..i : j = next
  BY <1>3
<1> QED
  BY <1>3, <1>4, <1>5 DEF Resumable, Even

\* The next event: what the client is told, and the resourceVersion it carries,
\* also that of the prior body of a synthesized DELETED.
LEMMA DeliverOwes ==
    ASSUME WatchInv, ClientInv, RvsApart, ApiDeliver, UNCHANGED storeVars
    PROVE  ClientInv'
<1> DEFINE e == pending[1]
           i == e.pos.id
<1>1. /\ SessionInv /\ Chronicle(history) /\ Top(history) \in Nat /\ delivered \in Nat /\ through \in Nat
      /\ clientRv \in Nat /\ clientView \in [Keys -> Row \cup {NoRow}] /\ Below(history, delivered) \in 0..Top(history)
  BY ClientFacts
<1>2. /\ watcher # "worker" /\ baseline = NoBaseline /\ Pop /\ through' = Larger(through, i) /\ baseline' = NoBaseline
      /\ watcher' = watcher /\ history' = history /\ breaks' = breaks
  BY DEF ApiDeliver, storeVars
<1>3. phase = "live" /\ phase' = "live"
  BY <1>2 DEF Pop
<1>4. "live" \in Opened /\ "live" # "anchor"
  BY DEF Opened
<1>5. /\ delivered > 0 /\ clientRv <= delivered /\ Owes(Place)
      /\ SilentIn(watcher, history, Place, Below(history, delivered))
  BY <1>2, <1>3, <1>4 DEF ClientInv, DeliveryInv
<1>6. /\ i \in 1..Top(history) /\ Place = i - 1 /\ e.row \in Row /\ e.key \in Keys
      /\ e.key \in TargetOf(watcher)
      /\ Log(history)[i] = [type |-> e.type, key |-> e.key, row |-> e.row]
  BY <1>1, <1>2, NextEvent
<1>7. Place' \in i..Top(history) /\ SilentIn(watcher, history, i, Place')
  BY <1>1, <1>2, PopKeeps
<1>8. \/ Told = {} /\ Sight(watcher, history, i) = Sight(watcher, history, i - 1)
      \/ \E f \in Frame : /\ Told = {f} /\ f.pos = e.pos /\ f.key = e.key
                          /\ TellsOf(watcher, history, i - 1, f) /\ f.row.rv <= e.row.rv
  BY <1>1, <1>2, ToldRight
<1>9. \A v \in Nat : v <= e.row.rv => SilentIn(watcher, history, i, Below(history, v))
  <2>1. Log(history)[i].row = e.row /\ Log(history)[i].key = e.key
    BY <1>6
  <2> QED BY <2>1, <1>1, <1>6, BelowEvent
<1>a. SilentIn(watcher, history, i, Below(history, delivered))
  <2>1. i - 1 \in Nat /\ i \in Nat /\ i - 1 <= i
    BY <1>1, <1>6
  <2>2. Below(history, delivered) \in Nat /\ Below(history, delivered) <= Below(history, delivered)
    BY <1>1
  <2> QED BY <2>1, <2>2, <1>5, <1>6, SilentWithin
<1> HIDE DEF i, e
<1>10. /\ delivered' \in Nat /\ delivered' > 0 /\ clientRv' <= delivered'
       /\ SilentIn(watcher, history, i, Below(history, delivered'))
       /\ \A k \in Keys : \/ clientView'[k] = Sight(watcher, history, i)[k]
                          \/ /\ clientView'[k] = clientView[k]
                             /\ Sight(watcher, history, i)[k] = Sight(watcher, history, i - 1)[k]
  <2>1. CASE Told = {} /\ Sight(watcher, history, i) = Sight(watcher, history, i - 1)
    <3>1. UNCHANGED <<clientRv, clientView, delivered>>
      BY <2>1 DEF ApiDeliver
    <3> QED BY <3>1, <2>1, <1>1, <1>5, <1>a
  <2>2. CASE \E f \in Frame : /\ Told = {f} /\ f.pos = e.pos /\ f.key = e.key
                              /\ TellsOf(watcher, history, i - 1, f) /\ f.row.rv <= e.row.rv
    <3>1. PICK f \in Frame : /\ Told = {f} /\ f.pos = e.pos /\ f.key = e.key
                             /\ TellsOf(watcher, history, i - 1, f) /\ f.row.rv <= e.row.rv
      BY <2>2
    <3>2. Told # {} /\ (CHOOSE g \in Told : TRUE) = f
      BY <3>1
    <3>3. /\ delivered' = Larger(delivered, f.row.rv) /\ clientRv' = f.row.rv
          /\ clientView' = [clientView EXCEPT ![f.key] = IF f.type = "DELETED" THEN NoRow ELSE f.row]
      BY <3>2 DEF ApiDeliver
    <3>4. f.row.rv \in Nat /\ f.key \in Keys
      <4>1. f.row \in Row /\ f.key \in Keys
        BY DEF Frame
      <4> QED BY <4>1 DEF Row
    <3>5. f.pos.id = i
      BY <3>1 DEF i
    <3>6. Sight(watcher, history, i)
            = [Sight(watcher, history, i - 1) EXCEPT ![f.key] = IF f.type = "DELETED" THEN NoRow ELSE f.row]
      BY <3>1, <3>5 DEF TellsOf
    <3>7. ASSUME NEW k \in Keys
          PROVE  \/ clientView'[k] = Sight(watcher, history, i)[k]
                 \/ /\ clientView'[k] = clientView[k]
                    /\ Sight(watcher, history, i)[k] = Sight(watcher, history, i - 1)[k]
      <4>1. i - 1 \in 0..Top(history)
        BY <1>1, <1>6
      <4>2. Sight(watcher, history, i - 1) \in [Keys -> Row \cup {NoRow}]
        BY <4>1, <1>1, SightType
      <4>3. CASE k = f.key
        BY <4>2, <4>3, <3>3, <3>4, <3>6, <1>1
      <4>4. CASE k # f.key
        BY <4>2, <4>4, <3>3, <3>4, <3>6, <1>1
      <4> QED BY <4>3, <4>4
    <3>8. delivered' \in Nat /\ delivered' > 0 /\ clientRv' <= delivered' /\ delivered' \in {delivered, f.row.rv}
      BY <3>3, <3>4, <1>1, <1>5 DEF Larger
    <3>9. SilentIn(watcher, history, i, Below(history, f.row.rv))
      BY <3>1, <3>4, <1>9
    <3> QED BY <3>7, <3>8, <3>9, <1>a
  <2> QED BY <2>1, <2>2, <1>8
<1>11. through' \in Nat /\ Resumable(watcher, history, clientView, through, i - 1)
  BY <1>1, <1>2, <1>5, <1>6 DEF Larger, Owes
<1>12. Resumable(watcher, history, clientView', through', i)
  BY <1>1, <1>2, <1>6, <1>10, <1>11, ResumableStep
<1>13. i \in 0..Top(history) /\ i \in Nat /\ Place' \in Nat /\ i <= Place' /\ Place' <= Top(history)
  BY <1>1, <1>6, <1>7
<1>14. Even(watcher, history, i, Place')
  BY <1>1, <1>7, <1>13, SilentEven
<1>15. Resumable(watcher, history, clientView', through', Place')
  BY <1>1, <1>11, <1>12, <1>13, <1>14, ResumableOn
<1>16. SilentIn(watcher, history, Place', Below(history, delivered'))
  <2>1. Below(history, delivered') \in 0..Top(history)
    BY <1>1, <1>10, BelowRight
  <2>2. Below(history, delivered') \in Nat /\ Below(history, delivered') <= Below(history, delivered')
    BY <2>1, <1>1
  <2> QED BY <2>2, <1>10, <1>13, SilentWithin
<1>17. DeliveryInv'
  BY <1>2, <1>10, <1>15, <1>16 DEF DeliveryInv, Owes
<1>18. InitialInv' /\ AnchorInv' /\ AwayInv'
  BY <1>2, <1>3, <1>4 DEF InitialInv, AnchorInv, AwayInv
<1> QED
  BY <1>2, <1>17, <1>18 DEF ClientInv

------------------------------------------------------------------------------
(* Every step, and the properties.                                           *)

\* A command makes a later history.
LEMMA CommandsGrow ==
    ASSUME SessionInv, Commands
    PROVE  Grows(history, history') /\ applied = Len(history) /\ applied' = Len(history')
<1>1. Chronicle(history) /\ history \in Seq(Db) /\ applied \in 1..Len(history)
  BY SessionFacts
<1>2. Latest = Last(history) /\ WellKept(Latest)
  BY <1>1, Tops DEF Latest
<1>4. PICK next : \E keys \in SUBSET Keys : Commit(next, keys) /\ Succeeds(Last(history), next)
  BY <1>2, CommandForm
<1>5. history' = Append(history, next) /\ applied = Len(history) /\ applied' = applied + 1
  BY <1>4 DEF Commit, Leads
<1>6. Grows(history, history')
  BY <1>4, <1>5 DEF Grows
<1>7. Len(history') = Len(history) + 1
  <2>1. next \in Db
    BY <1>4 DEF Succeeds, WellKept
  <2> QED BY <2>1, <1>1, <1>5
<1> QED
  BY <1>5, <1>6, <1>7

\* The server has a later database.
LEMMA ServerAdvances ==
    ASSUME WatchInv, ClientInv, Grows(history, history'), watcher' = watcher, UNCHANGED <<phase, pos, pending>>,
           UNCHANGED apiVars, Served.rv <= Served'.rv, Served.rv \in Nat, Served'.rv \in Nat
    PROVE  ClientInv'
<1>1. CASE watcher = "worker"
  BY <1>1, WorkerClient DEF apiVars
<1>2. CASE watcher # "worker"
  <2>1. pos' = pos /\ pending' = pending /\ (phase' = phase \/ (phase \in Opened /\ phase' \in Opened))
    OBVIOUS
  <2>2. phase = "anchor" => Served.rv <= Served'.rv /\ Served.rv \in Nat /\ Served'.rv \in Nat
    OBVIOUS
  <2> QED BY <1>2, <2>1, <2>2, MovesKeepClient, Zenon
<1> QED
  BY <1>1, <1>2

\* Committed commands, retention included.
LEMMA CommandsOwe ==
    ASSUME WatchInv, ClientInv, Commands
    PROVE  ClientInv'
<1>1. SessionInv /\ Chronicle(history) /\ Served = history[applied]
  BY ClientFacts, SessionFacts
<1>2. Grows(history, history') /\ applied = Len(history) /\ applied' = Len(history')
  BY <1>1, CommandsGrow
<1>3. Chronicle(history') /\ Last(history).rv <= Last(history').rv /\ Last(history').rv \in Nat
  BY <1>1, <1>2, Grown
<1>4. Served = Last(history) /\ Last(history).rv \in Nat
  BY <1>1, <1>2, Tops
<1>5. Served' = Last(history')
  BY <1>2, <1>3, Tops DEF Served
<1>6. UNCHANGED <<phase, pos, pending>> /\ UNCHANGED apiVars
  BY DEF Commands, sessionVars
<1>7. watcher' = watcher
  BY <1>1, CommandForm DEF Commit
<1> QED
  BY <1>2, <1>3, <1>4, <1>5, <1>6, <1>7, ServerAdvances

\* Steps of the apply task.
LEMMA AppliesOwe ==
    ASSUME WatchInv, ClientInv, Applies
    PROVE  ClientInv'
<1>1. SessionInv /\ Chronicle(history) /\ Served = history[applied] /\ applied \in 1..Len(history)
  BY ClientFacts, SessionFacts
<1>2. Served.rv \in Nat /\ Last(history).rv \in Nat
  BY <1>1, ListedBelow, Tops
<1>3. watcher' = watcher /\ history' = history /\ UNCHANGED <<phase, pos, pending>> /\ UNCHANGED apiVars
      /\ Grows(history, history')
  BY DEF Applies, CatchUp, Publish, sessionVars, Grows
<1>4. CASE CatchUp
  <2>1. applied < Len(history) /\ applied' = applied + 1
    BY <1>4 DEF CatchUp
  <2>2. applied + 1 \in 1..Len(history) /\ applied < applied + 1
    BY <2>1, <1>1
  <2>3. Served' = history[applied + 1]
    BY <2>1, <1>3 DEF Served
  <2>4. Served.rv < Served'.rv
    BY <2>2, <2>3, <1>1 DEF Chronicle, Lineage, Extends
  <2>5. Served'.rv \in 1..Last(history).rv
    BY <2>2, <2>3, <1>1, ServedRight
  <2>6. Served'.rv \in Nat /\ Served.rv <= Served'.rv
    BY <2>4, <2>5, <1>2
  <2> QED BY <2>6, <1>2, <1>3, ServerAdvances
<1>5. CASE Publish
  <2>1. Served' = Served
    BY <1>5 DEF Publish, Served
  <2>2. Served.rv <= Served'.rv /\ Served'.rv \in Nat
    BY <2>1, <1>2
  <2> QED BY <2>2, <1>2, <1>3, ServerAdvances
<1> QED
  BY <1>4, <1>5 DEF Applies

\* Steps of the stream task.
LEMMA StreamsOwe ==
    ASSUME WatchInv, ClientInv, RvsApart, Streams
    PROVE  ClientInv'
<1>1. UNCHANGED storeVars
  BY DEF Streams
<1>2. CASE (Serve \/ PullAfterInitial) /\ UNCHANGED <<storeVars, breaks, mirrorVars, apiVars>>
  BY <1>2, ServeKeepsClient, PullKeepsClient
<1>3. CASE MirrorSend /\ UNCHANGED <<storeVars, apiVars>>
  <2>1. watcher = "worker" /\ watcher' = watcher /\ clientRv' = clientRv /\ baseline' = baseline
    BY <1>3 DEF MirrorSend, storeVars, apiVars
  <2> QED BY <2>1, WorkerClient
<1>4. CASE ApiAnchor \/ ApiInitial \/ ApiDeliver
  BY <1>1, <1>4, AnchorOwes, InitialOwes, DeliverOwes
<1> QED
  BY <1>2, <1>3, <1>4 DEF Streams

\* Steps of the client.
LEMMA ConsumesOwe ==
    ASSUME WatchInv, ClientInv, RequestsSafe, Consumes
    PROVE  ClientInv'
<1>1. UNCHANGED storeVars /\ watcher' = watcher /\ history' = history
  BY DEF Consumes, storeVars
<1>2. CASE (MirrorList \/ MirrorOpen \/ MirrorRejected \/ MirrorApply) /\ UNCHANGED apiVars
  <2>1. watcher = "worker"
    BY <1>2 DEF MirrorList, MirrorOpen, MirrorRejected, MirrorApply, WatchInv, MirrorInv
  <2>2. clientRv' = clientRv /\ baseline' = baseline
    BY <1>2 DEF apiVars
  <2> QED BY <2>1, <2>2, <1>1, WorkerClient
<1>3. CASE ClientList \/ ClientWatch
  BY <1>1, <1>3, ClientListKeeps, ClientWatchOwes
<1>4. CASE ClientRejected
  <2>1. /\ watcher # "worker" /\ clientRv' \in {clientRv, 0} /\ baseline' = NoBaseline /\ phase' = "closed"
        /\ UNCHANGED <<clientView, through>>
    BY <1>4 DEF ClientRejected, Close
  <2> QED BY <2>1, <1>1, CloseKeepsClient
<1> QED
  BY <1>2, <1>3, <1>4 DEF Consumes

\* Heartbeats and bookmarks.
LEMMA TicksOwe ==
    ASSUME WatchInv, ClientInv, Ticks
    PROVE  ClientInv'
<1>1. CASE Heartbeat /\ UNCHANGED <<storeVars, apiVars>>
  <2>1. watcher = "worker" /\ watcher' = watcher /\ clientRv' = clientRv /\ baseline' = baseline
    BY <1>1 DEF Heartbeat, storeVars, apiVars
  <2> QED BY <2>1, WorkerClient
<1>2. CASE Bookmark /\ UNCHANGED <<storeVars, mirrorVars>>
  BY <1>2, BookmarkOwes
<1> QED
  BY <1>1, <1>2 DEF Ticks

\* Failovers, timeouts and lost connections.
LEMMA FaultsOwe ==
    ASSUME WatchInv, ClientInv, Faults
    PROVE  ClientInv'
<1>1. CASE MirrorBreak /\ UNCHANGED <<storeVars, apiVars>>
  <2>1. watcher = "worker" /\ watcher' = watcher /\ clientRv' = clientRv /\ baseline' = baseline
    BY <1>1 DEF MirrorBreak, storeVars, apiVars
  <2> QED BY <2>1, WorkerClient
<1>2. CASE \/ Failover /\ baseline' = NoBaseline /\ UNCHANGED <<breaks, mirrorVars, clientRv, clientView, through, delivered>>
           \/ ClientBreak /\ UNCHANGED <<storeVars, mirrorVars>>
  <2>1. /\ watcher' = watcher /\ history' = history /\ baseline' = NoBaseline /\ phase' = "closed"
        /\ UNCHANGED <<clientRv, clientView, through>>
    BY <1>2 DEF Failover, ClientBreak, Close, storeVars
  <2>2. CASE watcher = "worker"
    BY <2>1, <2>2 DEF ClientInv
  <2>3. CASE watcher # "worker"
    BY <2>1, <2>3, CloseKeepsClient
  <2> QED BY <2>2, <2>3
<1> QED
  BY <1>1, <1>2 DEF Faults

\* Every step leaves the log as it was or adds to it.
LEMMA NextGrows ==
    ASSUME SessionInv, [Next]_vars
    PROVE  Grows(history, history') /\ watcher' = watcher
<1>1. CASE Commands
  BY <1>1, CommandsGrow, CommandForm DEF Commit
<1>2. CASE ~Commands
  <2>1. CASE Applies
    BY <2>1 DEF Applies, CatchUp, Publish, Grows
  <2>2. CASE Streams \/ Consumes \/ Ticks
    BY <2>2 DEF Streams, Consumes, Ticks, storeVars, Grows
  <2>3. CASE Faults
    BY <2>3 DEF Faults, Failover, storeVars, Grows
  <2>4. CASE UNCHANGED vars
    BY <2>4 DEF vars, storeVars, Grows
  <2> QED BY <1>2, <2>1, <2>2, <2>3, <2>4 DEF Next
<1> QED
  BY <1>1, <1>2

\* Two events that share a resourceVersion will share it for good.
LEMMA ApartBefore ==
    ASSUME SessionInv, Grows(history, history'), watcher' = watcher, RvsApart'
    PROVE  RvsApart
<1>1. /\ Chronicle(history) /\ Chronicle(history') /\ Top(history) <= Top(history')
      /\ \A i \in 1..Top(history) : Log(history')[i] = Log(history)[i]
      /\ Top(history) \in Nat /\ Top(history') \in Nat
  BY SessionFacts, Grown
<1>2. Latest = Last(history) /\ Latest' = Last(history') /\ Target' = Target
  BY <1>1, Tops DEF Latest, Target
<1>3. /\ Latest.log = Log(history) /\ Len(Latest.log) = Top(history)
      /\ Latest'.log = Log(history') /\ Len(Latest'.log) = Top(history')
  BY <1>2 DEF Log, Top
<1>4. \A i \in 1..Top(history) : i \in 1..Top(history')
  BY <1>1
<1>5. \A i, j \in 1..Top(history') :
         /\ i < j /\ {Log(history')[i].key, Log(history')[j].key} \subseteq Target
         => Log(history')[i].row.rv < Log(history')[j].row.rv
  BY <1>2, <1>3 DEF RvsApart
<1>6. \A i, j \in 1..Top(history) :
         /\ i < j /\ {Log(history)[i].key, Log(history)[j].key} \subseteq Target
         => Log(history)[i].row.rv < Log(history)[j].row.rv
  BY <1>1, <1>4, <1>5
<1> QED
  BY <1>3, <1>6 DEF RvsApart

\* The invariant of the client holds for every number of keys, servers that lag,
\* failovers, breaks, pruned events and batches, until a batch writes two objects
\* of the watch under one resourceVersion.
THEOREM ClientInvariant == Spec => [](RequestsSafe /\ RvsApart => ClientInv)
<1>1. Init => (RequestsSafe /\ RvsApart => ClientInv)
  <2> SUFFICES ASSUME Init PROVE ClientInv
    OBVIOUS
  <2>1. phase = "closed" /\ clientRv = 0 /\ baseline = NoBaseline
    BY DEF Init, SessionInit, ApiInit
  <2>2. "closed" \notin Opened /\ "closed" # "anchor"
    BY DEF Opened
  <2>3. InitialInv /\ AnchorInv /\ DeliveryInv /\ AwayInv
    BY <2>1, <2>2 DEF InitialInv, AnchorInv, DeliveryInv, AwayInv
  <2> QED BY <2>1, <2>3 DEF ClientInv
<1>2. WatchInv /\ (RequestsSafe /\ RvsApart => ClientInv) /\ [Next]_vars
        => (RequestsSafe /\ RvsApart => ClientInv)'
  <2>1. RequestsSafe' => RequestsSafe
    BY DEF RequestsSafe
  <2>a. ASSUME WatchInv, [Next]_vars, RvsApart' PROVE RvsApart
    BY <2>a, NextGrows, ApartBefore DEF WatchInv
  <2> SUFFICES ASSUME WatchInv, ClientInv, RequestsSafe, RvsApart, [Next]_vars PROVE ClientInv'
    BY <2>1, <2>a
  <2>2. CASE UNCHANGED vars
    <3>1. /\ watcher' = watcher /\ history' = history /\ UNCHANGED <<phase, pos, pending>> /\ UNCHANGED apiVars
          /\ Served' = Served /\ Grows(history, history')
      BY <2>2 DEF vars, storeVars, sessionVars, Served, Grows
    <3>2. Served.rv \in Nat
      BY ListedBelow DEF WatchInv
    <3>3. Served.rv <= Served'.rv /\ Served'.rv \in Nat
      BY <3>1, <3>2
    <3> QED BY <3>1, <3>2, <3>3, ServerAdvances
  <2>3. CASE Next
    BY <2>3, AppliesOwe, StreamsOwe, ConsumesOwe, TicksOwe, CommandsOwe, FaultsOwe DEF Next
  <2> QED BY <2>2, <2>3
<1> QED
  BY <1>1, <1>2, WatchInvariant, PTL DEF Spec

\* A client that resumes from the resourceVersion it holds, be it of an event, a
\* bookmark or a list of another server, misses no change
\* (resolve_periodic_bookmark_rv: "you may resume from it"), unless a batch has
\* written two objects of the watch: between their two events the promise is
\* broken (BookmarkPromise, run WatchBatch).
THEOREM ResumeAlwaysSafe == Spec => [](RequestsSafe => ResumeSafe)
<1>1. ASSUME WatchInv, RvsApart => ClientInv PROVE ResumeSafe
  <2>1. /\ SessionInv /\ Chronicle(history) /\ Top(history) \in Nat /\ clientRv \in Nat /\ delivered \in Nat
        /\ through \in Nat /\ Place \in 0..Top(history) /\ Below(history, clientRv) \in 0..Top(history)
        /\ Below(history, delivered) \in 0..Top(history)
    BY <1>1, ClientFacts
  <2>2. /\ Latest = Last(history) /\ Len(Latest.log) = Top(history) /\ Latest.log = Log(history)
        /\ \A n : Matching(RowsAfter(n)) = Sight(watcher, history, n)
    BY <2>1, SeenAfter DEF Top, Log
  <2> SUFFICES ASSUME RvsApart, NEW i \in (through + 1)..Top(history), Log(history)[i].row.rv <= clientRv
               PROVE  Sight(watcher, history, i - 1) = Sight(watcher, history, i)
    BY <2>2 DEF ResumeSafe, ReceivedThrough, Changes
  <2>3. i \in 1..Top(history) /\ Log(history)[i].row.rv \in Nat /\ Log(history)[i].row.rv > 0
    <3>1. i \in 1..Top(history)
      BY <2>1
    <3>2. Log(history)[i].row.rv \in 2..Last(history).rv /\ Last(history).rv \in Nat
      BY <3>1, <2>1, Tops
    <3> QED BY <3>1, <3>2
  <2>4. clientRv > 0
    BY <2>1, <2>3
  <2>5. i <= Below(history, clientRv)
    BY <2>1, <2>3, BelowRight
  <2>6. watcher # "worker"
    BY <2>4, <1>1 DEF ClientInv
  <2>7. Even(watcher, history, through, Below(history, clientRv)) /\ Below(history, clientRv) \in Nat
    BY <2>1, <2>4, <2>6, <1>1, OwesBelow DEF Owes, Resumable
  <2>8. i \in through..Below(history, clientRv) /\ i - 1 \in through..Below(history, clientRv)
    BY <2>1, <2>5, <2>7
  <2> QED BY <2>7, <2>8 DEF Even
<1>2. WatchInv /\ (RequestsSafe /\ RvsApart => ClientInv) => (RequestsSafe => ResumeSafe)
  BY <1>1
<1> QED
  BY <1>2, WatchInvariant, ClientInvariant, PTL

\* A session that waits for a signal has nothing left to tell.
LEMMA QuietSilent ==
    ASSUME WatchInv, AtRest
    PROVE  /\ SilentIn(watcher, history, Place, Top(history)) /\ phase = "live"
           /\ baseline = NoBaseline /\ wire = <<>>
<1>1. SessionInv
  BY DEF WatchInv
<1>2. /\ phase = "live" /\ pending = <<>> /\ ~replay /\ queue = <<>> /\ ~lagged /\ unpublished = {}
      /\ applied = Len(history) /\ baseline = NoBaseline /\ wire = <<>>
  BY DEF AtRest, Quiet
<1>3. Chronicle(history)
  BY <1>1, SessionFacts
<1>4. Len(Served.log) = Top(history)
  BY <1>2, <1>3, Tops DEF Served, Top
<1>5. ~ \E i \in 1..Len(queue) : queue[i]
  BY <1>2
<1>6. SilentIn(watcher, history, Reach(history, pos), Top(history))
  BY <1>1, <1>2, <1>3, <1>4, <1>5 DEF SessionInv, SignalInv
<1>7. Place = Reach(history, pos)
  BY <1>1, <1>2, PlaceRight
<1> QED
  BY <1>2, <1>6, <1>7

\* An idle watch, of a worker or of an API client, shows the store, whichever
\* signals were dropped and whichever server or history it resumed from
\* (next_event waits only after an empty page). An API client, which resumes by
\* resourceVersion, is promised it while its events have different ones.
THEOREM QuietAlwaysCurrent == Spec => [](RequestsSafe => QuietMeansCurrent)
<1>1. ASSUME WatchInv, RvsApart => ClientInv, watcher # "worker" PROVE QuietMeansCurrent
  <2> SUFFICES ASSUME AtRest, ClientInv PROVE clientView = Matching(Latest.rows)
    BY <1>1 DEF QuietMeansCurrent, View
  <2>1. /\ SessionInv /\ Chronicle(history) /\ Top(history) \in Nat /\ through \in Nat /\ Place \in 0..Top(history)
        /\ clientView \in [Keys -> Row \cup {NoRow}]
    BY <1>1, ClientFacts
  <2>2. SilentIn(watcher, history, Place, Top(history)) /\ phase = "live" /\ baseline = NoBaseline
    BY <1>1, QuietSilent
  <2>3. Owes(Place)
    BY <2>2, <1>1 DEF ClientInv, DeliveryInv, Opened
  <2>4. Place \in Nat /\ Place <= Top(history) /\ Top(history) <= Top(history) /\ Top(history) \in Place..Top(history)
    BY <2>1
  <2>5. Even(watcher, history, Place, Top(history))
    BY <2>1, <2>2, <2>4, SilentEven
  <2>6. Resumable(watcher, history, clientView, through, Top(history))
    BY <2>1, <2>3, <2>4, <2>5, ResumableOn DEF Owes
  <2>7. ASSUME NEW k \in Keys PROVE clientView[k] = Sight(watcher, history, Top(history))[k]
    <3>1. through <= Top(history)
      BY <2>6 DEF Resumable
    <3>2. PICK y \in 0..through : (y >= Top(history) \/ y = through) /\ clientView[k] = Sight(watcher, history, y)[k]
      BY <2>6 DEF Resumable
    <3>3. CASE y >= Top(history)
      <4>1. y = Top(history)
        BY <3>1, <3>3, <2>1
      <4> QED BY <4>1, <3>2
    <3>4. CASE y = through
      <4>1. Top(history) \in through..Top(history)
        BY <3>1, <2>1
      <4>2. Sight(watcher, history, Top(history)) = Sight(watcher, history, through)
        BY <4>1, <2>6 DEF Resumable, Even
      <4> QED BY <4>2, <3>2, <3>4
    <3> QED BY <3>2, <3>3, <3>4
  <2>8. Top(history) \in 0..Top(history)
    BY <2>1
  <2>9. Sight(watcher, history, Top(history)) \in [Keys -> Row \cup {NoRow}]
    BY <2>1, <2>8, SightType
  <2>10. clientView = Sight(watcher, history, Top(history))
    BY <2>1, <2>7, <2>9
  <2> QED BY <2>1, <2>10, SeenAfter
<1>2. WatchInv /\ (watcher = "worker" => QuietMeansCurrent) /\ (RequestsSafe /\ RvsApart => ClientInv)
        => (RequestsSafe => QuietMeansCurrent)
  BY <1>1
<1> QED
  BY <1>2, WatchInvariant, QuietMirrorCurrent, ClientInvariant, PTL
==============================================================================
