------------------------- MODULE CommittedApplyProofs -------------------------
(*****************************************************************************)
(* Theorems about CommittedApply, for any number of replicas, bodies, UIDs,  *)
(* entries and crashes: watch versions increase on every replica, an entry   *)
(* applied twice around a crash is harmless when it is a put, updates        *)
(* replace the version they name, and until a patch or a delete is applied   *)
(* twice the replicas agree and their watch history tells what is present.   *)
(*****************************************************************************)
EXTENDS CommittedApply, TLAPS

\* node.db is at most the one entry behind cluster.db, and exactly one behind
\* while the apply loop is between its two writes.
OneBehind ==
    \A s \in Servers :
        /\ reached[s] \in {lastApplied[s], lastApplied[s] + 1}
        /\ applying[s] => reached[s] = lastApplied[s] + 1
        /\ reached[s] <= Len(log)

\* An entry that is in cluster.db and not yet in node.db is one that the
\* replica would not apply to any effect again, when it is a put.
PutsSettled ==
    \A s \in Servers :
        reached[s] = lastApplied[s] + 1 /\ log[reached[s]].op = "put"
        => ApplyPut(log[reached[s]], db[s]) = db[s]

\* A create, and only a create, requires absence; it names no version.
Bare(e) == e.absent => e.op = "put" /\ e.exp = 0

EntriesBare == (\A e \in pending : Bare(e)) /\ (\A k \in 1..Len(log) : Bare(log[k]))

\* No two creates draw the same UID.
CreatesDistinct ==
    /\ \A j, k \in 1..Len(log) :
           log[j].absent /\ log[k].absent /\ log[j].uid = log[k].uid => j = k
    /\ \A e \in pending, k \in 1..Len(log) : e.absent /\ log[k].absent => e.uid # log[k].uid
    /\ \A e, f \in pending : e.absent /\ f.absent /\ e.uid = f.uid => e = f

IInv == TypeOK /\ OneBehind /\ PutsSettled /\ EventsIncrease

------------------------------------------------------------------------------
(* What one transaction does to a database.                                  *)

Increasing(d) ==
    /\ \A i, j \in 1..Len(d.events) : i < j => d.events[i].rv < d.events[j].rv
    /\ \A i \in 1..Len(d.events) : d.events[i].rv <= d.rv

\* Appending an event with the next resourceVersion, whatever becomes of the
\* row, keeps the database well formed and its events increasing.
LEMMA NextVersion ==
    ASSUME NEW d \in Db, Increasing(d), NEW e \in Event, e.rv = d.rv + 1,
           NEW uid \in Uids \cup {NoUid}, NEW ver \in Nat, NEW body \in Bodies \cup {NoBody}
    PROVE  LET n == [rv |-> d.rv + 1, uid |-> uid, ver |-> ver, body |-> body,
                     events |-> Append(d.events, e)]
           IN  n \in Db /\ Increasing(n)
    <1> DEFINE n == [rv |-> d.rv + 1, uid |-> uid, ver |-> ver, body |-> body,
                     events |-> Append(d.events, e)]
    <1>1. d.rv \in Nat /\ d.events \in Seq(Event)  BY DEF Db
    <1>2. n.events \in Seq(Event)  BY <1>1
    <1>3. n \in Db  BY <1>1, <1>2 DEF Db
    <1>4. Len(n.events) = Len(d.events) + 1  BY <1>1
    <1>5. \A i \in 1..Len(d.events) : n.events[i] = d.events[i]  BY <1>1
    <1>6. n.events[Len(d.events) + 1] = e  BY <1>1
    <1>7. \A i \in 1..Len(d.events) : d.events[i].rv \in Nat
        <2>1. \A i \in 1..Len(d.events) : d.events[i] \in Event  BY <1>1
        <2> QED BY <2>1 DEF Event
    <1>8. Increasing(n)
        <2>1. ASSUME NEW i \in 1..Len(n.events)
              PROVE  n.events[i].rv <= n.rv
            BY <1>1, <1>4, <1>5, <1>6, <1>7 DEF Increasing
        <2>2. ASSUME NEW i \in 1..Len(n.events), NEW j \in 1..Len(n.events), i < j
              PROVE  n.events[i].rv < n.events[j].rv
            <3>1. i \in 1..Len(d.events)  BY <1>1, <1>4, <2>2
            <3>2. CASE j \in 1..Len(d.events)  BY <1>5, <2>2, <3>1, <3>2 DEF Increasing
            <3>3. CASE j = Len(d.events) + 1  BY <1>1, <1>5, <1>6, <1>7, <3>1, <3>3 DEF Increasing
            <3> QED BY <1>1, <1>4, <3>2, <3>3
        <2> QED BY <2>1, <2>2 DEF Increasing
    <1> QED BY <1>3, <1>8

\* apply_commit_in_tx_for_raft keeps a database well formed and its watch
\* history increasing, whatever the entry and the row.
LEMMA AppliedKeeps ==
    ASSUME NEW d \in Db, Increasing(d), NEW entry \in Entry
    PROVE  Applied(entry, d) \in Db /\ Increasing(Applied(entry, d))
    <1>1. d.rv \in Nat /\ d.ver \in Nat /\ d.uid \in Uids \cup {NoUid}
          /\ d.body \in Bodies \cup {NoBody}
        BY DEF Db
    <1>2. entry.uid \in Uids /\ entry.exp \in Nat /\ entry.body \in Bodies \cup {NoBody}
          /\ entry.op \in {"put", "patch", "delete"}
        BY DEF Entry
    <1>3. ASSUME NEW type \in {"ADDED", "MODIFIED"}, NEW base \in Nat
          PROVE  LET w == Written(entry.uid, entry.body, type, base, d)
                 IN  w \in Db /\ Increasing(w)
        <2> DEFINE e == [type |-> type, uid |-> entry.uid, rv |-> d.rv + 1, base |-> base]
        <2>1. e \in Event /\ e.rv = d.rv + 1  BY <1>1, <1>2 DEF Event
        <2>2. d.rv + 1 \in Nat  BY <1>1
        <2> HIDE DEF e
        <2>3. LET n == [rv |-> d.rv + 1, uid |-> entry.uid, ver |-> d.rv + 1, body |-> entry.body,
                        events |-> Append(d.events, e)]
              IN  n \in Db /\ Increasing(n)
            BY <2>1, <2>2, <1>2, NextVersion
        <2> QED BY <2>3 DEF Written, e
    <1>4. CASE entry.op = "put"
        BY <1>2, <1>3, <1>4 DEF Applied, ApplyPut
    <1>5. CASE entry.op = "patch"
        BY <1>2, <1>3, <1>5 DEF Applied, ApplyPatch
    <1>6. CASE entry.op = "delete"
        <2> DEFINE e == [type |-> "DELETED", uid |-> entry.uid, rv |-> d.rv + 1, base |-> 0]
                   kept == [rv |-> d.rv + 1, uid |-> d.uid, ver |-> d.ver, body |-> d.body,
                            events |-> Append(d.events, e)]
                   gone == [rv |-> d.rv + 1, uid |-> NoUid, ver |-> 0, body |-> NoBody,
                            events |-> Append(d.events, e)]
        <2>1. e \in Event /\ e.rv = d.rv + 1  BY <1>1, <1>2 DEF Event
        <2>2. ApplyDelete(entry, d) \in {d, kept, gone}
            BY DEF ApplyDelete, Db
        <2> HIDE DEF e
        <2>3. kept \in Db /\ Increasing(kept)  BY <2>1, <1>1, NextVersion
        <2>4. gone \in Db /\ Increasing(gone)  BY <2>1, <1>1, NextVersion
        <2>5. Applied(entry, d) = ApplyDelete(entry, d)  BY <1>6 DEF Applied
        <2> QED BY <2>2, <2>3, <2>4, <2>5
    <1> QED BY <1>2, <1>4, <1>5, <1>6

\* A put is idempotent: what it wrote, its own body stops; what stopped it the
\* first time stops it again.
LEMMA PutIdempotent ==
    ASSUME NEW d, NEW entry
    PROVE  ApplyPut(entry, ApplyPut(entry, d)) = ApplyPut(entry, d)
    BY DEF ApplyPut, Written

------------------------------------------------------------------------------
(* The invariant.                                                            *)

\* The empty replicas satisfy the invariant.
LEMMA InitEstablishesIInv == Init => IInv
    <1> SUFFICES ASSUME Init PROVE IInv  OBVIOUS
    <1>1. EmptyDb \in Db /\ EmptyDb.events = <<>>  BY DEF EmptyDb, Db
    <1>2. TypeOK
        <2>1. skewed \in BOOLEAN  BY DEF Init
        <2>2. db \in [Servers -> Db]  BY <1>1 DEF Init
        <2>3. applying \in [Servers -> BOOLEAN] /\ crashes \in Nat  BY DEF Init
        <2>4. pending \subseteq Entry /\ log \in Seq(Entry)  BY DEF Init
        <2>5. lastApplied \in [Servers -> Nat] /\ reached \in [Servers -> Nat]  BY DEF Init
        <2> QED BY <2>1, <2>2, <2>3, <2>4, <2>5 DEF TypeOK
    <1>3. OneBehind /\ PutsSettled  BY DEF Init, OneBehind, PutsSettled
    <1>4. EventsIncrease  BY <1>1 DEF Init, EventsIncrease
    <1> QED BY <1>2, <1>3, <1>4 DEF IInv

\* A step that leaves every replica alone keeps the invariant, as long as the
\* log only grows.
LEMMA LogGrowthKeepsIInv ==
    ASSUME IInv, UNCHANGED <<db, lastApplied, applying, reached, skewed, crashes>>,
           pending' \subseteq Entry, log' \in Seq(Entry), Len(log) <= Len(log'),
           \A k \in 1..Len(log) : log'[k] = log[k]
    PROVE  IInv'
    <1>1. TypeOK'  BY DEF IInv, TypeOK
    <1>2. OneBehind'  BY DEF IInv, TypeOK, OneBehind
    <1>3. PutsSettled'
        <2> SUFFICES ASSUME NEW s \in Servers, reached[s] = lastApplied[s] + 1,
                            log'[reached[s]].op = "put"
                     PROVE  ApplyPut(log'[reached[s]], db[s]) = db[s]
            BY DEF PutsSettled
        <2>1. reached[s] \in 1..Len(log)  BY DEF IInv, TypeOK, OneBehind
        <2> QED BY <2>1 DEF IInv, PutsSettled
    <1>4. EventsIncrease'  BY DEF IInv, EventsIncrease
    <1> QED BY <1>1, <1>2, <1>3, <1>4 DEF IInv

\* A proposal names a UID that is in use or fresh, and a version of the row.
LEMMA BuildKeepsIInv ==
    ASSUME IInv, NEW s \in Servers, Build(s)
    PROVE  IInv'
    <1>1. db[s] \in Db  BY DEF IInv, TypeOK
    <1>2. ASSUME NEW entry \in Entry, Propose(entry)
          PROVE  IInv'
        BY <1>2, LogGrowthKeepsIInv DEF Propose, IInv, TypeOK
    <1>3. ASSUME NEW body \in Bodies, BuildCreate(body)  PROVE  IInv'
        BY <1>2, <1>3 DEF BuildCreate, Entry
    <1>4. ASSUME NEW body \in Bodies, BuildUpdate(db[s], body)  PROVE  IInv'
        BY <1>1, <1>2, <1>4 DEF BuildUpdate, Entry, Db
    <1>5. ASSUME NEW body \in Bodies, BuildPatch(db[s], body)  PROVE  IInv'
        BY <1>1, <1>2, <1>5 DEF BuildPatch, Entry, Db
    <1>6. CASE BuildDelete(db[s])
        BY <1>1, <1>2, <1>6 DEF BuildDelete, Entry, Db
    <1> QED BY <1>3, <1>4, <1>5, <1>6 DEF Build

\* Applying an entry, for the first time or again after a crash.
LEMMA ApplyKeepsIInv ==
    ASSUME IInv, NEW s \in Servers, ApplyCommitted(s)
    PROVE  IInv'
    <1> DEFINE k == lastApplied[s] + 1
    <1>1. k \in 1..Len(log) /\ log[k] \in Entry  BY DEF IInv, TypeOK, ApplyCommitted
    <1>2. db[s] \in Db /\ Increasing(db[s])  BY DEF IInv, TypeOK, EventsIncrease, Increasing
    <1>3. Applied(log[k], db[s]) \in Db /\ Increasing(Applied(log[k], db[s]))
        BY <1>1, <1>2, AppliedKeeps
    <1>4. db'[s] = Applied(log[k], db[s]) /\ \A t \in Servers \ {s} : db'[t] = db[t]
        BY DEF ApplyCommitted, IInv, TypeOK
    <1>5. TypeOK'  BY <1>1, <1>3 DEF IInv, TypeOK, ApplyCommitted
    <1>6. OneBehind'  BY <1>1 DEF IInv, TypeOK, OneBehind, ApplyCommitted
    <1>7. PutsSettled'
        <2> SUFFICES ASSUME NEW t \in Servers, reached'[t] = lastApplied[t] + 1,
                            log[reached'[t]].op = "put"
                     PROVE  ApplyPut(log[reached'[t]], db'[t]) = db'[t]
            BY DEF PutsSettled, ApplyCommitted
        <2>1. CASE t = s
            <3>1. reached'[t] = k  BY <2>1 DEF ApplyCommitted, IInv, TypeOK
            <3>2. db'[t] = ApplyPut(log[k], db[s])  BY <1>4, <2>1, <3>1 DEF Applied
            <3> QED BY <3>1, <3>2, PutIdempotent
        <2>2. CASE t # s
            <3>1. reached'[t] = reached[t] /\ db'[t] = db[t]
                BY <1>4, <2>2 DEF ApplyCommitted, IInv, TypeOK
            <3> QED BY <3>1 DEF IInv, PutsSettled
        <2> QED BY <2>1, <2>2
    <1>8. EventsIncrease'
        <2>1. \A t \in Servers : Increasing(db'[t])
            BY <1>3, <1>4 DEF IInv, EventsIncrease, Increasing
        <2> QED BY <2>1 DEF EventsIncrease, Increasing
    <1> QED BY <1>5, <1>6, <1>7, <1>8 DEF IInv

\* Every step keeps the invariant, action by action.
LEMMA NextKeepsIInv == IInv /\ [Next]_vars => IInv'
    <1> SUFFICES ASSUME IInv, [Next]_vars PROVE IInv'  OBVIOUS
    <1>1. ASSUME NEW s \in Servers, Build(s)  PROVE  IInv'  BY <1>1, BuildKeepsIInv
    <1>2. ASSUME NEW s \in Servers, ApplyCommitted(s)  PROVE  IInv'  BY <1>2, ApplyKeepsIInv
    <1>3. ASSUME NEW s \in Servers, RecordApplied(s)  PROVE  IInv'
        <2>1. TypeOK' /\ OneBehind' /\ EventsIncrease'
            BY <1>3 DEF IInv, TypeOK, OneBehind, EventsIncrease, RecordApplied
        <2>2. PutsSettled'
            BY <1>3 DEF IInv, TypeOK, OneBehind, PutsSettled, RecordApplied
        <2> QED BY <2>1, <2>2 DEF IInv
    <1>4. ASSUME NEW s \in Servers, Crash(s)  PROVE  IInv'
        BY <1>4, ApplyAssumption DEF IInv, TypeOK, OneBehind, PutsSettled, EventsIncrease, Crash
    <1>5. ASSUME NEW entry \in pending, CommitProposal(entry)  PROVE  IInv'
        <2>1. entry \in Entry  BY DEF IInv, TypeOK
        <2>2. log' \in Seq(Entry) /\ Len(log) <= Len(log') /\ \A k \in 1..Len(log) : log'[k] = log[k]
            BY <1>5, <2>1 DEF CommitProposal, IInv, TypeOK
        <2> QED BY <1>5, <2>2, LogGrowthKeepsIInv DEF CommitProposal, IInv, TypeOK
    <1>6. ASSUME NEW entry \in pending, LoseProposal(entry)  PROVE  IInv'
        BY <1>6, LogGrowthKeepsIInv DEF LoseProposal, IInv, TypeOK
    <1>7. CASE UNCHANGED vars
        BY <1>7 DEF vars, IInv, TypeOK, OneBehind, PutsSettled, EventsIncrease
    <1> QED BY <1>1, <1>2, <1>3, <1>4, <1>5, <1>6, <1>7 DEF Next

------------------------------------------------------------------------------
(* What follows from it.                                                     *)

\* For every instance: the state of the replicas and of the log is well formed.
THEOREM ApplyTypes == Spec => []TypeOK
    <1>1. IInv => TypeOK  BY DEF IInv
    <1> QED BY <1>1, InitEstablishesIInv, NextKeepsIInv, PTL DEF Spec

\* For every instance: on every replica each watch event has a resourceVersion
\* above all earlier ones, also when the last entry is applied twice.
THEOREM EventsAlwaysIncrease == Spec => []EventsIncrease
    <1>1. IInv => EventsIncrease  BY DEF IInv
    <1> QED BY <1>1, InitEstablishesIInv, NextKeepsIInv, PTL DEF Spec

\* A replica that takes in its last entry again after a crash keeps its
\* cluster.db when the entry is a put.
LEMMA ReplayStep ==
    ASSUME IInv, [Next]_vars
    PROVE  \A s \in Servers :
             Replays(s) /\ applying'[s] /\ log[reached[s]].op = "put" => db'[s] = db[s]
    <1> SUFFICES ASSUME NEW s \in Servers, Replays(s), applying'[s], log[reached[s]].op = "put"
                 PROVE  db'[s] = db[s]
        OBVIOUS
    <1>1. CASE ApplyCommitted(s)
        <2>1. db'[s] = Applied(log[reached[s]], db[s])
            BY <1>1 DEF ApplyCommitted, Replays, IInv, TypeOK
        <2> QED BY <2>1 DEF Applied, Replays, IInv, PutsSettled
    <1>2. ASSUME NEW t \in Servers, t # s, ApplyCommitted(t)  PROVE db'[s] = db[s]
        BY <1>2 DEF ApplyCommitted, IInv, TypeOK
    <1>3. CASE db' = db  BY <1>3
    <1>4. ASSUME NEW t \in Servers, Build(t)  PROVE db' = db
        BY <1>4 DEF Build, BuildCreate, BuildUpdate, BuildPatch, BuildDelete, Propose
    <1> QED BY <1>1, <1>2, <1>3, <1>4
            DEF Next, vars, RecordApplied, Crash, CommitProposal, LoseProposal

\* For every instance: replaying a put after a crash between the two databases
\* moves neither the store's resourceVersion nor the watch history.
THEOREM PutsAlwaysReplayInert == Spec => PutsReplayInert
    <1>1. Spec => []IInv  BY InitEstablishesIInv, NextKeepsIInv, PTL DEF Spec
    <1>2. IInv /\ [Next]_vars
          => [\A s \in Servers :
                Replays(s) /\ applying'[s] /\ log[reached[s]].op = "put" => db'[s] = db[s]]_vars
        BY ReplayStep
    <1> QED BY <1>1, <1>2, PTL DEF Spec, PutsReplayInert

------------------------------------------------------------------------------
(* Rows and versions: the event that wrote the row of a database is still    *)
(* the last one of its UID.                                                  *)

RowTold(d) ==
    d.uid # NoUid =>
        \E j \in 1..Len(d.events) :
            /\ d.events[j].uid = d.uid /\ d.events[j].rv = d.ver
            /\ \A k \in (j + 1)..Len(d.events) : d.events[k].uid # d.uid

\* strict: the replaced version is of the same UID.
Replaces(d, strict) ==
    \A i \in 1..Len(d.events) :
        d.events[i].base # 0 =>
            \E j \in 1..(i - 1) :
                /\ d.events[j].rv = d.events[i].base
                /\ strict => d.events[j].uid = d.events[i].uid
                /\ \A k \in (j + 1)..(i - 1) : d.events[k].uid # d.events[j].uid

\* Appending the event of a write, of a delete or of a delete that met another
\* UID keeps the row told, and the versions replaced by updates in place.
LEMMA AppendTells ==
    ASSUME NEW d \in Db, RowTold(d), NEW strict \in BOOLEAN, Replaces(d, strict),
           NEW e \in Event, NEW n,
           n.events = Append(d.events, e),
           \/ n.uid = NoUid
           \/ n.uid = e.uid /\ n.ver = e.rv
           \/ n.uid = d.uid /\ n.ver = d.ver /\ n.uid # e.uid,
           \/ e.base = 0
           \/ d.uid # NoUid /\ e.base = d.ver /\ (strict => e.uid = d.uid)
    PROVE  RowTold(n) /\ Replaces(n, strict)
    <1> DEFINE L == Len(d.events)
    <1>1. d.events \in Seq(Event) /\ L \in Nat  BY DEF Db
    <1>2. Len(n.events) = L + 1 /\ n.events[L + 1] = e /\ \A i \in 1..L : n.events[i] = d.events[i]
        BY <1>1
    <1> HIDE DEF L
    <1>3. RowTold(n)
        <2> SUFFICES ASSUME n.uid # NoUid
                     PROVE  \E j \in 1..(L + 1) :
                                /\ n.events[j].uid = n.uid /\ n.events[j].rv = n.ver
                                /\ \A k \in (j + 1)..(L + 1) : n.events[k].uid # n.uid
            BY <1>2 DEF RowTold
        <2>1. CASE n.uid = e.uid /\ n.ver = e.rv
            <3>1. n.events[L + 1].uid = n.uid /\ n.events[L + 1].rv = n.ver  BY <1>2, <2>1
            <3>2. L + 1 \in 1..(L + 1) /\ \A k \in (L + 1 + 1)..(L + 1) : n.events[k].uid # n.uid  BY <1>1
            <3> QED BY <3>1, <3>2
        <2>2. CASE n.uid = d.uid /\ n.ver = d.ver /\ n.uid # e.uid
            <3>1. PICK j \in 1..L : /\ d.events[j].uid = d.uid /\ d.events[j].rv = d.ver
                                    /\ \A k \in (j + 1)..L : d.events[k].uid # d.uid
                BY <2>2 DEF RowTold, L
            <3>2. \A k \in (j + 1)..(L + 1) : n.events[k].uid # n.uid
                <4> TAKE k \in (j + 1)..(L + 1)
                <4>1. CASE k = L + 1  BY <4>1, <1>2, <2>2
                <4>2. CASE k # L + 1
                    <5>1. k \in (j + 1)..L  BY <4>2, <1>1
                    <5>2. k \in 1..L  BY <5>1, <1>1
                    <5> QED BY <5>1, <5>2, <3>1, <1>2, <2>2
                <4> QED BY <4>1, <4>2
            <3>3. j \in 1..(L + 1) /\ n.events[j].uid = n.uid /\ n.events[j].rv = n.ver
                BY <3>1, <1>1, <1>2, <2>2
            <3> QED BY <3>2, <3>3
        <2> QED BY <2>1, <2>2
    <1>4. Replaces(n, strict)
        <2> SUFFICES ASSUME NEW i \in 1..(L + 1), n.events[i].base # 0
                     PROVE  \E j \in 1..(i - 1) :
                                /\ n.events[j].rv = n.events[i].base
                                /\ strict => n.events[j].uid = n.events[i].uid
                                /\ \A k \in (j + 1)..(i - 1) : n.events[k].uid # n.events[j].uid
            BY <1>2 DEF Replaces
        <2>1. CASE i = L + 1
            <3>1. d.uid # NoUid /\ e.base = d.ver /\ (strict => e.uid = d.uid)  BY <1>2, <2>1
            <3>2. PICK j \in 1..L : /\ d.events[j].uid = d.uid /\ d.events[j].rv = d.ver
                                    /\ \A k \in (j + 1)..L : d.events[k].uid # d.uid
                BY <3>1 DEF RowTold, L
            <3>3. i - 1 = L  BY <2>1, <1>1
            <3>4. n.events[j].rv = n.events[i].base /\ (strict => n.events[j].uid = n.events[i].uid)
                BY <3>1, <3>2, <1>2, <2>1
            <3>5. \A k \in (j + 1)..L : n.events[k].uid # n.events[j].uid
                <4> TAKE k \in (j + 1)..L
                <4>1. k \in 1..L  BY <1>1
                <4> QED BY <4>1, <3>2, <1>2
            <3> QED BY <3>3, <3>4, <3>5
        <2>2. CASE i # L + 1
            <3>1. i \in 1..L  BY <2>2, <1>1
            <3>2. PICK j \in 1..(i - 1) :
                      /\ d.events[j].rv = d.events[i].base
                      /\ strict => d.events[j].uid = d.events[i].uid
                      /\ \A k \in (j + 1)..(i - 1) : d.events[k].uid # d.events[j].uid
                BY <3>1, <1>2 DEF Replaces, L
            <3>3. j \in 1..L /\ \A k \in (j + 1)..(i - 1) : k \in 1..L  BY <3>1, <1>1
            <3> QED BY <3>1, <3>2, <3>3, <1>2
        <2> QED BY <2>1, <2>2
    <1> QED BY <1>3, <1>4

\* apply_commit_in_tx_for_raft keeps both. Under strict the version an update
\* names must belong to its UID.
LEMMA AppliedTells ==
    ASSUME NEW d \in Db, RowTold(d), NEW strict \in BOOLEAN, Replaces(d, strict),
           NEW entry \in Entry, Bare(entry),
           strict /\ entry.op = "put" /\ ~entry.absent /\ d.uid # NoUid /\ d.ver = entry.exp
           => entry.uid = d.uid
    PROVE  RowTold(Applied(entry, d)) /\ Replaces(Applied(entry, d), strict)
    <1> DEFINE n == Applied(entry, d)
    <1> SUFFICES RowTold(n) /\ Replaces(n, strict)  OBVIOUS
    <1>1. d.rv \in Nat /\ entry.uid \in Uids /\ entry.exp \in Nat /\ entry.absent \in BOOLEAN
          /\ entry.op \in {"put", "patch", "delete"}
        BY DEF Db, Entry
    <1>2. ASSUME NEW type \in {"ADDED", "MODIFIED"}, NEW base \in Nat,
                 n = Written(entry.uid, entry.body, type, base, d),
                 \/ base = 0
                 \/ d.uid # NoUid /\ base = d.ver /\ (strict => entry.uid = d.uid)
          PROVE  RowTold(n) /\ Replaces(n, strict)
        <2> DEFINE e == [type |-> type, uid |-> entry.uid, rv |-> d.rv + 1, base |-> base]
        <2>1. e \in Event /\ e.base = base /\ e.uid = entry.uid  BY <1>1 DEF Event
        <2>2. n.events = Append(d.events, e) /\ n.uid = e.uid /\ n.ver = e.rv  BY <1>2 DEF Written
        <2> HIDE DEF e, n
        <2> QED BY <2>1, <2>2, <1>2, AppendTells
    <1>3. CASE entry.op = "put"
        <2>1. CASE n = d  BY <2>1
        <2>2. CASE n # d
            <3>1. PreconditionsHold(entry, d)  BY <1>3, <2>2 DEF Applied, ApplyPut
            <3>2. n = Written(entry.uid, entry.body, IF d.uid = NoUid THEN "ADDED" ELSE "MODIFIED",
                              entry.exp, d)
                BY <1>3, <2>2 DEF Applied, ApplyPut
            <3>3. CASE entry.absent
                <4>1. entry.exp = 0  BY <3>3 DEF Bare
                <4> QED BY <1>2, <3>2, <4>1
            <3>4. CASE ~entry.absent
                <4>1. d.uid # NoUid /\ entry.exp = d.ver  BY <3>1, <3>4 DEF PreconditionsHold
                <4>2. strict => entry.uid = d.uid  BY <1>3, <3>4, <4>1
                <4> HIDE DEF n
                <4> QED BY <1>1, <1>2, <3>2, <4>1, <4>2
            <3> QED BY <3>3, <3>4
        <2> QED BY <2>1, <2>2
    <1>4. CASE entry.op = "patch"
        <2>1. n = d \/ n = Written(entry.uid, entry.body, "MODIFIED", 0, d)
            BY <1>4 DEF Applied, ApplyPatch
        <2> HIDE DEF n
        <2>2. CASE n = d  BY <2>2
        <2>3. CASE n = Written(entry.uid, entry.body, "MODIFIED", 0, d)  BY <1>2, <2>3
        <2> QED BY <2>1, <2>2, <2>3
    <1>5. CASE entry.op = "delete"
        <2> DEFINE e == [type |-> "DELETED", uid |-> entry.uid, rv |-> d.rv + 1, base |-> 0]
        <2>1. e \in Event /\ e.base = 0 /\ e.uid = entry.uid  BY <1>1 DEF Event
        <2>2. \/ n = d
              \/ n.events = Append(d.events, e) /\ n.uid = NoUid
              \/ n.events = Append(d.events, e) /\ n.uid = d.uid /\ n.ver = d.ver /\ d.uid # entry.uid
            BY <1>5 DEF Applied, ApplyDelete, Db
        <2> HIDE DEF e, n
        <2>3. CASE n = d  BY <2>3
        <2>4. CASE n # d  BY <2>1, <2>2, <2>4, AppendTells
        <2> QED BY <2>3, <2>4
    <1> QED BY <1>1, <1>3, <1>4, <1>5

------------------------------------------------------------------------------
(* The timeline: the databases a replica goes through that applies every     *)
(* entry of the log once.                                                    *)

\* The history of a database grows into that of another.
Grows(c, d) ==
    /\ Len(c.events) <= Len(d.events)
    /\ \A i \in 1..Len(c.events) : d.events[i] = c.events[i]

Mentioned(d, type, u) == \E i \in 1..Len(d.events) : d.events[i].type = type /\ d.events[i].uid = u

Present(d) ==
    \A u \in Uids : Mentioned(d, "ADDED", u) /\ ~Mentioned(d, "DELETED", u) <=> d.uid = u

\* Every event is about a UID that one of the first k entries created.
EventsNamed(d, k) ==
    \A i \in 1..Len(d.events) : \E c \in 1..k : log[c].absent /\ log[c].uid = d.events[i].uid

\* The version a pending update names was of its UID.
Bound(e, H) ==
    e.op = "put" /\ ~e.absent => \E k \in 0..Len(log) : H[k].uid = e.uid /\ H[k].ver = e.exp

\* Commands on a row are about a UID that was created.
Born(e) == ~e.absent => \E c \in 1..Len(log) : log[c].absent /\ log[c].uid = e.uid

Course(H) ==
    /\ H \in [0..Len(log) -> Db] /\ H[0] = EmptyDb
    /\ \A k \in 1..Len(log) : H[k] = Applied(log[k], H[k - 1])
    /\ \A k \in 0..Len(log) :
           /\ Increasing(H[k]) /\ RowTold(H[k]) /\ Replaces(H[k], TRUE)
           /\ Present(H[k]) /\ EventsNamed(H[k], k)
    /\ \A j, k \in 0..Len(log) : j <= k => Grows(H[j], H[k])

Timeline(H) ==
    /\ Course(H)
    /\ \A e \in pending : Bound(e, H) /\ Born(e)
    /\ \A s \in Servers : db[s] = H[reached[s]]

Coherent == ~skewed => \E H : Timeline(H)

VersionsTold == \A s \in Servers : RowTold(db[s]) /\ Replaces(db[s], FALSE)

AgreeInv == IInv /\ EntriesBare /\ CreatesDistinct /\ VersionsTold /\ Coherent

------------------------------------------------------------------------------
\* A database and the one an entry makes of it: nothing but the end of the
\* history changes, and the event there is about the entry's UID.
LEMMA AppliedGrows ==
    ASSUME NEW d \in Db, NEW entry \in Entry
    PROVE  LET n == Applied(entry, d)
           IN  \/ n = d
               \/ \E e \in Event : n.events = Append(d.events, e) /\ e.uid = entry.uid
    <1> DEFINE n == Applied(entry, d)
    <1> SUFFICES \/ n = d
                 \/ \E e \in Event : n.events = Append(d.events, e) /\ e.uid = entry.uid
        OBVIOUS
    <1>1. d.rv \in Nat /\ entry.uid \in Uids /\ entry.exp \in Nat /\ entry.op \in {"put", "patch", "delete"}
        BY DEF Db, Entry
    <1>2. ASSUME NEW type \in {"ADDED", "MODIFIED"}, NEW base \in Nat,
                 n = Written(entry.uid, entry.body, type, base, d)
          PROVE  \E e \in Event : n.events = Append(d.events, e) /\ e.uid = entry.uid
        <2> DEFINE e == [type |-> type, uid |-> entry.uid, rv |-> d.rv + 1, base |-> base]
        <2>1. e \in Event /\ e.uid = entry.uid  BY <1>1 DEF Event
        <2>2. n.events = Append(d.events, e)  BY <1>2 DEF Written
        <2> HIDE DEF e, n
        <2> QED BY <2>1, <2>2
    <1>3. CASE entry.op = "put"
        <2>1. n = d \/ n = Written(entry.uid, entry.body, IF d.uid = NoUid THEN "ADDED" ELSE "MODIFIED",
                                   entry.exp, d)
            BY <1>3 DEF Applied, ApplyPut
        <2> HIDE DEF n
        <2> QED BY <1>1, <1>2, <2>1
    <1>4. CASE entry.op = "patch"
        <2>1. n = d \/ n = Written(entry.uid, entry.body, "MODIFIED", 0, d)
            BY <1>4 DEF Applied, ApplyPatch
        <2> HIDE DEF n
        <2> QED BY <1>1, <1>2, <2>1
    <1>5. CASE entry.op = "delete"
        <2> DEFINE e == [type |-> "DELETED", uid |-> entry.uid, rv |-> d.rv + 1, base |-> 0]
        <2>1. e \in Event /\ e.uid = entry.uid  BY <1>1 DEF Event
        <2>2. n = d \/ n.events = Append(d.events, e)  BY <1>5 DEF Applied, ApplyDelete, Db
        <2> HIDE DEF e, n
        <2> QED BY <2>1, <2>2
    <1> QED BY <1>1, <1>3, <1>4, <1>5

\* What an appended event adds to the UIDs mentioned.
LEMMA MentionedAppend ==
    ASSUME NEW d \in Db, NEW e \in Event, NEW n, n.events = Append(d.events, e),
           NEW type, NEW u
    PROVE  Mentioned(n, type, u) <=> Mentioned(d, type, u) \/ (e.type = type /\ e.uid = u)
    <1>1. d.events \in Seq(Event) /\ Len(d.events) \in Nat  BY DEF Db
    <1>2. Len(n.events) = Len(d.events) + 1 /\ n.events[Len(d.events) + 1] = e
          /\ \A i \in 1..Len(d.events) : n.events[i] = d.events[i]
        BY <1>1
    <1>3. ASSUME Mentioned(n, type, u)  PROVE  Mentioned(d, type, u) \/ (e.type = type /\ e.uid = u)
        <2>1. PICK i \in 1..(Len(d.events) + 1) : n.events[i].type = type /\ n.events[i].uid = u
            BY <1>2, <1>3 DEF Mentioned
        <2>2. CASE i = Len(d.events) + 1  BY <1>2, <2>1, <2>2
        <2>3. CASE i # Len(d.events) + 1
            <3>1. i \in 1..Len(d.events)  BY <1>1, <2>3
            <3> QED BY <1>2, <2>1, <3>1 DEF Mentioned
        <2> QED BY <2>2, <2>3
    <1>4. ASSUME Mentioned(d, type, u)  PROVE  Mentioned(n, type, u)
        <2>1. PICK i \in 1..Len(d.events) : d.events[i].type = type /\ d.events[i].uid = u
            BY <1>4 DEF Mentioned
        <2>2. i \in 1..(Len(d.events) + 1)  BY <1>1
        <2> QED BY <1>2, <2>1, <2>2 DEF Mentioned
    <1>5. ASSUME e.type = type, e.uid = u  PROVE  Mentioned(n, type, u)
        <2>1. Len(d.events) + 1 \in 1..Len(n.events)  BY <1>1, <1>2
        <2> QED BY <1>2, <1>5, <2>1 DEF Mentioned
    <1> QED BY <1>3, <1>4, <1>5

\* The history goes on telling what is present, provided that a create draws a
\* UID of its own and an update meets its own UID.
LEMMA AppliedPresent ==
    ASSUME NEW d \in Db, Present(d), NEW entry \in Entry, Bare(entry),
           entry.op = "put" /\ ~entry.absent /\ d.uid # NoUid /\ d.ver = entry.exp
           => entry.uid = d.uid,
           entry.absent => ~Mentioned(d, "ADDED", entry.uid) /\ ~Mentioned(d, "DELETED", entry.uid)
    PROVE  Present(Applied(entry, d))
    <1> DEFINE n == Applied(entry, d)
    <1> SUFFICES Present(n)  OBVIOUS
    <1>1. d.rv \in Nat /\ entry.uid \in Uids /\ entry.exp \in Nat /\ entry.absent \in BOOLEAN
          /\ entry.op \in {"put", "patch", "delete"} /\ NoUid \notin Uids
        BY ApplyAssumption DEF Db, Entry
    <1>2. ASSUME NEW type \in {"ADDED", "MODIFIED"}, NEW base \in Nat,
                 n = Written(entry.uid, entry.body, type, base, d),
                 \/ type = "MODIFIED" /\ d.uid = entry.uid
                 \/ type = "ADDED" /\ d.uid = NoUid /\ entry.absent
          PROVE  Present(n)
        <2> DEFINE e == [type |-> type, uid |-> entry.uid, rv |-> d.rv + 1, base |-> base]
        <2>1. e \in Event /\ e.type = type /\ e.uid = entry.uid  BY <1>1 DEF Event
        <2>2. n.events = Append(d.events, e) /\ n.uid = entry.uid  BY <1>2 DEF Written
        <2> HIDE DEF e, n
        <2>3. \A u : /\ Mentioned(n, "ADDED", u) <=> Mentioned(d, "ADDED", u) \/ (type = "ADDED" /\ entry.uid = u)
                     /\ Mentioned(n, "DELETED", u) <=> Mentioned(d, "DELETED", u)
            BY <2>1, <2>2, MentionedAppend
        <2> QED BY <1>1, <1>2, <2>2, <2>3 DEF Present
    <1>3. CASE entry.op = "put"
        <2>1. CASE n = d  BY <2>1
        <2>2. CASE n # d
            <3>1. PreconditionsHold(entry, d)  BY <1>3, <2>2 DEF Applied, ApplyPut
            <3>2. n = Written(entry.uid, entry.body, IF d.uid = NoUid THEN "ADDED" ELSE "MODIFIED",
                              entry.exp, d)
                BY <1>3, <2>2 DEF Applied, ApplyPut
            <3> HIDE DEF n
            <3>3. CASE entry.absent
                <4>1. d.uid = NoUid  BY <3>1, <3>3 DEF PreconditionsHold
                <4> QED BY <1>1, <1>2, <3>2, <3>3, <4>1
            <3>4. CASE ~entry.absent
                <4>1. d.uid # NoUid /\ entry.uid = d.uid  BY <1>3, <3>1, <3>4 DEF PreconditionsHold
                <4> QED BY <1>1, <1>2, <3>2, <4>1
            <3> QED BY <3>3, <3>4
        <2> QED BY <2>1, <2>2
    <1>4. CASE entry.op = "patch"
        <2>1. n = d \/ (d.uid = entry.uid /\ n = Written(entry.uid, entry.body, "MODIFIED", 0, d))
            BY <1>4 DEF Applied, ApplyPatch
        <2> HIDE DEF n
        <2> QED BY <1>2, <2>1
    <1>5. CASE entry.op = "delete"
        <2> DEFINE e == [type |-> "DELETED", uid |-> entry.uid, rv |-> d.rv + 1, base |-> 0]
        <2>1. e \in Event /\ e.type = "DELETED" /\ e.uid = entry.uid  BY <1>1 DEF Event
        <2>2. \/ n = d
              \/ n.events = Append(d.events, e) /\ n.uid = NoUid /\ d.uid = entry.uid
              \/ n.events = Append(d.events, e) /\ n.uid = d.uid /\ d.uid # entry.uid
            BY <1>5 DEF Applied, ApplyDelete, Db
        <2> HIDE DEF e, n
        <2>3. CASE n = d  BY <2>3
        <2>4. CASE n # d
            <3>1. \A u : /\ Mentioned(n, "ADDED", u) <=> Mentioned(d, "ADDED", u)
                         /\ Mentioned(n, "DELETED", u) <=> Mentioned(d, "DELETED", u) \/ entry.uid = u
                BY <2>1, <2>2, <2>4, MentionedAppend
            <3> QED BY <1>1, <2>2, <2>4, <3>1 DEF Present
        <2> QED BY <2>3, <2>4
    <1> QED BY <1>1, <1>3, <1>4, <1>5

\* Two databases of a timeline that show the same version show the same UID:
\* one event wrote both.
LEMMA VersionsIdentify ==
    ASSUME NEW c \in Db, NEW d \in Db, RowTold(c), RowTold(d), Increasing(d), Grows(c, d),
           c.uid # NoUid, d.uid # NoUid, c.ver = d.ver
    PROVE  c.uid = d.uid
    <1>1. d.events \in Seq(Event) /\ Len(d.events) \in Nat /\ Len(c.events) \in Nat  BY DEF Db
    <1>2. PICK i \in 1..Len(c.events) : c.events[i].uid = c.uid /\ c.events[i].rv = c.ver
        BY DEF RowTold
    <1>3. PICK j \in 1..Len(d.events) : d.events[j].uid = d.uid /\ d.events[j].rv = d.ver
        BY DEF RowTold
    <1>4. i \in 1..Len(d.events) /\ d.events[i] = c.events[i]  BY <1>1 DEF Grows
    <1>5. d.events[i].rv = d.events[j].rv  BY <1>2, <1>3, <1>4
    <1>6. \A k \in 1..Len(d.events) : d.events[k].rv \in Nat
        <2>1. \A k \in 1..Len(d.events) : d.events[k] \in Event  BY <1>1
        <2> QED BY <2>1 DEF Event
    <1>7. i = j
        <2>1. ~(i < j) /\ ~(j < i)  BY <1>4, <1>5, <1>6 DEF Increasing
        <2> QED BY <1>4, <2>1
    <1> QED BY <1>2, <1>3, <1>4, <1>7

------------------------------------------------------------------------------
(* The second invariant.                                                     *)

\* The timeline of the empty log is the empty database.
LEMMA InitEstablishesAgreeInv == Init => AgreeInv
    <1> SUFFICES ASSUME Init PROVE AgreeInv  OBVIOUS
    <1>1. IInv  BY InitEstablishesIInv
    <1>2. Len(log) = 0 /\ pending = {}  BY DEF Init
    <1>3. EntriesBare /\ CreatesDistinct  BY <1>2 DEF EntriesBare, CreatesDistinct
    <1>4. EmptyDb \in Db /\ Len(EmptyDb.events) = 0 /\ EmptyDb.uid = NoUid  BY DEF EmptyDb, Db
    <1>5. \A strict \in BOOLEAN : RowTold(EmptyDb) /\ Replaces(EmptyDb, strict)
        BY <1>4 DEF RowTold, Replaces
    <1>6. Increasing(EmptyDb) /\ Grows(EmptyDb, EmptyDb) /\ EventsNamed(EmptyDb, 0)
        BY <1>4 DEF Increasing, Grows, EventsNamed
    <1>7. Present(EmptyDb)  BY <1>4, ApplyAssumption DEF Present, Mentioned
    <1>8. VersionsTold  BY <1>5 DEF VersionsTold, Init
    <1>9. Coherent
        <2> DEFINE H == [k \in 0..0 |-> EmptyDb]
        <2>1. H \in [0..0 -> Db] /\ \A k \in 0..0 : k = 0 /\ H[k] = EmptyDb  BY <1>4
        <2>2. \A s \in Servers : db[s] = EmptyDb /\ reached[s] = 0  BY DEF Init
        <2> HIDE DEF H
        <2>3. Timeline(H)  BY <1>2, <1>5, <1>6, <1>7, <2>1, <2>2 DEF Timeline, Course
        <2> QED BY <2>3 DEF Coherent
    <1> QED BY <1>1, <1>3, <1>8, <1>9 DEF AgreeInv

\* The course of the databases depends on the log alone.
LEMMA SameLogSameCourse ==
    ASSUME log' = log, NEW H
    PROVE  /\ Course(H) => Course(H)'
           /\ \A e : Bound(e, H) => Bound(e, H)'
           /\ \A e : Born(e) => Born(e)'
    <1>1. \A d, k : EventsNamed(d, k) => EventsNamed(d, k)'  BY DEF EventsNamed
    <1>2. ASSUME Course(H)  PROVE Course(H)'
        <2>1. (H \in [0..Len(log) -> Db] /\ H[0] = EmptyDb)'  BY <1>2 DEF Course
        <2>2. (\A k \in 1..Len(log) : H[k] = Applied(log[k], H[k - 1]))'  BY <1>2 DEF Course
        <2>3. (\A k \in 0..Len(log) : /\ Increasing(H[k]) /\ RowTold(H[k]) /\ Replaces(H[k], TRUE)
                                      /\ Present(H[k]) /\ EventsNamed(H[k], k))'
            BY <1>1, <1>2 DEF Course
        <2>4. (\A j, k \in 0..Len(log) : j <= k => Grows(H[j], H[k]))'  BY <1>2 DEF Course
        <2> QED BY <2>1, <2>2, <2>3, <2>4 DEF Course
    <1>3. \A e : Bound(e, H) => Bound(e, H)'  BY DEF Bound
    <1>4. \A e : Born(e) => Born(e)'  BY DEF Born
    <1> QED BY <1>2, <1>3, <1>4

\* A step that neither commits nor applies anything, and proposes nothing.
LEMMA RestKeepsAgree ==
    ASSUME AgreeInv, UNCHANGED <<log, db, reached, skewed>>, pending' \subseteq pending
    PROVE  EntriesBare' /\ CreatesDistinct' /\ VersionsTold' /\ Coherent'
    <1>1. EntriesBare' /\ CreatesDistinct' /\ VersionsTold'
        BY DEF AgreeInv, EntriesBare, CreatesDistinct, VersionsTold
    <1>2. Coherent'
        <2> SUFFICES ASSUME ~skewed PROVE (\E H : Timeline(H))'  BY DEF Coherent
        <2>1. PICK H : Timeline(H)  BY DEF AgreeInv, Coherent
        <2>2. Timeline(H)'  BY <2>1, SameLogSameCourse DEF Timeline
        <2> QED BY <2>2
    <1> QED BY <1>1, <1>2

\* A proposal built from a replica's row names a UID and a version that the
\* timeline has shown.
LEMMA ProposeKeepsAgree ==
    ASSUME AgreeInv, NEW s \in Servers, NEW entry \in Entry, Propose(entry), Bare(entry),
           entry.absent => entry.uid \notin UsedUids,
           ~entry.absent => db[s].uid # NoUid /\ entry.uid = db[s].uid,
           entry.op = "put" /\ ~entry.absent => entry.exp = db[s].ver
    PROVE  EntriesBare' /\ CreatesDistinct' /\ VersionsTold' /\ Coherent'
    <1>1. pending' = pending \cup {entry} /\ log' = log /\ db' = db /\ reached' = reached /\ skewed' = skewed
        BY DEF Propose
    <1>2. EntriesBare' /\ VersionsTold'  BY <1>1 DEF AgreeInv, EntriesBare, VersionsTold
    <1>3. CreatesDistinct'
        <2>1. entry.absent => (\A e \in pending : e.uid # entry.uid) /\ (\A k \in 1..Len(log) : log[k].uid # entry.uid)
            BY DEF UsedUids
        <2> QED BY <1>1, <2>1 DEF AgreeInv, CreatesDistinct
    <1>4. Coherent'
        <2> SUFFICES ASSUME ~skewed PROVE (\E H : Timeline(H))'  BY <1>1 DEF Coherent
        <2>1. PICK H : Timeline(H)  BY DEF AgreeInv, Coherent
        <2>2. reached[s] \in 0..Len(log)  BY DEF AgreeInv, IInv, TypeOK, OneBehind
        <2>3. db[s] = H[reached[s]] /\ RowTold(db[s]) /\ EventsNamed(db[s], reached[s])
            BY <2>1, <2>2 DEF Timeline, Course
        <2>4. Bound(entry, H)  BY <2>2, <2>3 DEF Bound
        <2>5. Born(entry)
            <3> SUFFICES ASSUME ~entry.absent
                         PROVE  \E c \in 1..Len(log) : log[c].absent /\ log[c].uid = entry.uid
                BY DEF Born
            <3>1. PICK j \in 1..Len(db[s].events) : db[s].events[j].uid = entry.uid
                BY <2>3 DEF RowTold
            <3>2. PICK c \in 1..reached[s] : log[c].absent /\ log[c].uid = entry.uid
                BY <2>3, <3>1 DEF EventsNamed
            <3>3. c \in 1..Len(log)  BY <2>2 DEF AgreeInv, IInv, TypeOK
            <3> QED BY <3>2, <3>3
        <2>6. Timeline(H)'  BY <1>1, <2>1, <2>4, <2>5, SameLogSameCourse DEF Timeline
        <2> QED BY <2>6
    <1> QED BY <1>2, <1>3, <1>4

\* Each command is built from the rows of its server.
LEMMA BuildKeepsAgree ==
    ASSUME AgreeInv, NEW s \in Servers, Build(s)
    PROVE  EntriesBare' /\ CreatesDistinct' /\ VersionsTold' /\ Coherent'
    <1>1. db[s] \in Db  BY DEF AgreeInv, IInv, TypeOK
    <1>2. ASSUME NEW body \in Bodies, BuildCreate(body)
          PROVE  EntriesBare' /\ CreatesDistinct' /\ VersionsTold' /\ Coherent'
        <2>1. PICK uid \in Uids \ UsedUids :
                  Propose([op |-> "put", absent |-> TRUE, uid |-> uid, exp |-> 0, body |-> body])
            BY <1>2 DEF BuildCreate
        <2> DEFINE e == [op |-> "put", absent |-> TRUE, uid |-> uid, exp |-> 0, body |-> body]
        <2>2. e \in Entry /\ Bare(e) /\ e.absent /\ e.uid = uid  BY DEF Entry, Bare
        <2>3. Propose(e)  BY <2>1
        <2> HIDE DEF e
        <2> QED BY <2>2, <2>3, ProposeKeepsAgree
    <1>3. ASSUME NEW body \in Bodies, BuildUpdate(db[s], body)
          PROVE  EntriesBare' /\ CreatesDistinct' /\ VersionsTold' /\ Coherent'
        <2> DEFINE e == [op |-> "put", absent |-> FALSE, uid |-> db[s].uid, exp |-> db[s].ver, body |-> body]
        <2>1. db[s].uid # NoUid /\ Propose(e)  BY <1>3 DEF BuildUpdate
        <2>2. e \in Entry /\ Bare(e) /\ ~e.absent /\ e.uid = db[s].uid /\ e.exp = db[s].ver
            BY <1>1, <2>1 DEF Entry, Bare, Db
        <2> HIDE DEF e
        <2> QED BY <2>1, <2>2, ProposeKeepsAgree
    <1>4. ASSUME NEW body \in Bodies, BuildPatch(db[s], body)
          PROVE  EntriesBare' /\ CreatesDistinct' /\ VersionsTold' /\ Coherent'
        <2> DEFINE e == [op |-> "patch", absent |-> FALSE, uid |-> db[s].uid, exp |-> 0, body |-> body]
        <2>1. db[s].uid # NoUid /\ Propose(e)  BY <1>4 DEF BuildPatch
        <2>2. e \in Entry /\ Bare(e) /\ ~e.absent /\ e.uid = db[s].uid /\ e.op # "put"
            BY <1>1, <2>1 DEF Entry, Bare, Db
        <2> HIDE DEF e
        <2> QED BY <2>1, <2>2, ProposeKeepsAgree
    <1>5. CASE BuildDelete(db[s])
        <2> DEFINE e == [op |-> "delete", absent |-> FALSE, uid |-> db[s].uid, exp |-> db[s].ver, body |-> NoBody]
        <2>1. db[s].uid # NoUid /\ Propose(e)  BY <1>5 DEF BuildDelete
        <2>2. e \in Entry /\ Bare(e) /\ ~e.absent /\ e.uid = db[s].uid /\ e.op # "put"
            BY <1>1, <2>1 DEF Entry, Bare, Db
        <2> HIDE DEF e
        <2> QED BY <2>1, <2>2, ProposeKeepsAgree
    <1> QED BY <1>2, <1>3, <1>4, <1>5 DEF Build

\* Committing an entry extends the timeline by what the entry makes of its end.
LEMMA CommitExtendsCourse ==
    ASSUME AgreeInv, NEW entry \in pending, log' = Append(log, entry), NEW H, Timeline(H)
    PROVE  \E G : /\ Course(G)'
                  /\ \A k \in 0..Len(log) : G[k] = H[k]
    <1>1. entry \in Entry /\ log \in Seq(Entry) /\ Len(log) \in Nat  BY DEF AgreeInv, IInv, TypeOK
    <1>a. PICK L \in Nat : L = Len(log)  BY <1>1
    <1>b. PICK d : d = H[L]  OBVIOUS
    <1>c. PICK n : n = Applied(entry, d)  OBVIOUS
    <1>d. PICK G : G = [k \in 0..(L + 1) |-> IF k = L + 1 THEN n ELSE H[k]]  OBVIOUS
    <1>2. Len(log') = L + 1 /\ log'[L + 1] = entry /\ \A k \in 1..L : log'[k] = log[k]  BY <1>1, <1>a
    <1>3. Course(H) /\ Bound(entry, H) /\ Born(entry)  BY DEF Timeline
    <1>4. L \in 0..L /\ \A k \in 0..L : k \in 0..(L + 1) /\ k # L + 1  OBVIOUS
    <1>5. d \in Db /\ Increasing(d) /\ RowTold(d) /\ Replaces(d, TRUE) /\ Present(d) /\ EventsNamed(d, L)
        BY <1>3, <1>4, <1>a, <1>b DEF Course
    <1>6. Bare(entry)  BY DEF AgreeInv, EntriesBare
    <1>7. entry.op = "put" /\ ~entry.absent /\ d.uid # NoUid /\ d.ver = entry.exp => entry.uid = d.uid
        <2> SUFFICES ASSUME entry.op = "put", ~entry.absent, d.uid # NoUid, d.ver = entry.exp
                     PROVE  entry.uid = d.uid
            OBVIOUS
        <2>1. PICK k \in 0..L : H[k].uid = entry.uid /\ H[k].ver = entry.exp  BY <1>3, <1>a DEF Bound
        <2>2. H[k] \in Db /\ RowTold(H[k])  BY <1>3, <1>a DEF Course
        <2>a. Grows(H[k], d)
            <3>1. k <= L  OBVIOUS
            <3> QED BY <1>3, <1>4, <1>a, <1>b, <3>1 DEF Course
        <2>3. entry.uid # NoUid  BY <1>1, ApplyAssumption DEF Entry
        <2> QED BY <1>5, <2>1, <2>2, <2>3, <2>a, VersionsIdentify
    <1>8. ASSUME NEW type, entry.absent  PROVE ~Mentioned(d, type, entry.uid)
        <2> SUFFICES ASSUME Mentioned(d, type, entry.uid) PROVE FALSE  OBVIOUS
        <2>1. PICK i \in 1..Len(d.events) : d.events[i].uid = entry.uid  BY DEF Mentioned
        <2>2. PICK c \in 1..L : log[c].absent /\ log[c].uid = entry.uid  BY <1>5, <2>1 DEF EventsNamed
        <2> QED BY <1>8, <1>a, <2>2 DEF AgreeInv, CreatesDistinct
    <1>9. n \in Db /\ Increasing(n)  BY <1>1, <1>5, <1>c, AppliedKeeps
    <1>10. RowTold(n) /\ Replaces(n, TRUE)  BY <1>1, <1>5, <1>6, <1>7, <1>c, AppliedTells
    <1>11. Present(n)  BY <1>1, <1>5, <1>6, <1>7, <1>8, <1>c, AppliedPresent
    <1>12. n = d \/ \E e \in Event : n.events = Append(d.events, e) /\ e.uid = entry.uid
        BY <1>1, <1>5, <1>c, AppliedGrows
    <1>13. Len(d.events) \in Nat /\ d.events \in Seq(Event)  BY <1>5 DEF Db
    <1>14. G[L + 1] = n /\ \A k \in 0..L : G[k] = H[k]  BY <1>4, <1>d
    <1>15. Grows(d, n)
        <2>1. CASE n = d  BY <2>1, <1>13 DEF Grows
        <2>2. CASE n # d
            <3>1. PICK e \in Event : n.events = Append(d.events, e)  BY <1>12, <2>2
            <3>2. Len(n.events) = Len(d.events) + 1 /\ \A i \in 1..Len(d.events) : n.events[i] = d.events[i]
                BY <1>13, <3>1
            <3> QED BY <1>13, <3>2 DEF Grows
        <2> QED BY <2>1, <2>2
    <1>16. \A k \in 0..L : EventsNamed(H[k], k)'
        <2> SUFFICES ASSUME NEW k \in 0..L, NEW i \in 1..Len(H[k].events)
                     PROVE  \E c \in 1..k : log'[c].absent /\ log'[c].uid = H[k].events[i].uid
            BY DEF EventsNamed
        <2>1. PICK c \in 1..k : log[c].absent /\ log[c].uid = H[k].events[i].uid
            BY <1>3, <1>a DEF Course, EventsNamed
        <2>2. log'[c] = log[c]  BY <1>2
        <2> QED BY <2>1, <2>2
    <1>17. EventsNamed(n, L + 1)'
        <2> SUFFICES ASSUME NEW i \in 1..Len(n.events)
                     PROVE  \E c \in 1..(L + 1) : log'[c].absent /\ log'[c].uid = n.events[i].uid
            BY DEF EventsNamed
        <2>1. CASE i \in 1..Len(d.events)
            <3>1. PICK c \in 1..L : log[c].absent /\ log[c].uid = d.events[i].uid
                BY <1>5, <2>1 DEF EventsNamed
            <3>2. c \in 1..(L + 1) /\ log'[c] = log[c]  BY <1>2
            <3> QED BY <1>15, <2>1, <3>1, <3>2 DEF Grows
        <2>2. CASE i \notin 1..Len(d.events)
            <3>1. n # d  BY <2>2
            <3>2. n.events[i].uid = entry.uid
                <4>1. PICK e \in Event : n.events = Append(d.events, e) /\ e.uid = entry.uid
                    BY <1>12, <3>1
                <4>2. i = Len(d.events) + 1 /\ n.events[Len(d.events) + 1] = e  BY <1>13, <2>2, <4>1
                <4> QED BY <4>1, <4>2
            <3>3. CASE entry.absent
                <4>1. L + 1 \in 1..(L + 1)  OBVIOUS
                <4> QED BY <1>2, <3>2, <3>3, <4>1
            <3>4. CASE ~entry.absent
                <4>1. PICK c \in 1..L : log[c].absent /\ log[c].uid = entry.uid  BY <1>3, <1>a, <3>4 DEF Born
                <4>2. c \in 1..(L + 1) /\ log'[c] = log[c]  BY <1>2
                <4> QED BY <3>2, <4>1, <4>2
            <3> QED BY <3>3, <3>4
        <2> QED BY <2>1, <2>2
    <1>18. Course(G)'
        <2>1. \A k \in 0..(L + 1) : k = L + 1 \/ k \in 0..L  OBVIOUS
        <2>2. G \in [0..(L + 1) -> Db] /\ G[0] = EmptyDb
            <3>1. \A k \in 0..L : H[k] \in Db  BY <1>3, <1>a DEF Course
            <3>2. G \in [0..(L + 1) -> Db]  BY <1>9, <1>d, <2>1, <3>1
            <3>3. 0 \in 0..L /\ H[0] = EmptyDb  BY <1>3 DEF Course
            <3> QED BY <1>14, <3>2, <3>3
        <2>3. \A k \in 1..(L + 1) : G[k] = Applied(log'[k], G[k - 1])
            <3> TAKE k \in 1..(L + 1)
            <3>1. CASE k = L + 1
                <4>1. G[k] = n /\ G[k - 1] = d /\ log'[k] = entry  BY <1>2, <1>4, <1>14, <1>b, <3>1
                <4> QED BY <4>1, <1>c
            <3>2. CASE k # L + 1
                <4>1. k \in 1..L /\ k \in 0..L /\ k - 1 \in 0..L  BY <3>2
                <4> QED BY <1>2, <1>3, <1>14, <1>a, <4>1 DEF Course
            <3> QED BY <3>1, <3>2
        <2>4. \A k \in 0..(L + 1) : Increasing(G[k]) /\ RowTold(G[k]) /\ Replaces(G[k], TRUE) /\ Present(G[k])
            BY <1>3, <1>9, <1>10, <1>11, <1>14, <1>a, <2>1 DEF Course
        <2>5. \A k \in 0..(L + 1) : EventsNamed(G[k], k)'
            BY <1>14, <1>16, <1>17, <2>1
        <2>6. \A j, k \in 0..(L + 1) : j <= k => Grows(G[j], G[k])
            <3> SUFFICES ASSUME NEW j \in 0..(L + 1), NEW k \in 0..(L + 1), j <= k
                         PROVE  Grows(G[j], G[k])
                OBVIOUS
            <3>1. CASE k \in 0..L
                <4>1. j \in 0..L  BY <3>1
                <4> QED BY <1>3, <1>14, <1>a, <3>1, <4>1 DEF Course
            <3>2. CASE k = L + 1 /\ j \in 0..L
                <4>1. Grows(H[j], d) /\ H[j] \in Db  BY <1>3, <1>4, <1>a, <1>b, <3>2 DEF Course
                <4>2. Len(H[j].events) \in Nat /\ Len(n.events) \in Nat  BY <1>9, <4>1 DEF Db
                <4>3. Grows(H[j], n)  BY <1>13, <1>15, <4>1, <4>2 DEF Grows
                <4> QED BY <1>14, <3>2, <4>3
            <3>3. CASE k = L + 1 /\ j = L + 1
                <4>1. Len(n.events) \in Nat  BY <1>9 DEF Db
                <4> QED BY <1>14, <3>3, <4>1 DEF Grows
            <3> QED BY <2>1, <3>1, <3>2, <3>3
        <2> QED BY <1>2, <2>2, <2>3, <2>4, <2>5, <2>6 DEF Course
    <1> QED BY <1>14, <1>18, <1>a

\* Committing a proposal.
LEMMA CommitKeepsAgree ==
    ASSUME AgreeInv, NEW entry \in pending, CommitProposal(entry)
    PROVE  EntriesBare' /\ CreatesDistinct' /\ VersionsTold' /\ Coherent'
    <1> DEFINE L == Len(log)
    <1>1. entry \in Entry /\ log \in Seq(Entry) /\ L \in Nat  BY DEF AgreeInv, IInv, TypeOK
    <1>2. /\ pending' = pending \ {entry} /\ log' = Append(log, entry)
          /\ db' = db /\ reached' = reached /\ skewed' = skewed
        BY DEF CommitProposal
    <1>3. Len(log') = L + 1 /\ log'[L + 1] = entry /\ \A k \in 1..L : log'[k] = log[k]  BY <1>1, <1>2
    <1>4. \A k \in 1..(L + 1) : k = L + 1 \/ k \in 1..L  BY <1>1
    <1>5. EntriesBare'  BY <1>2, <1>3, <1>4 DEF AgreeInv, EntriesBare
    <1>6. VersionsTold'  BY <1>2 DEF AgreeInv, VersionsTold
    <1>7. CreatesDistinct'
        <2>1. ASSUME NEW j \in 1..(L + 1), NEW k \in 1..(L + 1),
                     log'[j].absent, log'[k].absent, log'[j].uid = log'[k].uid
              PROVE  j = k
            BY <1>3, <1>4, <2>1 DEF AgreeInv, CreatesDistinct
        <2>2. ASSUME NEW e \in pending', NEW k \in 1..(L + 1), e.absent, log'[k].absent
              PROVE  e.uid # log'[k].uid
            BY <1>2, <1>3, <1>4, <2>2 DEF AgreeInv, CreatesDistinct
        <2>3. \A e, f \in pending' : e.absent /\ f.absent /\ e.uid = f.uid => e = f
            BY <1>2 DEF AgreeInv, CreatesDistinct
        <2> QED BY <1>3, <2>1, <2>2, <2>3 DEF CreatesDistinct
    <1>8. Coherent'
        <2> SUFFICES ASSUME ~skewed PROVE (\E H : Timeline(H))'  BY <1>2 DEF Coherent
        <2>1. PICK H : Timeline(H)  BY DEF AgreeInv, Coherent
        <2>2. PICK G : Course(G)' /\ \A k \in 0..L : G[k] = H[k]
            BY <1>2, <2>1, CommitExtendsCourse
        <2>3. ASSUME NEW e \in pending'  PROVE (Bound(e, G) /\ Born(e))'
            <3>1. Bound(e, H) /\ Born(e)  BY <1>2, <2>1 DEF Timeline
            <3>2. Bound(e, G)'
                <4> SUFFICES ASSUME e.op = "put", ~e.absent
                             PROVE  \E k \in 0..(L + 1) : G[k].uid = e.uid /\ G[k].ver = e.exp
                    BY <1>3 DEF Bound
                <4>1. PICK k \in 0..L : H[k].uid = e.uid /\ H[k].ver = e.exp  BY <3>1 DEF Bound
                <4>2. k \in 0..(L + 1)  BY <1>1
                <4> QED BY <2>2, <4>1, <4>2
            <3>3. Born(e)'
                <4> SUFFICES ASSUME ~e.absent
                             PROVE  \E c \in 1..(L + 1) : log'[c].absent /\ log'[c].uid = e.uid
                    BY <1>3 DEF Born
                <4>1. PICK c \in 1..L : log[c].absent /\ log[c].uid = e.uid  BY <3>1 DEF Born
                <4>2. c \in 1..(L + 1)  BY <1>1
                <4> QED BY <1>3, <4>1, <4>2
            <3> QED BY <3>2, <3>3
        <2>4. \A s \in Servers : db'[s] = G[reached'[s]]
            <3> TAKE s \in Servers
            <3>1. reached[s] \in 0..L  BY DEF AgreeInv, IInv, TypeOK, OneBehind
            <3> QED BY <1>2, <2>1, <2>2, <3>1 DEF Timeline
        <2>5. Timeline(G)'  BY <2>2, <2>3, <2>4 DEF Timeline
        <2> QED BY <2>5
    <1> QED BY <1>5, <1>6, <1>7, <1>8

\* Applying an entry moves a replica along the timeline; applying a put again
\* leaves it where it is.
LEMMA ApplyKeepsAgree ==
    ASSUME AgreeInv, NEW s \in Servers, ApplyCommitted(s)
    PROVE  EntriesBare' /\ CreatesDistinct' /\ VersionsTold' /\ Coherent'
    <1>1. PICK k \in Nat : k = lastApplied[s] + 1  BY DEF AgreeInv, IInv, TypeOK
    <1>2. k \in 1..Len(log) /\ log[k] \in Entry  BY <1>1 DEF AgreeInv, IInv, TypeOK, ApplyCommitted
    <1>3. /\ pending' = pending /\ log' = log
          /\ skewed' = (skewed \/ (reached[s] = k /\ log[k].op # "put"))
        BY <1>1 DEF ApplyCommitted
    <1>4. /\ db'[s] = Applied(log[k], db[s]) /\ \A t \in Servers \ {s} : db'[t] = db[t]
          /\ reached'[s] = k /\ \A t \in Servers \ {s} : reached'[t] = reached[t]
        BY <1>1 DEF ApplyCommitted, AgreeInv, IInv, TypeOK
    <1>5. EntriesBare' /\ CreatesDistinct'  BY <1>3 DEF AgreeInv, EntriesBare, CreatesDistinct
    <1>6. VersionsTold'
        <2>1. db[s] \in Db /\ RowTold(db[s]) /\ Replaces(db[s], FALSE) /\ Bare(log[k])
            BY <1>2 DEF AgreeInv, IInv, TypeOK, VersionsTold, EntriesBare
        <2>2. RowTold(db'[s]) /\ Replaces(db'[s], FALSE)  BY <1>2, <1>4, <2>1, AppliedTells
        <2> QED BY <1>4, <2>2 DEF AgreeInv, VersionsTold
    <1>7. Coherent'
        <2> SUFFICES ASSUME ~skewed' PROVE (\E H : Timeline(H))'  BY DEF Coherent
        <2>1. ~skewed /\ ~(reached[s] = k /\ log[k].op # "put")  BY <1>3
        <2>2. PICK H : Timeline(H)  BY <2>1 DEF AgreeInv, Coherent
        <2>3. Applied(log[k], db[s]) = H[k]
            <3>1. CASE reached[s] = k
                <4>1. log[k].op = "put"  BY <2>1, <3>1
                <4>2. ApplyPut(log[k], db[s]) = db[s]
                    BY <1>1, <3>1, <4>1 DEF AgreeInv, IInv, PutsSettled
                <4> QED BY <2>2, <3>1, <4>1, <4>2 DEF Timeline, Applied
            <3>2. CASE reached[s] # k
                <4>1. reached[s] = k - 1  BY <1>1, <3>2 DEF AgreeInv, IInv, TypeOK, OneBehind
                <4> QED BY <1>2, <2>2, <4>1 DEF Timeline, Course
            <3> QED BY <3>1, <3>2
        <2>4. \A t \in Servers : db'[t] = H[reached'[t]]  BY <1>4, <2>2, <2>3 DEF Timeline
        <2>5. Timeline(H)'  BY <1>3, <2>2, <2>4, SameLogSameCourse DEF Timeline
        <2> QED BY <2>5
    <1> QED BY <1>5, <1>6, <1>7

\* Every step keeps the second invariant, action by action.
LEMMA NextKeepsAgreeInv == AgreeInv /\ [Next]_vars => AgreeInv'
    <1> SUFFICES ASSUME AgreeInv, [Next]_vars PROVE AgreeInv'  OBVIOUS
    <1> DEFINE Kept == EntriesBare' /\ CreatesDistinct' /\ VersionsTold' /\ Coherent'
    <1>1. IInv'  BY NextKeepsIInv DEF AgreeInv
    <1>2. ASSUME NEW s \in Servers, Build(s)  PROVE  Kept  BY <1>2, BuildKeepsAgree
    <1>3. ASSUME NEW s \in Servers, ApplyCommitted(s)  PROVE  Kept  BY <1>3, ApplyKeepsAgree
    <1>4. ASSUME NEW s \in Servers, RecordApplied(s)  PROVE  Kept
        BY <1>4, RestKeepsAgree DEF RecordApplied
    <1>5. ASSUME NEW s \in Servers, Crash(s)  PROVE  Kept
        BY <1>5, RestKeepsAgree DEF Crash
    <1>6. ASSUME NEW entry \in pending, CommitProposal(entry)  PROVE  Kept
        BY <1>6, CommitKeepsAgree
    <1>7. ASSUME NEW entry \in pending, LoseProposal(entry)  PROVE  Kept
        BY <1>7, RestKeepsAgree DEF LoseProposal
    <1>8. ASSUME UNCHANGED vars  PROVE  Kept
        BY <1>8, RestKeepsAgree DEF vars
    <1>9. Kept
        <2> HIDE DEF Kept
        <2> QED BY <1>2, <1>3, <1>4, <1>5, <1>6, <1>7, <1>8 DEF Next
    <1> QED BY <1>1, <1>9 DEF AgreeInv

\* What the second invariant says of the databases as they are.
LEMMA AgreeInvSaysIt == AgreeInv => NoLostUpdate /\ AgreeUnlessSkewed /\ WatchTellsPresence
    <1> SUFFICES ASSUME AgreeInv PROVE NoLostUpdate /\ AgreeUnlessSkewed /\ WatchTellsPresence
        OBVIOUS
    <1>1. ASSUME NEW s \in Servers  PROVE reached[s] \in 0..Len(log)
        BY DEF AgreeInv, IInv, TypeOK, OneBehind
    <1>2. ASSUME NEW H, Timeline(H), NEW s \in Servers
          PROVE  db[s] = H[reached[s]] /\ Replaces(db[s], TRUE) /\ Present(db[s])
        BY <1>1, <1>2 DEF Timeline, Course
    <1>3. NoLostUpdate
        <2>1. CASE skewed  BY <2>1 DEF AgreeInv, VersionsTold, Replaces, NoLostUpdate
        <2>2. CASE ~skewed
            <3>1. PICK H : Timeline(H)  BY <2>2 DEF AgreeInv, Coherent
            <3>2. \A s \in Servers : Replaces(db[s], TRUE)  BY <1>2, <3>1
            <3> QED BY <3>2 DEF Replaces, NoLostUpdate
        <2> QED BY <2>1, <2>2
    <1>4. AgreeUnlessSkewed
        <2> SUFFICES ASSUME ~skewed PROVE ReplicasAgree  BY DEF AgreeUnlessSkewed
        <2>1. PICK H : Timeline(H)  BY DEF AgreeInv, Coherent
        <2> QED BY <1>2, <2>1 DEF ReplicasAgree
    <1>5. WatchTellsPresence
        <2> SUFFICES ASSUME ~skewed, NEW s \in Servers
                     PROVE  LET Named(type) == {d.uid : d \in {db[s].events[i] : i \in {j \in 1..Len(db[s].events) :
                                                                                db[s].events[j].type = type}}}
                            IN  Named("ADDED") \ Named("DELETED") = {db[s].uid} \ {NoUid}
            BY DEF WatchTellsPresence
        <2> DEFINE Named(type) == {d.uid : d \in {db[s].events[i] : i \in {j \in 1..Len(db[s].events) :
                                                                     db[s].events[j].type = type}}}
        <2>1. PICK H : Timeline(H)  BY DEF AgreeInv, Coherent
        <2>2. Present(db[s])  BY <1>2, <2>1
        <2>3. db[s] \in Db  BY DEF AgreeInv, IInv, TypeOK
        <2>4. \A type, u : u \in Named(type) <=> Mentioned(db[s], type, u)  BY DEF Mentioned
        <2>5. \A type, u : Mentioned(db[s], type, u) => u \in Uids
            <3>1. \A i \in 1..Len(db[s].events) : db[s].events[i] \in Event  BY <2>3 DEF Db
            <3> QED BY <3>1 DEF Mentioned, Event
        <2>6. db[s].uid \in Uids \cup {NoUid} /\ NoUid \notin Uids  BY <2>3, ApplyAssumption DEF Db
        <2> HIDE DEF Named
        <2>7. \A u : u \in Named("ADDED") \ Named("DELETED") <=> u \in {db[s].uid} \ {NoUid}
            BY <2>2, <2>4, <2>5, <2>6 DEF Present
        <2>8. Named("ADDED") \ Named("DELETED") = {db[s].uid} \ {NoUid}  BY <2>7
        <2> QED BY <2>8 DEF Named
    <1> QED BY <1>3, <1>4, <1>5

\* For every instance: an update that a replica applies replaces the very
\* version it was built on, whatever was committed in between.
THEOREM UpdatesNeverLost == Spec => []NoLostUpdate
    BY InitEstablishesAgreeInv, NextKeepsAgreeInv, AgreeInvSaysIt, PTL DEF Spec

\* For every instance: replicas that have taken in the same entries hold the
\* same database unless a patch or a delete was applied twice around a crash.
THEOREM ReplicasAlwaysAgree == Spec => []AgreeUnlessSkewed
    BY InitEstablishesAgreeInv, NextKeepsAgreeInv, AgreeInvSaysIt, PTL DEF Spec

\* For every instance: until then the watch history of every replica tells, UID
\* by UID, what its store holds.
THEOREM PresenceAlwaysTold == Spec => []WatchTellsPresence
    BY InitEstablishesAgreeInv, NextKeepsAgreeInv, AgreeInvSaysIt, PTL DEF Spec
==============================================================================
