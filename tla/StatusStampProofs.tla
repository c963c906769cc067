-------------------------- MODULE StatusStampProofs --------------------------
(****************************************************************************)
(* StampsIncrease and SeedCoversIssued for every clock, block size and      *)
(* integer width. The inductive invariant adds what the code never states:  *)
(* every ceiling still queued in the executor lies at or above both the     *)
(* ceiling in memory and every stamp issued, so it does not matter which of *)
(* the queued writes a crash lets through.                                  *)
(****************************************************************************)
EXTENDS StatusStamp, SequenceTheorems, TLAPS

\* The seed precedes everything else a process does with the store.
SeedFirst ==
    /\ stage \in {"choose", "write"} => seeded
    /\ stage = "read" => ~seeded
    /\ ~seeded => writes = <<>>

\* Memory never promises more than what node.db holds or is about to hold.
CeilingDurable ==
    seeded => /\ reserved <= persisted
              /\ \A k \in 1..Len(writes) : reserved <= writes[k]

\* The holder's own write is the youngest of the queue, or has already run.
HolderWriteLast ==
    stage = "write" =>
        LET target == SaturatingAdd(candidate, ReserveBlock)
        IN  IF writes = <<>> THEN persisted = target
            ELSE writes[Len(writes)] = target

\* Every issued stamp is covered by memory and by every possible seed.
IssuedCovered ==
    \A i \in 1..Len(issued) :
        /\ issued[i] <= persisted
        /\ \A k \in 1..Len(writes) : issued[i] <= writes[k]
        /\ seeded => issued[i] <= next
        /\ stage = "write" => issued[i] < candidate \/ candidate = I64Max

IInv ==
    /\ TypeOK
    /\ SeedFirst
    /\ CeilingDurable
    /\ HolderWriteLast
    /\ IssuedCovered
    /\ StampsIncrease

------------------------------------------------------------------------------
\* SaturatingAdd stays in range, does not lose what it adds to, and is strict
\* below the limit (i64::saturating_add).
LEMMA SaturatingAddFacts ==
    ASSUME NEW a \in Stamp, NEW b \in Nat
    PROVE  /\ SaturatingAdd(a, b) \in Stamp
           /\ a <= SaturatingAdd(a, b)
           /\ b > 0 => a < SaturatingAdd(a, b) \/ SaturatingAdd(a, b) = I64Max
    BY StampAssumption DEF SaturatingAdd, Stamp

\* The candidate is in range and exceeds the cursor unless i64 is exhausted.
LEMMA ChosenFacts ==
    ASSUME TypeOK
    PROVE  /\ Chosen \in Stamp
           /\ next < Chosen \/ Chosen = I64Max
    <1>1. SaturatingAdd(next, 1) \in Stamp
          /\ (next < SaturatingAdd(next, 1) \/ SaturatingAdd(next, 1) = I64Max)
        BY SaturatingAddFacts DEF TypeOK
    <1> QED BY <1>1, StampAssumption DEF Chosen, TypeOK, Stamp

\* Taking the oldest write out of the queue leaves the youngest in place.
LEMMA TailOfQueue ==
    ASSUME NEW q \in Seq(Stamp), q # <<>>
    PROVE  IF Len(q) = 1 THEN Tail(q) = <<>>
           ELSE Tail(q) # <<>> /\ Tail(q)[Len(Tail(q))] = q[Len(q)]
    <1>1. /\ Len(q) \in Nat \ {0} /\ Len(Tail(q)) = Len(q) - 1 /\ Tail(q) \in Seq(Stamp)
          /\ \A k \in 1..Len(Tail(q)) : Tail(q)[k] = q[k + 1]
        BY EmptySeq, HeadTailProperties
    <1>2. Len(Tail(q)) = 0 => Tail(q) = <<>> BY <1>1, EmptySeq
    <1>3. Len(Tail(q)) # 0 => Tail(q) # <<>> BY EmptySeq
    <1> QED BY <1>1, <1>2, <1>3

\* An empty node.db and a fresh process satisfy the invariant.
LEMMA InitEstablishesIInv == Init => IInv
    <1> SUFFICES ASSUME Init PROVE IInv OBVIOUS
    <1>1. seeded \in BOOLEAN BY Zenon DEF Init
    <1>2. TypeOK
        <2>1. 0 \in Stamp /\ <<>> \in Seq(Stamp) BY StampAssumption DEF Stamp
        <2> QED BY <1>1, <2>1, Zenon DEF Init, TypeOK
    <1> QED BY <1>2 DEF Init, IInv, SeedFirst, CeilingDurable, HolderWriteLast,
                       IssuedCovered, StampsIncrease

\* Handing out a stamp that exceeds (or saturates) all earlier ones and that
\* every possible seed covers keeps the history in order.
LEMMA AppendKeepsOrder ==
    ASSUME TypeOK, StampsIncrease, NEW stamp \in Stamp,
           issued' = Append(issued, stamp),
           \A i \in 1..Len(issued) : issued[i] < stamp \/ stamp = I64Max
    PROVE  StampsIncrease'
    BY DEF StampsIncrease, TypeOK

\* Every step of the allocator keeps the invariant, action by action.
LEMMA NextPreservesIInv == IInv /\ [Next]_vars => IInv'
    <1> SUFFICES ASSUME IInv, [Next]_vars PROVE IInv' OBVIOUS
    <1> USE DEF IInv
    <1>1. ASSUME NEW t \in Clock, Lock(t) PROVE IInv'
        BY <1>1, StampAssumption DEF Lock, TypeOK, SeedFirst, CeilingDurable,
           HolderWriteLast, IssuedCovered, StampsIncrease, Stamp
    <1>2. CASE Seed
        BY <1>2 DEF Seed, TypeOK, SeedFirst, CeilingDurable,
           HolderWriteLast, IssuedCovered, StampsIncrease, Stamp
    <1>3. CASE IssueReserved
        <2>1. Chosen \in Stamp /\ (next < Chosen \/ Chosen = I64Max)
            BY ChosenFacts
        <2>2. \A i \in 1..Len(issued) : issued[i] < Chosen \/ Chosen = I64Max
            <3>1. seeded BY <1>3 DEF IssueReserved, SeedFirst
            <3>2. \A i \in 1..Len(issued) : issued[i] <= next /\ issued[i] \in Stamp
                BY <3>1 DEF IssuedCovered, TypeOK
            <3> QED BY <2>1, <3>2, StampAssumption DEF TypeOK, Stamp
        <2>3. TypeOK' BY <1>3, <2>1 DEF IssueReserved, Issue, TypeOK
        <2>4. StampsIncrease'
            BY <1>3, <2>1, <2>2, AppendKeepsOrder DEF IssueReserved, Issue
        <2>5. IssuedCovered'
            <3> SUFFICES ASSUME NEW i \in (1..Len(issued))'
                         PROVE  /\ issued'[i] <= persisted
                                /\ \A k \in 1..Len(writes) : issued'[i] <= writes[k]
                                /\ issued'[i] <= next'
                BY <1>3 DEF IssueReserved, Issue, IssuedCovered
            <3>1. issued' = Append(issued, Chosen) /\ next' = Chosen /\ seeded /\ Chosen < reserved
                BY <1>3 DEF IssueReserved, Issue, SeedFirst
            <3>2. next <= Chosen BY <2>1 DEF TypeOK, Stamp
            <3>3. CASE i = Len(issued) + 1
                <4>1. issued'[i] = Chosen BY <3>1, <3>3, <2>1 DEF TypeOK
                <4>2. \A k \in 1..Len(writes) : writes[k] \in Stamp BY DEF TypeOK
                <4> QED BY <4>1, <4>2, <3>1, <2>1, StampAssumption DEF CeilingDurable, TypeOK, Stamp
            <3>4. CASE i \in 1..Len(issued)
                <4>1. issued'[i] = issued[i] BY <3>1, <3>4, <2>1 DEF TypeOK
                <4>2. issued[i] \in Stamp BY <3>4 DEF TypeOK
                <4> QED BY <4>1, <4>2, <3>1, <3>2, <3>4, <2>1, StampAssumption DEF IssuedCovered, TypeOK, Stamp
            <3> QED BY <3>1, <3>3, <3>4, <2>1 DEF TypeOK
        <2> QED BY <1>3, <2>3, <2>4, <2>5 DEF IssueReserved, Issue, SeedFirst,
               CeilingDurable, HolderWriteLast
    <1>4. CASE RequestCeiling
        <2> DEFINE target == SaturatingAdd(Chosen, ReserveBlock)
        <2>1. /\ Chosen \in Stamp /\ (next < Chosen \/ Chosen = I64Max)
              /\ target \in Stamp /\ Chosen <= target
            BY ChosenFacts, SaturatingAddFacts, StampAssumption
        <2>2. seeded /\ Chosen >= reserved /\ writes' = Append(writes, target)
            BY <1>4 DEF RequestCeiling, SeedFirst
        <2>3. TypeOK' BY <1>4, <2>1 DEF RequestCeiling, TypeOK
        <2>4. \A k \in (1..Len(writes))' :
                 \/ k \in 1..Len(writes) /\ writes'[k] = writes[k]
                 \/ k = Len(writes) + 1 /\ writes'[k] = target
            BY <2>1, <2>2 DEF TypeOK
        <2>5. CeilingDurable'
            BY <1>4, <2>1, <2>2, <2>4 DEF RequestCeiling, CeilingDurable, TypeOK, Stamp
        <2>6. HolderWriteLast'
            BY <1>4, <2>1, <2>2 DEF RequestCeiling, HolderWriteLast, TypeOK
        <2>7. IssuedCovered'
            <3> SUFFICES ASSUME NEW i \in 1..Len(issued)
                         PROVE  /\ \A k \in (1..Len(writes))' : issued[i] <= writes'[k]
                                /\ issued[i] < Chosen \/ Chosen = I64Max
                BY <1>4 DEF RequestCeiling, IssuedCovered
            <3>1. issued[i] \in Stamp /\ issued[i] <= next
                BY <2>2 DEF IssuedCovered, TypeOK
            <3>2. issued[i] < Chosen \/ Chosen = I64Max
                BY <3>1, <2>1, StampAssumption DEF TypeOK, Stamp
            <3>3. issued[i] <= target
                BY <3>1, <3>2, <2>1, StampAssumption DEF Stamp
            <3> HIDE DEF target
            <3> QED BY <3>2, <3>3, <2>4 DEF IssuedCovered
        <2> QED BY <1>4, <2>2, <2>3, <2>5, <2>6, <2>7 DEF RequestCeiling, SeedFirst, StampsIncrease
    <1>5. CASE StoreWrite
        <2>1. /\ writes # <<>> /\ writes' = Tail(writes) /\ persisted' = writes[1]
              /\ 1 \in 1..Len(writes) /\ seeded
            BY <1>5 DEF StoreWrite, TypeOK, SeedFirst
        <2>2. \A k \in (1..Len(writes))' : k + 1 \in 1..Len(writes) /\ writes'[k] = writes[k + 1]
            BY <2>1 DEF TypeOK
        <2>3. TypeOK' BY <1>5, <2>1 DEF StoreWrite, TypeOK
        <2>4. HolderWriteLast'
            BY <1>5, <2>1, TailOfQueue DEF StoreWrite, HolderWriteLast, TypeOK
        <2>5. IssuedCovered'
            BY <1>5, <2>1, <2>2 DEF StoreWrite, IssuedCovered
        <2>6. CeilingDurable'
            BY <1>5, <2>1, <2>2 DEF StoreWrite, CeilingDurable
        <2> QED BY <1>5, <2>1, <2>3, <2>4, <2>5, <2>6 DEF StoreWrite, SeedFirst, StampsIncrease
    <1>6. CASE CeilingWritten
        <2> DEFINE target == SaturatingAdd(candidate, ReserveBlock)
        <2>1. /\ candidate \in Stamp /\ target \in Stamp /\ candidate <= target
              /\ persisted = target /\ writes = <<>> /\ seeded
            BY <1>6, SaturatingAddFacts, StampAssumption
            DEF CeilingWritten, HolderWriteLast, SeedFirst, TypeOK
        <2>2. /\ issued' = Append(issued, candidate) /\ next' = candidate
              /\ \A i \in 1..Len(issued) : issued[i] < candidate \/ candidate = I64Max
            BY <1>6 DEF CeilingWritten, Issue, IssuedCovered
        <2>3. TypeOK' BY <1>6, <2>1 DEF CeilingWritten, Issue, TypeOK
        <2>4. StampsIncrease' BY <2>1, <2>2, AppendKeepsOrder
        <2>5. IssuedCovered'
            <3> SUFFICES ASSUME NEW i \in (1..Len(issued))'
                         PROVE  issued'[i] <= persisted /\ issued'[i] <= candidate
                BY <1>6, <2>1, <2>2 DEF CeilingWritten, Issue, IssuedCovered
            <3>1. CASE i = Len(issued) + 1
                BY <2>1, <2>2, <3>1 DEF TypeOK, Stamp
            <3>2. CASE i \in 1..Len(issued)
                <4>1. issued'[i] = issued[i] /\ issued[i] \in Stamp
                    BY <2>1, <2>2, <3>2 DEF TypeOK
                <4> QED BY <4>1, <2>1, <2>2, <3>2 DEF IssuedCovered, Stamp
            <3> QED BY <2>1, <2>2, <3>1, <3>2 DEF TypeOK
        <2> QED BY <1>6, <2>1, <2>3, <2>4, <2>5
               DEF CeilingWritten, Issue, SeedFirst, CeilingDurable, HolderWriteLast, TypeOK, Stamp
    <1>7. CASE StoreWriteFails
        <2>1. /\ writes # <<>> /\ writes' = Tail(writes) /\ seeded
            BY <1>7 DEF StoreWriteFails, SeedFirst
        <2>2. \A k \in (1..Len(writes))' : k + 1 \in 1..Len(writes) /\ writes'[k] = writes[k + 1]
            BY <2>1 DEF TypeOK
        <2>3. TypeOK' BY <1>7, <2>1 DEF StoreWriteFails, TypeOK
        <2>4. HolderWriteLast'
            BY <1>7, <2>1, TailOfQueue DEF StoreWriteFails, HolderWriteLast, TypeOK
        <2>5. IssuedCovered'
            BY <1>7, <2>1, <2>2 DEF StoreWriteFails, IssuedCovered
        <2>6. CeilingDurable'
            BY <1>7, <2>1, <2>2 DEF StoreWriteFails, CeilingDurable
        <2> QED BY <1>7, <2>1, <2>3, <2>4, <2>5, <2>6 DEF StoreWriteFails, SeedFirst, StampsIncrease
    <1>8. CASE Abandon
        BY <1>8 DEF Abandon, TypeOK, SeedFirst, CeilingDurable,
           HolderWriteLast, IssuedCovered, StampsIncrease
    <1>9. CASE Crash
        <2>1. TypeOK'
            <3>1. 0 \in Stamp /\ <<>> \in Seq(Stamp) BY StampAssumption DEF Stamp
            <3> QED BY <1>9, <3>1, Zenon DEF Crash, TypeOK
        <2> QED BY <1>9, <2>1 DEF Crash, SeedFirst, CeilingDurable,
           HolderWriteLast, IssuedCovered, StampsIncrease
    <1>10. CASE UNCHANGED vars
        BY <1>10 DEF vars, TypeOK, SeedFirst, CeilingDurable,
           HolderWriteLast, IssuedCovered, StampsIncrease
    <1> QED BY <1>1, <1>2, <1>3, <1>4, <1>5, <1>6, <1>7, <1>8, <1>9, <1>10 DEF Next

\* The allocator's state is well formed in every behaviour; in particular no
\* stamp, cursor or ceiling leaves i64.
THEOREM TypeCorrect == Spec => []TypeOK
    <1>1. IInv => TypeOK  BY DEF IInv
    <1> QED BY <1>1, InitEstablishesIInv, NextPreservesIInv, PTL DEF Spec

\* Stamps issued by one node strictly increase in every behaviour of the
\* allocator, whatever the clock, the crashes and the store do.
THEOREM StampsAlwaysIncrease == Spec => []StampsIncrease
    <1>1. IInv => StampsIncrease BY DEF IInv
    <1> QED BY <1>1, InitEstablishesIInv, NextPreservesIInv, PTL DEF Spec

\* The ceiling in node.db covers every issued stamp at every moment, so a
\* crash at any point leaves a sufficient seed.
THEOREM SeedAlwaysCovers == Spec => []SeedCoversIssued
    <1>1. IInv => SeedCoversIssued BY DEF IInv, IssuedCovered, SeedCoversIssued
    <1> QED BY <1>1, InitEstablishesIInv, NextPreservesIInv, PTL DEF Spec
==============================================================================
