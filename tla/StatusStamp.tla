----------------------------- MODULE StatusStamp -----------------------------
(****************************************************************************)
(* The per-node allocator of Pod status stamps (Outbox::next_status_stamp). *)
(* A stamp is issued under an async mutex; before a stamp reaches the       *)
(* reserved ceiling a new ceiling is written to node.db, so that the seed   *)
(* read after a restart covers everything issued before it.                 *)
(*                                                                          *)
(* What the model keeps: the two awaits of the critical section (the seed   *)
(* read and the ceiling write), the future being dropped at either of them, *)
(* a store error at either of them, the FIFO of writes owned by the node.db *)
(* executor (a write whose caller is gone still lands), a wall clock that   *)
(* reads anything, i64 saturation and a crash of the process at any point.  *)
(****************************************************************************)
EXTENDS Integers, Sequences

CONSTANTS
    Clock,          \* readings of the wall clock, in stamp units
    ReserveBlock,   \* STATUS_STAMP_RESERVE_BLOCK
    I64Max,         \* i64::MAX
    MaxIssues,      \* bound: stamps handed out in a behaviour
    MaxQueued       \* bound: ceiling writes waiting in the node.db executor

ASSUME StampAssumption ==
    /\ I64Max \in Nat
    /\ Clock \subseteq 0..I64Max
    /\ ReserveBlock \in Nat \ {0}
    /\ MaxIssues \in Nat
    /\ MaxQueued \in Nat

VARIABLES
    seeded, next, reserved,  \* StampState, behind the mutex
    stage,      \* where the mutex holder is; "free" when there is none
    now,        \* the holder's now_us argument
    candidate,  \* the holder's candidate while it awaits the ceiling write
    persisted,  \* node.db _node_meta["pod_status_stamp_high_water"]
    writes,     \* ceiling writes accepted by the node.db executor, not yet run
    issued      \* history: every stamp returned to a caller, in order

vars == <<seeded, next, reserved, stage, now, candidate, persisted, writes, issued>>

Stamp == 0..I64Max

TypeOK ==
    /\ seeded \in BOOLEAN
    /\ next \in Stamp
    /\ reserved \in Stamp
    /\ stage \in {"free", "read", "choose", "write"}
    /\ now \in Stamp
    /\ candidate \in Stamp
    /\ persisted \in Stamp
    /\ writes \in Seq(Stamp)
    /\ issued \in Seq(Stamp)

\* Mutant: the addition does not saturate.
PlainAdd(a, b) == a + b

SaturatingAdd(a, b) == IF a + b > I64Max THEN I64Max ELSE a + b

\* node.db never written: read_status_stamp_high_water answers 0.
Init ==
    /\ seeded = FALSE /\ next = 0 /\ reserved = 0
    /\ stage = "free" /\ now = 0 /\ candidate = 0
    /\ persisted = 0 /\ writes = <<>>
    /\ issued = <<>>

\* A caller reads the clock and takes the mutex; only the first caller of a
\* process goes through the seed read.
Lock(t) ==
    /\ stage = "free"
    /\ Len(issued) < MaxIssues
    /\ now' = t
    /\ stage' = IF seeded THEN "choose" ELSE "read"
    /\ UNCHANGED <<seeded, next, reserved, candidate, persisted, writes, issued>>

\* Mutant: only the ceiling is restored, the cursor starts over.
SeedCeilingOnly ==
    /\ stage = "read"
    /\ reserved' = persisted /\ seeded' = TRUE
    /\ stage' = "choose"
    /\ UNCHANGED <<next, now, candidate, persisted, writes, issued>>

\* read_status_stamp_high_water answered: both cursors start at the ceiling.
Seed ==
    /\ stage = "read"
    /\ next' = persisted /\ reserved' = persisted /\ seeded' = TRUE
    /\ stage' = "choose"
    /\ UNCHANGED <<now, candidate, persisted, writes, issued>>

Chosen == IF now > SaturatingAdd(next, 1) THEN now ELSE SaturatingAdd(next, 1)

Issue(stamp) ==
    /\ next' = stamp
    /\ issued' = Append(issued, stamp)
    /\ stage' = "free"

\* The candidate is below the ceiling: no write is needed.
IssueReserved ==
    /\ stage = "choose"
    /\ Chosen < reserved
    /\ Issue(Chosen)
    /\ UNCHANGED <<seeded, reserved, now, candidate, persisted, writes>>

\* The candidate reaches the ceiling: hand the new ceiling to the executor.
RequestCeiling ==
    /\ stage = "choose"
    /\ Chosen >= reserved
    /\ Len(writes) < MaxQueued
    /\ candidate' = Chosen
    /\ writes' = Append(writes, SaturatingAdd(Chosen, ReserveBlock))
    /\ stage' = "write"
    /\ UNCHANGED <<seeded, next, reserved, now, persisted, issued>>

\* The executor thread runs the oldest write (META_SET overwrites the value).
StoreWrite ==
    /\ writes # <<>>
    /\ persisted' = Head(writes)
    /\ writes' = Tail(writes)
    /\ UNCHANGED <<seeded, next, reserved, stage, now, candidate, issued>>

\* Mutant: the stamp is issued without waiting for the ceiling write.
CeilingNotAwaited ==
    /\ stage = "write"
    /\ reserved' = SaturatingAdd(candidate, ReserveBlock)
    /\ Issue(candidate)
    /\ UNCHANGED <<seeded, now, candidate, persisted, writes>>

\* The holder's write, which is the youngest one, has been answered.
CeilingWritten ==
    /\ stage = "write"
    /\ writes = <<>>
    /\ reserved' = SaturatingAdd(candidate, ReserveBlock)
    /\ Issue(candidate)
    /\ UNCHANGED <<seeded, now, candidate, persisted, writes>>

\* The oldest write fails in SQLite; when it was the holder's, the error is
\* returned and the mutex released.
StoreWriteFails ==
    /\ writes # <<>>
    /\ writes' = Tail(writes)
    /\ stage' = IF stage = "write" /\ Len(writes) = 1 THEN "free" ELSE stage
    /\ UNCHANGED <<seeded, next, reserved, now, candidate, persisted, issued>>

\* The holder goes away at an await: the seed read failed, or the caller's
\* future was dropped. A ceiling write already accepted stays in the queue.
Abandon ==
    /\ stage \in {"read", "write"}
    /\ stage' = "free"
    /\ UNCHANGED <<seeded, next, reserved, now, candidate, persisted, writes, issued>>

\* The process dies: memory and the writes that have not run are lost.
Crash ==
    /\ seeded' = FALSE /\ next' = 0 /\ reserved' = 0
    /\ stage' = "free"
    /\ writes' = <<>>
    /\ UNCHANGED <<now, candidate, persisted, issued>>

Next ==
    \/ \E t \in Clock : Lock(t)
    \/ Seed
    \/ IssueReserved
    \/ RequestCeiling
    \/ StoreWrite
    \/ CeilingWritten
    \/ StoreWriteFails
    \/ Abandon
    \/ Crash

Spec == Init /\ [][Next]_vars

------------------------------------------------------------------------------
\* Stamps handed out by one node strictly increase, across restarts, clock
\* steps, dropped callers and failed writes, until i64 is exhausted: a newer
\* status never carries a stamp the leader's lost-update gate
\* (decide_status_stamp) would drop.
StampsIncrease ==
    \A i, j \in 1..Len(issued) :
        i < j => issued[i] < issued[j] \/ issued[j] = I64Max

\* "the seed on the next boot is always >= every stamp already issued"
\* (node_outbox/mod.rs): the ceiling a crash at this moment would leave behind
\* covers the stamps handed out so far.
SeedCoversIssued ==
    \A i \in 1..Len(issued) : issued[i] <= persisted
==============================================================================
