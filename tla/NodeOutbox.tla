------------------------------ MODULE NodeOutbox ------------------------------
(*****************************************************************************)
(* The worker's durable outbox (node.db) and its dispatcher, for the stream  *)
(* of one Pod incarnation.                                                   *)
(*                                                                           *)
(* A subject key carries the Pod UID and a stream is a hash of it, so        *)
(* streams share nothing but the dispatcher's claim window; the claim takes  *)
(* at most one row per stream. One stream is therefore the whole story of    *)
(* ordering, and "the dispatcher" below is its work on this stream's row.    *)
(*                                                                           *)
(* Time is abstracted: a row not under lease may be due at any moment and a  *)
(* lease left behind by a crash or a failed write may expire at any moment.  *)
(* Pod status checkpoints, dispatch counters and the RTT estimate, which a   *)
(* settlement also updates, are left out: nothing modelled here reads them.  *)
(*****************************************************************************)
EXTENDS Integers, Sequences, FiniteSets

CONSTANTS
    Admins,       \* dead-letter replays that may run at the same time
    OtherKinds,   \* kinds of row besides "status": subset of the next line
    MaxAttempts,  \* MAX_OUTBOX_ATTEMPTS
    MaxSeq,       \* bound: rows enqueued on the stream
    MaxInserts,   \* bound: ids given out before the last row is inserted
    MaxCrashes    \* bound: crashes of the worker process

\* "meta": a PodMetadata update; "finalize": FinalizeBoundPod, the terminal Pod
\* delete; "bad": a row whose payload the leader cannot decode or authorize.
ASSUME OutboxAssumption ==
    /\ OtherKinds \subseteq {"meta", "finalize", "bad"}
    /\ MaxAttempts \in Nat \ {0}
    /\ MaxSeq \in Nat
    /\ MaxInserts \in Nat
    /\ MaxCrashes \in Nat

VARIABLES
    cmd,        \* cmd[n]: the command enqueued at stream position n
    rows,       \* table outbox, this stream
    dead,       \* table outbox_dead_letter, this stream
    ids,        \* AUTOINCREMENT ids given out so far; the two tables share the
                \* counter here, as only the order within a table matters
    lastStamp,  \* status stamps issued so far (module StatusStamp)
    drawn,      \* stamps issued to writers that have not enqueued yet
    replaying,  \* replaying[a]: the dead letter replay a has read
    disp,       \* what the dispatcher is doing with its claimed row
    crashes

nodeVars == <<cmd, rows, dead, ids, lastStamp, drawn, replaying, disp, crashes>>

Position == 1..MaxSeq
Kind == OtherKinds \cup {"status"}
Row == [seq : Position, id : 1..MaxInserts, attempt : 0..MaxAttempts, leased : BOOLEAN]
DeadRow == [seq : Position, id : Nat]
NoReplay == [seq |-> 0, id |-> 0]

\* Answers of deliver_outbox. "ok" stands for Applied and AlreadyApplied,
\* "codec" for CodecIncompatible, "retry" for the other retryable errors.
Terminal == {"notFound", "uidMismatch", "conflict", "invalid"}
Answer == {"ok", "retry", "codec"} \cup Terminal

Idle == [phase |-> "idle", seq |-> 0, id |-> 0]
Dispatch == {Idle} \cup [phase : {"deliver", "supersede"}, seq : Position, id : Nat]

NodeTypeOK ==
    /\ cmd \in Seq([kind : Kind, stamp : Nat]) /\ Len(cmd) <= MaxSeq
    /\ rows \subseteq Row
    /\ dead \subseteq DeadRow
    /\ ids \in Nat
    /\ lastStamp \in Nat
    /\ drawn \subseteq 1..lastStamp
    /\ replaying \in [Admins -> DeadRow \cup {NoReplay}]
    /\ disp \in Dispatch
    /\ crashes \in 0..MaxCrashes

NodeInit ==
    /\ cmd = <<>>
    /\ rows = {} /\ dead = {} /\ ids = 0
    /\ lastStamp = 0 /\ drawn = {}
    /\ replaying = [a \in Admins |-> NoReplay]
    /\ disp = Idle
    /\ crashes = 0

LivePositions == {r.seq : r \in rows}
DeadPositions == {d.seq : d \in dead}

------------------------------------------------------------------------------
(* Producers. A status writer draws its stamp before it enqueues, so two     *)
(* writers may enter the stream in the opposite order of their stamps.       *)

DrawStamp ==
    /\ Len(cmd) + Cardinality(drawn) < MaxSeq
    /\ lastStamp' = lastStamp + 1
    /\ drawn' = drawn \cup {lastStamp + 1}
    /\ UNCHANGED <<cmd, rows, dead, ids, replaying, disp, crashes>>

\* OUTBOX_INSERT: a fresh id, attempt 0, no lease, due now.
Fresh(n) == [seq |-> n, id |-> ids + 1, attempt |-> 0, leased |-> FALSE]

\* enqueue_outbox: the sequence number and the row are one transaction.
Enqueue(kind, stamp) ==
    /\ Len(cmd) < MaxSeq /\ ids < MaxInserts
    /\ cmd' = Append(cmd, [kind |-> kind, stamp |-> stamp])
    /\ rows' = rows \cup {Fresh(Len(cmd) + 1)}
    /\ ids' = ids + 1
    /\ UNCHANGED <<dead, lastStamp, replaying, disp, crashes>>

EnqueueStatus(stamp) ==
    /\ stamp \in drawn
    /\ drawn' = drawn \ {stamp}
    /\ Enqueue("status", stamp)

EnqueueOther(kind) == Enqueue(kind, 0) /\ UNCHANGED drawn

------------------------------------------------------------------------------
(* Dispatcher.                                                               *)

\* Mutant: a dead letter does not block the stream.
ClaimablePastDeadLetter(r) ==
    /\ ~r.leased
    /\ \A o \in rows : o.seq >= r.seq

\* OUTBOX_CLAIM_DUE: not under lease, and no lower position of the stream is
\* live or dead-lettered.
Claimable(r) ==
    /\ ~r.leased
    /\ \A o \in rows : o.seq >= r.seq
    /\ \A d \in dead : d.seq >= r.seq

Relabel(r, attempt, leased) ==
    (rows \ {r}) \cup {[r EXCEPT !.attempt = attempt, !.leased = leased]}

Claim(r) ==
    /\ disp = Idle
    /\ r \in rows /\ Claimable(r)
    /\ rows' = Relabel(r, r.attempt, TRUE)
    /\ disp' = [phase |-> "deliver", seq |-> r.seq, id |-> r.id]
    /\ UNCHANGED <<cmd, dead, ids, lastStamp, drawn, replaying, crashes>>

\* The claimed row as the token-guarded statements find it.
Claimed(r) == r \in rows /\ r.id = disp.id /\ r.leased

IsTerminalDelete(n) == cmd[n].kind = "finalize"

\* actor_owned_pod_delete_needs_dead_letter
NeedsDeadLetter(n, answer) == IsTerminalDelete(n) /\ answer \in {"uidMismatch", "conflict"}

MoveToDeadLetter(r) ==
    /\ rows' = rows \ {r}
    /\ dead' = dead \cup {[seq |-> r.seq, id |-> ids + 1]}
    /\ ids' = ids + 1
    /\ disp' = Idle

\* process_claimed_row once deliver_with_lease_renewal has returned. Each way
\* out is one node.db statement or transaction, guarded by the lease token.

\* Applied or AlreadyApplied: complete_row; a terminal Pod delete goes on to
\* complete the superseded status rows.
AfterApplied == IF IsTerminalDelete(disp.seq) THEN [disp EXCEPT !.phase = "supersede"] ELSE Idle

SettleApplied(r) ==
    /\ rows' = rows \ {r}
    /\ disp' = AfterApplied
    /\ UNCHANGED <<dead, ids>>

\* Mutants: the last attempt drops the row; the limit is never looked at; the
\* attempt is not counted.
DropAtLastAttempt(r) ==
    /\ rows' = IF r.attempt + 1 >= MaxAttempts THEN rows \ {r} ELSE Relabel(r, r.attempt + 1, FALSE)
    /\ disp' = Idle
    /\ UNCHANGED <<dead, ids>>

RetryWithoutLimit(r) ==
    /\ rows' = Relabel(r, r.attempt + 1, FALSE)
    /\ disp' = Idle
    /\ UNCHANGED <<dead, ids>>

RetryUncounted(r) ==
    /\ rows' = Relabel(r, r.attempt, FALSE)
    /\ disp' = Idle
    /\ UNCHANGED <<dead, ids>>

\* record_outbox_failure (MAX_OUTBOX_ATTEMPTS): retry later or dead-letter.
SettleRetryable(r) ==
    IF r.attempt + 1 >= MaxAttempts
    THEN MoveToDeadLetter(r)
    ELSE /\ rows' = Relabel(r, r.attempt + 1, FALSE)
         /\ disp' = Idle
         /\ UNCHANGED <<dead, ids>>

\* mark_outbox_attempt_failed: counts the attempt, never dead-letters. The
\* count saturates at the bound, where every later comparison is the same.
SettleCodec(r) ==
    /\ rows' = Relabel(r, IF r.attempt < MaxAttempts THEN r.attempt + 1 ELSE r.attempt, FALSE)
    /\ disp' = Idle
    /\ UNCHANGED <<dead, ids>>

\* A terminal error: an actor-owned Pod delete may be dead-lettered, any other
\* row is dropped.
SettleTerminal(r, answer) ==
    IF NeedsDeadLetter(r.seq, answer)
    THEN MoveToDeadLetter(r)
    ELSE rows' = rows \ {r} /\ disp' = Idle /\ UNCHANGED <<dead, ids>>

\* node.db refuses the statement (every such error is logged and skipped): the
\* row keeps its lease until it expires. After an "ok" the terminal Pod delete
\* still goes on to its superseded rows.
SettleFails(answer) ==
    /\ disp' = IF answer = "ok" THEN AfterApplied ELSE Idle
    /\ UNCHANGED <<rows, dead, ids>>

SettleRow(r, answer) ==
    \/ answer = "ok" /\ SettleApplied(r)
    \/ answer = "retry" /\ SettleRetryable(r)
    \/ answer = "codec" /\ SettleCodec(r)
    \/ answer \in Terminal /\ SettleTerminal(r, answer)

Settle(answer) ==
    /\ disp.phase = "deliver"
    /\ \/ \E r \in rows : Claimed(r) /\ SettleRow(r, answer)
       \/ SettleFails(answer)
    /\ UNCHANGED <<cmd, lastStamp, drawn, replaying, crashes>>

\* OUTBOX_COMPLETE_SUPERSEDED_TERMINAL_POD_DELETE_STATUS: by row id.
Superseded == {r \in rows : r.id < disp.id /\ cmd[r.seq].kind = "status"}

Supersede ==
    /\ disp.phase = "supersede"
    /\ \/ rows' = rows \ Superseded
       \/ rows' = rows              \* the statement failed
    /\ disp' = Idle
    /\ UNCHANGED <<cmd, dead, ids, lastStamp, drawn, replaying, crashes>>

\* requeue_expired_outbox_leases, at the start of a dispatch round: a row still
\* under lease then belongs to nobody.
RequeueExpired(r) ==
    /\ disp = Idle
    /\ r \in rows /\ r.leased
    /\ rows' = Relabel(r, r.attempt, FALSE)
    /\ UNCHANGED <<cmd, dead, ids, lastStamp, drawn, replaying, disp, crashes>>

------------------------------------------------------------------------------
(* Administration: replay_dead_letter reads the entry in one call and        *)
(* re-inserts it, with its original key and position, in another; two        *)
(* replays may have read the same entry. An assigned dead letter cannot be   *)
(* deleted.                                                                  *)

ReplayRead(a, d) ==
    /\ replaying[a] = NoReplay
    /\ d \in dead
    /\ replaying' = [replaying EXCEPT ![a] = d]
    /\ UNCHANGED <<cmd, rows, dead, ids, lastStamp, drawn, disp, crashes>>

\* The idempotency key is UNIQUE in outbox: a live row of the same position
\* makes the insert, and with it the transaction, fail. That the entry is
\* still there is not checked again.
ReplayInsert(a) ==
    /\ replaying[a] # NoReplay
    /\ replaying' = [replaying EXCEPT ![a] = NoReplay]
    /\ LET d == replaying[a]
       IN  IF d.seq \in LivePositions
           THEN UNCHANGED <<rows, dead, ids>>
           ELSE /\ ids < MaxInserts
                /\ rows' = rows \cup {Fresh(d.seq)}
                /\ dead' = dead \ {d}
                /\ ids' = ids + 1
    /\ UNCHANGED <<cmd, lastStamp, drawn, disp, crashes>>

\* The worker process dies: the tables stay, leases included.
NodeCrash ==
    /\ crashes < MaxCrashes
    /\ crashes' = crashes + 1
    /\ drawn' = {} /\ disp' = Idle
    /\ replaying' = [a \in Admins |-> NoReplay]
    /\ UNCHANGED <<cmd, rows, dead, ids, lastStamp>>
==============================================================================
