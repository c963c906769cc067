---------------------------- MODULE OutboxDelivery ----------------------------
(*****************************************************************************)
(* A worker's outbox stream delivered to the control plane: NodeOutbox and   *)
(* LeaderOutbox joined by the calls in flight.                               *)
(*                                                                           *)
(* A call outlives its caller: after a timeout, a broken connection or a     *)
(* crash of the worker the leader goes on with it, its proposal may still    *)
(* commit, and a retry of the same row runs beside it. `mine` marks the call *)
(* the dispatcher is waiting for.                                            *)
(*****************************************************************************)
EXTENDS NodeOutbox, LeaderOutbox

CONSTANTS
    Calls,     \* identities for calls in flight
    Refusals   \* what the leader may refuse a call with: "codec" until every
               \* server has activated the worker's command codec

ASSUME RefusalAssumption == Refusals \subseteq {"retry", "codec"}

VARIABLE calls

vars == <<nodeVars, leaderVars, calls>>

NoCommit == [effect |-> "none", exp |-> 0, answer |-> "ok", verdict |-> "go"]

NoCall == [stage |-> "none", mine |-> FALSE]

Commit == [effect : {"none", "status", "meta", "finalize"}, exp : Nat,
           answer : Answer, verdict : {"go"} \cup Terminal]

\* sent: on the wire; admitted: past the live check; proposed: handed to raft;
\* answered: the answer is on its way back. `by` is the server it was sent to.
OpenCall ==
    [stage : {"sent", "admitted", "proposed", "answered"}, seq : Position,
     mine : BOOLEAN, by : Servers, commit : Commit]

Call == {NoCall} \cup OpenCall

TypeOK ==
    /\ NodeTypeOK
    /\ LeaderTypeOK
    /\ calls \in [Calls -> Call]

Init == NodeInit /\ LeaderInit /\ calls = [c \in Calls |-> NoCall]

nodeUnchanged == UNCHANGED nodeVars
leaderUnchanged == UNCHANGED leaderVars

------------------------------------------------------------------------------
(* The worker.                                                               *)

NodeLocal ==
    /\ \/ DrawStamp
       \/ \E stamp \in drawn : EnqueueStatus(stamp)
       \/ \E kind \in OtherKinds \ {"finalize"} : EnqueueOther(kind)
       \/ Supersede
       \/ \E r \in rows : RequeueExpired(r)
       \/ \E a \in Admins, d \in dead : ReplayRead(a, d)
       \/ \E a \in Admins : ReplayInsert(a)
    /\ UNCHANGED <<leaderVars, calls>>

\* classify_bound_finalization: a finalization is enqueued for a Pod that was
\* seen terminating.
EnqueueFinalize ==
    /\ "finalize" \in OtherKinds
    /\ head.pod # "live"
    /\ EnqueueOther("finalize")
    /\ UNCHANGED <<leaderVars, calls>>

ClaimAndSend(r, c) ==
    /\ calls[c] = NoCall
    /\ Claim(r)
    /\ calls' = [calls EXCEPT ![c] =
                   [stage |-> "sent", seq |-> r.seq, mine |-> TRUE, by |-> leader,
                    commit |-> NoCommit]]
    /\ leaderUnchanged

\* The answer reaches the dispatcher, which settles the row by it.
Reply(c) ==
    /\ calls[c].stage = "answered"
    /\ Settle(calls[c].commit.answer)
    /\ calls' = [calls EXCEPT ![c] = NoCall]
    /\ leaderUnchanged

\* A call whose caller is gone: nobody waits for its answer.
Orphan(call) == IF call.stage = "answered" THEN NoCall ELSE [call EXCEPT !.mine = FALSE]

\* Timeout, cancelled delivery, lost connection, response lost or corrupt: the
\* dispatcher has a retryable error and the call goes on without it.
GiveUp(c) ==
    /\ calls[c].mine
    /\ Settle("retry")
    /\ calls' = [calls EXCEPT ![c] = Orphan(calls[c])]
    /\ leaderUnchanged

Crash ==
    /\ NodeCrash
    /\ calls' = [c \in Calls |-> IF calls[c].mine THEN Orphan(calls[c]) ELSE calls[c]]
    /\ leaderUnchanged

------------------------------------------------------------------------------
(* The leader.                                                               *)

AnsweredCall(call, answer) ==
    IF call.mine THEN [call EXCEPT !.stage = "answered", !.commit = [NoCommit EXCEPT !.answer = answer]]
    ELSE NoCall

Answered(c, answer) == [calls EXCEPT ![c] = AnsweredCall(calls[c], answer)]

\* Not leader (any more), flow control saturated, codec not activated, or the
\* request never arrived: nothing is proposed.
Refuse(c) ==
    /\ calls[c].stage \in {"sent", "admitted"}
    /\ \E answer \in Refusals : calls' = Answered(c, answer)
    /\ nodeUnchanged /\ leaderUnchanged

\* The authority check that precedes each of the following steps.
AtLeader(c, stage) == calls[c].stage = stage /\ calls[c].by = leader

AdmitCall(c) ==
    /\ AtLeader(c, "sent")
    /\ calls' = [calls EXCEPT ![c].stage = "admitted",
                   ![c].commit.verdict = Admit(cmd[calls[c].seq], applied[leader])]
    /\ nodeUnchanged /\ leaderUnchanged

\* The position is consumed already: the command's caller is told so, a
\* terminal verdict is returned now that its position is known to be consumed.
BuildDuplicate(c) ==
    /\ AtLeader(c, "admitted")
    /\ AlreadyApplied(calls[c].seq, applied[leader])
    /\ LET verdict == calls[c].commit.verdict
       IN  calls' = Answered(c, IF verdict = "go" THEN "ok" ELSE verdict)
    /\ nodeUnchanged /\ leaderUnchanged

BuildGap(c) ==
    /\ AtLeader(c, "admitted")
    /\ StreamGap(calls[c].seq, applied[leader])
    /\ calls' = Answered(c, "retry")
    /\ nodeUnchanged /\ leaderUnchanged

BuildCommit(c) ==
    /\ AtLeader(c, "admitted")
    /\ ~AlreadyApplied(calls[c].seq, applied[leader])
    /\ ~StreamGap(calls[c].seq, applied[leader])
    /\ \E m \in Materialized(cmd[calls[c].seq], calls[c].commit.verdict, applied[leader]) :
         calls' = [calls EXCEPT ![c].stage = "proposed",
                     ![c].commit = [effect |-> m.effect, exp |-> m.exp, answer |-> m.answer,
                                    verdict |-> calls[c].commit.verdict]]
    /\ nodeUnchanged /\ leaderUnchanged

\* Raft commits the proposal; client_write may still report an error.
RaftCommit(c) ==
    /\ calls[c].stage = "proposed"
    /\ LET n == calls[c].seq
           command == cmd[n]
           commit == calls[c].commit
       IN  /\ CommitEntry(n, command, commit, calls[c].by)
           /\ \E answer \in {ProposalAnswer(n, command, commit, head), "retry"} :
                calls' = Answered(c, answer)
    /\ nodeUnchanged

\* A new leader overwrites the entry, or it was never accepted.
RaftLose(c) ==
    /\ calls[c].stage = "proposed"
    /\ calls' = Answered(c, "retry")
    /\ nodeUnchanged /\ leaderUnchanged

ElectLeader(s) ==
    /\ Elect(s)
    /\ UNCHANGED <<nodeVars, calls>>

LeaderLocal ==
    /\ \/ \E next \in PodState, s \in Servers : OtherWrite(next, s)
       \/ \E s \in Servers : CatchUp(s)
    /\ UNCHANGED <<nodeVars, calls>>

CallStep(c) ==
    \/ Reply(c)
    \/ GiveUp(c)
    \/ Refuse(c)
    \/ AdmitCall(c)
    \/ BuildDuplicate(c)
    \/ BuildGap(c)
    \/ BuildCommit(c)
    \/ RaftCommit(c)
    \/ RaftLose(c)

Next ==
    \/ NodeLocal
    \/ EnqueueFinalize
    \/ \E r \in rows, c \in Calls : ClaimAndSend(r, c)
    \/ \E c \in Calls : CallStep(c)
    \/ Crash
    \/ \E s \in Servers : ElectLeader(s)
    \/ LeaderLocal

Spec == Init /\ [][Next]_vars

\* The dispatcher task keeps running: it claims what is due, a call it waits
\* for ends (the leader client's unary deadline), a lease left behind expires,
\* and node.db does not refuse every settlement for ever. A call at the leader
\* comes to an end, answered or lost.
DispatcherFairness ==
    /\ WF_vars(\E r \in rows, c \in Calls : ClaimAndSend(r, c))
    /\ WF_vars(Supersede /\ UNCHANGED <<leaderVars, calls>>)
    /\ WF_vars(\E r \in rows : RequeueExpired(r) /\ UNCHANGED <<leaderVars, calls>>)
    /\ WF_vars(\E c \in Calls : Reply(c) \/ GiveUp(c))
    /\ SF_vars(\E c \in Calls : (Reply(c) \/ GiveUp(c)) /\ rows' # rows)

LeaderFairness ==
    \A c \in Calls :
        WF_vars(Refuse(c) \/ AdmitCall(c) \/ BuildDuplicate(c) \/ BuildGap(c) \/ BuildCommit(c)
                \/ RaftCommit(c) \/ RaftLose(c))

FairSpec == Spec /\ DispatcherFairness /\ LeaderFairness

------------------------------------------------------------------------------
\* Public effects of a stream happen at most once each and in the order the
\* worker enqueued them, whatever is retried, duplicated, replayed or rebuilt
\* by another leader ("visible worker outbox effects retain strict ordering").
EffectsInOrder ==
    \A i, j \in 1..Len(effects) : i < j => effects[i] < effects[j]

\* No committed entry can carry a position beyond the next one: a gap met at
\* apply time (outbox_watermark_decision_in_tx) is a fatal storage error on
\* every replica, not a rejected request.
NoGapCommitted ==
    \A c \in Calls : calls[c].stage = "proposed" => calls[c].seq <= head.wm + 1

\* The idempotency ledger and the watermark tell the same story, on the head
\* and on every lagging server: exactly the positions up to the watermark have
\* been decided.
LedgerMatchesWatermark ==
    \A state \in {head} \cup {applied[s] : s \in Servers} : state.ledger = 1..state.wm

\* A position the control plane has not consumed is still held by the worker,
\* live or dead-lettered: a delivery is never given up without the leader
\* having decided it, and the next expected position can always be delivered.
UnconsumedIsHeld ==
    \A n \in 1..Len(cmd) : n > head.wm => n \in LivePositions \cup DeadPositions

\* The lost-update gate: while the Pod exists, it shows the newest status whose
\* stamp the ledger has recorded. A dropped, duplicated or reordered snapshot
\* never hides a newer one, and no stamp is recorded without being shown.
NewestStatusShown ==
    Present(head) => head.shown = head.maxStamp

\* A decision sticks: a position whose ledger row holds an error is never
\* reported to the worker as applied.
RejectionSticks ==
    \A c \in Calls :
        calls[c].stage = "answered" /\ calls[c].seq \in head.failed
        => calls[c].commit.answer # "ok"

\* "Assigned stream sequence is authoritative" (OutboxDispatcherStore): the
\* status rows a delivered terminal Pod delete removes as superseded come
\* before it in the stream.
SupersededComesBefore ==
    disp.phase = "supersede" => \A r \in Superseded : r.seq < disp.seq

\* Nothing undecided is overtaken: while a row is in flight, the worker holds
\* no older position, live or dead-lettered, that the control plane has yet to
\* decide. (A replay that lost a race may resurrect an older position, but
\* only one that is decided.)
NoOvertaking ==
    disp.phase = "deliver" =>
        \A n \in LivePositions \cup DeadPositions : n > head.wm => disp.seq <= n

\* Every live row is eventually delivered, dropped on the leader's terminal
\* decision or dead-lettered, unless an older dead letter blocks the stream:
\* retries are bounded (MAX_OUTBOX_ATTEMPTS) and neither a crash, a lease left
\* behind nor an orphaned call at the leader can strand it.
RowsSettle ==
    \A n \in Position :
        n \in LivePositions ~> n \notin LivePositions \/ \E d \in dead : d.seq < n

\* The delivery implements the abstract stream: whatever is retried, lost,
\* duplicated, replayed or rebuilt by another leader, commands are decided one
\* by one in the order the worker enqueued them, with an effect at that moment
\* or never, nothing after the finalization and no older status over a newer.
Abstract == INSTANCE OutboxStream WITH stream <- cmd, consumed <- head.wm

ImplementsStream == Abstract!Spec
==============================================================================
