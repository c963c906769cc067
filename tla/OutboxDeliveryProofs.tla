------------------------- MODULE OutboxDeliveryProofs -------------------------
(*****************************************************************************)
(* The delivery of an outbox stream for every number of calls, servers,      *)
(* replays, attempts and crashes. Most steps leave what the control plane    *)
(* has decided alone; the argument is in the two that do not: a commit is    *)
(* built from a view that may lag behind the head, and it is applied to a    *)
(* head that may have moved on since.                                        *)
(*****************************************************************************)
EXTENDS OutboxDelivery, SequenceTheorems, TLAPS

Command == [kind : Kind, stamp : Nat]

\* Everything the worker holds carries a position it has enqueued.
Held ==
    /\ \A r \in rows : r.seq <= Len(cmd)
    /\ \A d \in dead : d.seq <= Len(cmd)
    /\ \A a \in Admins : replaying[a].seq <= Len(cmd)

\* A call carries a position of the stream, and the live check lets no command
\* through that the leader cannot decode or authorize.
Known(call) ==
    call # NoCall =>
        /\ call.seq <= Len(cmd)
        /\ call.stage = "admitted" /\ call.commit.verdict = "go" => cmd[call.seq].kind # "bad"

CallsKnown == \A c \in Calls : Known(calls[c])

\* A server that lags knows fewer decisions, older stamps, and may take for
\* present a Pod that is gone; never the other way round.
Behind(view) ==
    /\ view.wm <= head.wm
    /\ view.maxStamp <= head.maxStamp
    /\ Present(head) => Present(view)

ViewsBehind == \A s \in Servers : Behind(applied[s])

\* What a proposed commit carries: a mutation is that of its command, and a
\* status commit without one has lost to a recorded stamp or to the Pod's end.
SoundCommit(command, commit) ==
    /\ commit.effect # "none" => commit.effect = command.kind /\ commit.verdict = "go"
    /\ command.kind = "status" /\ commit.verdict = "go" /\ commit.effect = "none"
       => command.stamp <= head.maxStamp \/ ~Present(head)

ProposedSound ==
    \A c \in Calls :
        calls[c].stage = "proposed" => SoundCommit(cmd[calls[c].seq], calls[c].commit)

\* What the history of effects says of the head.
EffectsRecorded ==
    \A i \in 1..Len(effects) :
        /\ effects[i] \in 1..head.wm
        /\ cmd[effects[i]].kind = "status" => cmd[effects[i]].stamp <= head.maxStamp
        /\ cmd[effects[i]].kind = "finalize" => ~Present(head)

IInv ==
    /\ TypeOK
    /\ Held /\ CallsKnown /\ head.wm <= Len(cmd)
    /\ LedgerMatchesWatermark
    /\ ViewsBehind
    /\ NoGapCommitted
    /\ ProposedSound
    /\ EffectsRecorded
    /\ EffectsInOrder
    /\ NewestStatusShown

------------------------------------------------------------------------------
(* The worker's steps.                                                       *)

\* The stream only ever grows at its end.
CmdGrows == cmd' = cmd \/ \E entry \in Command : cmd' = Append(cmd, entry)

NodeStep ==
    \/ DrawStamp
    \/ \E stamp \in drawn : EnqueueStatus(stamp)
    \/ \E kind \in OtherKinds : EnqueueOther(kind)
    \/ Supersede
    \/ \E r \in rows : RequeueExpired(r) \/ Claim(r)
    \/ \E a \in Admins, d \in dead : ReplayRead(a, d)
    \/ \E a \in Admins : ReplayInsert(a)
    \/ \E answer \in Answer : Settle(answer)
    \/ NodeCrash
    \/ UNCHANGED nodeVars

\* Positions stay assigned to their command while the stream grows.
LEMMA GrowthKeepsPositions ==
    ASSUME cmd \in Seq(Command), CmdGrows
    PROVE  /\ cmd' \in Seq(Command)
           /\ Len(cmd) \in Nat /\ Len(cmd') \in Nat
           /\ Len(cmd) <= Len(cmd') /\ Len(cmd') <= Len(cmd) + 1
           /\ \A n \in 1..Len(cmd) : cmd'[n] = cmd[n] /\ cmd[n] \in Command
    <1>1. CASE cmd' = cmd
        BY <1>1
    <1>2. ASSUME NEW entry \in Command, cmd' = Append(cmd, entry)
          PROVE  /\ cmd' \in Seq(Command)
                 /\ Len(cmd') = Len(cmd) + 1 /\ Len(cmd) \in Nat
                 /\ \A n \in 1..Len(cmd) : cmd'[n] = cmd[n] /\ cmd[n] \in Command
        BY <1>2, AppendProperties, ElementOfSeq
    <1> QED BY <1>1, <1>2 DEF CmdGrows

\* A row keeps its position through claim, retry and requeue.
LEMMA RelabelTypes ==
    ASSUME NodeTypeOK, Held, NEW r \in rows, NEW attempt \in 0..MaxAttempts, NEW leased \in BOOLEAN
    PROVE  /\ Relabel(r, attempt, leased) \subseteq Row
           /\ \A x \in Relabel(r, attempt, leased) : x.seq <= Len(cmd)
    BY DEF NodeTypeOK, Held, Relabel, Row

\* A row inserted for a position of the stream is well formed.
LEMMA FreshTypes ==
    ASSUME NodeTypeOK, NEW n \in Position, ids < MaxInserts
    PROVE  Fresh(n) \in Row /\ Fresh(n).seq = n
    BY OutboxAssumption DEF NodeTypeOK, Fresh, Row

\* enqueue_outbox keeps the worker well formed and every held position assigned.
LEMMA EnqueueKeepsTypes ==
    ASSUME NodeTypeOK, Held, NEW kind \in Kind, NEW stamp \in Nat, Enqueue(kind, stamp),
           drawn' \subseteq drawn
    PROVE  NodeTypeOK' /\ Held' /\ CmdGrows
    <1> DEFINE entry == [kind |-> kind, stamp |-> stamp]
    <1>1. entry \in Command /\ cmd \in Seq(Command) BY DEF Command, NodeTypeOK
    <1>2. CmdGrows BY <1>1 DEF CmdGrows, Enqueue
    <1>3. cmd' \in Seq(Command) /\ Len(cmd') = Len(cmd) + 1 /\ Len(cmd) \in Nat
        BY <1>1, AppendProperties DEF Enqueue
    <1>4. Len(cmd) + 1 \in Position BY <1>3, OutboxAssumption DEF Enqueue, Position
    <1>5. Fresh(Len(cmd) + 1) \in Row /\ Fresh(Len(cmd) + 1).seq = Len(cmd) + 1
        BY <1>4, FreshTypes DEF Enqueue
    <1>r. rows' \subseteq Row
        BY <1>5 DEF Enqueue, NodeTypeOK
    <1>s. \A r \in rows' : r.seq <= Len(cmd')
        BY <1>3, <1>5 DEF Enqueue, NodeTypeOK, Held, Row, Position
    <1>6. Held'
        BY <1>3, <1>s DEF Enqueue, NodeTypeOK, Held, DeadRow, NoReplay, Position
    <1>7. NodeTypeOK'
        BY <1>3, <1>4, <1>r, OutboxAssumption DEF Enqueue, NodeTypeOK, Position, Command
    <1> QED BY <1>2, <1>6, <1>7

\* A row that leaves for the dead letters takes its position with it.
LEMMA MoveToDeadLetterKeepsTypes ==
    ASSUME NodeTypeOK, Held, NEW r \in rows, MoveToDeadLetter(r),
           UNCHANGED <<cmd, lastStamp, drawn, replaying, crashes>>
    PROVE  NodeTypeOK' /\ Held'
    <1>1. [seq |-> r.seq, id |-> ids + 1] \in DeadRow /\ r.seq <= Len(cmd)
        BY DEF NodeTypeOK, Held, Row, DeadRow
    <1>2. dead' \subseteq DeadRow /\ \A d \in dead' : d.seq <= Len(cmd)
        BY <1>1 DEF NodeTypeOK, Held, MoveToDeadLetter
    <1> QED BY <1>2 DEF NodeTypeOK, Held, MoveToDeadLetter, Dispatch

\* Claim, retry and requeue change a row in place.
LEMMA RelabelKeepsTypes ==
    ASSUME NodeTypeOK, Held, NEW r \in rows, NEW attempt \in 0..MaxAttempts, NEW leased \in BOOLEAN,
           rows' = Relabel(r, attempt, leased), disp' \in Dispatch,
           UNCHANGED <<cmd, dead, ids, lastStamp, drawn, replaying, crashes>>
    PROVE  NodeTypeOK' /\ Held'
    <1>1. rows' \subseteq Row /\ \A x \in rows' : x.seq <= Len(cmd) BY RelabelTypes
    <1> QED BY <1>1 DEF NodeTypeOK, Held

\* Completing rows (one, or the superseded ones) only removes positions.
LEMMA ShrinkKeepsTypes ==
    ASSUME NodeTypeOK, Held, rows' \subseteq rows, disp' \in Dispatch,
           UNCHANGED <<cmd, dead, ids, lastStamp, drawn, replaying, crashes>>
    PROVE  NodeTypeOK' /\ Held'
    BY DEF NodeTypeOK, Held

\* What the dispatcher holds after an applied delivery is well formed.
LEMMA DispatchTypes ==
    ASSUME NodeTypeOK, disp.phase = "deliver"
    PROVE  /\ AfterApplied \in Dispatch /\ Idle \in Dispatch
           /\ disp.seq \in Position
    <1>1. disp \in [phase : {"deliver", "supersede"}, seq : Position, id : Nat]
        BY DEF NodeTypeOK, Dispatch, Idle
    <1>2. [disp EXCEPT !.phase = "supersede"] \in [phase : {"deliver", "supersede"}, seq : Position, id : Nat]
        BY <1>1
    <1>3. AfterApplied \in Dispatch BY <1>2 DEF Dispatch, AfterApplied
    <1> QED BY <1>1, <1>3 DEF Dispatch

\* Every way a delivery is settled, by answer.
LEMMA SettleKeepsTypes ==
    ASSUME NodeTypeOK, Held, NEW answer \in Answer, Settle(answer)
    PROVE  NodeTypeOK' /\ Held' /\ cmd' = cmd
    <1> USE DispatchTypes
    <1>1. UNCHANGED <<cmd, lastStamp, drawn, replaying, crashes>> /\ disp.phase = "deliver"
        BY DEF Settle
    <1>2. CASE SettleFails(answer)
        <2>1. disp' \in Dispatch BY <1>1, <1>2 DEF SettleFails
        <2> QED BY <1>1, <1>2, <2>1, ShrinkKeepsTypes DEF SettleFails
    <1>3. ASSUME NEW r \in rows, SettleRow(r, answer) PROVE NodeTypeOK' /\ Held'
        <2>0. r.attempt \in 0..MaxAttempts BY DEF NodeTypeOK, Row
        <2>1. CASE SettleApplied(r)
            <3>1. disp' \in Dispatch BY <1>1, <2>1 DEF SettleApplied
            <3> QED BY <1>1, <2>1, <3>1, ShrinkKeepsTypes DEF SettleApplied
        <2>2. CASE SettleRetryable(r)
            <3>1. CASE r.attempt + 1 >= MaxAttempts
                BY <1>1, <2>2, <3>1, MoveToDeadLetterKeepsTypes DEF SettleRetryable
            <3>2. CASE ~(r.attempt + 1 >= MaxAttempts)
                <4>1. r.attempt + 1 \in 0..MaxAttempts BY <2>0, <3>2, OutboxAssumption
                <4> QED BY <1>1, <2>2, <3>2, <4>1, RelabelKeepsTypes DEF SettleRetryable
            <3> QED BY <3>1, <3>2
        <2>3. CASE SettleCodec(r)
            <3> DEFINE attempt == IF r.attempt < MaxAttempts THEN r.attempt + 1 ELSE r.attempt
            <3>1. attempt \in 0..MaxAttempts BY <2>0, OutboxAssumption
            <3> QED BY <1>1, <2>3, <3>1, RelabelKeepsTypes DEF SettleCodec
        <2>4. CASE SettleTerminal(r, answer)
            <3>1. CASE NeedsDeadLetter(r.seq, answer)
                BY <1>1, <2>4, <3>1, MoveToDeadLetterKeepsTypes DEF SettleTerminal
            <3>2. CASE ~NeedsDeadLetter(r.seq, answer)
                BY <1>1, <2>4, <3>2, ShrinkKeepsTypes DEF SettleTerminal
            <3> QED BY <3>1, <3>2
        <2> QED BY <1>3, <2>1, <2>2, <2>3, <2>4 DEF SettleRow
    <1> QED BY <1>1, <1>2, <1>3 DEF Settle

\* Every step of the worker keeps its state well formed and its positions
\* assigned.
LEMMA NodeStepKeepsTypes ==
    ASSUME NodeTypeOK, Held, NodeStep
    PROVE  NodeTypeOK' /\ Held' /\ CmdGrows
    <1>1. CASE DrawStamp
        <2>1. drawn' \subseteq 1..lastStamp' /\ lastStamp' \in Nat
            BY <1>1 DEF DrawStamp, NodeTypeOK
        <2> QED BY <1>1, <2>1 DEF DrawStamp, NodeTypeOK, Held, CmdGrows
    <1>2. ASSUME NEW stamp \in drawn, EnqueueStatus(stamp) PROVE NodeTypeOK' /\ Held' /\ CmdGrows
        <2>1. stamp \in Nat /\ "status" \in Kind BY DEF NodeTypeOK, Kind
        <2> QED BY <1>2, <2>1, EnqueueKeepsTypes DEF EnqueueStatus
    <1>3. ASSUME NEW kind \in OtherKinds, EnqueueOther(kind) PROVE NodeTypeOK' /\ Held' /\ CmdGrows
        BY <1>3, EnqueueKeepsTypes DEF EnqueueOther, Kind
    <1>4. CASE Supersede
        <2>1. rows' \subseteq rows /\ disp' \in Dispatch BY <1>4 DEF Supersede, Dispatch
        <2> QED BY <1>4, <2>1, ShrinkKeepsTypes DEF Supersede, CmdGrows
    <1>5. ASSUME NEW r \in rows, RequeueExpired(r) PROVE NodeTypeOK' /\ Held' /\ CmdGrows
        <2>1. r.attempt \in 0..MaxAttempts BY DEF NodeTypeOK, Row
        <2>2. disp' \in Dispatch BY <1>5 DEF RequeueExpired, NodeTypeOK
        <2> QED BY <1>5, <2>1, <2>2, RelabelKeepsTypes DEF RequeueExpired, CmdGrows
    <1>6. ASSUME NEW r \in rows, Claim(r) PROVE NodeTypeOK' /\ Held' /\ CmdGrows
        <2>1. r.attempt \in 0..MaxAttempts /\ r.seq \in Position /\ r.id \in Nat
            BY DEF NodeTypeOK, Row
        <2>2. disp' \in Dispatch BY <1>6, <2>1 DEF Claim, Dispatch
        <2> QED BY <1>6, <2>1, <2>2, RelabelKeepsTypes DEF Claim, CmdGrows
    <1>7. ASSUME NEW a \in Admins, NEW d \in dead, ReplayRead(a, d) PROVE NodeTypeOK' /\ Held' /\ CmdGrows
        BY <1>7 DEF ReplayRead, NodeTypeOK, Held, CmdGrows
    <1>8. ASSUME NEW a \in Admins, ReplayInsert(a) PROVE NodeTypeOK' /\ Held' /\ CmdGrows
        <2> DEFINE d == replaying[a]
        <2>0. d \in DeadRow /\ d.seq <= Len(cmd)
            BY <1>8 DEF ReplayInsert, NodeTypeOK, Held
        <2>1. replaying' \in [Admins -> DeadRow \cup {NoReplay}] /\ \A b \in Admins : replaying'[b].seq <= Len(cmd)
            <3>1. 0 <= Len(cmd) BY LenProperties DEF NodeTypeOK
            <3> QED BY <1>8, <3>1 DEF ReplayInsert, NodeTypeOK, Held, NoReplay
        <2>2. CASE d.seq \in LivePositions
            BY <1>8, <2>1, <2>2 DEF ReplayInsert, NodeTypeOK, Held, CmdGrows
        <2>3. CASE d.seq \notin LivePositions
            <3>1. ids < MaxInserts /\ rows' = rows \cup {Fresh(d.seq)} /\ dead' \subseteq dead /\ ids' = ids + 1
                BY <1>8, <2>3 DEF ReplayInsert
            <3>2. Fresh(d.seq) \in Row /\ Fresh(d.seq).seq = d.seq
                BY <2>0, <3>1, FreshTypes DEF DeadRow
            <3>3. rows' \subseteq Row /\ \A r \in rows' : r.seq <= Len(cmd)
                BY <2>0, <3>1, <3>2 DEF NodeTypeOK, Held
            <3> QED BY <1>8, <2>1, <3>1, <3>3 DEF ReplayInsert, NodeTypeOK, Held, CmdGrows
        <2> QED BY <2>2, <2>3
    <1>9. ASSUME NEW answer \in Answer, Settle(answer) PROVE NodeTypeOK' /\ Held' /\ CmdGrows
        BY <1>9, SettleKeepsTypes DEF CmdGrows
    <1>10. CASE NodeCrash
        <2>1. 0 <= Len(cmd) BY LenProperties DEF NodeTypeOK
        <2>2. Idle \in Dispatch BY DEF Dispatch
        <2>3. replaying' \in [Admins -> DeadRow \cup {NoReplay}] /\ \A a \in Admins : replaying'[a].seq <= Len(cmd)
            BY <1>10, <2>1 DEF NodeCrash, NoReplay
        <2>4. crashes' \in 0..MaxCrashes BY <1>10, OutboxAssumption DEF NodeCrash, NodeTypeOK
        <2> QED BY <1>10, <2>2, <2>3, <2>4 DEF NodeCrash, NodeTypeOK, Held, CmdGrows
    <1>11. CASE UNCHANGED nodeVars
        BY <1>11 DEF nodeVars, NodeTypeOK, Held, CmdGrows
    <1> QED BY <1>1, <1>2, <1>3, <1>4, <1>5, <1>6, <1>7, <1>8, <1>9, <1>10, <1>11 DEF NodeStep

------------------------------------------------------------------------------
(* The calls: all but two steps leave the proposals as they are.             *)

\* No proposal appears or changes; whatever is in flight has a known position.
CallsQuiet ==
    /\ calls' \in [Calls -> Call]
    /\ \A c \in Calls :
         /\ Known(calls'[c])
         /\ calls'[c].stage = "proposed" =>
              /\ calls[c].stage = "proposed"
              /\ calls'[c].seq = calls[c].seq /\ calls'[c].commit = calls[c].commit

\* A call with a stage, or one somebody waits for, is not the empty one.
LEMMA OpenCalls ==
    ASSUME calls \in [Calls -> Call], NEW c \in Calls,
           calls[c].stage # "none" \/ calls[c].mine = TRUE \/ calls[c] # NoCall
    PROVE  calls[c] \in OpenCall /\ calls[c] # NoCall
    BY DEF Call, NoCall, OpenCall

\* What becomes of call c does not disturb the proposals.
QuietChange(c, call) ==
    /\ call \in Call
    /\ Known(call)
    /\ call.stage = "proposed" =>
         calls[c].stage = "proposed" /\ call.seq = calls[c].seq /\ call.commit = calls[c].commit

\* A step that changes one call quietly proposes nothing new.
LEMMA OneQuietChange ==
    ASSUME calls \in [Calls -> Call], CallsKnown, NEW c \in Calls, NEW call,
           QuietChange(c, call), calls' = [calls EXCEPT ![c] = call]
    PROVE  CallsQuiet
    BY DEF CallsQuiet, CallsKnown, QuietChange

\* Forgetting a call is quiet.
LEMMA NoCallIsQuiet ==
    ASSUME NEW c \in Calls
    PROVE  QuietChange(c, NoCall)
    BY DEF QuietChange, Known, Call, NoCall

\* Answering a call, or dropping it because nobody waits, is quiet.
LEMMA AnsweredIsQuiet ==
    ASSUME calls \in [Calls -> Call], CallsKnown, NEW c \in Calls, calls[c].stage # "none",
           NEW answer \in Answer
    PROVE  QuietChange(c, AnsweredCall(calls[c], answer))
    <1>1. calls[c] \in OpenCall /\ calls[c] # NoCall /\ calls[c].seq <= Len(cmd)
        BY OpenCalls DEF CallsKnown, Known
    <1>2. [NoCommit EXCEPT !.answer = answer] \in Commit
        BY DEF NoCommit, Commit
    <1>3. CASE calls[c].mine
        <2> DEFINE call == [calls[c] EXCEPT !.stage = "answered", !.commit = [NoCommit EXCEPT !.answer = answer]]
        <2>1. call \in OpenCall /\ call.seq = calls[c].seq /\ call.stage = "answered"
            BY <1>1, <1>2 DEF OpenCall
        <2> QED BY <1>1, <1>3, <2>1 DEF QuietChange, Known, AnsweredCall, Call
    <1>4. CASE ~calls[c].mine
        BY <1>4, NoCallIsQuiet DEF AnsweredCall
    <1> QED BY <1>3, <1>4

\* A call that loses its caller (timeout, crash) goes on unchanged.
LEMMA OrphanIsQuiet ==
    ASSUME calls \in [Calls -> Call], CallsKnown, NEW c \in Calls, calls[c] # NoCall
    PROVE  QuietChange(c, Orphan(calls[c]))
    <1>1. calls[c] \in OpenCall /\ calls[c].seq <= Len(cmd)
        BY OpenCalls DEF CallsKnown, Known
    <1>2. CASE calls[c].stage = "answered"
        BY <1>2, NoCallIsQuiet DEF Orphan
    <1>3. CASE calls[c].stage # "answered"
        <2> DEFINE call == [calls[c] EXCEPT !.mine = FALSE]
        <2>1. /\ call \in OpenCall /\ call.seq = calls[c].seq
              /\ call.stage = calls[c].stage /\ call.commit = calls[c].commit
            BY <1>1 DEF OpenCall
        <2> QED BY <1>1, <1>3, <2>1 DEF QuietChange, CallsKnown, Known, Orphan, Call
    <1> QED BY <1>2, <1>3

QuietStep == NodeStep /\ CallsQuiet /\ UNCHANGED leaderVars

QuietNext ==
    \/ NodeLocal
    \/ EnqueueFinalize
    \/ \E r \in rows, c \in Calls : ClaimAndSend(r, c)
    \/ \E c \in Calls :
         Reply(c) \/ GiveUp(c) \/ Refuse(c) \/ AdmitCall(c) \/ BuildDuplicate(c) \/ BuildGap(c) \/ RaftLose(c)
    \/ Crash
    \/ UNCHANGED vars

\* A step that leaves the calls alone is quiet.
LEMMA UnchangedCallsAreQuiet ==
    ASSUME calls \in [Calls -> Call], CallsKnown, calls' = calls
    PROVE  CallsQuiet
    BY DEF CallsQuiet, CallsKnown

\* authorize_live_pod_metadata answers with a verdict.
LEMMA AdmitTypes ==
    ASSUME NEW command, NEW view
    PROVE  Admit(command, view) \in {"go"} \cup Terminal
    BY DEF Admit, Terminal

\* Which steps are quiet: everything but building a proposal, its commit and
\* the other changes of the cluster state.
LEMMA QuietSteps ==
    ASSUME TypeOK, Held, CallsKnown, QuietNext
    PROVE  QuietStep
    <1> USE DEF nodeUnchanged, leaderUnchanged
    <1>0. calls \in [Calls -> Call] BY DEF TypeOK
    <1>1. CASE NodeLocal
        BY <1>0, <1>1, UnchangedCallsAreQuiet DEF NodeLocal, NodeStep, QuietStep
    <1>2. CASE EnqueueFinalize
        BY <1>0, <1>2, UnchangedCallsAreQuiet DEF EnqueueFinalize, NodeStep, QuietStep
    <1>3. ASSUME NEW r \in rows, NEW c \in Calls, ClaimAndSend(r, c) PROVE QuietStep
        <2> DEFINE call == [stage |-> "sent", seq |-> r.seq, mine |-> TRUE, by |-> leader, commit |-> NoCommit]
        <2>1. r.seq \in Position /\ r.seq <= Len(cmd) /\ leader \in Servers
            BY DEF TypeOK, NodeTypeOK, Held, Row, LeaderTypeOK
        <2>2. NoCommit \in Commit BY DEF NoCommit, Commit, Answer
        <2>3. call \in OpenCall BY <2>1, <2>2 DEF OpenCall
        <2>4. QuietChange(c, call) BY <2>1, <2>3 DEF QuietChange, Known, Call
        <2>5. CallsQuiet BY <1>0, <1>3, <2>4, OneQuietChange DEF ClaimAndSend
        <2> QED BY <1>3, <2>5 DEF ClaimAndSend, NodeStep, QuietStep
    <1>4. ASSUME NEW c \in Calls, Reply(c) PROVE QuietStep
        <2>1. calls[c].commit.answer \in Answer
            BY <1>0, <1>4, OpenCalls DEF Reply, OpenCall, Commit
        <2>2. CallsQuiet BY <1>0, <1>4, NoCallIsQuiet, OneQuietChange DEF Reply
        <2> QED BY <1>4, <2>1, <2>2 DEF Reply, NodeStep, QuietStep
    <1>5. ASSUME NEW c \in Calls, GiveUp(c) PROVE QuietStep
        <2>1. calls[c] # NoCall BY <1>5 DEF GiveUp, NoCall
        <2>2. CallsQuiet BY <1>0, <1>5, <2>1, OrphanIsQuiet, OneQuietChange DEF GiveUp
        <2> QED BY <1>5, <2>2 DEF GiveUp, NodeStep, QuietStep, Answer
    <1>6. ASSUME NEW c \in Calls, Refuse(c) PROVE QuietStep
        <2>1. PICK answer \in Answer : calls' = Answered(c, answer)
            BY <1>6, RefusalAssumption DEF Refuse, Answer
        <2>2. calls[c].stage # "none" BY <1>6 DEF Refuse
        <2>3. CallsQuiet BY <1>0, <2>1, <2>2, AnsweredIsQuiet, OneQuietChange DEF Answered
        <2> QED BY <1>6, <2>3 DEF Refuse, NodeStep, QuietStep
    <1>7. ASSUME NEW c \in Calls, AdmitCall(c) PROVE QuietStep
        <2> DEFINE verdict == Admit(cmd[calls[c].seq], applied[leader])
                   call == [calls[c] EXCEPT !.stage = "admitted", !.commit = [calls[c].commit EXCEPT !.verdict = verdict]]
        <2>1. calls[c] \in OpenCall /\ calls[c].seq <= Len(cmd)
            BY <1>0, <1>7, OpenCalls DEF AdmitCall, AtLeader, CallsKnown, Known
        <2>2. verdict \in {"go"} \cup Terminal BY AdmitTypes
        <2> HIDE DEF verdict
        <2>3. [calls[c].commit EXCEPT !.verdict = verdict] \in Commit
            BY <2>1, <2>2 DEF OpenCall, Commit
        <2>4. call \in OpenCall /\ call.seq = calls[c].seq /\ call.stage = "admitted"
            BY <2>1, <2>3 DEF OpenCall
        <2>v. call.commit.verdict = verdict BY <2>1 DEF OpenCall, Commit
        <2>b. verdict = "go" => cmd[calls[c].seq].kind # "bad" BY DEF verdict, Admit
        <2>5. QuietChange(c, call) BY <2>1, <2>4, <2>v, <2>b DEF QuietChange, Known, Call
        <2>6. calls' = [calls EXCEPT ![c] = call]
            BY <1>0, <1>7, <2>1 DEF AdmitCall, verdict, OpenCall, Commit
        <2>7. CallsQuiet BY <1>0, <2>5, <2>6, OneQuietChange
        <2> QED BY <1>7, <2>7 DEF AdmitCall, NodeStep, QuietStep
    <1>8. ASSUME NEW c \in Calls, BuildDuplicate(c) PROVE QuietStep
        <2> DEFINE answer == IF calls[c].commit.verdict = "go" THEN "ok" ELSE calls[c].commit.verdict
        <2>1. calls[c] \in OpenCall /\ calls[c].stage # "none"
            BY <1>0, <1>8, OpenCalls DEF BuildDuplicate, AtLeader
        <2>2. answer \in Answer BY <2>1 DEF OpenCall, Commit, Answer
        <2>3. CallsQuiet
            BY <1>0, <1>8, <2>1, <2>2, AnsweredIsQuiet, OneQuietChange DEF BuildDuplicate, Answered
        <2> QED BY <1>8, <2>3 DEF BuildDuplicate, NodeStep, QuietStep
    <1>9. ASSUME NEW c \in Calls, BuildGap(c) \/ RaftLose(c) PROVE QuietStep
        <2>1. calls[c].stage # "none" BY <1>9 DEF BuildGap, RaftLose, AtLeader
        <2>2. "retry" \in Answer BY DEF Answer
        <2>3. CallsQuiet
            BY <1>0, <1>9, <2>1, <2>2, AnsweredIsQuiet, OneQuietChange DEF BuildGap, RaftLose, Answered
        <2> QED BY <1>9, <2>3 DEF BuildGap, RaftLose, NodeStep, QuietStep
    <1>10. CASE Crash
        <2>1. ASSUME NEW c \in Calls, calls[c].mine PROVE QuietChange(c, Orphan(calls[c]))
            <3>1. calls[c] # NoCall BY <2>1 DEF NoCall
            <3> QED BY <1>0, <3>1, OrphanIsQuiet
        <2>2. \A c \in Calls : QuietChange(c, calls'[c])
            BY <1>0, <1>10, <2>1 DEF Crash, QuietChange, CallsKnown
        <2>3. calls' \in [Calls -> Call]
            BY <1>0, <1>10, <2>2 DEF Crash, QuietChange
        <2>4. CallsQuiet BY <2>2, <2>3 DEF CallsQuiet, QuietChange
        <2> QED BY <1>10, <2>4 DEF Crash, NodeStep, QuietStep
    <1>11. CASE UNCHANGED vars
        BY <1>0, <1>11, UnchangedCallsAreQuiet DEF vars, NodeStep, QuietStep
    <1> QED BY <1>1, <1>2, <1>3, <1>4, <1>5, <1>6, <1>7, <1>8, <1>9, <1>10, <1>11 DEF QuietNext

\* The quiet steps keep the invariant: nothing is decided and the stream grows
\* at most at its end.
LEMMA QuietKeepsIInv ==
    ASSUME IInv, QuietStep
    PROVE  IInv'
    <1>1. NodeTypeOK' /\ Held' /\ CmdGrows
        BY NodeStepKeepsTypes DEF IInv, TypeOK, QuietStep
    <1>2. /\ Len(cmd) \in Nat /\ Len(cmd') \in Nat /\ Len(cmd) <= Len(cmd')
          /\ \A n \in 1..Len(cmd) : cmd'[n] = cmd[n] /\ cmd[n] \in Command
        BY <1>1, GrowthKeepsPositions DEF IInv, TypeOK, NodeTypeOK, Command
    <1>3. UNCHANGED <<head, applied, leader, elections, effects>>
        BY DEF QuietStep, leaderVars
    <1>4. TypeOK'
        BY <1>1, <1>3 DEF IInv, TypeOK, LeaderTypeOK, QuietStep, CallsQuiet
    <1>5. ASSUME NEW c \in Calls, calls'[c] # NoCall
          PROVE  calls'[c].seq \in 1..Len(cmd)
        <2>1. calls'[c].seq \in Position
            BY <1>4, <1>5 DEF TypeOK, Call, OpenCall
        <2> QED BY <1>2, <1>5, <2>1 DEF QuietStep, CallsQuiet, Known, Position
    <1>6. CallsKnown'
        BY <1>2, <1>5 DEF CallsKnown, Known, QuietStep, CallsQuiet
    <1>7. (head.wm <= Len(cmd))'
        BY <1>2, <1>3 DEF IInv, TypeOK, LeaderTypeOK, ClusterState
    <1>8. ASSUME NEW c \in Calls, calls'[c].stage = "proposed"
          PROVE  /\ calls[c].stage = "proposed" /\ calls'[c].seq = calls[c].seq
                 /\ calls'[c].commit = calls[c].commit
                 /\ cmd'[calls'[c].seq] = cmd[calls[c].seq]
        <2>1. calls'[c] # NoCall BY <1>8 DEF NoCall
        <2> QED BY <1>2, <1>5, <1>8, <2>1 DEF QuietStep, CallsQuiet
    <1>9. NoGapCommitted' BY <1>3, <1>8 DEF IInv, NoGapCommitted
    <1>10. ProposedSound'
        BY <1>3, <1>8 DEF IInv, ProposedSound, SoundCommit, Present
    <1>11. EffectsRecorded'
        <2>1. head.wm \in Nat BY DEF IInv, TypeOK, LeaderTypeOK, ClusterState
        <2>2. \A i \in 1..Len(effects) : effects[i] \in 1..Len(cmd)
            BY <1>2, <2>1 DEF IInv, EffectsRecorded
        <2> QED BY <1>2, <1>3, <2>2 DEF IInv, EffectsRecorded, Present
    <1>12. LedgerMatchesWatermark' /\ ViewsBehind' /\ EffectsInOrder' /\ NewestStatusShown'
        BY <1>3 DEF IInv, LedgerMatchesWatermark, ViewsBehind, Behind, EffectsInOrder, NewestStatusShown, Present
    <1> QED BY <1>1, <1>4, <1>6, <1>7, <1>9, <1>10, <1>11, <1>12 DEF IInv

------------------------------------------------------------------------------
(* Building a commit from a view that may lag.                               *)

\* What the build produces from a view that lags behind the head is sound at
\* the head: a status it mutates is newer than what the view has recorded.
LEMMA MaterializedSound ==
    ASSUME NEW view \in ClusterState, head \in ClusterState, Behind(view), NEW command \in Command,
           NEW verdict \in {"go"} \cup Terminal, verdict = "go" => command.kind # "bad",
           NEW m \in Materialized(command, verdict, view),
           NEW commit, commit = [effect |-> m.effect, exp |-> m.exp, answer |-> m.answer, verdict |-> verdict]
    PROVE  commit \in Commit /\ SoundCommit(command, commit)
    <1> USE DEF LedgerOnly, Mutates, Commit, Answer, SoundCommit
    <1>1. CASE verdict # "go"
        BY <1>1 DEF Materialized
    <1>2. CASE verdict = "go" /\ ~Present(view)
        <2>1. ~Present(head) BY <1>2 DEF Behind
        <2>2. m \in {LedgerOnly("ok"), LedgerOnly("notFound"), LedgerOnly("uidMismatch")}
            BY <1>2 DEF Materialized
        <2> QED BY <1>2, <2>1, <2>2 DEF Terminal
    <1>3. CASE verdict = "go" /\ Present(view)
        <2>0. m \in BuiltForPresentPod(command, view) BY <1>3 DEF Materialized
        <2>1. CASE command.kind = "status"
            <3>1. CASE command.stamp <= view.maxStamp
                <4>1. m = LedgerOnly("ok") BY <2>0, <2>1, <3>1 DEF BuiltForPresentPod, BuiltStatus
                <4>2. command.stamp <= head.maxStamp
                    BY <3>1 DEF Behind, ClusterState, Command
                <4> QED BY <1>3, <4>1, <4>2
            <3>2. CASE ~(command.stamp <= view.maxStamp)
                <4>1. m = Mutates("status", 0) BY <2>0, <2>1, <3>2 DEF BuiltForPresentPod, BuiltStatus
                <4> QED BY <1>3, <2>1, <4>1
            <3> QED BY <3>1, <3>2
        <2>2. CASE command.kind = "meta"
            <3>1. m \in {Mutates("meta", view.ver), Mutates("meta", 0), LedgerOnly("ok"), LedgerOnly("conflict")}
                BY <2>0, <2>2 DEF BuiltForPresentPod, BuiltMetadata
            <3>2. view.ver \in Nat BY DEF ClusterState
            <3> QED BY <1>3, <2>2, <3>1, <3>2 DEF Terminal
        <2>3. CASE command.kind \notin {"status", "meta"}
            <3>1. command.kind = "finalize"
                BY <1>3, <2>3, OutboxAssumption DEF Command, Kind
            <3>2. m \in {LedgerOnly("conflict"), Mutates("finalize", 0), LedgerOnly("ok")}
                BY <2>0, <3>1 DEF BuiltForPresentPod, BuiltFinalization
            <3> QED BY <1>3, <3>1, <3>2 DEF Terminal
        <2> QED BY <2>1, <2>2, <2>3
    <1> QED BY <1>1, <1>2, <1>3

\* Handing a commit to raft: its position is at most the next one, because the
\* view it was built from is behind the head.
LEMMA BuildKeepsIInv ==
    ASSUME IInv, NEW c \in Calls, BuildCommit(c)
    PROVE  IInv'
    <1> DEFINE view == applied[leader]
               n == calls[c].seq
               verdict == calls[c].commit.verdict
    <1>1. calls \in [Calls -> Call] /\ calls[c].stage = "admitted"
        BY DEF IInv, TypeOK, BuildCommit, AtLeader
    <1>2. /\ calls[c] \in OpenCall /\ calls[c] # NoCall
          /\ n <= Len(cmd) /\ (verdict = "go" => cmd[n].kind # "bad")
        BY <1>1, OpenCalls DEF IInv, CallsKnown, Known
    <1>3. /\ view \in ClusterState /\ head \in ClusterState /\ Behind(view)
          /\ view.wm \in Nat /\ head.wm \in Nat /\ view.wm <= head.wm
        BY DEF IInv, TypeOK, LeaderTypeOK, ViewsBehind, Behind, ClusterState
    <1>4. n \in 1..Len(cmd) /\ cmd[n] \in Command
        <2>1. cmd \in Seq(Command) BY DEF IInv, TypeOK, NodeTypeOK, Command
        <2>2. n \in 1..Len(cmd) BY <1>2, <2>1, LenProperties DEF OpenCall, Position
        <2> QED BY <2>1, <2>2, ElementOfSeq
    <1>5. n <= head.wm + 1
        BY <1>3, <1>4 DEF BuildCommit, StreamGap, AlreadyApplied
    <1>6. PICK m \in Materialized(cmd[n], verdict, view) :
            calls' = [calls EXCEPT ![c].stage = "proposed",
                        ![c].commit = [effect |-> m.effect, exp |-> m.exp, answer |-> m.answer,
                                       verdict |-> verdict]]
        BY DEF BuildCommit
    <1> DEFINE commit == [effect |-> m.effect, exp |-> m.exp, answer |-> m.answer, verdict |-> verdict]
               call == [calls[c] EXCEPT !.stage = "proposed", !.commit = commit]
    <1>7. commit \in Commit /\ SoundCommit(cmd[n], commit)
        <2>1. verdict \in {"go"} \cup Terminal BY <1>2 DEF OpenCall, Commit
        <2> QED BY <1>2, <1>3, <1>4, <2>1, MaterializedSound
    <1> HIDE DEF commit
    <1>8. call \in OpenCall /\ call.seq = n /\ call.stage = "proposed" /\ call.commit = commit
        BY <1>2, <1>7 DEF OpenCall
    <1>9. calls' = [calls EXCEPT ![c] = call]
        BY <1>1, <1>2, <1>6 DEF commit, OpenCall
    <1>10. calls' \in [Calls -> Call] /\ \A d \in Calls : calls'[d] = IF d = c THEN call ELSE calls[d]
        BY <1>1, <1>8, <1>9 DEF Call
    <1>11. UNCHANGED <<nodeVars, leaderVars>> BY DEF BuildCommit, nodeUnchanged, leaderUnchanged
    <1>12. TypeOK' /\ Held'
        BY <1>10, <1>11 DEF IInv, TypeOK, NodeTypeOK, LeaderTypeOK, Held, nodeVars, leaderVars
    <1>u. cmd' = cmd /\ head' = head BY <1>11 DEF nodeVars, leaderVars
    <1>13. ASSUME NEW d \in Calls
           PROVE  /\ Known(calls[d])'
                  /\ calls'[d].stage = "proposed" => calls'[d].seq <= head'.wm + 1
                  /\ calls'[d].stage = "proposed" => SoundCommit(cmd[calls[d].seq], calls[d].commit)'
        <2>1. CASE d = c
            <3>0. calls'[d] = call BY <1>10, <2>1
            <3> HIDE DEF call
            <3>1. calls'[d].seq = n /\ calls'[d].commit = commit /\ calls'[d].stage = "proposed"
                BY <1>8, <3>0
            <3>c. cmd'[calls'[d].seq] = cmd[n] BY <1>u, <3>1
            <3>2. SoundCommit(cmd[calls[d].seq], calls[d].commit)'
                BY <1>7, <1>u, <3>1, <3>c DEF SoundCommit, Present
            <3> QED BY <1>2, <1>5, <1>u, <3>1, <3>2 DEF Known
        <2>2. CASE d # c
            <3>1. calls'[d] = calls[d] BY <1>10, <2>2
            <3> QED BY <1>u, <3>1 DEF IInv, CallsKnown, Known, NoGapCommitted, ProposedSound, SoundCommit
        <2> QED BY <2>1, <2>2
    <1>14. CallsKnown' /\ NoGapCommitted' BY <1>13 DEF CallsKnown, NoGapCommitted
    <1>15. ProposedSound' BY <1>13 DEF ProposedSound
    <1>16. /\ LedgerMatchesWatermark' /\ ViewsBehind' /\ EffectsRecorded' /\ EffectsInOrder'
           /\ NewestStatusShown' /\ (head.wm <= Len(cmd))'
        BY <1>11 DEF IInv, LedgerMatchesWatermark, ViewsBehind, Behind, EffectsRecorded, EffectsInOrder,
                     NewestStatusShown, Present, nodeVars, leaderVars
    <1> QED BY <1>12, <1>14, <1>15, <1>16 DEF IInv

------------------------------------------------------------------------------
(* The head moves on.                                                        *)

\* Decisions and stamps are never taken back and a Pod that is gone stays gone.
HeadAdvances ==
    /\ head' \in ClusterState
    /\ head.wm <= head'.wm
    /\ head.maxStamp <= head'.maxStamp
    /\ Present(head') => Present(head)

\* A head that moves forward stays ahead of every server's view.
LEMMA AdvanceKeepsViews ==
    ASSUME IInv, HeadAdvances, head'.ledger = 1..head'.wm,
           NEW s \in Servers, applied' = [applied EXCEPT ![s] = head']
    PROVE  /\ LedgerMatchesWatermark' /\ ViewsBehind'
           /\ applied' \in [Servers -> ClusterState]
    <1>1. head \in ClusterState /\ applied \in [Servers -> ClusterState]
        BY DEF IInv, TypeOK, LeaderTypeOK
    <1>2. applied' \in [Servers -> ClusterState]
          /\ \A t \in Servers : applied'[t] = IF t = s THEN head' ELSE applied[t]
        BY <1>1 DEF HeadAdvances
    <1>3. LedgerMatchesWatermark'
        BY <1>2 DEF IInv, LedgerMatchesWatermark
    <1>4. ASSUME NEW t \in Servers PROVE Behind(applied[t])'
        <2>1. CASE t = s
            BY <1>2, <2>1 DEF Behind, HeadAdvances, ClusterState
        <2>2. CASE t # s
            <3>1. applied'[t] = applied[t] /\ applied[t] \in ClusterState BY <1>1, <1>2, <2>2
            <3>2. Behind(applied[t]) BY DEF IInv, ViewsBehind
            <3> QED BY <1>1, <3>1, <3>2 DEF Behind, HeadAdvances, ClusterState, Present
        <2> QED BY <2>1, <2>2
    <1> QED BY <1>2, <1>3, <1>4 DEF ViewsBehind

\* A head that moves forward keeps the proposals in flight sound and gap-free.
LEMMA AdvanceKeepsProposals ==
    ASSUME IInv, HeadAdvances, CallsQuiet, cmd' = cmd
    PROVE  CallsKnown' /\ NoGapCommitted' /\ ProposedSound'
    <1>1. CallsKnown' BY DEF CallsKnown, Known, CallsQuiet
    <1>2. head \in ClusterState /\ head' \in ClusterState
          /\ head.wm \in Nat /\ head'.wm \in Nat /\ head.maxStamp \in Nat /\ head'.maxStamp \in Nat
        BY DEF IInv, TypeOK, LeaderTypeOK, HeadAdvances, ClusterState
    <1>3. ASSUME NEW c \in Calls, calls'[c].stage = "proposed"
          PROVE  /\ calls[c].stage = "proposed" /\ calls'[c].seq = calls[c].seq
                 /\ calls'[c].commit = calls[c].commit
                 /\ calls[c].seq \in 1..Len(cmd) /\ cmd[calls[c].seq] \in Command
        <2>1. calls[c].stage = "proposed" /\ calls'[c].seq = calls[c].seq /\ calls'[c].commit = calls[c].commit
            BY <1>3 DEF CallsQuiet
        <2>2. calls[c] \in OpenCall /\ calls[c] # NoCall
            BY <2>1, OpenCalls DEF IInv, TypeOK
        <2>3. cmd \in Seq(Command) BY DEF IInv, TypeOK, NodeTypeOK, Command
        <2>4. calls[c].seq \in 1..Len(cmd)
            BY <2>2, <2>3, LenProperties DEF IInv, CallsKnown, Known, OpenCall, Position
        <2> QED BY <2>1, <2>3, <2>4, ElementOfSeq
    <1>4. NoGapCommitted'
        <2>1. ASSUME NEW c \in Calls, calls'[c].stage = "proposed" PROVE calls'[c].seq <= head'.wm + 1
            <3>1. calls[c].seq <= head.wm + 1 BY <1>3, <2>1 DEF IInv, NoGapCommitted
            <3>2. calls[c].seq \in Nat BY <1>3, <2>1
            <3> QED BY <1>2, <1>3, <2>1, <3>1, <3>2 DEF HeadAdvances
        <2> QED BY <2>1 DEF NoGapCommitted
    <1>5. ProposedSound'
        <2>1. ASSUME NEW c \in Calls, calls'[c].stage = "proposed"
              PROVE  SoundCommit(cmd[calls[c].seq], calls[c].commit)'
            <3>1. SoundCommit(cmd[calls[c].seq], calls[c].commit)
                BY <1>3, <2>1 DEF IInv, ProposedSound
            <3>2. cmd[calls[c].seq].stamp \in Nat BY <1>3, <2>1 DEF Command
            <3>3. cmd'[calls'[c].seq] = cmd[calls[c].seq] /\ calls'[c].commit = calls[c].commit
                BY <1>3, <2>1
            <3> QED BY <1>2, <3>1, <3>2, <3>3 DEF SoundCommit, HeadAdvances
        <2> QED BY <2>1 DEF ProposedSound
    <1> QED BY <1>1, <1>4, <1>5

\* Consuming the next position: what the new head records and shows.
LEMMA ConsumeFacts ==
    ASSUME head \in ClusterState, head.ledger = 1..head.wm, NewestStatusShown,
           NEW command \in Command, NEW commit \in Commit, SoundCommit(command, commit),
           NEW n \in Nat, n = head.wm + 1, head' = Consume(n, command, commit, head)
    PROVE  /\ HeadAdvances
           /\ head'.wm = n /\ head'.ledger = 1..head'.wm
           /\ NewestStatusShown'
           /\ TakesEffect(command, commit, head) =>
                /\ Present(head)
                /\ command.kind = "status" => head.maxStamp < command.stamp /\ command.stamp <= head'.maxStamp
                /\ command.kind = "finalize" => ~Present(head')
    <1> DEFINE effect == TakesEffect(command, commit, head)
               stamp  == StampRecorded(command, commit)
    <1>1. /\ head.wm \in Nat /\ head.ledger \subseteq Nat /\ head.failed \subseteq Nat
          /\ head.pod \in PodState /\ head.maxStamp \in Nat /\ head.shown \in Nat /\ head.ver \in Nat
        BY DEF ClusterState
    <1>2. command.stamp \in Nat /\ stamp \in Nat BY DEF Command, StampRecorded
    <1>3. /\ head'.wm = n
          /\ head'.ledger = head.ledger \cup {n}
          /\ head'.failed \subseteq head.failed \cup {n}
          /\ head'.pod = IF effect /\ commit.effect = "finalize" THEN "absent" ELSE head.pod
          /\ head'.maxStamp = IF stamp > head.maxStamp THEN stamp ELSE head.maxStamp
          /\ head'.shown = IF effect /\ commit.effect = "status" THEN command.stamp ELSE head.shown
          /\ head'.ver \in {head.ver, head.ver + 1}
          /\ head' = [wm |-> head'.wm, ledger |-> head'.ledger, failed |-> head'.failed, pod |-> head'.pod,
                      maxStamp |-> head'.maxStamp, shown |-> head'.shown, ver |-> head'.ver]
        BY DEF Consume
    <1>4. head'.ledger = 1..head'.wm
        <2>1. (1..head.wm) \cup {head.wm + 1} = 1..(head.wm + 1) BY <1>1
        <2> QED BY <1>3, <2>1
    <1>5. effect => Present(head) BY DEF TakesEffect, Present
    <1>6. /\ effect => commit.effect = command.kind /\ commit.verdict = "go"
          /\ effect /\ command.kind = "status" => stamp = command.stamp /\ head.maxStamp < command.stamp
        BY <1>1, <1>2 DEF TakesEffect, SoundCommit, StampRecorded, StaleStamp
    <1> HIDE DEF effect, stamp
    <1>7. head' \in ClusterState BY <1>1, <1>2, <1>3 DEF ClusterState, PodState
    <1>8. Present(head') => Present(head) BY <1>3 DEF Present
    <1>9. HeadAdvances BY <1>1, <1>2, <1>3, <1>7, <1>8 DEF HeadAdvances
    <1>10. Present(head') => head'.shown = head'.maxStamp
        <2> SUFFICES ASSUME Present(head') PROVE head'.shown = head'.maxStamp OBVIOUS
        <2>1. head.shown = head.maxStamp /\ Present(head) BY <1>8 DEF NewestStatusShown
        <2>2. CASE effect /\ command.kind = "status"
            BY <1>1, <1>2, <1>3, <1>6, <2>2
        <2>3. CASE effect /\ command.kind # "status"
            <3>1. stamp = 0 BY <2>3 DEF stamp, StampRecorded
            <3> QED BY <1>1, <1>3, <1>6, <2>1, <2>3, <3>1
        <2>4. CASE ~effect
            <3>1. stamp <= head.maxStamp
                BY <1>1, <1>2, <2>1, <2>4 DEF stamp, effect, StampRecorded, SoundCommit, TakesEffect, StaleStamp, Command, Commit
            <3> QED BY <1>1, <1>2, <1>3, <2>1, <2>4, <3>1
        <2> QED BY <2>2, <2>3, <2>4
    <1>11. effect => /\ command.kind = "status" => head.maxStamp < command.stamp /\ command.stamp <= head'.maxStamp
                     /\ command.kind = "finalize" => ~Present(head')
        <2>1. effect /\ command.kind = "status" => command.stamp <= head'.maxStamp
            BY <1>1, <1>2, <1>3, <1>6
        <2>2. effect /\ command.kind = "finalize" => ~Present(head')
            BY <1>3, <1>6 DEF Present
        <2> QED BY <1>6, <2>1, <2>2
    <1> QED BY <1>3, <1>4, <1>5, <1>9, <1>10, <1>11 DEF effect, NewestStatusShown

\* A committed entry is either known already or decides the next position.
LEMMA CommittedPosition ==
    ASSUME IInv, NEW c \in Calls, calls[c].stage = "proposed"
    PROVE  /\ calls[c].seq \in 1..Len(cmd) /\ cmd[calls[c].seq] \in Command
           /\ calls[c].commit \in Commit /\ calls[c].by \in Servers
           /\ SoundCommit(cmd[calls[c].seq], calls[c].commit)
           /\ Duplicate(calls[c].seq, head) \/ calls[c].seq = head.wm + 1
    <1>1. calls[c] \in OpenCall /\ calls[c].seq <= Len(cmd)
        BY OpenCalls DEF IInv, TypeOK, CallsKnown, Known
    <1>2. cmd \in Seq(Command) BY DEF IInv, TypeOK, NodeTypeOK, Command
    <1>3. calls[c].seq \in 1..Len(cmd) BY <1>1, <1>2, LenProperties DEF OpenCall, Position
    <1>4. cmd[calls[c].seq] \in Command BY <1>2, <1>3, ElementOfSeq
    <1>5. SoundCommit(cmd[calls[c].seq], calls[c].commit) BY DEF IInv, ProposedSound
    <1>6. Duplicate(calls[c].seq, head) \/ calls[c].seq = head.wm + 1
        <2>1. calls[c].seq <= head.wm + 1 /\ head.wm \in Nat
            BY DEF IInv, NoGapCommitted, TypeOK, LeaderTypeOK, ClusterState
        <2> QED BY <1>3, <2>1 DEF Duplicate
    <1> QED BY <1>1, <1>3, <1>4, <1>5, <1>6 DEF OpenCall

\* Applying a committed outbox entry keeps the invariant.
LEMMA CommitKeepsIInv ==
    ASSUME IInv, NEW c \in Calls, RaftCommit(c)
    PROVE  IInv'
    <1> DEFINE n == calls[c].seq
               command == cmd[n]
               commit == calls[c].commit
               server == calls[c].by
    <1>1. calls[c].stage = "proposed" BY DEF RaftCommit
    <1>2. /\ n \in 1..Len(cmd) /\ n \in Nat /\ command \in Command /\ commit \in Commit /\ server \in Servers
          /\ SoundCommit(command, commit)
          /\ Duplicate(n, head) \/ n = head.wm + 1
        BY <1>1, CommittedPosition
    <1>3. UNCHANGED <<cmd, rows, dead, ids, lastStamp, drawn, replaying, disp, crashes>>
        BY DEF RaftCommit, nodeUnchanged, nodeVars
    <1>4. CommitEntry(n, command, commit, server) BY DEF RaftCommit
    <1>5. /\ head \in ClusterState /\ head.ledger = 1..head.wm /\ head.wm \in Nat /\ head.wm <= Len(cmd)
          /\ effects \in Seq(Nat) /\ Len(cmd) \in Nat
        <2>1. Len(cmd) \in Nat BY LenProperties DEF IInv, TypeOK, NodeTypeOK
        <2>2. head.ledger = 1..head.wm BY DEF IInv, LedgerMatchesWatermark
        <2> QED BY <2>1, <2>2 DEF IInv, TypeOK, LeaderTypeOK, ClusterState
    <1>6. CallsQuiet
        <2>1. PICK answer \in {ProposalAnswer(n, command, commit, head), "retry"} : calls' = Answered(c, answer)
            BY DEF RaftCommit
        <2>2. ProposalAnswer(n, command, commit, head) \in Answer
            BY <1>2 DEF ProposalAnswer, Commit, Answer, Terminal
        <2>3. answer \in Answer BY <2>1, <2>2 DEF Answer
        <2>4. calls \in [Calls -> Call] /\ CallsKnown /\ calls[c].stage # "none"
            BY <1>1 DEF IInv, TypeOK
        <2> QED BY <2>1, <2>3, <2>4, AnsweredIsQuiet, OneQuietChange DEF Answered
    <1> HIDE DEF n, command, commit, server
    <1>7. applied' = [applied EXCEPT ![server] = head'] /\ UNCHANGED <<leader, elections>>
        BY <1>4 DEF CommitEntry
    <1>8. CASE Duplicate(n, head)
        <2>1. head' = head /\ effects' = effects BY <1>4, <1>8 DEF CommitEntry, Apply
        <2>2. HeadAdvances BY <1>5, <2>1 DEF HeadAdvances, ClusterState
        <2>3. LedgerMatchesWatermark' /\ ViewsBehind' /\ applied' \in [Servers -> ClusterState]
            BY <1>2, <1>5, <1>7, <2>1, <2>2, AdvanceKeepsViews
        <2>4. CallsKnown' /\ NoGapCommitted' /\ ProposedSound'
            BY <1>3, <1>6, <2>2, AdvanceKeepsProposals
        <2>5. TypeOK' /\ Held'
            BY <1>3, <1>6, <1>7, <2>1, <2>3 DEF IInv, TypeOK, NodeTypeOK, LeaderTypeOK, Held, CallsQuiet
        <2>6. EffectsRecorded' /\ EffectsInOrder' /\ NewestStatusShown' /\ (head.wm <= Len(cmd))'
            BY <1>3, <2>1 DEF IInv, EffectsRecorded, EffectsInOrder, NewestStatusShown, Present
        <2> QED BY <2>3, <2>4, <2>5, <2>6 DEF IInv
    <1>9. CASE ~Duplicate(n, head)
        <2> DEFINE effect == TakesEffect(command, commit, head)
        <2>0. n = head.wm + 1 BY <1>2, <1>9
        <2>1. head' = Consume(n, command, commit, head) /\ effects' = IF effect THEN Append(effects, n) ELSE effects
            BY <1>4, <1>9 DEF CommitEntry, Apply
        <2>2. /\ HeadAdvances
              /\ head'.wm = n /\ head'.ledger = 1..head'.wm
              /\ NewestStatusShown'
              /\ effect =>
                   /\ Present(head)
                   /\ command.kind = "status" => head.maxStamp < command.stamp /\ command.stamp <= head'.maxStamp
                   /\ command.kind = "finalize" => ~Present(head')
            BY <1>2, <1>5, <2>0, <2>1, ConsumeFacts DEF IInv
        <2> HIDE DEF effect
        <2>3. LedgerMatchesWatermark' /\ ViewsBehind' /\ applied' \in [Servers -> ClusterState]
            BY <1>2, <1>7, <2>2, AdvanceKeepsViews
        <2>4. CallsKnown' /\ NoGapCommitted' /\ ProposedSound'
            BY <1>3, <1>6, <2>2, AdvanceKeepsProposals
        <2>5. effects' \in Seq(Nat) BY <1>2, <1>5, <2>1, AppendProperties
        <2>6. TypeOK' /\ Held'
            BY <1>3, <1>6, <1>7, <2>2, <2>3, <2>5 DEF IInv, TypeOK, NodeTypeOK, LeaderTypeOK, Held, CallsQuiet, HeadAdvances
        <2>7. ASSUME NEW i \in 1..Len(effects)
              PROVE  /\ effects[i] \in 1..head.wm /\ effects[i] \in 1..head'.wm
                     /\ cmd[effects[i]].kind = "status" => cmd[effects[i]].stamp <= head'.maxStamp
                     /\ cmd[effects[i]].kind = "finalize" => ~Present(head')
            <3>1. /\ effects[i] \in 1..head.wm
                  /\ cmd[effects[i]].kind = "status" => cmd[effects[i]].stamp <= head.maxStamp
                  /\ cmd[effects[i]].kind = "finalize" => ~Present(head)
                BY DEF IInv, EffectsRecorded
            <3>2. cmd[effects[i]] \in Command
                <4>1. cmd \in Seq(Command) BY DEF IInv, TypeOK, NodeTypeOK, Command
                <4>2. effects[i] \in 1..Len(cmd) BY <1>5, <3>1
                <4> QED BY <4>1, <4>2, ElementOfSeq
            <3>3. cmd[effects[i]].kind = "status" => cmd[effects[i]].stamp <= head'.maxStamp
                BY <1>5, <2>2, <3>1, <3>2 DEF HeadAdvances, ClusterState, Command
            <3>4. effects[i] \in 1..head'.wm BY <1>2, <1>5, <2>0, <2>2, <3>1
            <3> QED BY <2>2, <3>1, <3>3, <3>4 DEF HeadAdvances
        <2>8. EffectsRecorded' /\ EffectsInOrder'
            <3>1. CASE ~effect
                <4>1. effects' = effects BY <2>1, <3>1
                <4> QED BY <1>3, <2>7, <4>1 DEF IInv, EffectsRecorded, EffectsInOrder
            <3>2. CASE effect
                <4>1. /\ Len(effects') = Len(effects) + 1 /\ Len(effects) \in Nat
                      /\ \A i \in 1..Len(effects) : effects'[i] = effects[i]
                      /\ effects'[Len(effects) + 1] = n
                    BY <1>2, <1>5, <2>1, <3>2, AppendProperties, LenProperties
                <4>2. /\ n \in 1..head'.wm
                      /\ cmd'[n].kind = "status" => cmd'[n].stamp <= head'.maxStamp
                      /\ cmd'[n].kind = "finalize" => ~Present(head')
                    BY <1>2, <1>3, <2>2, <3>2 DEF command
                <4>3. \A i \in 1..Len(effects') : i \in 1..Len(effects) \/ i = Len(effects) + 1
                    BY <4>1
                <4>4. EffectsRecorded'
                    BY <1>3, <2>7, <4>1, <4>2, <4>3 DEF EffectsRecorded
                <4>5. EffectsInOrder'
                    <5>1. ASSUME NEW i \in 1..Len(effects'), NEW j \in 1..Len(effects'), i < j
                          PROVE  effects'[i] < effects'[j]
                        <6>1. i \in 1..Len(effects) BY <4>1, <4>3, <5>1
                        <6>2. CASE j \in 1..Len(effects)
                            BY <4>1, <5>1, <6>1, <6>2 DEF IInv, EffectsInOrder
                        <6>3. CASE j = Len(effects) + 1
                            BY <1>5, <2>0, <2>7, <4>1, <6>1, <6>3
                        <6> QED BY <4>3, <6>2, <6>3
                    <5> QED BY <5>1 DEF EffectsInOrder
                <4> QED BY <4>4, <4>5
            <3> QED BY <3>1, <3>2
        <2>9. (head.wm <= Len(cmd))' BY <1>2, <1>3, <2>2
        <2> QED BY <2>2, <2>3, <2>4, <2>6, <2>8, <2>9 DEF IInv
    <1> QED BY <1>8, <1>9

\* Elections, other writers of the Pod and replication: no decision is made.
LeaderNext ==
    \/ \E s \in Servers : ElectLeader(s)
    \/ LeaderLocal

\* Writes of the Pod by others move the head forward without showing a status.
LEMMA OtherWriteAdvances ==
    ASSUME head \in ClusterState, NewestStatusShown, NEW next \in PodState, NEW s \in Servers, OtherWrite(next, s)
    PROVE  /\ HeadAdvances
           /\ head'.wm = head.wm /\ head'.ledger = head.ledger /\ head'.maxStamp = head.maxStamp
           /\ NewestStatusShown'
    <1> DEFINE ver == IF Present(head) THEN head.ver + 1 ELSE head.ver
    <1>v. ver \in Nat BY DEF ClusterState
    <1>w. head' = [head EXCEPT !.pod = next, !.ver = ver] BY DEF OtherWrite
    <1> HIDE DEF ver
    <1>1. /\ head'.wm = head.wm /\ head'.ledger = head.ledger /\ head'.maxStamp = head.maxStamp
          /\ head'.shown = head.shown /\ head'.pod = next
          /\ head' \in ClusterState
        BY <1>v, <1>w DEF ClusterState
    <1>2. Present(head') => Present(head)
        BY <1>1 DEF OtherWrite, PodTransitions, Present
    <1>3. HeadAdvances BY <1>1, <1>2 DEF HeadAdvances, ClusterState
    <1> QED BY <1>1, <1>2, <1>3 DEF NewestStatusShown

\* Other writes, catching up and elections keep the invariant.
LEMMA LeaderStepKeepsIInv ==
    ASSUME IInv, LeaderNext
    PROVE  IInv' /\ cmd' = cmd /\ effects' = effects /\ head'.wm = head.wm
    <1>0. /\ UNCHANGED <<cmd, rows, dead, ids, lastStamp, drawn, replaying, disp, crashes, calls, effects>>
          /\ head \in ClusterState /\ applied \in [Servers -> ClusterState]
          /\ calls \in [Calls -> Call]
        BY DEF IInv, TypeOK, LeaderTypeOK, LeaderNext, LeaderLocal, ElectLeader, Elect, OtherWrite, CatchUp, nodeVars
    <1>1. CallsQuiet BY <1>0, UnchangedCallsAreQuiet DEF IInv
    <1>2. Held' /\ NodeTypeOK' BY <1>0 DEF IInv, TypeOK, NodeTypeOK, Held
    <1>3. ASSUME NEW s \in Servers, ElectLeader(s) PROVE IInv' /\ head' = head
        <2>1. UNCHANGED <<head, applied>> BY <1>3 DEF ElectLeader, Elect
        <2>2. leader' \in Servers /\ elections' \in 0..MaxElections
            BY <1>3, ServersAssumption DEF ElectLeader, Elect, IInv, TypeOK, LeaderTypeOK
        <2>3. TypeOK' BY <1>0, <1>2, <2>1, <2>2 DEF IInv, TypeOK, LeaderTypeOK
        <2> QED BY <1>0, <1>2, <2>1, <2>3 DEF IInv, CallsKnown, Known, LedgerMatchesWatermark, ViewsBehind,
                Behind, NoGapCommitted, ProposedSound, SoundCommit, EffectsRecorded, EffectsInOrder, NewestStatusShown, Present
    <1>4. ASSUME NEW s \in Servers, HeadAdvances, head'.ledger = 1..head'.wm, head'.wm = head.wm,
                 head'.maxStamp = head.maxStamp, NewestStatusShown',
                 applied' = [applied EXCEPT ![s] = head'], UNCHANGED <<leader, elections>>
          PROVE  IInv'
        <2>1. LedgerMatchesWatermark' /\ ViewsBehind' /\ applied' \in [Servers -> ClusterState]
            BY <1>4, AdvanceKeepsViews
        <2>2. CallsKnown' /\ NoGapCommitted' /\ ProposedSound'
            BY <1>0, <1>1, <1>4, AdvanceKeepsProposals
        <2>3. TypeOK' BY <1>0, <1>2, <1>4, <2>1 DEF IInv, TypeOK, LeaderTypeOK, HeadAdvances
        <2>4. EffectsRecorded' /\ EffectsInOrder' /\ (head.wm <= Len(cmd))'
            BY <1>0, <1>4 DEF IInv, EffectsRecorded, EffectsInOrder, HeadAdvances
        <2> QED BY <1>2, <1>4, <2>1, <2>2, <2>3, <2>4 DEF IInv
    <1>5. ASSUME NEW next \in PodState, NEW s \in Servers, OtherWrite(next, s) PROVE IInv' /\ head'.wm = head.wm
        <2>1. head.ledger = 1..head.wm BY DEF IInv, LedgerMatchesWatermark
        <2>2. applied' = [applied EXCEPT ![s] = head'] /\ UNCHANGED <<leader, elections>>
            BY <1>5 DEF OtherWrite
        <2>3. /\ HeadAdvances
              /\ head'.wm = head.wm /\ head'.ledger = head.ledger /\ head'.maxStamp = head.maxStamp
              /\ NewestStatusShown'
            BY <1>0, <1>5, OtherWriteAdvances DEF IInv
        <2> QED BY <1>4, <2>1, <2>2, <2>3
    <1>6. ASSUME NEW s \in Servers, CatchUp(s) PROVE IInv' /\ head'.wm = head.wm
        <2>1. head' = head /\ head.ledger = 1..head.wm BY <1>6 DEF CatchUp, IInv, LedgerMatchesWatermark
        <2>2. HeadAdvances BY <1>0, <2>1 DEF HeadAdvances, ClusterState
        <2>3. NewestStatusShown' BY <2>1 DEF IInv, NewestStatusShown, Present
        <2>4. applied' = [applied EXCEPT ![s] = head'] /\ UNCHANGED <<leader, elections>>
            BY <1>6, <2>1 DEF CatchUp
        <2> QED BY <1>4, <2>1, <2>2, <2>3, <2>4
    <1> QED BY <1>0, <1>3, <1>5, <1>6 DEF LeaderNext, LeaderLocal

------------------------------------------------------------------------------
(* The invariant and what follows from it.                                   *)

\* The empty outbox and the live Pod satisfy the invariant.
LEMMA InitEstablishesIInv == Init => IInv
    <1> SUFFICES ASSUME Init PROVE IInv OBVIOUS
    <1> USE DEF Init, NodeInit, LeaderInit
    <1>1. cmd = <<>> /\ cmd \in Seq(Command) /\ Len(cmd) = 0 /\ effects \in Seq(Nat) /\ Len(effects) = 0
        BY EmptySeq
    <1>2. NodeTypeOK /\ Held
        BY <1>1, OutboxAssumption DEF NodeTypeOK, Held, Dispatch, NoReplay, Command
    <1>3. EmptyState \in ClusterState BY DEF EmptyState, ClusterState, PodState
    <1>4. LeaderTypeOK BY <1>1, <1>3, ServersAssumption DEF LeaderTypeOK
    <1>5. calls \in [Calls -> Call] /\ \A c \in Calls : calls[c] = NoCall BY DEF Call
    <1>6. CallsKnown /\ NoGapCommitted /\ ProposedSound
        BY <1>5 DEF CallsKnown, Known, NoGapCommitted, ProposedSound, NoCall
    <1>7. head.wm = 0 /\ head.ledger = 1..head.wm /\ head.shown = head.maxStamp /\ head.maxStamp = 0
        BY DEF EmptyState
    <1>8. LedgerMatchesWatermark /\ ViewsBehind
        <2>1. \A s \in Servers : applied[s] = head OBVIOUS
        <2>2. LedgerMatchesWatermark BY <1>7, <2>1 DEF LedgerMatchesWatermark
        <2>3. ViewsBehind BY <1>7, <2>1 DEF ViewsBehind, Behind, Present
        <2> QED BY <2>2, <2>3
    <1>9. EffectsRecorded /\ EffectsInOrder BY <1>1 DEF EffectsRecorded, EffectsInOrder
    <1>10. NewestStatusShown BY <1>7 DEF NewestStatusShown
    <1> QED BY <1>1, <1>2, <1>4, <1>5, <1>6, <1>7, <1>8, <1>9, <1>10 DEF IInv, TypeOK

\* Every step keeps the invariant: quiet, building, committing, or the leader's.
LEMMA NextKeepsIInv == IInv /\ [Next]_vars => IInv'
    <1> SUFFICES ASSUME IInv, [Next]_vars PROVE IInv' OBVIOUS
    <1>1. CASE QuietNext
        <2>1. QuietStep BY <1>1, QuietSteps DEF IInv
        <2> QED BY <2>1, QuietKeepsIInv
    <1>2. ASSUME NEW c \in Calls, BuildCommit(c) PROVE IInv' BY <1>2, BuildKeepsIInv
    <1>3. ASSUME NEW c \in Calls, RaftCommit(c) PROVE IInv' BY <1>3, CommitKeepsIInv
    <1>4. CASE LeaderNext BY <1>4, LeaderStepKeepsIInv
    <1> QED BY <1>1, <1>2, <1>3, <1>4 DEF Next, CallStep, QuietNext, LeaderNext

\* For every instance: the inductive invariant.
THEOREM DeliveryInvariant == Spec => []IInv
    BY InitEstablishesIInv, NextKeepsIInv, PTL DEF Spec

\* For every instance: the state of worker, control plane and calls is well
\* formed; attempts never pass MAX_OUTBOX_ATTEMPTS.
THEOREM DeliveryTypes == Spec => []TypeOK
    <1>1. IInv => TypeOK BY DEF IInv
    <1> QED BY <1>1, DeliveryInvariant, PTL

\* For every instance: public effects happen at most once each, in the order
\* the worker enqueued them.
THEOREM EffectsAlwaysInOrder == Spec => []EffectsInOrder
    <1>1. IInv => EffectsInOrder BY DEF IInv
    <1> QED BY <1>1, DeliveryInvariant, PTL

\* For every instance: no replica can meet a gap when it applies a committed
\* outbox position, so the fatal branch of the apply is unreachable.
THEOREM GapNeverCommitted == Spec => []NoGapCommitted
    <1>1. IInv => NoGapCommitted BY DEF IInv
    <1> QED BY <1>1, DeliveryInvariant, PTL

\* For every instance: ledger and watermark agree on the head and on every
\* lagging server.
THEOREM LedgerAlwaysMatches == Spec => []LedgerMatchesWatermark
    <1>1. IInv => LedgerMatchesWatermark BY DEF IInv
    <1> QED BY <1>1, DeliveryInvariant, PTL

\* For every instance: the Pod shows the newest status whose stamp the ledger
\* has recorded, though commits are built on lagging views and applied late.
THEOREM NewestAlwaysShown == Spec => []NewestStatusShown
    <1>1. IInv => NewestStatusShown BY DEF IInv
    <1> QED BY <1>1, DeliveryInvariant, PTL

------------------------------------------------------------------------------
(* The delivery implements the abstract stream.                              *)

\* The initial states map to initial states of the abstract stream.
LEMMA InitRefines == Init => Abstract!Init
    BY DEF Init, NodeInit, LeaderInit, EmptyState, Abstract!Init

\* A quiet step submits a command to the abstract stream or stutters.
LEMMA QuietRefines ==
    ASSUME IInv, QuietStep
    PROVE  [Abstract!Next]_Abstract!vars
    <1>1. CmdGrows /\ cmd \in Seq(Command)
        BY NodeStepKeepsTypes DEF IInv, TypeOK, NodeTypeOK, Command, QuietStep
    <1>2. UNCHANGED <<head, effects>> BY DEF QuietStep, leaderVars
    <1>3. CASE cmd' = cmd BY <1>2, <1>3 DEF Abstract!vars
    <1>4. ASSUME NEW entry \in Command, cmd' = Append(cmd, entry)
          PROVE  Abstract!Submit
        <2>1. Len(cmd') = Len(cmd) + 1 /\ \A n \in 1..Len(cmd) : cmd'[n] = cmd[n]
            BY <1>1, <1>4, AppendProperties
        <2> QED BY <1>2, <2>1 DEF Abstract!Submit
    <1> QED BY <1>1, <1>3, <1>4 DEF CmdGrows, Abstract!Next

\* A committed entry decides the next command of the abstract stream or
\* stutters, and its effect is one the abstract stream allows.
LEMMA CommitRefines ==
    ASSUME IInv, NEW c \in Calls, RaftCommit(c)
    PROVE  [Abstract!Next]_Abstract!vars
    <1> DEFINE n == calls[c].seq
               command == cmd[n]
               commit == calls[c].commit
    <1>1. /\ n \in 1..Len(cmd) /\ command \in Command /\ commit \in Commit
          /\ SoundCommit(command, commit)
          /\ Duplicate(n, head) \/ n = head.wm + 1
        BY CommittedPosition DEF RaftCommit
    <1>2. cmd' = cmd BY DEF RaftCommit, nodeUnchanged, nodeVars
    <1>3. /\ head' = Apply(n, command, commit, head)
          /\ effects' = IF ~Duplicate(n, head) /\ TakesEffect(command, commit, head)
                        THEN Append(effects, n) ELSE effects
        BY DEF RaftCommit, CommitEntry
    <1>4. CASE Duplicate(n, head)
        BY <1>2, <1>3, <1>4 DEF Apply, Abstract!vars
    <1>5. CASE ~Duplicate(n, head)
        <2>0. n = head.wm + 1 BY <1>1, <1>5
        <2>1. head \in ClusterState /\ head.ledger = 1..head.wm /\ head.wm \in Nat
            <3>1. head.ledger = 1..head.wm BY DEF IInv, LedgerMatchesWatermark
            <3> QED BY <3>1 DEF IInv, TypeOK, LeaderTypeOK, ClusterState
        <2>2. head' = Consume(n, command, commit, head) BY <1>3, <1>5 DEF Apply
        <2>3. /\ head'.wm = n
              /\ TakesEffect(command, commit, head) =>
                   /\ Present(head)
                   /\ command.kind = "status" => head.maxStamp < command.stamp
            BY <1>1, <2>0, <2>1, <2>2, ConsumeFacts DEF IInv
        <2>4. TakesEffect(command, commit, head) => Abstract!MayTakeEffect(head.wm + 1)
            <3> SUFFICES ASSUME TakesEffect(command, commit, head), NEW i \in 1..Len(effects)
                         PROVE  /\ cmd[effects[i]].kind # "finalize"
                                /\ cmd[effects[i]].kind = "status" /\ cmd[head.wm + 1].kind = "status"
                                   => cmd[effects[i]].stamp < cmd[head.wm + 1].stamp
                BY DEF Abstract!MayTakeEffect
            <3>1. /\ effects[i] \in 1..head.wm
                  /\ cmd[effects[i]].kind = "status" => cmd[effects[i]].stamp <= head.maxStamp
                  /\ cmd[effects[i]].kind # "finalize"
                BY <2>3 DEF IInv, EffectsRecorded
            <3>2. cmd[effects[i]] \in Command
                <4>1. cmd \in Seq(Command) /\ Len(cmd) \in Nat /\ head.wm <= Len(cmd)
                    BY LenProperties DEF IInv, TypeOK, NodeTypeOK, Command
                <4>2. effects[i] \in 1..Len(cmd) BY <2>1, <3>1, <4>1
                <4> QED BY <4>1, <4>2, ElementOfSeq
            <3>3. head.maxStamp \in Nat /\ command.stamp \in Nat /\ cmd[effects[i]].stamp \in Nat
                BY <1>1, <2>1, <3>2 DEF ClusterState, Command
            <3>4. cmd[head.wm + 1] = command BY <2>0
            <3> HIDE DEF command
            <3> QED BY <2>3, <3>1, <3>3, <3>4
        <2>5. head.wm < Len(cmd)
            <3>1. Len(cmd) \in Nat BY LenProperties DEF IInv, TypeOK, NodeTypeOK
            <3> QED BY <1>1, <2>0, <2>1, <3>1
        <2>6. effects' = IF TakesEffect(command, commit, head) THEN Append(effects, head.wm + 1) ELSE effects
            BY <1>3, <1>5, <2>0
        <2> QED BY <1>2, <2>0, <2>3, <2>4, <2>5, <2>6 DEF Abstract!Decide, Abstract!Next
    <1> QED BY <1>4, <1>5

\* Every step maps to a step of the abstract stream or a stutter.
LEMMA NextRefines == IInv /\ [Next]_vars => [Abstract!Next]_Abstract!vars
    <1> SUFFICES ASSUME IInv, [Next]_vars PROVE [Abstract!Next]_Abstract!vars OBVIOUS
    <1>1. CASE QuietNext
        <2>1. QuietStep BY <1>1, QuietSteps DEF IInv
        <2> QED BY <2>1, QuietRefines
    <1>2. ASSUME NEW c \in Calls, BuildCommit(c) PROVE UNCHANGED <<cmd, head, effects>>
        BY <1>2 DEF BuildCommit, nodeUnchanged, leaderUnchanged, nodeVars, leaderVars
    <1>3. ASSUME NEW c \in Calls, RaftCommit(c) PROVE [Abstract!Next]_Abstract!vars
        BY <1>3, CommitRefines
    <1>4. CASE LeaderNext
        BY <1>4, LeaderStepKeepsIInv DEF Abstract!vars
    <1> QED BY <1>1, <1>2, <1>3, <1>4 DEF Next, CallStep, QuietNext, LeaderNext, Abstract!vars

\* For every instance: the delivery implements the abstract stream.
THEOREM DeliveryImplementsStream == Spec => ImplementsStream
    <1>1. Init => Abstract!Init BY InitRefines
    <1>2. IInv /\ [Next]_vars => [Abstract!Next]_Abstract!vars BY NextRefines
    <1> QED BY <1>1, <1>2, DeliveryInvariant, PTL DEF Spec, ImplementsStream, Abstract!Spec
==============================================================================
