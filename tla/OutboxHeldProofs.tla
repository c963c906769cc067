--------------------------- MODULE OutboxHeldProofs ---------------------------
(*****************************************************************************)
(* Nothing the control plane has not decided is lost or overtaken.  A row    *)
(* leaves the worker's tables when the dispatcher is told of a decision, so  *)
(* the argument is about who tells it what: which call the dispatcher waits  *)
(* for, and what has been decided once that call is answered.                *)
(*****************************************************************************)
EXTENDS OutboxDeliveryProofs

\* A replay gives a row a new id, and a finalization removes status rows by
\* their id: the two together may remove a row out of order (SupersededComesBefore).
ReplaysSafe == Admins = {} \/ "finalize" \notin OtherKinds

\* Ids name rows: two rows of one id are the same position.
RowIds ==
    /\ \A r \in rows : r.id <= ids
    /\ \A r, s \in rows : r.id = s.id => r.seq = s.seq

\* The dispatcher's id is that of its position.
Dispatched ==
    disp.phase # "idle" =>
        /\ disp.id <= ids /\ disp.seq <= Len(cmd)
        /\ \A r \in rows : r.id = disp.id => r.seq = disp.seq

\* At most one call is waited for, and it carries the dispatcher's position.
MineDispatched ==
    \A c \in Calls :
        /\ calls[c].mine => disp.phase = "deliver" /\ calls[c].seq = disp.seq
        /\ calls[c].stage = "answered" => calls[c].mine
        /\ \A d \in Calls : calls[c].mine /\ calls[d].mine => c = d

\* An answer that is not an invitation to retry tells of a decision.
AnswersDecided ==
    \A c \in Calls :
        calls[c].stage = "answered" /\ calls[c].commit.answer \notin {"retry", "codec"}
        => calls[c].seq <= head.wm

\* Superseded rows are removed after the finalization has been decided.
SupersedeDecided ==
    disp.phase = "supersede" => disp.seq <= head.wm /\ "finalize" \in OtherKinds

\* Without replays ids follow the stream.
IdsInOrder ==
    Admins = {} =>
        /\ \A r, s \in rows : r.id < s.id => r.seq < s.seq
        /\ disp.phase # "idle" => \A r \in rows : r.id < disp.id => r.seq < disp.seq

WorkerInv == RowIds /\ Dispatched /\ SupersedeDecided /\ IdsInOrder

CallsInv == MineDispatched /\ AnswersDecided

HeldInv ==
    /\ WorkerInv /\ CallsInv
    /\ ReplaysSafe => UnconsumedIsHeld /\ NoOvertaking

------------------------------------------------------------------------------
(* Types, once for all that follows.                                         *)

\* Numbers the worker and the control plane deal in.
LEMMA HeldTypes ==
    ASSUME IInv
    PROVE  /\ head.wm \in Nat /\ Len(cmd) \in Nat /\ head.wm <= Len(cmd) /\ ids \in Nat
           /\ \A r \in rows : r \in Row /\ r.seq \in Nat /\ r.id \in Nat /\ r.seq >= 1 /\ r.seq <= Len(cmd)
           /\ \A d \in dead : d.seq \in Nat /\ d.seq <= Len(cmd)
           /\ disp.phase \in {"idle", "deliver", "supersede"} /\ disp.seq \in Nat /\ disp.id \in Nat
           /\ disp.phase # "idle" => disp \in [phase : {"deliver", "supersede"}, seq : Position, id : Nat]
           /\ disp.phase = "idle" <=> disp = Idle
    <1>1. TypeOK /\ NodeTypeOK /\ Held /\ head.wm <= Len(cmd)  BY DEF IInv, TypeOK
    <1>2. head.wm \in Nat  BY <1>1 DEF TypeOK, LeaderTypeOK, ClusterState
    <1>3. Len(cmd) \in Nat  BY <1>1, LenProperties DEF NodeTypeOK
    <1>4. \A r \in rows : r \in Row /\ r.seq \in Nat /\ r.id \in Nat /\ r.seq >= 1 /\ r.seq <= Len(cmd)
        BY <1>1 DEF NodeTypeOK, Row, Position, Held
    <1>5. \A d \in dead : d.seq \in Nat /\ d.seq <= Len(cmd)
        BY <1>1 DEF NodeTypeOK, DeadRow, Position, Held
    <1>6. /\ disp.phase \in {"idle", "deliver", "supersede"} /\ disp.seq \in Nat /\ disp.id \in Nat
          /\ disp.phase # "idle" => disp \in [phase : {"deliver", "supersede"}, seq : Position, id : Nat]
          /\ disp.phase = "idle" <=> disp = Idle
        BY <1>1 DEF NodeTypeOK, Dispatch, Idle, Position
    <1> QED BY <1>1, <1>2, <1>3, <1>4, <1>5, <1>6 DEF NodeTypeOK

------------------------------------------------------------------------------
(* The calls.                                                                *)

\* One call changes, and the dispatcher goes on waiting for what it waited for.
LEMMA OneCallChanges ==
    ASSUME IInv, CallsInv, NEW c \in Calls, NEW call, calls' = [calls EXCEPT ![c] = call],
           disp' = disp, head'.wm \in Nat, head.wm <= head'.wm,
           call.mine => calls[c].mine /\ call.seq = calls[c].seq,
           call.stage = "answered" =>
               call.mine /\ (call.commit.answer \notin {"retry", "codec"} => call.seq <= head'.wm)
    PROVE  CallsInv'
    <1>1. /\ calls'[c] = call
          /\ \A d \in Calls : d # c => calls'[d] = calls[d]
        BY DEF IInv, TypeOK
    <1>2. MineDispatched'  BY <1>1 DEF CallsInv, MineDispatched
    <1>3. AnswersDecided'
        <2> SUFFICES ASSUME NEW d \in Calls, calls'[d].stage = "answered",
                            calls'[d].commit.answer \notin {"retry", "codec"}
                     PROVE  calls'[d].seq <= head'.wm
            BY DEF AnswersDecided
        <2>1. CASE d = c  BY <1>1, <2>1
        <2>2. CASE d # c
            <3>1. calls[d].seq <= head.wm  BY <1>1, <2>2 DEF CallsInv, AnswersDecided
            <3>2. calls[d].seq \in Nat
                <4>1. calls[d].stage = "answered"  BY <1>1, <2>2
                <4>2. calls[d] \in OpenCall  BY <4>1, OpenCalls DEF IInv, TypeOK
                <4>3. calls[d].seq \in Position  BY <4>2 DEF OpenCall
                <4> QED BY <4>3 DEF Position
            <3> QED BY <1>1, <2>2, <3>1, <3>2, HeldTypes
        <2> QED BY <2>1, <2>2
    <1> QED BY <1>2, <1>3 DEF CallsInv

\* Answering a call.
LEMMA AnsweredChanges ==
    ASSUME IInv, CallsInv, NEW c \in Calls, calls[c].stage # "none", NEW answer,
           calls' = Answered(c, answer),
           disp' = disp, head'.wm \in Nat, head.wm <= head'.wm,
           answer \notin {"retry", "codec"} => calls[c].seq <= head'.wm
    PROVE  CallsInv'
    <1> DEFINE call == AnsweredCall(calls[c], answer)
    <1>1. calls[c] \in OpenCall  BY OpenCalls DEF IInv, TypeOK
    <1>2. CASE calls[c].mine
        <2>1. call = [calls[c] EXCEPT !.stage = "answered", !.commit = [NoCommit EXCEPT !.answer = answer]]
            BY <1>2 DEF AnsweredCall
        <2>2. call.mine /\ call.seq = calls[c].seq /\ call.commit.answer = answer
            BY <1>1, <1>2, <2>1 DEF OpenCall, NoCommit
        <2> HIDE DEF call
        <2>3. calls' = [calls EXCEPT ![c] = call]  BY DEF Answered, call
        <2> QED BY <1>2, <2>2, <2>3, OneCallChanges
    <1>3. CASE ~calls[c].mine
        <2>1. call = NoCall /\ calls' = [calls EXCEPT ![c] = call]  BY <1>3 DEF AnsweredCall, Answered
        <2>2. ~call.mine /\ call.stage # "answered"  BY <2>1 DEF NoCall
        <2> HIDE DEF call
        <2> QED BY <2>1, <2>2, OneCallChanges
    <1> QED BY <1>2, <1>3

\* The dispatcher stops waiting: no call is waited for any more.
LEMMA NobodyWaits ==
    ASSUME \A c \in Calls : calls'[c].mine = FALSE /\ calls'[c].stage # "answered"
    PROVE  CallsInv'
    BY DEF CallsInv, MineDispatched, AnswersDecided

\* The one call that was waited for ends.
LEMMA OnlyCallEnds ==
    ASSUME IInv, CallsInv, NEW c \in Calls, calls[c].mine,
           NEW call, calls' = [calls EXCEPT ![c] = call], call.mine = FALSE, call.stage # "answered"
    PROVE  CallsInv'
    <1>1. /\ calls'[c] = call
          /\ \A d \in Calls : d # c => calls'[d] = calls[d]
        BY DEF IInv, TypeOK
    <1>2. ASSUME NEW d \in Calls  PROVE calls[d].mine \in BOOLEAN
        <2>1. calls[d] = NoCall \/ calls[d] \in OpenCall  BY DEF IInv, TypeOK, Call
        <2>2. NoCall.mine \in BOOLEAN  BY DEF NoCall
        <2>3. \A o \in OpenCall : o.mine \in BOOLEAN  BY DEF OpenCall
        <2> QED BY <2>1, <2>2, <2>3
    <1>3. \A d \in Calls : d # c => calls[d].mine = FALSE /\ calls[d].stage # "answered"
        BY <1>2 DEF CallsInv, MineDispatched
    <1> QED BY <1>1, <1>3, NobodyWaits

------------------------------------------------------------------------------
(* The worker's tables.                                                      *)

\* No row appears: what is there was there, under its id, with its position.
Traced == \A x \in rows' : \E y \in rows : x.id = y.id /\ x.seq = y.seq

\* The dispatcher is idle, goes on with its row, or has claimed one.
DispatchTraced ==
    \/ disp'.phase = "idle"
    \/ disp.phase # "idle" /\ disp'.seq = disp.seq /\ disp'.id = disp.id
    \/ \E r \in rows : disp'.seq = r.seq /\ disp'.id = r.id

\* Steps that insert no row keep ids and positions together.
LEMMA WorkerTraced ==
    ASSUME IInv, IInv', WorkerInv, Traced, DispatchTraced, cmd' = cmd, ids <= ids',
           disp'.phase = "supersede" => disp'.seq <= head'.wm /\ "finalize" \in OtherKinds
    PROVE  WorkerInv'
    <1>1. /\ ids \in Nat /\ \A r \in rows : r.id \in Nat /\ r.id <= ids /\ r.seq <= Len(cmd)
        BY HeldTypes DEF WorkerInv, RowIds
    <1>2. ids' \in Nat  BY DEF IInv, TypeOK, NodeTypeOK
    <1>3. RowIds'  BY <1>1, <1>2 DEF Traced, WorkerInv, RowIds
    <1>4. Dispatched'
        <2> SUFFICES ASSUME disp'.phase # "idle"
                     PROVE  /\ disp'.id <= ids' /\ disp'.seq <= Len(cmd')
                            /\ \A r \in rows' : r.id = disp'.id => r.seq = disp'.seq
            BY DEF Dispatched
        <2>1. CASE disp.phase # "idle" /\ disp'.seq = disp.seq /\ disp'.id = disp.id
            <3>1. disp.id \in Nat  BY HeldTypes
            <3> QED BY <1>1, <1>2, <2>1, <3>1 DEF Traced, WorkerInv, Dispatched
        <2>2. CASE \E r \in rows : disp'.seq = r.seq /\ disp'.id = r.id
            BY <1>1, <1>2, <2>2 DEF Traced, WorkerInv, RowIds
        <2> QED BY <2>1, <2>2 DEF DispatchTraced
    <1>5. IdsInOrder'
        <2> SUFFICES ASSUME Admins = {}
                     PROVE  /\ \A r, s \in rows' : r.id < s.id => r.seq < s.seq
                            /\ disp'.phase # "idle" => \A r \in rows' : r.id < disp'.id => r.seq < disp'.seq
            BY DEF IdsInOrder
        <2>1. \A r, s \in rows' : r.id < s.id => r.seq < s.seq
            BY DEF Traced, WorkerInv, IdsInOrder
        <2>2. disp'.phase # "idle" => \A r \in rows' : r.id < disp'.id => r.seq < disp'.seq
            BY DEF Traced, DispatchTraced, WorkerInv, IdsInOrder
        <2> QED BY <2>1, <2>2
    <1> QED BY <1>3, <1>4, <1>5 DEF WorkerInv, SupersedeDecided

HeldPositions == LivePositions \cup DeadPositions

\* Steps after which the worker holds the same undecided positions.
LEMMA PositionsKept ==
    ASSUME IInv, IInv', UnconsumedIsHeld, NoOvertaking, cmd' = cmd, head.wm <= head'.wm,
           \A n \in HeldPositions' : n > head'.wm => n \in HeldPositions,
           \A n \in HeldPositions : n > head'.wm => n \in HeldPositions',
           \/ disp'.phase # "deliver"
           \/ disp.phase = "deliver" /\ disp'.seq = disp.seq
           \/ \A n \in HeldPositions : disp'.seq <= n
    PROVE  UnconsumedIsHeld' /\ NoOvertaking'
    <1>1. head.wm \in Nat /\ head'.wm \in Nat
        BY DEF IInv, TypeOK, LeaderTypeOK, ClusterState
    <1>2. HeldPositions \subseteq Nat /\ HeldPositions' \subseteq Nat
        <2>1. \A r \in rows : r.seq \in Nat  BY HeldTypes
        <2>2. \A d \in dead : d.seq \in Nat  BY HeldTypes
        <2>3. rows' \subseteq Row /\ dead' \subseteq DeadRow  BY DEF IInv, TypeOK, NodeTypeOK
        <2>4. \A r \in rows' : r.seq \in Nat  BY <2>3 DEF Row, Position
        <2>5. \A d \in dead' : d.seq \in Nat  BY <2>3 DEF DeadRow, Position
        <2> QED BY <2>1, <2>2, <2>4, <2>5 DEF HeldPositions, LivePositions, DeadPositions
    <1>3. UnconsumedIsHeld'
        <2> SUFFICES ASSUME NEW n \in 1..Len(cmd'), n > head'.wm  PROVE n \in HeldPositions'
            BY DEF UnconsumedIsHeld, HeldPositions
        <2>1. n \in 1..Len(cmd) /\ n > head.wm
            <3>1. Len(cmd) \in Nat  BY HeldTypes
            <3> QED BY <1>1, <3>1
        <2>2. n \in HeldPositions  BY <2>1 DEF UnconsumedIsHeld, HeldPositions
        <2> QED BY <2>2
    <1>4. NoOvertaking'
        <2> SUFFICES ASSUME disp'.phase = "deliver", NEW n \in HeldPositions', n > head'.wm
                     PROVE  disp'.seq <= n
            BY DEF NoOvertaking, HeldPositions
        <2>1. n \in HeldPositions /\ n > head.wm  BY <1>1, <1>2
        <2> QED BY <2>1 DEF NoOvertaking, HeldPositions
    <1> QED BY <1>3, <1>4

\* A row that is claimed, released or retried keeps its id and its position.
LEMMA RelabelTraced ==
    ASSUME IInv, NEW r \in rows, NEW attempt, NEW leased, rows' = Relabel(r, attempt, leased)
    PROVE  Traced /\ LivePositions' = LivePositions
    <1> DEFINE x == [r EXCEPT !.attempt = attempt, !.leased = leased]
    <1>1. x.id = r.id /\ x.seq = r.seq  BY HeldTypes DEF Row
    <1>2. rows' = (rows \ {r}) \cup {x}  BY DEF Relabel
    <1> HIDE DEF x
    <1>3. Traced  BY <1>1, <1>2 DEF Traced
    <1>4. LivePositions' = LivePositions  BY <1>1, <1>2 DEF LivePositions
    <1> QED BY <1>3, <1>4

\* enqueue_outbox: the newest id for the newest position.
LEMMA EnqueueHeld ==
    ASSUME IInv, IInv', HeldInv, NEW kind, NEW stamp, Enqueue(kind, stamp), head' = head
    PROVE  WorkerInv' /\ (ReplaysSafe => UnconsumedIsHeld' /\ NoOvertaking')
    <1> DEFINE x == Fresh(Len(cmd) + 1)
    <1>1. /\ rows' = rows \cup {x} /\ ids' = ids + 1 /\ dead' = dead /\ disp' = disp
          /\ x.id = ids + 1 /\ x.seq = Len(cmd) + 1
        BY DEF Enqueue, Fresh
    <1> HIDE DEF x
    <1>2. Len(cmd') = Len(cmd) + 1
        <2>1. cmd \in Seq([kind : Kind, stamp : Nat])  BY DEF IInv, TypeOK, NodeTypeOK
        <2>2. cmd' = Append(cmd, [kind |-> kind, stamp |-> stamp])  BY DEF Enqueue
        <2>3. cmd' \in Seq([kind : Kind, stamp : Nat])  BY DEF IInv, TypeOK, NodeTypeOK
        <2> QED BY <2>1, <2>2
    <1>3. /\ Len(cmd) \in Nat /\ ids \in Nat /\ head.wm \in Nat /\ disp.id \in Nat /\ disp.seq \in Nat
          /\ \A r \in rows : r.seq \in Nat /\ r.id \in Nat /\ r.seq <= Len(cmd) /\ r.id <= ids
        BY HeldTypes DEF HeldInv, WorkerInv, RowIds
    <1>4. disp.phase # "idle" => disp.id <= ids /\ disp.seq <= Len(cmd)
        BY DEF HeldInv, WorkerInv, Dispatched
    <1>5. RowIds'
        BY <1>1, <1>3 DEF HeldInv, WorkerInv, RowIds
    <1>6. Dispatched'
        BY <1>1, <1>2, <1>3, <1>4 DEF HeldInv, WorkerInv, Dispatched
    <1>7. SupersedeDecided'  BY <1>1 DEF HeldInv, WorkerInv, SupersedeDecided
    <1>8. IdsInOrder'
        <2> SUFFICES ASSUME Admins = {}
                     PROVE  /\ \A r, s \in rows' : r.id < s.id => r.seq < s.seq
                            /\ disp'.phase # "idle" => \A r \in rows' : r.id < disp'.id => r.seq < disp'.seq
            BY DEF IdsInOrder
        <2>1. /\ \A r, s \in rows : r.id < s.id => r.seq < s.seq
              /\ disp.phase # "idle" => \A r \in rows : r.id < disp.id => r.seq < disp.seq
            BY DEF HeldInv, WorkerInv, IdsInOrder
        <2>2. \A r, s \in rows' : r.id < s.id => r.seq < s.seq  BY <1>1, <1>3, <2>1
        <2>3. disp'.phase # "idle" => \A r \in rows' : r.id < disp'.id => r.seq < disp'.seq
            BY <1>1, <1>3, <1>4, <2>1
        <2> QED BY <2>2, <2>3
    <1>9. ASSUME ReplaysSafe  PROVE UnconsumedIsHeld' /\ NoOvertaking'
        <2>1. HeldPositions' = HeldPositions \cup {Len(cmd) + 1}
            BY <1>1 DEF HeldPositions, LivePositions, DeadPositions
        <2>2. UnconsumedIsHeld /\ NoOvertaking  BY <1>9 DEF HeldInv
        <2>3. UnconsumedIsHeld'
            <3> SUFFICES ASSUME NEW n \in 1..Len(cmd'), n > head'.wm  PROVE n \in HeldPositions'
                BY DEF UnconsumedIsHeld, HeldPositions
            <3>1. n \in 1..Len(cmd) \/ n = Len(cmd) + 1  BY <1>2, <1>3
            <3>2. n \in 1..Len(cmd) => n \in HeldPositions  BY <2>2 DEF UnconsumedIsHeld, HeldPositions
            <3> QED BY <2>1, <3>1, <3>2
        <2>4. NoOvertaking'
            <3> SUFFICES ASSUME disp'.phase = "deliver", NEW n \in HeldPositions', n > head'.wm
                         PROVE  disp'.seq <= n
                BY DEF NoOvertaking, HeldPositions
            <3>1. n \in HeldPositions => disp.seq <= n  BY <1>1, <2>2 DEF NoOvertaking, HeldPositions
            <3>2. disp.seq <= Len(cmd) + 1  BY <1>1, <1>3, <1>4
            <3> QED BY <1>1, <2>1, <3>1, <3>2
        <2> QED BY <2>3, <2>4
    <1> QED BY <1>5, <1>6, <1>7, <1>8, <1>9 DEF WorkerInv

\* replay_dead_letter: what it inserts is decided or was held already.
LEMMA ReplayInsertHeld ==
    ASSUME IInv, IInv', HeldInv, NEW a \in Admins, ReplayInsert(a), head' = head
    PROVE  WorkerInv' /\ (ReplaysSafe => UnconsumedIsHeld' /\ NoOvertaking')
    <1> DEFINE d == replaying[a]
    <1>1. d \in DeadRow /\ d.seq <= Len(cmd) /\ d.seq \in Nat /\ d.seq >= 1
        BY DEF ReplayInsert, IInv, TypeOK, NodeTypeOK, Held, DeadRow, Position
    <1>2. cmd' = cmd /\ disp' = disp  BY DEF ReplayInsert
    <1>3. CASE d.seq \in LivePositions
        <2>1. UNCHANGED <<rows, dead, ids>>  BY <1>3 DEF ReplayInsert
        <2>2. WorkerInv'
            BY <1>2, <2>1 DEF HeldInv, WorkerInv, RowIds, Dispatched, SupersedeDecided, IdsInOrder
        <2>3. UnconsumedIsHeld /\ NoOvertaking => UnconsumedIsHeld' /\ NoOvertaking'
            BY <1>2, <2>1 DEF UnconsumedIsHeld, NoOvertaking, LivePositions, DeadPositions
        <2> QED BY <2>2, <2>3 DEF HeldInv
    <1>4. CASE d.seq \notin LivePositions
        <2> DEFINE x == Fresh(d.seq)
        <2>1. /\ rows' = rows \cup {x} /\ dead' = dead \ {d} /\ ids' = ids + 1
              /\ x.id = ids + 1 /\ x.seq = d.seq
            BY <1>4 DEF ReplayInsert, Fresh
        <2> HIDE DEF x, d
        <2>2. /\ Len(cmd) \in Nat /\ ids \in Nat /\ head.wm \in Nat /\ disp.id \in Nat
              /\ \A r \in rows : r.seq \in Nat /\ r.id \in Nat /\ r.id <= ids
            BY HeldTypes DEF HeldInv, WorkerInv, RowIds
        <2>3. disp.phase # "idle" => disp.id <= ids /\ disp.seq <= Len(cmd)
            BY DEF HeldInv, WorkerInv, Dispatched
        <2>4. RowIds'  BY <2>1, <2>2 DEF HeldInv, WorkerInv, RowIds
        <2>5. Dispatched'  BY <1>2, <2>1, <2>2, <2>3 DEF HeldInv, WorkerInv, Dispatched
        <2>6. SupersedeDecided'  BY <1>2 DEF HeldInv, WorkerInv, SupersedeDecided
        <2>7. IdsInOrder'  BY DEF IdsInOrder
        <2>8. ASSUME ReplaysSafe  PROVE UnconsumedIsHeld' /\ NoOvertaking'
            <3>1. UnconsumedIsHeld /\ NoOvertaking  BY <2>8 DEF HeldInv
            <3>2. \A n \in HeldPositions' : n \in HeldPositions \/ n = d.seq
                BY <2>1 DEF HeldPositions, LivePositions, DeadPositions
            <3>3. d.seq > head.wm => d.seq \in HeldPositions
                <4>1. d.seq \in 1..Len(cmd)  BY <1>1, <2>2
                <4> QED BY <3>1, <4>1 DEF UnconsumedIsHeld, HeldPositions
            <3>4. \A n \in HeldPositions : n \in HeldPositions'
                BY <2>1 DEF HeldPositions, LivePositions, DeadPositions
            <3> QED BY <1>2, <2>2, <3>1, <3>2, <3>3, <3>4, PositionsKept
        <2> QED BY <2>4, <2>5, <2>6, <2>7, <2>8 DEF WorkerInv
    <1> QED BY <1>3, <1>4

\* OUTBOX_CLAIM_DUE and the call: the claimed position is the lowest held.
LEMMA ClaimHeld ==
    ASSUME IInv, IInv', HeldInv, NEW r \in rows, NEW c \in Calls, ClaimAndSend(r, c)
    PROVE  HeldInv'
    <1>1. /\ disp = Idle /\ Claimable(r) /\ rows' = Relabel(r, r.attempt, TRUE)
          /\ disp' = [phase |-> "deliver", seq |-> r.seq, id |-> r.id]
          /\ cmd' = cmd /\ dead' = dead /\ ids' = ids /\ head' = head
        BY DEF ClaimAndSend, Claim, leaderUnchanged, leaderVars
    <1>2. Traced /\ LivePositions' = LivePositions  BY <1>1, RelabelTraced
    <1>3. /\ disp'.phase = "deliver" /\ disp'.seq = r.seq /\ disp'.id = r.id
        BY <1>1
    <1>4. WorkerInv'
        <2>1. DispatchTraced  BY <1>3 DEF DispatchTraced
        <2>2. ids \in Nat  BY HeldTypes
        <2> QED BY <1>1, <1>2, <1>3, <2>1, <2>2, WorkerTraced DEF HeldInv
    <1>5. CallsInv'
        <2> DEFINE call == [stage |-> "sent", seq |-> r.seq, mine |-> TRUE, by |-> leader, commit |-> NoCommit]
        <2>1. calls' = [calls EXCEPT ![c] = call]  BY DEF ClaimAndSend
        <2>2. call.stage = "sent" /\ call.seq = r.seq  OBVIOUS
        <2> HIDE DEF call
        <2>3. /\ calls'[c] = call
              /\ \A d \in Calls : d # c => calls'[d] = calls[d]
            BY <2>1 DEF IInv, TypeOK
        <2>4. \A d \in Calls : ~calls[d].mine /\ calls[d].stage # "answered"
            BY <1>1 DEF HeldInv, CallsInv, MineDispatched, Idle
        <2> QED BY <1>3, <2>2, <2>3, <2>4 DEF CallsInv, MineDispatched, AnswersDecided
    <1>6. ASSUME ReplaysSafe  PROVE UnconsumedIsHeld' /\ NoOvertaking'
        <2>1. UnconsumedIsHeld /\ NoOvertaking  BY <1>6 DEF HeldInv
        <2>2. HeldPositions' = HeldPositions  BY <1>1, <1>2 DEF HeldPositions, DeadPositions
        <2>3. \A n \in HeldPositions : disp'.seq <= n
            <3>1. \A o \in rows : r.seq <= o.seq
                BY <1>1, HeldTypes DEF Claimable
            <3>2. \A d \in dead : r.seq <= d.seq
                BY <1>1, HeldTypes DEF Claimable
            <3> QED BY <1>3, <3>1, <3>2 DEF HeldPositions, LivePositions, DeadPositions
        <2>4. head.wm <= head'.wm  BY <1>1, HeldTypes
        <2> QED BY <1>1, <2>1, <2>2, <2>3, <2>4, PositionsKept
    <1> QED BY <1>4, <1>5, <1>6 DEF HeldInv

\* A step that removes or relabels rows, with the dispatcher done or going on
\* to its superseded rows: only decided positions may go.
LEMMA RowsShrink ==
    ASSUME IInv, IInv', HeldInv, Traced, cmd' = cmd, head' = head, ids' \in {ids, ids + 1},
           \/ disp' = Idle
           \/ /\ disp' = [disp EXCEPT !.phase = "supersede"] /\ disp.phase # "idle"
              /\ disp.seq <= head.wm /\ "finalize" \in OtherKinds,
           ReplaysSafe => \A n \in HeldPositions : n > head.wm => n \in HeldPositions',
           DeadPositions' \subseteq HeldPositions
    PROVE  WorkerInv' /\ (ReplaysSafe => UnconsumedIsHeld' /\ NoOvertaking')
    <1>1. \/ disp'.phase = "idle"
          \/ /\ disp'.phase = "supersede" /\ disp'.seq = disp.seq /\ disp'.id = disp.id
             /\ disp.phase # "idle" /\ disp.seq <= head.wm /\ "finalize" \in OtherKinds
        <2>1. CASE disp' = Idle  BY <2>1 DEF Idle
        <2>2. CASE disp' # Idle
            <3>1. disp \in [phase : {"deliver", "supersede"}, seq : Position, id : Nat]
                BY <2>2, HeldTypes
            <3> QED BY <2>2, <3>1
        <2> QED BY <2>1, <2>2
    <1>2. DispatchTraced  BY <1>1 DEF DispatchTraced
    <1>3. ids <= ids' /\ head.wm <= head'.wm  BY HeldTypes
    <1>4. WorkerInv'
        BY <1>1, <1>2, <1>3, WorkerTraced DEF HeldInv
    <1>5. ASSUME ReplaysSafe  PROVE UnconsumedIsHeld' /\ NoOvertaking'
        <2>1. UnconsumedIsHeld /\ NoOvertaking  BY <1>5 DEF HeldInv
        <2>2. \A n \in HeldPositions' : n \in HeldPositions
            <3>1. LivePositions' \subseteq LivePositions  BY DEF Traced, LivePositions
            <3> QED BY <3>1 DEF HeldPositions
        <2> QED BY <1>1, <1>3, <1>5, <2>1, <2>2, PositionsKept
    <1> QED BY <1>4, <1>5

\* A row moves to the dead letters with its position.
LEMMA DeadLetterTraced ==
    ASSUME IInv, NEW r \in rows, MoveToDeadLetter(r)
    PROVE  /\ Traced /\ disp' = Idle /\ ids' = ids + 1
           /\ DeadPositions' \subseteq HeldPositions /\ HeldPositions \subseteq HeldPositions'
    <1> DEFINE x == [seq |-> r.seq, id |-> ids + 1]
    <1>1. rows' = rows \ {r} /\ dead' = dead \cup {x} /\ x.seq = r.seq /\ disp' = Idle /\ ids' = ids + 1
        BY DEF MoveToDeadLetter
    <1> HIDE DEF x
    <1>2. Traced  BY <1>1 DEF Traced
    <1>3. DeadPositions' \subseteq HeldPositions  BY <1>1 DEF DeadPositions, HeldPositions, LivePositions
    <1>4. HeldPositions \subseteq HeldPositions'  BY <1>1 DEF DeadPositions, HeldPositions, LivePositions
    <1> QED BY <1>1, <1>2, <1>3, <1>4

\* process_claimed_row: a row goes only when the dispatcher was told of a
\* decision about its position.
LEMMA SettleHeld ==
    ASSUME IInv, IInv', HeldInv, NEW answer \in Answer, Settle(answer), head' = head,
           answer \notin {"retry", "codec"} => disp.seq <= head.wm
    PROVE  WorkerInv' /\ (ReplaysSafe => UnconsumedIsHeld' /\ NoOvertaking')
    <1>1. disp.phase = "deliver" /\ cmd' = cmd  BY DEF Settle
    <1>2. disp.seq \in 1..Len(cmd)
        <2>1. disp.seq \in Position  BY <1>1, HeldTypes
        <2>2. disp.seq <= Len(cmd)  BY <1>1 DEF HeldInv, WorkerInv, Dispatched
        <2>3. Len(cmd) \in Nat  BY HeldTypes
        <2> QED BY <2>1, <2>2, <2>3 DEF Position
    <1>3. answer = "ok" /\ disp' = AfterApplied =>
            \/ disp' = Idle
            \/ /\ disp' = [disp EXCEPT !.phase = "supersede"] /\ disp.phase # "idle"
               /\ disp.seq <= head.wm /\ "finalize" \in OtherKinds
        <2>1. cmd[disp.seq] \in Command
            BY <1>2, ElementOfSeq DEF IInv, TypeOK, NodeTypeOK, Command
        <2>2. cmd[disp.seq].kind = "finalize" => "finalize" \in OtherKinds
            BY <2>1 DEF Command, Kind
        <2> QED BY <1>1, <2>2 DEF AfterApplied, IsTerminalDelete
    <1>4. CASE SettleFails(answer)
        <2>1. UNCHANGED <<rows, dead, ids>>  BY <1>4 DEF SettleFails
        <2>2. Traced /\ HeldPositions' = HeldPositions /\ DeadPositions' = DeadPositions
            BY <2>1 DEF Traced, HeldPositions, LivePositions, DeadPositions
        <2>3. disp' = Idle \/ (answer = "ok" /\ disp' = AfterApplied)  BY <1>4 DEF SettleFails
        <2>4. DeadPositions' \subseteq HeldPositions  BY <2>2 DEF HeldPositions
        <2> QED BY <1>1, <1>3, <2>1, <2>2, <2>3, <2>4, RowsShrink
    <1>5. ASSUME NEW r \in rows, Claimed(r), SettleRow(r, answer)
          PROVE  WorkerInv' /\ (ReplaysSafe => UnconsumedIsHeld' /\ NoOvertaking')
        <2>1. r.seq = disp.seq  BY <1>1, <1>5 DEF Claimed, HeldInv, WorkerInv, Dispatched
        <2>2. ASSUME rows' = rows \ {r}, UNCHANGED <<dead, ids>>, answer \notin {"retry", "codec"},
                     disp' = Idle \/ (answer = "ok" /\ disp' = AfterApplied)
              PROVE  WorkerInv' /\ (ReplaysSafe => UnconsumedIsHeld' /\ NoOvertaking')
            <3>1. Traced  BY <2>2 DEF Traced
            <3>2. DeadPositions' \subseteq HeldPositions  BY <2>2 DEF HeldPositions, DeadPositions
            <3>3. \A n \in HeldPositions : n = r.seq \/ n \in HeldPositions'
                BY <2>2 DEF HeldPositions, LivePositions, DeadPositions
            <3>4. r.seq <= head.wm /\ r.seq \in Nat /\ head.wm \in Nat  BY <2>1, <2>2, HeldTypes
            <3>5. \A n \in HeldPositions : n > head.wm => n \in HeldPositions'  BY <3>3, <3>4
            <3> QED BY <1>1, <1>3, <2>2, <3>1, <3>2, <3>5, RowsShrink
        <2>3. ASSUME NEW attempt, rows' = Relabel(r, attempt, FALSE), disp' = Idle, UNCHANGED <<dead, ids>>
              PROVE  WorkerInv' /\ (ReplaysSafe => UnconsumedIsHeld' /\ NoOvertaking')
            <3>1. Traced /\ LivePositions' = LivePositions  BY <2>3, RelabelTraced
            <3>2. HeldPositions' = HeldPositions /\ DeadPositions' \subseteq HeldPositions
                BY <2>3, <3>1 DEF HeldPositions, DeadPositions
            <3> QED BY <1>1, <2>3, <3>1, <3>2, RowsShrink
        <2>4. CASE MoveToDeadLetter(r)
            BY <1>1, <2>4, DeadLetterTraced, RowsShrink
        <2>5. CASE answer = "ok" /\ SettleApplied(r)
            BY <2>2, <2>5 DEF SettleApplied
        <2>6. CASE SettleRetryable(r)
            BY <2>3, <2>4, <2>6 DEF SettleRetryable
        <2>7. CASE SettleCodec(r)
            BY <2>3, <2>7 DEF SettleCodec
        <2>8. CASE answer \in Terminal /\ SettleTerminal(r, answer)
            <3>1. answer \notin {"retry", "codec"}  BY <2>8 DEF Terminal
            <3> QED BY <2>2, <2>4, <2>8, <3>1 DEF SettleTerminal
        <2> QED BY <1>5, <2>5, <2>6, <2>7, <2>8 DEF SettleRow
    <1> QED BY <1>4, <1>5 DEF Settle

\* Superseded rows go by their id: without replays they are older than the
\* finalization, which is decided.
LEMMA SupersedeHeld ==
    ASSUME IInv, IInv', HeldInv, Supersede, head' = head
    PROVE  WorkerInv' /\ (ReplaysSafe => UnconsumedIsHeld' /\ NoOvertaking')
    <1>1. /\ disp.phase = "supersede" /\ disp' = Idle /\ cmd' = cmd /\ dead' = dead /\ ids' = ids
          /\ rows' \subseteq rows /\ \A r \in rows : r \in rows' \/ r.id < disp.id
        BY DEF Supersede, Superseded
    <1>2. Traced  BY <1>1 DEF Traced
    <1>3. disp.seq <= head.wm /\ "finalize" \in OtherKinds
        BY <1>1 DEF HeldInv, WorkerInv, SupersedeDecided
    <1>4. DeadPositions' \subseteq HeldPositions  BY <1>1 DEF HeldPositions, DeadPositions
    <1>5. ASSUME ReplaysSafe, NEW n \in HeldPositions, n > head.wm  PROVE n \in HeldPositions'
        <2>1. CASE n \in DeadPositions  BY <1>1, <2>1 DEF HeldPositions, DeadPositions
        <2>2. ASSUME NEW r \in rows, n = r.seq  PROVE r \in rows'
            <3>1. Admins = {}  BY <1>3, <1>5 DEF ReplaysSafe
            <3>2. r.id < disp.id => r.seq < disp.seq
                BY <1>1, <3>1 DEF HeldInv, WorkerInv, IdsInOrder
            <3>3. ~(r.seq < disp.seq)  BY <1>3, <1>5, <2>2, HeldTypes
            <3> QED BY <1>1, <3>2, <3>3
        <2> QED BY <2>1, <2>2 DEF HeldPositions, LivePositions
    <1> QED BY <1>1, <1>2, <1>4, <1>5, RowsShrink

\* Steps that leave the tables alone; the dispatcher goes on, or the process
\* is gone.
LEMMA TablesKept ==
    ASSUME IInv, IInv', HeldInv, UNCHANGED <<cmd, rows, dead, ids>>, disp' \in {disp, Idle},
           head.wm <= head'.wm
    PROVE  WorkerInv' /\ (ReplaysSafe => UnconsumedIsHeld' /\ NoOvertaking')
    <1>1. Traced  BY DEF Traced
    <1>2. DispatchTraced  BY DEF DispatchTraced, Idle
    <1>3. head.wm \in Nat /\ head'.wm \in Nat /\ ids \in Nat /\ disp.seq \in Nat
        <2>1. head'.wm \in Nat  BY DEF IInv, TypeOK, LeaderTypeOK, ClusterState
        <2> QED BY <2>1, HeldTypes
    <1>4. disp'.phase = "supersede" => disp'.seq <= head'.wm /\ "finalize" \in OtherKinds
        BY <1>3 DEF HeldInv, WorkerInv, SupersedeDecided, Idle
    <1>5. WorkerInv'  BY <1>1, <1>2, <1>3, <1>4, WorkerTraced DEF HeldInv
    <1>6. ASSUME ReplaysSafe  PROVE UnconsumedIsHeld' /\ NoOvertaking'
        <2>1. UnconsumedIsHeld /\ NoOvertaking  BY <1>6 DEF HeldInv
        <2>2. HeldPositions' = HeldPositions  BY DEF HeldPositions, LivePositions, DeadPositions
        <2>3. disp'.phase # "deliver" \/ (disp.phase = "deliver" /\ disp'.seq = disp.seq)  BY DEF Idle
        <2> QED BY <2>1, <2>2, <2>3, PositionsKept
    <1> QED BY <1>5, <1>6

------------------------------------------------------------------------------
(* The steps.                                                                *)

\* What the worker does on its own leaves the calls alone.
LEMMA NodeLocalHeld ==
    ASSUME IInv, IInv', HeldInv, NodeLocal \/ EnqueueFinalize
    PROVE  HeldInv'
    <1>1. calls' = calls /\ head' = head
        BY DEF NodeLocal, EnqueueFinalize, leaderVars
    <1>2. head.wm <= head'.wm  BY <1>1, HeldTypes
    <1>3. disp' = disp => CallsInv'
        BY <1>1 DEF HeldInv, CallsInv, MineDispatched, AnswersDecided
    <1>4. ASSUME disp.phase # "deliver"  PROVE CallsInv'
        <2>1. \A c \in Calls : ~calls[c].mine /\ calls[c].stage # "answered"
            BY <1>4 DEF HeldInv, CallsInv, MineDispatched
        <2> QED BY <1>1, <2>1 DEF CallsInv, MineDispatched, AnswersDecided
    <1> DEFINE Worker == WorkerInv' /\ (ReplaysSafe => UnconsumedIsHeld' /\ NoOvertaking')
    <1>5. ASSUME Worker, CallsInv'  PROVE HeldInv'
        <2>1. ReplaysSafe' = ReplaysSafe  BY DEF ReplaysSafe
        <2> QED BY <1>5, <2>1 DEF HeldInv
    <1>6. CASE DrawStamp
        <2>1. Worker  BY <1>2, <1>6, TablesKept DEF DrawStamp
        <2> QED BY <1>3, <1>5, <1>6, <2>1 DEF DrawStamp
    <1>7. ASSUME NEW stamp \in drawn, EnqueueStatus(stamp)  PROVE HeldInv'
        <2>1. Enqueue("status", stamp)  BY <1>7 DEF EnqueueStatus
        <2>2. Worker  BY <1>1, <2>1, EnqueueHeld
        <2> QED BY <1>3, <1>5, <2>1, <2>2 DEF Enqueue
    <1>8. ASSUME NEW kind \in OtherKinds, EnqueueOther(kind)  PROVE HeldInv'
        <2>1. Enqueue(kind, 0)  BY <1>8 DEF EnqueueOther
        <2>2. Worker  BY <1>1, <2>1, EnqueueHeld
        <2> QED BY <1>3, <1>5, <2>1, <2>2 DEF Enqueue
    <1>9. CASE Supersede
        <2>1. Worker  BY <1>1, <1>9, SupersedeHeld
        <2> QED BY <1>4, <1>5, <1>9, <2>1 DEF Supersede
    <1>10. ASSUME NEW r \in rows, RequeueExpired(r)  PROVE HeldInv'
        <2>1. Traced /\ LivePositions' = LivePositions  BY <1>10, RelabelTraced DEF RequeueExpired
        <2>2. disp' = Idle /\ disp' = disp /\ UNCHANGED <<cmd, dead, ids>>  BY <1>10 DEF RequeueExpired
        <2>3. HeldPositions' = HeldPositions /\ DeadPositions' \subseteq HeldPositions
            BY <2>1, <2>2 DEF HeldPositions, DeadPositions
        <2>4. Worker  BY <1>1, <2>1, <2>2, <2>3, RowsShrink
        <2> QED BY <1>3, <1>5, <2>2, <2>4
    <1>11. ASSUME NEW a \in Admins, NEW d \in dead, ReplayRead(a, d)  PROVE HeldInv'
        <2>1. UNCHANGED <<cmd, rows, dead, ids, disp>>  BY <1>11 DEF ReplayRead
        <2>2. Worker  BY <1>2, <2>1, TablesKept
        <2> QED BY <1>3, <1>5, <2>1, <2>2
    <1>12. ASSUME NEW a \in Admins, ReplayInsert(a)  PROVE HeldInv'
        <2>1. Worker  BY <1>1, <1>12, ReplayInsertHeld
        <2> QED BY <1>3, <1>5, <1>12, <2>1 DEF ReplayInsert
    <1> QED BY <1>6, <1>7, <1>8, <1>9, <1>10, <1>11, <1>12 DEF NodeLocal, EnqueueFinalize

\* The dispatcher settles by an answer, which tells of a decision, or gives up,
\* which counts as an invitation to retry.
LEMMA ReplyHeld ==
    ASSUME IInv, IInv', HeldInv, NEW c \in Calls, Reply(c) \/ GiveUp(c)
    PROVE  HeldInv'
    <1>1. head' = head  BY DEF Reply, GiveUp, leaderUnchanged, leaderVars
    <1>2. calls[c].mine
        BY DEF Reply, GiveUp, HeldInv, CallsInv, MineDispatched
    <1>3. CallsInv'
        <2>1. CASE Reply(c)
            <3>1. calls' = [calls EXCEPT ![c] = NoCall]  BY <2>1 DEF Reply
            <3>2. NoCall.mine = FALSE /\ NoCall.stage # "answered"  BY DEF NoCall
            <3> QED BY <1>2, <3>1, <3>2, OnlyCallEnds DEF HeldInv
        <2>2. CASE GiveUp(c)
            <3> DEFINE call == Orphan(calls[c])
            <3>1. calls' = [calls EXCEPT ![c] = call]  BY <2>2 DEF GiveUp
            <3>2. calls[c] \in OpenCall
                <4>1. calls[c] # NoCall
                    <5>1. NoCall.mine = FALSE  BY DEF NoCall
                    <5> QED BY <1>2, <5>1
                <4> QED BY <4>1, OpenCalls DEF IInv, TypeOK
            <3>3. call.mine = FALSE /\ call.stage # "answered"
                BY <3>2 DEF Orphan, NoCall, OpenCall
            <3> HIDE DEF call
            <3> QED BY <1>2, <3>1, <3>3, OnlyCallEnds DEF HeldInv
        <2> QED BY <2>1, <2>2
    <1>4. WorkerInv' /\ (ReplaysSafe => UnconsumedIsHeld' /\ NoOvertaking')
        <2>1. CASE Reply(c)
            <3> DEFINE answer == calls[c].commit.answer
            <3>1. calls[c] \in OpenCall  BY <2>1, OpenCalls DEF Reply, IInv, TypeOK
            <3>2. answer \in Answer  BY <3>1 DEF OpenCall, Commit
            <3>3. answer \notin {"retry", "codec"} => calls[c].seq <= head.wm
                BY <2>1 DEF Reply, HeldInv, CallsInv, AnswersDecided
            <3>4. calls[c].seq = disp.seq  BY <1>2 DEF HeldInv, CallsInv, MineDispatched
            <3>5. Settle(answer)  BY <2>1 DEF Reply
            <3> HIDE DEF answer
            <3> QED BY <1>1, <3>2, <3>3, <3>4, <3>5, SettleHeld
        <2>2. CASE GiveUp(c)
            <3>1. Settle("retry") /\ "retry" \in Answer  BY <2>2 DEF GiveUp, Answer
            <3> QED BY <1>1, <3>1, SettleHeld
        <2> QED BY <2>1, <2>2
    <1>5. ReplaysSafe' = ReplaysSafe  BY DEF ReplaysSafe
    <1> QED BY <1>3, <1>4, <1>5 DEF HeldInv

\* The process is gone, and with it everyone who waits.
LEMMA CrashHeld ==
    ASSUME IInv, IInv', HeldInv, Crash
    PROVE  HeldInv'
    <1>1. /\ UNCHANGED <<cmd, rows, dead, ids>> /\ disp' = Idle /\ head' = head
        BY DEF Crash, NodeCrash, leaderUnchanged, leaderVars
    <1>2. head.wm <= head'.wm  BY <1>1, HeldTypes
    <1>3. WorkerInv' /\ (ReplaysSafe => UnconsumedIsHeld' /\ NoOvertaking')
        BY <1>1, <1>2, TablesKept
    <1>4. ASSUME NEW c \in Calls  PROVE calls'[c].mine = FALSE /\ calls'[c].stage # "answered"
        <2>1. calls'[c] = IF calls[c].mine THEN Orphan(calls[c]) ELSE calls[c]  BY DEF Crash
        <2>2. calls[c] = NoCall \/ calls[c] \in OpenCall  BY DEF IInv, TypeOK, Call
        <2>3. CASE calls[c].mine
            <3>1. calls[c] \in OpenCall
                <4>1. NoCall.mine = FALSE  BY DEF NoCall
                <4> QED BY <2>2, <2>3, <4>1
            <3>2. Orphan(calls[c]).mine = FALSE /\ Orphan(calls[c]).stage # "answered"
                BY <3>1 DEF Orphan, NoCall, OpenCall
            <3> QED BY <2>1, <2>3, <3>2
        <2>4. CASE ~calls[c].mine
            <3>1. calls[c].mine = FALSE
                <4>1. NoCall.mine = FALSE  BY DEF NoCall
                <4>2. \A call \in OpenCall : call.mine \in BOOLEAN  BY DEF OpenCall
                <4> QED BY <2>2, <2>4, <4>1, <4>2
            <3>2. calls[c].stage # "answered"  BY <2>4 DEF HeldInv, CallsInv, MineDispatched
            <3> QED BY <2>1, <2>4, <3>1, <3>2
        <2> QED BY <2>3, <2>4
    <1>5. CallsInv'  BY <1>4, NobodyWaits
    <1>6. ReplaysSafe' = ReplaysSafe  BY DEF ReplaysSafe
    <1> QED BY <1>3, <1>5, <1>6 DEF HeldInv

\* The worker's tables while the leader works.
LEMMA LeaderKeepsTables ==
    ASSUME IInv, IInv', HeldInv, UNCHANGED nodeVars, head.wm <= head'.wm, CallsInv'
    PROVE  HeldInv'
    <1>1. UNCHANGED <<cmd, rows, dead, ids, disp>>  BY DEF nodeVars
    <1>2. WorkerInv' /\ (ReplaysSafe => UnconsumedIsHeld' /\ NoOvertaking')  BY <1>1, TablesKept
    <1>3. ReplaysSafe' = ReplaysSafe  BY DEF ReplaysSafe
    <1> QED BY <1>2, <1>3 DEF HeldInv

\* A commit decides its position before anyone is told.
LEMMA CommitHeld ==
    ASSUME IInv, IInv', HeldInv, NEW c \in Calls, RaftCommit(c)
    PROVE  HeldInv'
    <1> DEFINE n == calls[c].seq
               command == cmd[n]
               commit == calls[c].commit
    <1>1. calls[c].stage = "proposed"  BY DEF RaftCommit
    <1>2. /\ n \in 1..Len(cmd) /\ command \in Command /\ commit \in Commit
          /\ SoundCommit(command, commit) /\ (Duplicate(n, head) \/ n = head.wm + 1)
        BY <1>1, CommittedPosition
    <1>3. head \in ClusterState /\ head.ledger = 1..head.wm /\ head.wm \in Nat /\ head'.wm \in Nat
        <2>1. head.ledger = 1..head.wm  BY DEF IInv, LedgerMatchesWatermark
        <2>2. head'.wm \in Nat  BY DEF IInv, TypeOK, LeaderTypeOK, ClusterState
        <2> QED BY <2>1, <2>2 DEF IInv, TypeOK, LeaderTypeOK, ClusterState
    <1>4. head' = Apply(n, command, commit, head)  BY DEF RaftCommit, CommitEntry
    <1>5. PICK answer : calls' = Answered(c, answer)  BY DEF RaftCommit
    <1>6. UNCHANGED nodeVars  BY DEF RaftCommit, nodeUnchanged
    <1> HIDE DEF n, command, commit
    <1>7. head.wm <= head'.wm /\ n <= head'.wm
        <2>1. CASE Duplicate(n, head)
            BY <1>2, <1>3, <1>4, <2>1 DEF Apply, Duplicate
        <2>2. CASE ~Duplicate(n, head)
            <3>1. head' = Consume(n, command, commit, head)  BY <1>4, <2>2 DEF Apply
            <3>2. head'.wm = n  BY <3>1 DEF Consume
            <3> QED BY <1>2, <1>3, <2>2, <3>2
        <2> QED BY <2>1, <2>2
    <1>8. CallsInv'
        <2>1. disp' = disp  BY <1>6 DEF nodeVars
        <2>2. calls[c].seq <= head'.wm  BY <1>7 DEF n
        <2> QED BY <1>1, <1>3, <1>5, <1>7, <2>1, <2>2, AnsweredChanges DEF HeldInv
    <1> QED BY <1>6, <1>7, <1>8, LeaderKeepsTables

\* What the leader answers without a commit of its own: a refusal, or that the
\* position is decided, which its lagging view can only know if it is so.
LEMMA CallStepHeld ==
    ASSUME IInv, IInv', HeldInv, NEW c \in Calls,
           \/ Refuse(c) \/ AdmitCall(c) \/ BuildDuplicate(c) \/ BuildGap(c) \/ BuildCommit(c) \/ RaftLose(c)
    PROVE  HeldInv'
    <1>1. UNCHANGED nodeVars /\ disp' = disp /\ head' = head
        BY DEF Refuse, AdmitCall, BuildDuplicate, BuildGap, BuildCommit, RaftLose,
               nodeUnchanged, leaderUnchanged, nodeVars, leaderVars
    <1>2. head'.wm \in Nat /\ head.wm <= head'.wm  BY <1>1, HeldTypes
    <1>3. calls[c].stage \in {"sent", "admitted", "proposed"}
        BY DEF Refuse, AdmitCall, BuildDuplicate, BuildGap, BuildCommit, RaftLose, AtLeader
    <1>4. calls[c] \in OpenCall /\ calls[c].stage # "none"
        BY <1>3, OpenCalls DEF IInv, TypeOK
    <1>5. ASSUME NEW answer, calls' = Answered(c, answer),
                 answer \notin {"retry", "codec"} => calls[c].seq <= head'.wm
          PROVE  HeldInv'
        <2>1. CallsInv'  BY <1>1, <1>2, <1>4, <1>5, AnsweredChanges DEF HeldInv
        <2> QED BY <1>1, <1>2, <2>1, LeaderKeepsTables
    <1>6. CASE Refuse(c)
        BY <1>5, <1>6, RefusalAssumption DEF Refuse
    <1>7. CASE BuildDuplicate(c)
        <2>1. PICK answer : calls' = Answered(c, answer)  BY <1>7 DEF BuildDuplicate
        <2>2. calls[c].seq <= head'.wm
            <3> DEFINE view == applied[leader]
            <3>1. leader \in Servers /\ head \in ClusterState /\ view \in ClusterState
                BY DEF IInv, TypeOK, LeaderTypeOK
            <3>2. view.ledger = 1..view.wm /\ view.wm <= head.wm
                BY <3>1 DEF IInv, LedgerMatchesWatermark, ViewsBehind, Behind
            <3>3. calls[c].seq \in view.ledger \/ calls[c].seq <= view.wm
                BY <1>7 DEF BuildDuplicate, AlreadyApplied
            <3>4. view.wm \in Nat /\ head.wm \in Nat /\ calls[c].seq \in Nat
                BY <1>4, <3>1 DEF ClusterState, OpenCall, Position
            <3> HIDE DEF view
            <3> QED BY <1>1, <3>2, <3>3, <3>4
        <2> QED BY <1>5, <2>1, <2>2
    <1>8. CASE BuildGap(c)
        BY <1>5, <1>8 DEF BuildGap
    <1>9. CASE RaftLose(c)
        BY <1>5, <1>9 DEF RaftLose
    <1>10. ASSUME NEW call, calls' = [calls EXCEPT ![c] = call], call.mine = calls[c].mine,
                  call.seq = calls[c].seq, call.stage # "answered"
           PROVE  HeldInv'
        <2>1. CallsInv'  BY <1>1, <1>2, <1>10, OneCallChanges DEF HeldInv
        <2> QED BY <1>1, <1>2, <2>1, LeaderKeepsTables
    <1>11. CASE AdmitCall(c)
        <2> DEFINE call == [calls[c] EXCEPT !.stage = "admitted",
                              !.commit.verdict = Admit(cmd[calls[c].seq], applied[leader])]
        <2>1. calls' = [calls EXCEPT ![c] = call]  BY <1>11 DEF AdmitCall
        <2>2. call.mine = calls[c].mine /\ call.seq = calls[c].seq /\ call.stage = "admitted"
            BY <1>4 DEF OpenCall
        <2> HIDE DEF call
        <2> QED BY <1>10, <2>1, <2>2
    <1>12. CASE BuildCommit(c)
        <2>1. PICK m : calls' = [calls EXCEPT ![c].stage = "proposed",
                     ![c].commit = [effect |-> m.effect, exp |-> m.exp, answer |-> m.answer,
                                    verdict |-> calls[c].commit.verdict]]
            BY <1>12 DEF BuildCommit
        <2> DEFINE commit == [effect |-> m.effect, exp |-> m.exp, answer |-> m.answer,
                              verdict |-> calls[c].commit.verdict]
                   call == [calls[c] EXCEPT !.stage = "proposed", !.commit = commit]
        <2>2. calls' = [calls EXCEPT ![c] = call]  BY <2>1
        <2>3. call.mine = calls[c].mine /\ call.seq = calls[c].seq /\ call.stage = "proposed"
            BY <1>4 DEF OpenCall
        <2> HIDE DEF call
        <2> QED BY <1>10, <2>2, <2>3
    <1> QED BY <1>6, <1>7, <1>8, <1>9, <1>11, <1>12

\* Elections, other writers and replication answer nobody.
LEMMA LeaderNextHeld ==
    ASSUME IInv, IInv', HeldInv, LeaderNext
    PROVE  HeldInv'
    <1>1. UNCHANGED nodeVars /\ disp' = disp /\ calls' = calls
        BY DEF LeaderNext, ElectLeader, LeaderLocal, nodeVars
    <1>2. head'.wm = head.wm  BY LeaderStepKeepsIInv
    <1>3. head.wm <= head'.wm  BY <1>2, HeldTypes
    <1>4. CallsInv'  BY <1>1, <1>2 DEF HeldInv, CallsInv, MineDispatched, AnswersDecided
    <1> QED BY <1>1, <1>3, <1>4, LeaderKeepsTables

\* The empty outbox satisfies the invariant.
LEMMA InitHeld == Init => HeldInv
    <1> SUFFICES ASSUME Init  PROVE HeldInv  OBVIOUS
    <1> USE DEF Init, NodeInit, LeaderInit
    <1>1. rows = {} /\ dead = {} /\ disp.phase = "idle" /\ Len(cmd) = 0  BY DEF Idle
    <1>2. WorkerInv
        BY <1>1 DEF WorkerInv, RowIds, Dispatched, SupersedeDecided, IdsInOrder
    <1>3. \A c \in Calls : calls[c].mine = FALSE /\ calls[c].stage # "answered"  BY DEF NoCall
    <1>4. CallsInv  BY <1>3 DEF CallsInv, MineDispatched, AnswersDecided
    <1>5. UnconsumedIsHeld /\ NoOvertaking  BY <1>1 DEF UnconsumedIsHeld, NoOvertaking
    <1> QED BY <1>2, <1>4, <1>5 DEF HeldInv

\* Every step keeps it.
LEMMA NextKeepsHeld == IInv /\ IInv' /\ HeldInv /\ [Next]_vars => HeldInv'
    <1> SUFFICES ASSUME IInv, IInv', HeldInv, [Next]_vars  PROVE HeldInv'  OBVIOUS
    <1>1. CASE NodeLocal \/ EnqueueFinalize  BY <1>1, NodeLocalHeld
    <1>2. ASSUME NEW r \in rows, NEW c \in Calls, ClaimAndSend(r, c)  PROVE HeldInv'  BY <1>2, ClaimHeld
    <1>3. ASSUME NEW c \in Calls, CallStep(c)  PROVE HeldInv'
        BY <1>3, ReplyHeld, CommitHeld, CallStepHeld DEF CallStep
    <1>4. CASE Crash  BY <1>4, CrashHeld
    <1>5. CASE LeaderNext  BY <1>5, LeaderNextHeld
    <1>6. CASE UNCHANGED vars
        <2>1. UNCHANGED nodeVars /\ head' = head /\ calls' = calls /\ disp' = disp
            BY <1>6 DEF vars, leaderVars, nodeVars
        <2>2. head.wm <= head'.wm  BY <2>1, HeldTypes
        <2>3. CallsInv'  BY <2>1 DEF HeldInv, CallsInv, MineDispatched, AnswersDecided
        <2> QED BY <2>1, <2>2, <2>3, LeaderKeepsTables
    <1> QED BY <1>1, <1>2, <1>3, <1>4, <1>5, <1>6 DEF Next, LeaderNext

\* For every instance: the inductive invariant of what the worker holds.
THEOREM HeldInvariant == Spec => []HeldInv
    <1>1. Init => IInv /\ HeldInv  BY InitEstablishesIInv, InitHeld
    <1>2. IInv /\ HeldInv /\ [Next]_vars => (IInv /\ HeldInv)'
        BY NextKeepsIInv, NextKeepsHeld
    <1> QED BY <1>1, <1>2, PTL DEF Spec

\* For every instance in which a replay and a finalization do not meet: a
\* position the control plane has not decided is still on the worker, however
\* often deliveries time out, crash, are refused, dead-lettered or replayed.
THEOREM NothingUndecidedLost == Spec => [](ReplaysSafe => UnconsumedIsHeld)
    <1>1. HeldInv => (ReplaysSafe => UnconsumedIsHeld)  BY DEF HeldInv
    <1> QED BY <1>1, HeldInvariant, PTL

\* For every such instance: the dispatcher delivers no row past an older one
\* the control plane has yet to decide.
THEOREM NeverOvertaken == Spec => [](ReplaysSafe => NoOvertaking)
    <1>1. HeldInv => (ReplaysSafe => NoOvertaking)  BY DEF HeldInv
    <1> QED BY <1>1, HeldInvariant, PTL

\* For every instance without replays: what a delivered finalization removes
\* as superseded came before it in the stream.
THEOREM WithoutReplaysSupersededFirst == Spec => [](Admins = {} => SupersededComesBefore)
    <1>1. HeldInv => (Admins = {} => SupersededComesBefore)
        BY DEF HeldInv, WorkerInv, IdsInOrder, SupersededComesBefore, Superseded
    <1> QED BY <1>1, HeldInvariant, PTL
==============================================================================
