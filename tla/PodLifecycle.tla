---------------------------- MODULE PodLifecycle ----------------------------
(*****************************************************************************)
(* The lifecycle of the Pods of one name on their node: the actor with its   *)
(* mailbox, timers and work tasks, the API the Pods live in, CRI events,     *)
(* probe commands, sandbox garbage collection and kubelet restarts.          *)
(*****************************************************************************)
EXTENDS PodRuntime

CONSTANTS MaxMailbox,   \* length at which no more messages are routed to it
          MaxTasks,     \* tasks running when a deadline passes or a signal comes
          MaxTimers,    \* timers of a UID when the deferred-delete queue wakes it
          Deletable,    \* the UIDs that are deleted
          Cases         \* <<remote, held>>: a worker or the leader itself, and
                        \* whether Pods are created with a finalizer

ASSUME PodLifecycleAssumption ==
    /\ MaxMailbox \in Nat /\ MaxTasks \in Nat /\ MaxTimers \in Nat
    /\ Deletable \subseteq Uids /\ Cases \subseteq BOOLEAN \X BOOLEAN

VARIABLE created    \* Pods created so far: the next has UID created + 1

vars == <<actorVars, runtimeVars, apiVars, outbox, remote, upsets, created>>

Types == {"added", "modified", "deleted", "orphan", "cri", "command"}
Messages == [type : Types, uid : Uids, rv : Nat, deleting : BOOLEAN, running : BOOLEAN]
Stages == {"begin", "checked", "created", "init", "found", "clearing", "granted", "blocked",
           "unsubscribed", "subscribed", "woken", "completed", "confirmed", "unconfirmed"} \cup Failures

TypeOK ==
    /\ actor \in [phase : Phases, active : MaybeUid, admitted : MaybeUid, sandbox : BOOLEAN,
                  replacement : MaybeUid, pendingStart : [uid : MaybeUid, start : BOOLEAN],
                  pendingStop : [uid : MaybeUid, graceful : BOOLEAN], waiting : BOOLEAN,
                  inFlight : [kind : Kinds \cup {"none"}, uid : MaybeUid, op : Nat],
                  finalized : BOOLEAN, pendingRuntime : BOOLEAN, startupRetry : BOOLEAN,
                  deleteRetry : BOOLEAN, deadline : [uid : MaybeUid, fired : BOOLEAN],
                  lastRv : Nat, reconciled : BOOLEAN, deferred : Messages \cup {NoMessage},
                  do : {Nothing}, cancelled : {0}]
    /\ works \subseteq [kind : Kinds, uid : Uids, op : Nat, flag : BOOLEAN,
                        cancelled : BOOLEAN, stage : Stages, blocker : MaybeUid]
    /\ timers \in [Uids -> Nat] /\ sandbox \in [Uids -> {"none", "empty", "started"}] 
    /\ outbox \in [Uids -> [rows : Nat, dead : BOOLEAN]]
    /\ slot \in MaybeUid
    /\ row \in [uid : MaybeUid, deleting : BOOLEAN, held : BOOLEAN, running : BOOLEAN]
    /\ version \in Nat /\ mailbox \in Seq(Messages) /\ remote \in BOOLEAN
    /\ upsets \in 0..MaxUpsets /\ created \in 0..MaxUid

Init ==
    /\ actor = FreshActor /\ works = {} /\ timers = NoTimers
    /\ slot = NoUid /\ sandbox = [u \in Uids |-> "none"]
    /\ row = NoPod /\ version = 1 /\ mailbox = <<>> /\ outbox = [u \in Uids |-> EmptyOutbox]
    /\ remote \in {c[1] : c \in Cases}
    /\ upsets = 0 /\ created = 0

------------------------------------------------------------------------------
(* The actor's loop *)

\* The action of a handled message: the task is spawned or the timer armed,
\* and the operation the handler gave up is told so.
Take(a, ws, ts) ==
    LET told == {[w EXCEPT !.cancelled = w.cancelled \/ (a.cancelled # 0 /\ w.op = a.cancelled)] : w \in ws}
        spawned == [kind |-> a.do.kind, uid |-> a.do.uid, op |-> a.do.op, flag |-> a.do.flag,
                    cancelled |-> FALSE, stage |-> "begin", blocker |-> NoUid]
    IN  /\ actor' = [a EXCEPT !.do = Nothing, !.cancelled = 0]
        /\ works' = Relevant(a, told \cup (IF a.do.kind \in Kinds THEN {spawned} ELSE {}))
        /\ timers' = IF a.do.kind = "retry" THEN [ts EXCEPT ![a.do.uid] = @ + 1] ELSE ts

Receive ==
    /\ mailbox # <<>>
    /\ Take(Handle(actor, Head(mailbox)), works, timers)
    /\ mailbox' = Tail(mailbox)
    /\ UNCHANGED <<runtimeVars, row, version, outbox, remote, upsets, created>>

\* A slot check that was blocked goes on to wait.
Deliver(w) ==
    /\ w.stage \in Answers \cup {"blocked", "woken"}
    /\ Take(IF w.stage = "woken" THEN SlotWake(actor, w.uid) ELSE WorkAnswered(actor, w),
            IF w.stage = "blocked" THEN (works \ {w}) \cup {[w EXCEPT !.stage = "unsubscribed"]}
                                   ELSE works \ {w},
            timers)
    /\ UNCHANGED <<runtimeVars, apiVars, outbox, remote, upsets, created>>

RetryFires(u) ==
    /\ timers[u] > 0
    /\ Take(RetryDue(actor, u), works, [timers EXCEPT ![u] = @ - 1])
    /\ UNCHANGED <<runtimeVars, apiVars, outbox, remote, upsets, created>>

DeadlineFires ==
    /\ Cardinality(works) <= MaxTasks
    /\ actor.deadline.uid = actor.active /\ actor.active # NoUid /\ ~actor.deadline.fired
    /\ Take(DeletionDeadlineDue(actor), works, timers)
    /\ UNCHANGED <<runtimeVars, apiVars, outbox, remote, upsets, created>>

\* Messages sent to the mailbox by this node, not by the watch.
Local(m) == m.type \in {"orphan", "cri", "command"} \/ m.rv = 0

\* The registry forgets an actor that has been idle for a while; its timers
\* and waiters have nobody to tell, its other tasks go on.
RemoveIdle ==
    /\ actor.phase = "Terminated" /\ actor.active = NoUid /\ actor.replacement = NoUid
    /\ actor.pendingStart = NoStart /\ ~actor.deleteRetry /\ ~actor.waiting
    /\ actor.inFlight = NoFlight
    /\ \A i \in 1..Len(mailbox) : ~Local(mailbox[i])
    /\ actor' = FreshActor /\ timers' = NoTimers
    /\ works' = {w \in Relevant(actor', works) : w.stage \notin {"blocked", "unsubscribed", "subscribed", "woken"}}
    /\ UNCHANGED <<runtimeVars, apiVars, outbox, remote, upsets, created>>

------------------------------------------------------------------------------
(* The API *)

CreatePod ==
    /\ row = NoPod /\ created < MaxUid
    /\ \E held \in BOOLEAN :
           /\ <<remote, held>> \in Cases
           /\ Commit("added", [uid |-> created + 1, deleting |-> FALSE, held |-> held, running |-> FALSE])
    /\ created' = created + 1
    /\ UNCHANGED <<actorVars, runtimeVars, outbox, remote, upsets>>

DeletePod ==
    /\ row.uid \in Deletable /\ ~row.deleting
    /\ Commit("modified", [row EXCEPT !.deleting = TRUE])
    /\ UNCHANGED <<actorVars, runtimeVars, outbox, remote, upsets, created>>

ReleasePod ==
    /\ row.held
    /\ Commit("modified", [row EXCEPT !.held = FALSE])
    /\ UNCHANGED <<actorVars, runtimeVars, outbox, remote, upsets, created>>

\* The outbox, which sends nothing of a UID behind a dead letter of it.  A
\* finalization of a Pod that is gone is done; one of a Pod that has been
\* replaced (UidMismatch) is moved to the dead letters.
Deliverable(u) == outbox[u].rows > 0 /\ ~outbox[u].dead

SettleFinalization ==
    /\ \E u \in Uids :
           /\ Deliverable(u)
           /\ outbox' = [outbox EXCEPT ![u] = [rows |-> @.rows - 1, dead |-> row.uid \notin {NoUid, u}]]
           /\ IF LivePod(u) THEN Commit("deleted", row) ELSE UNCHANGED apiVars
    /\ UNCHANGED <<actorVars, runtimeVars, remote, upsets, created>>

\* The last attempt failed, or the leader refused the command for good.
DeadLetterFinalization ==
    /\ Upset("deadletter")
    /\ \E u \in Uids :
           /\ Deliverable(u)
           /\ outbox' = [outbox EXCEPT ![u] = [rows |-> @.rows - 1, dead |-> TRUE]]
    /\ UNCHANGED <<actorVars, runtimeVars, apiVars, remote, created>>

\* An administrator has a dead letter sent again, at its old position.
ReplayDeadLetter ==
    /\ \E u \in Uids :
           /\ outbox[u].dead
           /\ outbox' = [outbox EXCEPT ![u] = [rows |-> @.rows + 1, dead |-> FALSE]]
    /\ UNCHANGED <<actorVars, runtimeVars, apiVars, remote, upsets, created>>

------------------------------------------------------------------------------
(* Messages of this node.  They are routed while watch events are on their   *)
(* way, but never ahead of what is in the mailbox.                           *)

LastLocal == Cardinality({i \in 1..Len(mailbox) : \E j \in i..Len(mailbox) : Local(mailbox[j])})

Route(m) ==
    /\ Len(mailbox) < MaxMailbox
    /\ \E i \in LastLocal..Len(mailbox) : mailbox' = InsertAt(mailbox, i + 1, m)

Signal(type, u) == Message(type, [NoPod EXCEPT !.uid = u], 0)

\* The deferred-delete queue is the leader's.  It shows a deleting row to the
\* actor of the leader's own Pod again and again; for a Pod of another node it
\* asks for the delete mark, which is there, and nothing is written.
DeleteWake ==
    /\ ~remote /\ row.deleting /\ timers[row.uid] <= MaxTimers
    /\ Route(Message("modified", row, version))
    /\ UNCHANGED <<actorVars, runtimeVars, row, version, outbox, remote, upsets, created>>

\* CRI events are routed while the row has their UID, commands while the
\* probes of the UID run.
SendSignal ==
    /\ row.uid \in sandboxes /\ Cardinality(works) <= MaxTasks
    /\ \/ Upset("cri") /\ Route(Signal("cri", row.uid))
       \/ Upset("command") /\ row.running /\ Route(Signal("command", row.uid))
    /\ UNCHANGED <<actorVars, runtimeVars, row, version, outbox, remote, created>>

\* Sandboxes the API does not know are removed; their slot is not.
CollectSandbox ==
    /\ \E u \in sandboxes \ {row.uid} : sandbox' = Removed(u)
    /\ UNCHANGED <<actorVars, slot, apiVars, outbox, remote, upsets, created>>

\* Restart: only the API, node.db and the sandboxes are left.  Sandboxes are
\* compared with the API, then every Pod of the API is shown to its actor.
Restart ==
    /\ Upset("restart")
    /\ actor' = FreshActor /\ works' = {} /\ timers' = NoTimers
    /\ LET orphans == {Signal("orphan", u) : u \in sandboxes \ {row.uid}}
           attached == {Message("added", row, 0) : u \in sandboxes \cap {row.uid}}
           recovered == {Message("added", row, version) : r \in {row} \ {NoPod}}
       IN  \E found \in SetToSeqs(orphans \cup attached) : mailbox' = found \o SetToSeq(recovered)
    /\ UNCHANGED <<runtimeVars, row, version, outbox, remote, created>>

------------------------------------------------------------------------------
Delivers == \E w \in works : Deliver(w)

Retries == \E u \in Uids : RetryFires(u)

Works == \E w \in works : Work(w) /\ UNCHANGED created

Fails == \E w \in works : Fail(w) /\ UNCHANGED created

Next ==
    \/ Receive \/ Delivers \/ Retries \/ Works \/ Fails \/ DeadlineFires \/ RemoveIdle
    \/ CreatePod \/ DeletePod \/ ReleasePod
    \/ SettleFinalization \/ DeadLetterFinalization \/ ReplayDeadLetter
    \/ DeleteWake \/ SendSignal \/ CollectSandbox \/ Restart

Spec == Init /\ [][Next]_vars

\* The actor's loop takes from its mailbox, from its work tasks and from its
\* timers in turn; every task is polled; the outbox sends its rows, and the
\* leader's deferred-delete queue wakes its own actors until the row is gone.
\* Deadlines, collections, failures, clients and replays are owed nothing.
FairSpec ==
    /\ Spec
    /\ WF_vars(Receive)
    /\ WF_vars(Delivers \/ Retries \/ Works \/ SettleFinalization)
    /\ WF_vars(DeleteWake)

------------------------------------------------------------------------------
(* Properties *)

Wanted(u) == LivePod(u) /\ ~row.deleting

Starting(w) == w.kind = "StartPod" /\ ~w.cancelled

\* A Pod the API wants is started, and its sandbox is kept, only under the
\* slot of its name: no late stop, retry or restart of an earlier UID takes
\* the slot away from the Pod that runs (try_admit, clear_if_uid).
WantedHoldsSlot ==
    \A u \in Uids :
        Wanted(u) /\ (u \in sandboxes \/ \E w \in works : Starting(w) /\ w.uid = u) => slot = u

\* Whatever comes late from an earlier UID of the name (a DELETED event, a
\* retry or deadline timer, an orphan found at startup, an answer), the runtime
\* is never told to stop a Pod that nobody deleted.
OnlyDoomedStopped == \A w \in works : w.kind = "StopPod" => ~Wanted(w.uid)

\* The outbox holds a finalization of the Pod in the API.
Pending(u) == u \in Uids /\ LivePod(u) /\ outbox[u] # EmptyOutbox

\* The operation the actor waits for always has someone who can answer it, for
\* the actor has no timeout of its own for work in flight: its task; or, for a
\* finalization handed to the outbox, the DELETED event; or the outbox, which
\* still holds the finalization of the Pod, if only as a dead letter that waits
\* for its replay.
InFlightAnswered ==
    actor.inFlight # NoFlight =>
        \/ \E w \in works : Heard(actor, w)
        \/ /\ actor.inFlight.kind = "FinalizePodDeletion"
           /\ \/ Pending(actor.inFlight.uid)
              \/ \E m \in Range(mailbox) : m.uid = actor.inFlight.uid /\ m.type = "deleted"

Doubled(u) ==
    \E v, w \in works : v # w /\ Starting(v) /\ Starting(w) /\ v.uid = u /\ w.uid = u

\* Echoes, slot wakes, answers, commands and the events replayed after a restart
\* all find the start that is under way: only a retry timer, which does not look
\* at the work in flight (RetryDue), starts a Pod that nobody deleted beside a
\* start of it.
OnlyRetriesOverlap ==
    [][\A u \in Uids : Doubled(u)' /\ Wanted(u)' => Doubled(u) \/ timers'[u] < timers[u]]_vars

\* A deleted Pod that no finalizer holds leaves the API: a failed stop or
\* finalization, a lost answer and a restart are each made up for by a retry
\* timer, the watch or the outbox, and a command that displaces the stop of a
\* Pod of the leader by the wakes of the deferred-delete queue, stale or not.
DeletedPodsGo ==
    \A u \in Deletable : []<>~(LivePod(u) /\ row.deleting /\ ~row.held)
==============================================================================
