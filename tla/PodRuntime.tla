----------------------------- MODULE PodRuntime -----------------------------
(*****************************************************************************)
(* The work tasks of a Pod lifecycle actor (PodRuntimeService behind the     *)
(* work executor) and what they act on: the admission slot of the Pod's      *)
(* name, the sandboxes of its UIDs and its row in the API.  A task does      *)
(* several awaits, each a step; cancellation is seen at some of them only.   *)
(*****************************************************************************)
EXTENDS PodActor, Sequences, SequencesExt

CONSTANTS Upsets,     \* the kinds of disturbance that may happen to a Pod, by `remote`
          MaxUpsets   \* and how many of them

ASSUME UpsetsAssumption ==
    /\ Upsets \in [BOOLEAN -> SUBSET {"fault", "restart", "cri", "command", "deadletter"}]
    /\ MaxUpsets \in Nat

VARIABLES
    slot,       \* the UID admitted to the name, in node.db
    sandbox,    \* of each UID: none, empty, or with its containers started
    row,        \* the Pod of that name in the API
    version,    \* the API's resourceVersion
    mailbox,    \* the actor's, with the watch events still on their way at its end
    outbox,     \* finalizations of each UID in the node's outbox, and whether
                \* one of them is a dead letter
    remote,     \* the API is another server's
    upsets      \* disturbances so far

NoPod == [uid |-> NoUid, deleting |-> FALSE, held |-> FALSE, running |-> FALSE]

EmptyOutbox == [rows |-> 0, dead |-> FALSE]

runtimeVars == <<slot, sandbox>>

\* The UIDs with a sandbox, in CRI and in node.db.
sandboxes == {u \in Uids : sandbox[u] # "none"}

Removed(u) == [sandbox EXCEPT ![u] = "none"]
apiVars == <<row, version, mailbox>>

Message(type, pod, rv) ==
    [type |-> type, uid |-> pod.uid, rv |-> rv, deleting |-> pod.deleting, running |-> pod.running]

\* A committed change of the row, and its watch event.
Commit(type, pod) ==
    /\ row' = IF type = "deleted" THEN NoPod ELSE pod
    /\ version' = version + 1
    /\ mailbox' = Append(mailbox, Message(type, pod, version'))

LivePod(u) == row.uid = u

Upset(kind) == kind \in Upsets[remote] /\ upsets < MaxUpsets /\ upsets' = upsets + 1

------------------------------------------------------------------------------
Heard(a, w) == a.inFlight = [kind |-> w.kind, uid |-> w.uid, op |-> w.op]

\* Tasks that change nothing themselves: their answer is all that matters.
Silent == {"ReconcileCriLeftovers", "HandleCommand", "FinalizeStartup"}
Answers == Failures \cup {"granted", "completed", "confirmed", "unconfirmed"}

\* The tasks that still matter to an actor: an answer to an operation it has
\* given up is dropped whenever it arrives.
Relevant(a, ws) == {w \in ws : Heard(a, w) \/ ~(w.kind \in Silent \/ w.stage \in Answers)}

Move(w, stage) == works' = Relevant(actor, (works \ {w}) \cup {[w EXCEPT !.stage = stage]})

Answer(w, stage) == Move(w, stage) /\ UNCHANGED <<actor, timers, remote, upsets>>

\* Waiters that subscribed are told of the change they wait for.
WakeWaiters(ws, changed) ==
    {IF v.stage = "subscribed" /\ v.blocker \in changed THEN [v EXCEPT !.stage = "woken"] ELSE v : v \in ws}

\* try_admit: the slot is taken when it is free.
TryAdmit(w) ==
    /\ w.kind = "CheckSlotAdmission" /\ w.stage = "begin"
    /\ IF slot \in {NoUid, w.uid}
       THEN /\ slot' = w.uid
            /\ works' = Relevant(actor, WakeWaiters((works \ {w}) \cup {[w EXCEPT !.stage = "granted"]},
                                                    IF slot = NoUid THEN Uids ELSE {}))
       ELSE /\ works' = (works \ {w}) \cup {[w EXCEPT !.stage = "blocked", !.blocker = slot]}
            /\ UNCHANGED slot
    /\ UNCHANGED <<actor, timers, remote, upsets, sandbox, apiVars, outbox>>

\* The waiter subscribes after it has reported that it is blocked.
Subscribe(w) ==
    /\ w.stage = "unsubscribed"
    /\ IF w.cancelled THEN works' = works \ {w} ELSE Move(w, "subscribed")
    /\ UNCHANGED <<actor, timers, remote, upsets, runtimeVars, apiVars, outbox>>

\* The snapshot must not be older than a Pod of another UID; a start without
\* one needs the row.
StartAllowed(w) == IF w.flag THEN row.uid \in {NoUid, w.uid} ELSE LivePod(w.uid)

\* already_realized_running_sandbox; with a snapshot it may be overlooked.
Realized(u) == LivePod(u) /\ row.running /\ sandbox[u] = "started"

\* Identity, image pull and the last cancellation check before the sandbox.
StartBegins(w) ==
    /\ w.kind = "StartPod" /\ w.stage = "begin"
    /\ \/ ~StartAllowed(w) /\ Answer(w, "failed")
       \/ StartAllowed(w) /\ Realized(w.uid) /\ Answer(w, "completed")
       \/ /\ StartAllowed(w) /\ (w.flag \/ ~Realized(w.uid))
          /\ Answer(w, IF w.cancelled THEN "failed" ELSE "checked")
    /\ UNCHANGED <<runtimeVars, apiVars, outbox>>

\* The sandbox of the UID is reused or created, and recorded.
CreateSandbox(w) ==
    /\ w.kind = "StartPod" /\ w.stage = "checked"
    /\ Answer(w, "created")
    /\ sandbox' = [sandbox EXCEPT ![w.uid] = IF @ = "none" THEN "empty" ELSE @]
    /\ UNCHANGED <<slot, apiVars, outbox>>

\* A cancelled start takes its sandbox away.
AssignNetwork(w) ==
    /\ w.kind = "StartPod" /\ w.stage = "created"
    /\ IF w.cancelled THEN Answer(w, "failed") /\ sandbox' = Removed(w.uid)
                      ELSE Answer(w, "init") /\ UNCHANGED sandbox
    /\ UNCHANGED <<slot, apiVars, outbox>>

\* Cancelled behind an init container the sandbox stays; later it is rolled
\* back.  Containers start only in a sandbox that is still there.
StartContainers(w) ==
    /\ w.kind = "StartPod" /\ w.stage = "init"
    /\ \/ w.cancelled /\ Answer(w, "failed") /\ sandbox' \in {sandbox, Removed(w.uid)}
       \/ /\ ~w.cancelled /\ w.uid \in sandboxes
          /\ Answer(w, "completed") /\ sandbox' = [sandbox EXCEPT ![w.uid] = "started"]
       \/ ~w.cancelled /\ w.uid \notin sandboxes /\ Answer(w, "failed") /\ UNCHANGED sandbox
    /\ UNCHANGED <<slot, apiVars, outbox>>

\* The sandbox is resolved by store row, annotation or CRI listing.
ResolveSandbox(w) ==
    /\ w.kind = "StopPod" /\ w.stage = "begin"
    /\ Answer(w, IF w.uid \in sandboxes THEN "found" ELSE "clearing")
    /\ UNCHANGED <<runtimeVars, apiVars, outbox>>

RemoveSandbox(w) ==
    /\ w.kind = "StopPod" /\ w.stage = "found"
    /\ Answer(w, "clearing")
    /\ sandbox' = Removed(w.uid)
    /\ UNCHANGED <<slot, apiVars, outbox>>

\* Mutant: the slot is cleared by name.
ClearAnySlot(w) ==
    /\ w.kind = "StopPod" /\ w.stage = "clearing"
    /\ slot' = NoUid
    /\ works' = Relevant(actor, WakeWaiters((works \ {w}) \cup {[w EXCEPT !.stage = "completed"]}, {slot}))
    /\ UNCHANGED <<actor, timers, remote, upsets, sandbox, apiVars, outbox>>

\* clear_if_uid: the last step of a stop.
ClearSlot(w) ==
    /\ w.kind = "StopPod" /\ w.stage = "clearing"
    /\ slot' = IF slot = w.uid THEN NoUid ELSE slot
    /\ works' = Relevant(actor, WakeWaiters((works \ {w}) \cup {[w EXCEPT !.stage = "completed"]},
                                            IF slot = w.uid THEN {w.uid} ELSE {}))
    /\ UNCHANGED <<actor, timers, remote, upsets, sandbox, apiVars, outbox>>

\* Every await of a stop may give way to its cancellation, done or not.
AbortStop(w) ==
    /\ w.kind = "StopPod" /\ w.stage \in {"begin", "found", "clearing"} /\ w.cancelled
    /\ Answer(w, "aborted")
    /\ UNCHANGED <<runtimeVars, apiVars, outbox>>

\* finalize_after_actor_cleanup.  A finalization handed to the outbox has no
\* answer but the DELETED event.
FinalizeRow(w) ==
    /\ w.kind = "FinalizePodDeletion" /\ w.stage = "begin"
    /\ \/ ~LivePod(w.uid) /\ Answer(w, "completed") /\ UNCHANGED <<apiVars, outbox>>
       \/ /\ LivePod(w.uid) /\ ~row.deleting
          /\ Commit("modified", [row EXCEPT !.deleting = TRUE])
          /\ Answer(w, "failed") /\ UNCHANGED outbox
       \/ LivePod(w.uid) /\ row.deleting /\ row.held /\ Answer(w, "failed") /\ UNCHANGED <<apiVars, outbox>>
       \/ /\ LivePod(w.uid) /\ row.deleting /\ ~row.held /\ remote
          /\ outbox' = [outbox EXCEPT ![w.uid].rows = @ + 1]
          /\ works' = works \ {w} /\ UNCHANGED <<actor, timers, remote, upsets, apiVars>>
       \/ /\ LivePod(w.uid) /\ row.deleting /\ ~row.held /\ ~remote
          /\ Commit("deleted", row)
          /\ Answer(w, "completed") /\ UNCHANGED outbox
    /\ UNCHANGED runtimeVars

\* Publishes what runs, if the API does not show it.
PublishRuntime(w) ==
    /\ w.kind = "ReconcileRuntime" /\ w.stage = "begin"
    /\ IF LivePod(w.uid) /\ sandbox[w.uid] = "started" /\ ~row.running
       THEN Commit("modified", [row EXCEPT !.running = TRUE]) ELSE UNCHANGED apiVars
    /\ Answer(w, "completed")
    /\ UNCHANGED <<runtimeVars, outbox>>

\* The live Pod, or the actor's snapshot of one that is gone, must be running.
ConfirmStartup(w) ==
    /\ w.kind = "FinalizeStartup" /\ w.stage = "begin"
    /\ LET running == IF LivePod(w.uid) THEN row.running ELSE w.flag
       IN  Answer(w, IF running /\ w.uid \in sandboxes THEN "confirmed" ELSE "unconfirmed")
    /\ UNCHANGED <<runtimeVars, apiVars, outbox>>

\* Neither changes what is modelled.
Acknowledge(w) ==
    /\ w.kind \in {"ReconcileCriLeftovers", "HandleCommand"} /\ w.stage = "begin"
    /\ Answer(w, "completed")
    /\ UNCHANGED <<runtimeVars, apiVars, outbox>>

Work(w) ==
    \/ TryAdmit(w) \/ Subscribe(w)
    \/ StartBegins(w) \/ CreateSandbox(w) \/ AssignNetwork(w) \/ StartContainers(w)
    \/ ResolveSandbox(w) \/ RemoveSandbox(w) \/ ClearSlot(w) \/ AbortStop(w)
    \/ FinalizeRow(w) \/ PublishRuntime(w) \/ ConfirmStartup(w) \/ Acknowledge(w)

------------------------------------------------------------------------------
(* Failures of the runtime, of node.db or of the API *)

Unfinished == {"begin", "checked", "created", "init", "found", "clearing"}

\* How a kind of work reports its failure.
FailureOf(kind) ==
    CASE kind = "StartPod" -> {"failed", "terminal"}
      [] kind \in {"StopPod", "ReconcileRuntime"} -> {"failed", "notfound"}
      [] kind \in {"CheckSlotAdmission", "FinalizePodDeletion", "FinalizeStartup"} -> {"failed"}
      [] OTHER -> {}

\* A start that fails behind its sandbox may or may not have removed it.
Fail(w) ==
    /\ Upset("fault") /\ w.stage \in Unfinished
    /\ \E failure \in FailureOf(w.kind) : Move(w, failure)
    /\ sandbox' \in IF w.kind = "StartPod" /\ w.stage \in {"created", "init"}
                    THEN {sandbox, Removed(w.uid)} ELSE {sandbox}
    /\ UNCHANGED <<actor, timers, remote, slot, apiVars, outbox>>
==============================================================================
