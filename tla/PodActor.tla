------------------------------ MODULE PodActor ------------------------------
(*****************************************************************************)
(* PodLifecycleActor: the actor of one Pod name on its node.  Successive     *)
(* Pods of that name have UIDs 1, 2, ...  `handle` is synchronous: a message *)
(* turns the actor's record into its successor, with at most one action      *)
(* (`do`) and at most one cancelled operation for the caller to carry out.   *)
(*****************************************************************************)
EXTENDS Naturals, FiniteSets

CONSTANT MaxUid

ASSUME MaxUidAssumption == MaxUid \in Nat \ {0}

Uids == 1..MaxUid
NoUid == 0
MaybeUid == Uids \cup {NoUid}

Phases == {"Created", "PendingStart", "Running", "Stopping", "Terminated"}
Kinds == {"ReconcileCriLeftovers", "CheckSlotAdmission", "StartPod", "StopPod",
          "FinalizeStartup", "FinalizePodDeletion", "ReconcileRuntime", "HandleCommand"}

NoFlight == [kind |-> "none", uid |-> NoUid, op |-> 0]
NoStart == [uid |-> NoUid, start |-> FALSE]
NoStop == [uid |-> NoUid, graceful |-> FALSE]
NoDeadline == [uid |-> NoUid, fired |-> FALSE]
NoTimers == [u \in Uids |-> 0]
NoMessage == [type |-> "none", uid |-> NoUid, rv |-> 0, deleting |-> FALSE, running |-> FALSE]
Nothing == [kind |-> "none", uid |-> NoUid, op |-> 0, flag |-> FALSE]

\* An actor of the registry: no Pod seen, its leftovers not yet reconciled.
FreshActor ==
    [phase |-> "Created", active |-> NoUid, admitted |-> NoUid, sandbox |-> FALSE,
     replacement |-> NoUid, pendingStart |-> NoStart, pendingStop |-> NoStop,
     waiting |-> FALSE, inFlight |-> NoFlight, finalized |-> FALSE,
     pendingRuntime |-> FALSE, startupRetry |-> FALSE, deleteRetry |-> FALSE,
     deadline |-> NoDeadline, lastRv |-> 0, reconciled |-> FALSE,
     deferred |-> NoMessage, do |-> Nothing, cancelled |-> 0]

VARIABLES
    actor,
    works,      \* the work tasks it has spawned
    timers      \* of each UID, how many retry timers are armed

actorVars == <<actor, works, timers>>

------------------------------------------------------------------------------
(* PodLifecycleState *)

InFlightKind(a, u) == IF a.inFlight.uid = u THEN a.inFlight.kind ELSE "none"

\* admitted_slot_uid survives, and work in flight is forgotten, not cancelled.
AdmitUid(a, u) ==
    [a EXCEPT !.active = u, !.phase = "Created", !.sandbox = FALSE,
              !.replacement = NoUid, !.pendingStart = NoStart, !.pendingStop = NoStop,
              !.waiting = FALSE, !.inFlight = NoFlight, !.finalized = FALSE,
              !.pendingRuntime = FALSE, !.startupRetry = FALSE, !.deleteRetry = FALSE,
              !.deadline = NoDeadline]

EnsureActive(a, u) == IF a.active = NoUid THEN AdmitUid(a, u) ELSE a

CancelInFlight(a) ==
    [a EXCEPT !.cancelled = IF a.inFlight = NoFlight THEN a.cancelled ELSE a.inFlight.op,
              !.inFlight = NoFlight]

SeeVersion(a, rv) == [a EXCEPT !.lastRv = IF rv > @ THEN rv ELSE @]

\* A version that is not known is never stale.
StaleVersion(a, rv) == a.lastRv # 0 /\ rv # 0 /\ rv <= a.lastRv

\* One deadline per UID: a later mark does not move it.
ObserveDeletion(a, m) ==
    [a EXCEPT !.deadline = IF ~m.deleting THEN NoDeadline
                           ELSE IF @.uid = m.uid THEN @ ELSE [uid |-> m.uid, fired |-> FALSE]]

------------------------------------------------------------------------------
(* Actions *)

\* An operation id no task uses.
NextOperation == CHOOSE n \in 1..(Cardinality(works) + 1) : \A w \in works : w.op # n

\* Work in flight is overwritten, and goes on unheard.
Dispatch(a, kind, u, flag) ==
    [a EXCEPT !.inFlight = [kind |-> kind, uid |-> u, op |-> NextOperation],
              !.do = [kind |-> kind, uid |-> u, op |-> NextOperation, flag |-> flag]]

ScheduleRetry(a, u) == [a EXCEPT !.do = [kind |-> "retry", uid |-> u, op |-> 0, flag |-> FALSE]]

StartPod(a, u, snapshot) == Dispatch(a, "StartPod", u, snapshot)

CheckSlotAdmission(a, u, start) ==
    Dispatch([a EXCEPT !.pendingStart = [uid |-> u, start |-> start]], "CheckSlotAdmission", u, start)

StartOrCheckSlotAdmission(a, u, start) ==
    CASE a.admitted = u ->
           LET b == [a EXCEPT !.pendingStart = NoStart]
           IN  IF start THEN StartPod(b, u, TRUE) ELSE b
      [] a.admitted # u /\ (a.waiting \/ InFlightKind(a, u) = "CheckSlotAdmission") ->
           [a EXCEPT !.pendingStart = [uid |-> u, start |-> start]]
      [] OTHER -> CheckSlotAdmission(a, u, start)

Graceful(a, u) == a.deadline.uid = u /\ ~a.deadline.fired

StopPod(a, u, graceful) ==
    Dispatch([a EXCEPT !.pendingRuntime = FALSE, !.phase = "Stopping",
                       !.pendingStop = [uid |-> u, graceful |-> graceful]],
             "StopPod", u, FALSE)

\* Of the work in flight only a start is cancelled.
BeginStop(a, u) ==
    LET b == IF InFlightKind(a, u) = "StartPod" THEN CancelInFlight(a) ELSE a
    IN  StopPod(b, u, Graceful(a, u))

FinalizePodDeletion(a, u) ==
    Dispatch([a EXCEPT !.deleteRetry = FALSE], "FinalizePodDeletion", u, FALSE)

StopCompleted(a, u) ==
    FinalizePodDeletion(
        [CancelInFlight(a) EXCEPT !.pendingStop = NoStop, !.phase = "Terminated",
                                  !.active = NoUid, !.admitted = NoUid,
                                  !.deadline = NoDeadline], u)

FinalizeStartup(a, u, snapshot) == Dispatch(a, "FinalizeStartup", u, snapshot)

ReconcileRuntime(a, u) ==
    Dispatch([a EXCEPT !.pendingRuntime = FALSE], "ReconcileRuntime", u, FALSE)

ReconcileOrDefer(a, u) ==
    CASE a.phase \in {"Stopping", "Terminated"} -> a
      [] InFlightKind(a, u) # "none" \/ a.phase = "PendingStart" -> [a EXCEPT !.pendingRuntime = TRUE]
      [] OTHER -> Dispatch(a, "ReconcileRuntime", u, FALSE)

CanDrain(a) == a.phase = "Running" /\ a.inFlight = NoFlight

------------------------------------------------------------------------------
(* Watch events, and what stands in for them after a restart *)

Terminating(a, u) ==
    CASE InFlightKind(a, u) \in {"StopPod", "FinalizePodDeletion"} -> a
      [] InFlightKind(a, u) \notin {"StopPod", "FinalizePodDeletion"} /\ a.phase = "Terminated" ->
           FinalizePodDeletion(a, u)
      [] OTHER -> BeginStop(a, u)

\* The first event is kept until the leftovers of an earlier kubelet are
\* reconciled; what arrives meanwhile is handled at once.
DeferForRestart(a, m) ==
    Dispatch([a EXCEPT !.reconciled = TRUE, !.deferred = m], "ReconcileCriLeftovers", m.uid, FALSE)

Created(a, u) == StartOrCheckSlotAdmission([a EXCEPT !.phase = "PendingStart"], u, TRUE)

\* Mutant: an event that is repeated starts a Pod again.
AdoptedAgain(a, m) ==
    IF m.deleting THEN Terminating(a, m.uid)
    ELSE IF a.phase \in {"Created", "PendingStart"} THEN Created(a, m.uid)
    ELSE a

AdoptedPod(a, m) ==
    IF m.deleting THEN Terminating(a, m.uid)
    ELSE IF a.phase = "Created" THEN Created(a, m.uid)
    ELSE a

WatchAdded(a, m) ==
    LET seen == SeeVersion(a, m.rv)
        adopted == ObserveDeletion(
                       CASE a.active = NoUid -> AdmitUid(seen, m.uid)
                         [] a.active = m.uid -> seen
                         [] OTHER -> AdmitUid(CancelInFlight(seen), m.uid), m)
    IN  CASE ~a.reconciled -> DeferForRestart(a, m)
          [] a.reconciled /\ a.active \notin {NoUid, m.uid} /\ a.phase = "Stopping" ->
               [seen EXCEPT !.replacement = m.uid]
          [] OTHER -> AdoptedPod(adopted, m)

\* Mutant: a deleting Pod is not let through.
RunningBypasses(a, m) == a.active = m.uid /\ m.running /\ ~a.finalized

\* An event that must be acted on although its version was seen.
BypassesStale(a, m) == a.active = m.uid /\ (m.deleting \/ (m.running /\ ~a.finalized))

\* The API shows the Pod running.
RunningEcho(a, u) ==
    LET flight == InFlightKind(a, u)
        b == [IF flight = "StartPod" THEN CancelInFlight(a) ELSE a EXCEPT !.phase = "Running"]
        started == [b EXCEPT !.sandbox = TRUE, !.finalized = FALSE, !.startupRetry = FALSE]
    IN  CASE a.admitted # u -> StartOrCheckSlotAdmission(a, u, FALSE)
          [] a.admitted = u /\ a.sandbox /\ a.finalized -> b
          [] OTHER -> IF flight \in {"none", "StartPod"} THEN FinalizeStartup(started, u, TRUE)
                      ELSE [started EXCEPT !.startupRetry = (flight = "FinalizeStartup")]

WatchModified(a, m) ==
    LET u == m.uid
        clearing == m.deleting /\ a.phase = "Terminated"
        seen == SeeVersion(a, m.rv)
        b == ObserveDeletion(IF a.active = NoUid THEN AdmitUid(seen, u) ELSE seen, m)
    IN  CASE StaleVersion(a, m.rv) /\ ~BypassesStale(a, m) -> a
          [] ~(StaleVersion(a, m.rv) /\ ~BypassesStale(a, m)) /\ ~a.reconciled -> DeferForRestart(a, m)
          [] OTHER ->
               IF a.active # u /\ clearing THEN FinalizePodDeletion(seen, u)
               ELSE IF a.active \notin {NoUid, u}
               THEN IF a.phase = "Stopping" /\ a.replacement \in {NoUid, u}
                    THEN [seen EXCEPT !.replacement = u] ELSE seen
               ELSE IF m.deleting THEN Terminating(b, u)
               ELSE IF m.running THEN RunningEcho(b, u)
               ELSE CASE b.phase = "Created" -> Created(b, u)
                      [] b.phase = "PendingStart" -> [b EXCEPT !.pendingStart = [uid |-> u, start |-> TRUE]]
                      [] OTHER -> b

\* Mutant: the answer to a queued finalization is not recognised.
FinalizationUnheard(a, u) == a

FinalizationAcknowledged(a, u) ==
    IF InFlightKind(a, u) = "FinalizePodDeletion"
    THEN [CancelInFlight(a) EXCEPT !.deleteRetry = FALSE] ELSE a

WatchDeleted(a, m) ==
    LET u == m.uid
        seen == SeeVersion(a, m.rv)
    IN  CASE a.active = NoUid ->
               [FinalizationAcknowledged(seen, u) EXCEPT !.phase = "Terminated"]
          [] a.active \notin {NoUid, u} ->
               [seen EXCEPT !.replacement = IF @ = u THEN NoUid ELSE @]
          [] OTHER -> IF a.phase = "Terminated" \/ InFlightKind(a, u) = "StopPod" THEN seen
                      ELSE BeginStop(seen, u)

\* Mutant: the Pod of the name is taken for the Pod of the UID.
OrphanByName(a, u) ==
    LET b == EnsureActive(a, u) IN StopPod(b, b.active, FALSE)

\* Runtime state of a UID the API does not show any more.  A start in flight
\* is not cancelled.
OrphanFinalize(a, u) ==
    CASE a.active \notin {NoUid, u} -> [a EXCEPT !.replacement = IF @ = u THEN NoUid ELSE @]
      [] a.active \in {NoUid, u} /\ InFlightKind(a, u) \in {"StopPod", "FinalizePodDeletion"} -> a
      [] OTHER -> StopPod(EnsureActive(a, u), u, FALSE)

CriEvent(a, u) ==
    IF a.active \notin {NoUid, u} THEN a ELSE ReconcileOrDefer(EnsureActive(a, u), u)

LifecycleCommand(a, u) ==
    IF a.active \notin {NoUid, u} THEN a ELSE Dispatch(EnsureActive(a, u), "HandleCommand", u, FALSE)

Handle(a, m) ==
    CASE m.type = "added" -> WatchAdded(a, m)
      [] m.type = "modified" -> WatchModified(a, m)
      [] m.type = "deleted" -> WatchDeleted(a, m)
      [] m.type = "orphan" -> OrphanFinalize(a, m.uid)
      [] m.type = "cri" -> CriEvent(a, m.uid)
      [] m.type = "command" -> LifecycleCommand(a, m.uid)

------------------------------------------------------------------------------
(* Timers *)

RetryPending(a, u) ==
    CASE a.pendingStart # NoStart ->
           StartOrCheckSlotAdmission(a, a.pendingStart.uid, a.pendingStart.start)
      [] a.pendingStart = NoStart /\ a.admitted = u -> StartPod(a, u, FALSE)
      [] OTHER -> a

\* After the Pod is gone a timer may only repeat its finalization.
RetryDue(a, u) ==
    LET b == EnsureActive(a, u)
    IN  CASE a.phase = "Terminated" /\ a.active = NoUid ->
               IF a.deleteRetry /\ a.inFlight = NoFlight THEN FinalizePodDeletion(a, u) ELSE a
          [] a.phase = "Stopping" /\ a.inFlight = NoFlight /\ a.pendingStop.uid = u ->
               StopPod(a, u, a.pendingStop.graceful)
          [] OTHER -> IF b.active = u /\ b.phase \in {"Created", "PendingStart"}
                      THEN RetryPending([b EXCEPT !.phase = "PendingStart"], u)
                      ELSE b

\* The grace period ends: a graceful stop is replaced by a forced one.
DeletionDeadlineDue(a) ==
    LET u == a.deadline.uid
        b == [a EXCEPT !.deadline.fired = TRUE]
        graceful == a.pendingStop = [uid |-> u, graceful |-> TRUE] /\ InFlightKind(a, u) = "StopPod"
    IN  CASE graceful -> StopPod(CancelInFlight(b), u, FALSE)
          [] ~graceful /\ a.inFlight = NoFlight -> StopPod(b, u, FALSE)
          [] OTHER -> b

------------------------------------------------------------------------------
(* Answers of the work tasks *)

DrainRuntime(a, u) == IF a.pendingRuntime /\ CanDrain(a) THEN ReconcileRuntime(a, u) ELSE a

\* Startup finalization is tried again for a Pod not yet confirmed.
RetryFinalizeStartup(a, u) ==
    IF CanDrain(a) /\ ~a.finalized /\ a.sandbox
    THEN FinalizeStartup([a EXCEPT !.startupRetry = FALSE], u, FALSE) ELSE a

StartCompleted(a, u) ==
    LET b == [a EXCEPT !.phase = "Running", !.pendingStart = NoStart, !.pendingRuntime = TRUE]
    IN  IF a.sandbox /\ a.finalized THEN DrainRuntime(b, u)
        ELSE FinalizeStartup([b EXCEPT !.sandbox = TRUE, !.finalized = FALSE, !.startupRetry = FALSE],
                             u, FALSE)

StartupFinalized(a, u, confirmed) ==
    LET b == IF confirmed /\ a.sandbox
             THEN [a EXCEPT !.finalized = TRUE, !.startupRetry = FALSE] ELSE a
    IN  CASE b.pendingRuntime /\ CanDrain(b) -> DrainRuntime(b, u)
          [] ~(b.pendingRuntime /\ CanDrain(b)) /\ b.startupRetry -> RetryFinalizeStartup(b, u)
          [] OTHER -> b

RuntimeReconciled(a, u) ==
    CASE a.phase = "PendingStart" -> ScheduleRetry(a, u)
      [] a.phase # "PendingStart" /\ a.pendingRuntime /\ CanDrain(a) -> DrainRuntime(a, u)
      [] OTHER -> RetryFinalizeStartup(a, u)

\* Mutant: a Pod is admitted though none waited.
DeletionAlwaysAdmits(a) == Created(AdmitUid(a, a.replacement), a.replacement)

\* The name is free in the API: the Pod that waited for it is admitted.
DeletionFinalized(a) ==
    IF a.replacement = NoUid THEN a ELSE Created(AdmitUid(a, a.replacement), a.replacement)

ResumeAdmission(a) ==
    LET b == [a EXCEPT !.deferred = NoMessage]
    IN  IF a.deferred = NoMessage THEN a ELSE Handle(b, a.deferred)

SlotGranted(a, u, start) ==
    LET b == [a EXCEPT !.waiting = FALSE, !.admitted = u, !.pendingStart = NoStart]
    IN  IF start /\ a.active = u THEN StartPod([b EXCEPT !.phase = "PendingStart"], u, TRUE) ELSE b

\* A failed slot check, status finalization or command is not tried again.
WorkFailed(a, w) ==
    CASE w.kind = "ReconcileRuntime" /\ w.stage = "notfound" ->
           ScheduleRetry([a EXCEPT !.phase = "PendingStart"], w.uid)
      [] w.kind = "StartPod" /\ a.pendingRuntime -> ReconcileRuntime(a, w.uid)
      [] w.kind = "StartPod" /\ w.stage = "failed" /\ ~a.pendingRuntime -> ScheduleRetry(a, w.uid)
      [] w.kind = "StopPod" /\ w.stage = "failed" ->
           ScheduleRetry([a EXCEPT !.phase = "Stopping"], w.uid)
      [] w.kind = "StopPod" /\ w.stage = "notfound" -> StopCompleted(a, w.uid)
      [] w.kind = "StopPod" /\ w.stage = "aborted" -> [a EXCEPT !.phase = "Stopping"]
      [] w.kind = "FinalizePodDeletion" -> ScheduleRetry([a EXCEPT !.deleteRetry = TRUE], w.uid)
      [] OTHER -> a

WorkCompleted(a, w) ==
    CASE w.kind = "ReconcileCriLeftovers" -> ResumeAdmission(a)
      [] w.kind = "CheckSlotAdmission" ->
           IF w.stage = "granted" THEN SlotGranted(a, w.uid, w.flag) ELSE [a EXCEPT !.waiting = TRUE]
      [] w.kind = "StartPod" -> StartCompleted(a, w.uid)
      [] w.kind = "StopPod" -> StopCompleted(a, w.uid)
      [] w.kind = "FinalizePodDeletion" -> DeletionFinalized(a)
      [] w.kind = "FinalizeStartup" -> StartupFinalized(a, w.uid, w.stage = "confirmed")
      [] w.kind = "ReconcileRuntime" -> RuntimeReconciled(a, w.uid)
      [] OTHER -> a

Failures == {"failed", "terminal", "notfound", "aborted"}

\* completion_matches: an answer counts only for the operation in flight.
WorkAnswered(a, w) ==
    LET b == [a EXCEPT !.inFlight = NoFlight]
    IN  IF a.inFlight # [kind |-> w.kind, uid |-> w.uid, op |-> w.op] THEN a
        ELSE IF w.stage \in Failures THEN WorkFailed(b, w) ELSE WorkCompleted(b, w)

\* SlotAdmissionWake, which is not tied to an operation.
SlotWake(a, u) ==
    IF a.pendingStart.uid = u /\ a.inFlight = NoFlight
    THEN CheckSlotAdmission([a EXCEPT !.waiting = FALSE], u, a.pendingStart.start) ELSE a
==============================================================================
