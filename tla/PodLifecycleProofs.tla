------------------------- MODULE PodLifecycleProofs -------------------------
(*****************************************************************************)
(* The lifecycle of the Pods of one name for every number of Pods, tasks,    *)
(* messages and disturbances.                                                *)
(*****************************************************************************)
EXTENDS PodLifecycle, FiniteSetTheorems, SequenceTheorems, TLAPS

\* UIDs that exist or existed, those that nobody wants any more, and those
\* that hold the slot if they are wanted.
Born == 1..created
Doomed == {u \in Born : ~Wanted(u)}
Entitled == {u \in Born : Wanted(u) => slot = u}
MaybeBorn == Born \cup {NoUid}

\* A message that makes the actor stop a Pod names one that is doomed.
SoundMessages ==
    {m \in [type : Types, uid : Born, rv : Nat, deleting : BOOLEAN, running : BOOLEAN] :
        m.deleting \/ m.type \in {"deleted", "orphan"} => m.uid \in Doomed}

\* What a handler may ask for: only doomed Pods are stopped, only entitled
\* ones are started.
SoundActions ==
    {d \in [kind : Kinds \cup {"retry"}, uid : Born, op : Nat, flag : BOOLEAN] :
        /\ d.kind = "StopPod" => d.uid \in Doomed
        /\ d.kind = "StartPod" => d.uid \in Entitled}
    \cup {Nothing}

Flights == [kind : Kinds \cup {"none"}, uid : MaybeBorn, op : Nat]
Starts == [uid : Born, start : BOOLEAN] \cup {NoStart}
Stops == [uid : Doomed \cup {NoUid}, graceful : BOOLEAN]
Deadlines == [uid : Doomed \cup {NoUid}, fired : BOOLEAN]

SoundActors ==
    [phase : Phases, active : MaybeBorn, admitted : Entitled \cup {NoUid}, sandbox : BOOLEAN,
     replacement : MaybeBorn, pendingStart : Starts, pendingStop : Stops, waiting : BOOLEAN,
     inFlight : Flights, finalized : BOOLEAN, pendingRuntime : BOOLEAN, startupRetry : BOOLEAN,
     deleteRetry : BOOLEAN, deadline : Deadlines, lastRv : Nat, reconciled : BOOLEAN,
     deferred : SoundMessages \cup {NoMessage}, do : SoundActions, cancelled : Nat]

\* The operation in flight is none, the one from before the handler, or the
\* one the handler asks for, under an id of its own.
Flown(flight, a) ==
    \/ a.inFlight \in {NoFlight, flight}
    \/ /\ a.inFlight = [kind |-> a.do.kind, uid |-> a.do.uid, op |-> a.do.op]
       /\ a.do.kind \in Kinds /\ a.do.op = NextOperation

\* A Pod is finalized by an actor that has let go of it.
LetGo(a) == a.phase = "Terminated" \/ a.inFlight.kind = "FinalizePodDeletion" => a.active = NoUid

Sound(flight, a) == a \in SoundActors /\ Flown(flight, a) /\ LetGo(a)

------------------------------------------------------------------------------
(* The handlers keep an actor sound, field by field.                         *)

\* A field takes any value of its set.
LEMMA ActorFields ==
    ASSUME NEW a \in SoundActors
    PROVE  /\ \A v \in Phases : [a EXCEPT !.phase = v] \in SoundActors
           /\ \A v \in MaybeBorn : [a EXCEPT !.active = v] \in SoundActors
           /\ \A v \in Entitled \cup {NoUid} : [a EXCEPT !.admitted = v] \in SoundActors
           /\ \A v \in BOOLEAN : [a EXCEPT !.sandbox = v] \in SoundActors
           /\ \A v \in MaybeBorn : [a EXCEPT !.replacement = v] \in SoundActors
           /\ \A v \in Starts : [a EXCEPT !.pendingStart = v] \in SoundActors
           /\ \A v \in Stops : [a EXCEPT !.pendingStop = v] \in SoundActors
           /\ \A v \in BOOLEAN : [a EXCEPT !.waiting = v] \in SoundActors
           /\ \A v \in Flights : [a EXCEPT !.inFlight = v] \in SoundActors
           /\ \A v \in BOOLEAN : [a EXCEPT !.finalized = v] \in SoundActors
           /\ \A v \in BOOLEAN : [a EXCEPT !.pendingRuntime = v] \in SoundActors
           /\ \A v \in BOOLEAN : [a EXCEPT !.startupRetry = v] \in SoundActors
           /\ \A v \in BOOLEAN : [a EXCEPT !.deleteRetry = v] \in SoundActors
           /\ \A v \in Deadlines : [a EXCEPT !.deadline = v] \in SoundActors
           /\ \A v \in Nat : [a EXCEPT !.lastRv = v] \in SoundActors
           /\ \A v \in BOOLEAN : [a EXCEPT !.reconciled = v] \in SoundActors
           /\ \A v \in SoundMessages \cup {NoMessage} : [a EXCEPT !.deferred = v] \in SoundActors
           /\ \A v \in SoundActions : [a EXCEPT !.do = v] \in SoundActors
           /\ \A v \in Nat : [a EXCEPT !.cancelled = v] \in SoundActors
    BY DEF SoundActors

\* The values that stand for nothing are of every set.
LEMMA NothingSound ==
    /\ NoUid \in MaybeBorn /\ NoStart \in Starts /\ NoStop \in Stops
    /\ NoFlight \in Flights /\ NoDeadline \in Deadlines
    BY DEF MaybeBorn, Starts, Stops, Flights, Deadlines, NoUid, NoStart, NoStop, NoFlight, NoDeadline

\* Fields that say nothing of the operation in flight, or that let go.
LEMMA SoundFields ==
    ASSUME NEW f, NEW a, Sound(f, a)
    PROVE  /\ \A v \in Phases : v # "Terminated" \/ a.active = NoUid => Sound(f, [a EXCEPT !.phase = v])
           /\ \A v \in Entitled \cup {NoUid} : Sound(f, [a EXCEPT !.admitted = v])
           /\ \A v \in BOOLEAN : Sound(f, [a EXCEPT !.sandbox = v])
           /\ \A v \in MaybeBorn : Sound(f, [a EXCEPT !.replacement = v])
           /\ \A v \in Starts : Sound(f, [a EXCEPT !.pendingStart = v])
           /\ \A v \in Stops : Sound(f, [a EXCEPT !.pendingStop = v])
           /\ \A v \in BOOLEAN : Sound(f, [a EXCEPT !.waiting = v])
           /\ \A v \in BOOLEAN : Sound(f, [a EXCEPT !.finalized = v])
           /\ \A v \in BOOLEAN : Sound(f, [a EXCEPT !.pendingRuntime = v])
           /\ \A v \in BOOLEAN : Sound(f, [a EXCEPT !.startupRetry = v])
           /\ \A v \in BOOLEAN : Sound(f, [a EXCEPT !.deleteRetry = v])
           /\ \A v \in Deadlines : Sound(f, [a EXCEPT !.deadline = v])
           /\ \A v \in Nat : Sound(f, [a EXCEPT !.lastRv = v])
           /\ \A v \in BOOLEAN : Sound(f, [a EXCEPT !.reconciled = v])
           /\ \A v \in SoundMessages \cup {NoMessage} : Sound(f, [a EXCEPT !.deferred = v])
           /\ Sound(f, [a EXCEPT !.inFlight = NoFlight])
    BY ActorFields, NothingSound DEF Sound, SoundActors, Flown, LetGo, NoFlight
\* Dispatching an operation.
LEMMA SoundDispatch ==
    ASSUME NEW f, NEW a, Sound(f, a), NextOperation \in Nat,
           NEW kind \in Kinds, NEW u \in Born, NEW flag \in BOOLEAN,
           kind = "StopPod" => u \in Doomed,
           kind = "StartPod" => u \in Entitled,
           kind = "FinalizePodDeletion" => a.active = NoUid
    PROVE  Sound(f, Dispatch(a, kind, u, flag))
    <1> DEFINE n == NextOperation
               flight == [kind |-> kind, uid |-> u, op |-> n]
               action == [kind |-> kind, uid |-> u, op |-> n, flag |-> flag]
    <1>1. flight \in Flights /\ action \in SoundActions
        BY DEF Flights, SoundActions, MaybeBorn
    <1>2. Dispatch(a, kind, u, flag) = [a EXCEPT !.inFlight = flight, !.do = action]
        BY DEF Dispatch
    <1> HIDE DEF n
    <1>3. [a EXCEPT !.inFlight = flight, !.do = action] \in SoundActors
        BY <1>1, ActorFields DEF Sound
    <1>4. Flown(f, [a EXCEPT !.inFlight = flight, !.do = action])
        BY DEF Sound, SoundActors, Flown, n
    <1>5. LetGo([a EXCEPT !.inFlight = flight, !.do = action])
        BY DEF Sound, SoundActors, LetGo
    <1> QED BY <1>2, <1>3, <1>4, <1>5 DEF Sound

\* A retry is asked for when nothing new is in flight.
LEMMA SoundScheduleRetry ==
    ASSUME NEW f, NEW a, Sound(f, a), a.inFlight \in {NoFlight, f}, NEW u \in Born
    PROVE  Sound(f, ScheduleRetry(a, u))
    <1>1. [kind |-> "retry", uid |-> u, op |-> 0, flag |-> FALSE] \in SoundActions
        BY DEF SoundActions
    <1>2. ScheduleRetry(a, u) \in SoundActors  BY <1>1, ActorFields DEF Sound, ScheduleRetry
    <1>3. Flown(f, ScheduleRetry(a, u)) /\ LetGo(ScheduleRetry(a, u))
        BY DEF Sound, SoundActors, ScheduleRetry, Flown, LetGo
    <1> QED BY <1>2, <1>3 DEF Sound

\* A Pod takes the actor over: nothing of the Pod before it is kept but the slot.
LEMMA SoundAdmitUid ==
    ASSUME NEW f, NEW a, Sound(f, a), NEW u \in Born
    PROVE  Sound(f, AdmitUid(a, u)) /\ AdmitUid(a, u).phase = "Created"
    <1>1. AdmitUid(a, u) \in SoundActors
        BY ActorFields, NothingSound DEF Sound, AdmitUid, MaybeBorn, Phases
    <1>2. /\ Flown(f, AdmitUid(a, u)) /\ LetGo(AdmitUid(a, u))
          /\ AdmitUid(a, u).phase = "Created"
        BY DEF Sound, SoundActors, AdmitUid, Flown, LetGo, NoFlight
    <1> QED BY <1>1, <1>2 DEF Sound

\* An actor without a Pod takes the one it is told of.
LEMMA SoundEnsureActive ==
    ASSUME NEW f, NEW a, Sound(f, a), NEW u \in Born
    PROVE  Sound(f, EnsureActive(a, u))
    BY SoundAdmitUid DEF EnsureActive

\* Giving up the operation in flight.
LEMMA SoundCancelInFlight ==
    ASSUME NEW f, NEW a, Sound(f, a)
    PROVE  /\ Sound(f, CancelInFlight(a))
           /\ CancelInFlight(a).inFlight = NoFlight /\ CancelInFlight(a).active = a.active
    <1>1. CancelInFlight(a) \in SoundActors
        <2>1. (IF a.inFlight = NoFlight THEN a.cancelled ELSE a.inFlight.op) \in Nat
            BY DEF Sound, SoundActors, Flights
        <2> QED BY <2>1, ActorFields, NothingSound DEF Sound, CancelInFlight
    <1>2. /\ Flown(f, CancelInFlight(a)) /\ LetGo(CancelInFlight(a))
          /\ CancelInFlight(a).inFlight = NoFlight /\ CancelInFlight(a).active = a.active
        BY DEF Sound, SoundActors, CancelInFlight, Flown, LetGo, NoFlight
    <1> QED BY <1>1, <1>2 DEF Sound

\* Seeing a version changes nothing else.
LEMMA SoundSeeVersion ==
    ASSUME NEW f, NEW a, Sound(f, a), NEW rv \in Nat
    PROVE  /\ Sound(f, SeeVersion(a, rv))
           /\ SeeVersion(a, rv).phase = a.phase /\ SeeVersion(a, rv).active = a.active
           /\ SeeVersion(a, rv).inFlight = a.inFlight /\ SeeVersion(a, rv).replacement = a.replacement
    <1>1. (IF rv > a.lastRv THEN rv ELSE a.lastRv) \in Nat  BY DEF Sound, SoundActors
    <1>2. Sound(f, SeeVersion(a, rv))  BY <1>1, SoundFields DEF SeeVersion
    <1>3. /\ SeeVersion(a, rv).phase = a.phase /\ SeeVersion(a, rv).active = a.active
          /\ SeeVersion(a, rv).inFlight = a.inFlight /\ SeeVersion(a, rv).replacement = a.replacement
        BY DEF Sound, SoundActors, SeeVersion
    <1> QED BY <1>2, <1>3

\* Only a doomed Pod gets a deadline.
LEMMA SoundObserveDeletion ==
    ASSUME NEW f, NEW a, Sound(f, a), NEW m \in SoundMessages
    PROVE  Sound(f, ObserveDeletion(a, m)) /\ ObserveDeletion(a, m).phase = a.phase
    <1> DEFINE d == IF ~m.deleting THEN NoDeadline
                    ELSE IF a.deadline.uid = m.uid THEN a.deadline ELSE [uid |-> m.uid, fired |-> FALSE]
    <1>1. d \in Deadlines
        <2>1. a.deadline \in Deadlines  BY DEF Sound, SoundActors
        <2>2. m.deleting => m.uid \in Doomed  BY DEF SoundMessages
        <2>3. m.deleting => [uid |-> m.uid, fired |-> FALSE] \in Deadlines  BY <2>2 DEF Deadlines
        <2> QED BY <2>1, <2>3, NothingSound
    <1>2. ObserveDeletion(a, m) = [a EXCEPT !.deadline = d]  BY DEF ObserveDeletion
    <1> HIDE DEF d
    <1>3. Sound(f, [a EXCEPT !.deadline = d])  BY <1>1, SoundFields
    <1>4. [a EXCEPT !.deadline = d].phase = a.phase  BY DEF Sound, SoundActors
    <1> QED BY <1>2, <1>3, <1>4

------------------------------------------------------------------------------
(* Starts and stops. *)

\* Asking for the slot needs no entitlement.
LEMMA SoundCheckSlotAdmission ==
    ASSUME NEW f, NEW a, Sound(f, a), NextOperation \in Nat, NEW u \in Born, NEW start \in BOOLEAN
    PROVE  Sound(f, CheckSlotAdmission(a, u, start))
    <1>1. [uid |-> u, start |-> start] \in Starts  BY DEF Starts
    <1>2. Sound(f, [a EXCEPT !.pendingStart = [uid |-> u, start |-> start]])  BY <1>1, SoundFields
    <1> QED BY <1>2, SoundDispatch DEF CheckSlotAdmission, Kinds

\* A start without a slot check is that of the Pod that was granted the slot.
LEMMA SoundStartOrCheckSlotAdmission ==
    ASSUME NEW f, NEW a, Sound(f, a), NextOperation \in Nat, NEW u \in Born, NEW start \in BOOLEAN
    PROVE  Sound(f, StartOrCheckSlotAdmission(a, u, start))
    <1>1. CASE a.admitted = u
        <2>1. u \in Entitled  BY <1>1 DEF Sound, SoundActors, NoUid, Born
        <2>2. Sound(f, [a EXCEPT !.pendingStart = NoStart])  BY NothingSound, SoundFields
        <2>3. Sound(f, StartPod([a EXCEPT !.pendingStart = NoStart], u, TRUE))
            BY <2>1, <2>2, SoundDispatch DEF StartPod, Kinds
        <2> QED BY <1>1, <2>2, <2>3 DEF StartOrCheckSlotAdmission
    <1>2. CASE a.admitted # u
        <2>1. [uid |-> u, start |-> start] \in Starts  BY DEF Starts
        <2>2. Sound(f, [a EXCEPT !.pendingStart = [uid |-> u, start |-> start]])  BY <2>1, SoundFields
        <2> QED BY <1>2, <2>2, SoundCheckSlotAdmission DEF StartOrCheckSlotAdmission
    <1> QED BY <1>1, <1>2

\* A stop is asked for a doomed Pod.
LEMMA SoundStopPod ==
    ASSUME NEW f, NEW a, Sound(f, a), NextOperation \in Nat, NEW u \in Doomed, NEW graceful \in BOOLEAN
    PROVE  Sound(f, StopPod(a, u, graceful))
    <1>1. u \in Born /\ [uid |-> u, graceful |-> graceful] \in Stops  BY DEF Doomed, Stops
    <1>2. Sound(f, [a EXCEPT !.pendingRuntime = FALSE])  BY SoundFields
    <1>3. Sound(f, [[a EXCEPT !.pendingRuntime = FALSE] EXCEPT !.phase = "Stopping"])
        BY <1>2, SoundFields DEF Phases
    <1>4. Sound(f, [a EXCEPT !.pendingRuntime = FALSE, !.phase = "Stopping",
                             !.pendingStop = [uid |-> u, graceful |-> graceful]])
        BY <1>1, <1>3, SoundFields
    <1> QED BY <1>1, <1>4, SoundDispatch DEF StopPod, Kinds

\* A stop that begins may give up a start.
LEMMA SoundBeginStop ==
    ASSUME NEW f, NEW a, Sound(f, a), NextOperation \in Nat, NEW u \in Doomed
    PROVE  Sound(f, BeginStop(a, u))
    <1>1. Graceful(a, u) \in BOOLEAN  BY DEF Graceful
    <1> QED BY <1>1, SoundStopPod, SoundCancelInFlight DEF BeginStop

\* A finalization is asked for by an actor without a Pod.
LEMMA SoundFinalizePodDeletion ==
    ASSUME NEW f, NEW a, Sound(f, a), NextOperation \in Nat, NEW u \in Born, a.active = NoUid
    PROVE  Sound(f, FinalizePodDeletion(a, u))
    <1>1. Sound(f, [a EXCEPT !.deleteRetry = FALSE])  BY SoundFields
    <1>2. [a EXCEPT !.deleteRetry = FALSE].active = NoUid  BY DEF Sound, SoundActors
    <1> QED BY <1>1, <1>2, SoundDispatch DEF FinalizePodDeletion, Kinds

\* A stop that is done lets go of its Pod, its slot and its deadline.
LEMMA SoundStopCompleted ==
    ASSUME NEW f, NEW a, Sound(f, a), NextOperation \in Nat, NEW u \in Born
    PROVE  Sound(f, StopCompleted(a, u))
    <1> DEFINE c == CancelInFlight(a)
               b == [c EXCEPT !.pendingStop = NoStop, !.phase = "Terminated", !.active = NoUid,
                              !.admitted = NoUid, !.deadline = NoDeadline]
    <1>1. Sound(f, c)  BY SoundCancelInFlight
    <1> HIDE DEF c
    <1>2. b \in SoundActors  BY <1>1, ActorFields, NothingSound DEF Sound, Phases
    <1>3. Flown(f, b) /\ LetGo(b) /\ b.active = NoUid
        BY <1>1 DEF Sound, SoundActors, Flown, LetGo
    <1> HIDE DEF b
    <1>4. Sound(f, b)  BY <1>2, <1>3 DEF Sound
    <1>5. Sound(f, FinalizePodDeletion(b, u))  BY <1>3, <1>4, SoundFinalizePodDeletion
    <1> QED BY <1>5 DEF StopCompleted, b, c

\* Reconciling the runtime state, at once or later.
LEMMA SoundReconcile ==
    ASSUME NEW f, NEW a, Sound(f, a), NextOperation \in Nat, NEW u \in Born
    PROVE  Sound(f, ReconcileRuntime(a, u)) /\ Sound(f, ReconcileOrDefer(a, u))
    <1>1. Sound(f, [a EXCEPT !.pendingRuntime = FALSE]) /\ Sound(f, [a EXCEPT !.pendingRuntime = TRUE])
        BY SoundFields
    <1>2. Sound(f, ReconcileRuntime(a, u))  BY <1>1, SoundDispatch DEF ReconcileRuntime, Kinds
    <1>3. Sound(f, Dispatch(a, "ReconcileRuntime", u, FALSE))  BY SoundDispatch DEF Kinds
    <1> QED BY <1>1, <1>2, <1>3 DEF ReconcileOrDefer

------------------------------------------------------------------------------
(* Messages. *)

\* A Pod that is being deleted is stopped or finalized.
LEMMA SoundTerminating ==
    ASSUME NEW f, NEW a, Sound(f, a), NextOperation \in Nat, NEW u \in Doomed
    PROVE  Sound(f, Terminating(a, u))
    <1>1. u \in Born  BY DEF Doomed
    <1>2. a.phase = "Terminated" => a.active = NoUid  BY DEF Sound, LetGo
    <1> QED BY <1>1, <1>2, SoundFinalizePodDeletion, SoundBeginStop DEF Terminating

\* An event kept until the leftovers are reconciled is still sound.
LEMMA SoundDeferForRestart ==
    ASSUME NEW f, NEW a, Sound(f, a), NextOperation \in Nat, NEW m \in SoundMessages
    PROVE  Sound(f, DeferForRestart(a, m))
    <1>1. m.uid \in Born  BY DEF SoundMessages
    <1>2. Sound(f, [a EXCEPT !.reconciled = TRUE])  BY SoundFields
    <1>3. Sound(f, [a EXCEPT !.reconciled = TRUE, !.deferred = m])  BY <1>2, SoundFields
    <1> QED BY <1>1, <1>3, SoundDispatch DEF DeferForRestart, Kinds

\* A Pod that is seen first asks for its slot.
LEMMA SoundCreated ==
    ASSUME NEW f, NEW a, Sound(f, a), NextOperation \in Nat, NEW u \in Born
    PROVE  Sound(f, Created(a, u))
    <1>1. Sound(f, [a EXCEPT !.phase = "PendingStart"])  BY SoundFields DEF Phases
    <1> QED BY <1>1, SoundStartOrCheckSlotAdmission DEF Created

\* ADDED: the Pod is adopted, or waits for the one that is stopping.
LEMMA SoundWatchAdded ==
    ASSUME NEW f, NEW a, Sound(f, a), NextOperation \in Nat, NEW m \in SoundMessages
    PROVE  Sound(f, WatchAdded(a, m))
    <1> DEFINE seen == SeeVersion(a, m.rv)
               held == CASE a.active = NoUid -> AdmitUid(seen, m.uid)
                         [] a.active = m.uid -> seen
                         [] OTHER -> AdmitUid(CancelInFlight(seen), m.uid)
               adopted == ObserveDeletion(held, m)
    <1>1. m.uid \in Born /\ m.rv \in Nat /\ (m.deleting => m.uid \in Doomed) /\ m.uid # NoUid
        BY DEF SoundMessages, Born, NoUid
    <1>2. Sound(f, seen)  BY <1>1, SoundSeeVersion
    <1>3. Sound(f, [seen EXCEPT !.replacement = m.uid])  BY <1>1, <1>2, SoundFields DEF MaybeBorn
    <1>4. Sound(f, held)
        <2> HIDE DEF seen
        <2> QED BY <1>1, <1>2, SoundAdmitUid, SoundCancelInFlight
    <1>5. Sound(f, adopted)
        <2> HIDE DEF held
        <2> QED BY <1>4, SoundObserveDeletion
    <1>6. Sound(f, AdoptedPod(adopted, m))
        <2> HIDE DEF adopted
        <2> QED BY <1>1, <1>5, SoundTerminating, SoundCreated DEF AdoptedPod
    <1>7. Sound(f, DeferForRestart(a, m))  BY SoundDeferForRestart
    <1>8. WatchAdded(a, m) \in {DeferForRestart(a, m), [seen EXCEPT !.replacement = m.uid], AdoptedPod(adopted, m)}
        <2> DEFINE held2 == held
        <2>1. adopted = ObserveDeletion(held2, m)  OBVIOUS
        <2> QED BY DEF WatchAdded
    <1> QED BY <1>3, <1>6, <1>7, <1>8

\* MODIFIED, of a Pod that the API shows running.
LEMMA SoundRunningEcho ==
    ASSUME NEW f, NEW a, Sound(f, a), NextOperation \in Nat, NEW u \in Born
    PROVE  Sound(f, RunningEcho(a, u))
    <1> DEFINE flight == InFlightKind(a, u)
               c == IF flight = "StartPod" THEN CancelInFlight(a) ELSE a
               b == [c EXCEPT !.phase = "Running"]
               started == [b EXCEPT !.sandbox = TRUE, !.finalized = FALSE, !.startupRetry = FALSE]
    <1>1. Sound(f, c)  BY SoundCancelInFlight
    <1>2. Sound(f, b)
        <2> HIDE DEF c
        <2> QED BY <1>1, SoundFields DEF Phases
    <1>3. Sound(f, started)
        <2> HIDE DEF b
        <2>1. Sound(f, [b EXCEPT !.sandbox = TRUE])  BY <1>2, SoundFields
        <2>2. Sound(f, [[b EXCEPT !.sandbox = TRUE] EXCEPT !.finalized = FALSE])  BY <2>1, SoundFields
        <2> QED BY <2>2, SoundFields
    <1>4. \A v \in BOOLEAN : Sound(f, [started EXCEPT !.startupRetry = v])
        <2> HIDE DEF started
        <2> QED BY <1>3, SoundFields
    <1>5. Sound(f, FinalizeStartup(started, u, TRUE))
        <2> HIDE DEF started
        <2> QED BY <1>3, SoundDispatch DEF FinalizeStartup, Kinds
    <1>6. Sound(f, StartOrCheckSlotAdmission(a, u, FALSE))  BY SoundStartOrCheckSlotAdmission
    <1>7. RunningEcho(a, u) \in {StartOrCheckSlotAdmission(a, u, FALSE), b, FinalizeStartup(started, u, TRUE),
                                 [started EXCEPT !.startupRetry = (flight = "FinalizeStartup")]}
        BY DEF RunningEcho
    <1> QED BY <1>2, <1>4, <1>5, <1>6, <1>7

\* MODIFIED: stale, kept for later, of another UID, of a deleting Pod or an echo.
LEMMA SoundWatchModified ==
    ASSUME NEW f, NEW a, Sound(f, a), NextOperation \in Nat, NEW m \in SoundMessages
    PROVE  Sound(f, WatchModified(a, m))
    <1> DEFINE u == m.uid
               seen == SeeVersion(a, m.rv)
               held == IF a.active = NoUid THEN AdmitUid(seen, u) ELSE seen
               b == ObserveDeletion(held, m)
               clearing == m.deleting /\ a.phase = "Terminated"
    <1>1. u \in Born /\ m.rv \in Nat /\ (m.deleting => u \in Doomed)
        BY DEF SoundMessages
    <1>2. Sound(f, seen) /\ seen.active = a.active /\ seen.phase = a.phase  BY <1>1, SoundSeeVersion
    <1>3. Sound(f, [seen EXCEPT !.replacement = u])  BY <1>1, <1>2, SoundFields DEF MaybeBorn
    <1>4. Sound(f, held)  BY <1>1, <1>2, SoundAdmitUid
    <1>5. Sound(f, b)
        <2> HIDE DEF held
        <2> QED BY <1>4, SoundObserveDeletion
    <1>6. clearing => Sound(f, FinalizePodDeletion(seen, u))
        <2>1. a.phase = "Terminated" => a.active = NoUid  BY DEF Sound, LetGo
        <2> QED BY <1>1, <1>2, <2>1, SoundFinalizePodDeletion
    <1>7. /\ m.deleting => Sound(f, Terminating(b, u))
          /\ Sound(f, RunningEcho(b, u)) /\ Sound(f, Created(b, u))
          /\ Sound(f, [b EXCEPT !.pendingStart = [uid |-> u, start |-> TRUE]])
        <2> HIDE DEF b
        <2>1. [uid |-> u, start |-> TRUE] \in Starts  BY <1>1 DEF Starts
        <2>2. Sound(f, [b EXCEPT !.pendingStart = [uid |-> u, start |-> TRUE]])
            BY <1>5, <2>1, SoundFields
        <2> QED BY <1>1, <1>5, <2>2, SoundTerminating, SoundRunningEcho, SoundCreated
    <1>8. Sound(f, DeferForRestart(a, m))  BY SoundDeferForRestart
    <1>9. \/ WatchModified(a, m) \in {a, DeferForRestart(a, m), seen, [seen EXCEPT !.replacement = u],
                                      RunningEcho(b, u), Created(b, u), b,
                                      [b EXCEPT !.pendingStart = [uid |-> u, start |-> TRUE]]}
          \/ clearing /\ WatchModified(a, m) = FinalizePodDeletion(seen, u)
          \/ m.deleting /\ WatchModified(a, m) = Terminating(b, u)
        BY DEF WatchModified
    <1> HIDE DEF u, seen, held, b, clearing
    <1> QED BY <1>2, <1>3, <1>5, <1>6, <1>7, <1>8, <1>9

\* The DELETED event also answers a finalization that is in flight.
LEMMA SoundWatchDeleted ==
    ASSUME NEW f, NEW a, Sound(f, a), NextOperation \in Nat, NEW m \in SoundMessages, m.type = "deleted"
    PROVE  /\ Sound(f, WatchDeleted(a, m))
           /\ a.inFlight.kind = "FinalizePodDeletion" /\ a.inFlight.uid = m.uid
              => WatchDeleted(a, m).inFlight = NoFlight
    <1> DEFINE u == m.uid
               seen == SeeVersion(a, m.rv)
               told == FinalizationAcknowledged(seen, u)
    <1>1. u \in Doomed /\ u \in Born /\ u # NoUid /\ m.rv \in Nat
        BY DEF SoundMessages, Born, NoUid
    <1>2. Sound(f, seen) /\ seen.active = a.active /\ seen.inFlight = a.inFlight /\ seen.replacement = a.replacement
        BY <1>1, SoundSeeVersion
    <1>3. /\ Sound(f, told) /\ told.active = a.active
          /\ a.inFlight.kind = "FinalizePodDeletion" /\ a.inFlight.uid = u => told.inFlight = NoFlight
        <2> HIDE DEF seen
        <2> DEFINE c == CancelInFlight(seen)
        <2>1. Sound(f, c) /\ c.inFlight = NoFlight /\ c.active = a.active  BY <1>2, SoundCancelInFlight
        <2>2. told = IF InFlightKind(seen, u) = "FinalizePodDeletion" THEN [c EXCEPT !.deleteRetry = FALSE] ELSE seen
            BY DEF FinalizationAcknowledged
        <2> HIDE DEF c
        <2>3. Sound(f, [c EXCEPT !.deleteRetry = FALSE])  BY <2>1, SoundFields
        <2>4. /\ [c EXCEPT !.deleteRetry = FALSE].inFlight = NoFlight
              /\ [c EXCEPT !.deleteRetry = FALSE].active = a.active
            BY <2>1 DEF Sound, SoundActors
        <2> QED BY <1>2, <2>2, <2>3, <2>4 DEF InFlightKind
    <1>4. CASE a.active = NoUid
        <2>1. WatchDeleted(a, m) = [told EXCEPT !.phase = "Terminated"]  BY <1>4 DEF WatchDeleted
        <2> HIDE DEF told
        <2>2. Sound(f, [told EXCEPT !.phase = "Terminated"])  BY <1>3, <1>4, SoundFields DEF Phases
        <2>3. [told EXCEPT !.phase = "Terminated"].inFlight = told.inFlight  BY <1>3 DEF Sound, SoundActors
        <2> QED BY <1>3, <2>1, <2>2, <2>3
    <1>5. CASE a.active # NoUid
        <2>1. a.inFlight.kind # "FinalizePodDeletion"  BY <1>5 DEF Sound, LetGo
        <2>2. Sound(f, BeginStop(seen, u))
            <3> HIDE DEF seen
            <3> QED BY <1>1, <1>2, SoundBeginStop
        <2>3. \A v \in MaybeBorn : Sound(f, [seen EXCEPT !.replacement = v])
            <3> HIDE DEF seen
            <3> QED BY <1>2, SoundFields
        <2>4. (IF seen.replacement = u THEN NoUid ELSE seen.replacement) \in MaybeBorn
            BY <1>2, NothingSound DEF Sound, SoundActors
        <2>5. WatchDeleted(a, m) \in {[seen EXCEPT !.replacement = IF seen.replacement = u THEN NoUid ELSE seen.replacement],
                                      seen, BeginStop(seen, u)}
            BY <1>5 DEF WatchDeleted
        <2> QED BY <1>2, <2>1, <2>2, <2>3, <2>4, <2>5
    <1> QED BY <1>4, <1>5

\* An orphan that is reported is doomed, so it may be stopped.
LEMMA SoundOrphanFinalize ==
    ASSUME NEW f, NEW a, Sound(f, a), NextOperation \in Nat, NEW u \in Doomed
    PROVE  Sound(f, OrphanFinalize(a, u))
    <1>1. u \in Born  BY DEF Doomed
    <1>2. (IF a.replacement = u THEN NoUid ELSE a.replacement) \in MaybeBorn
        BY NothingSound DEF Sound, SoundActors
    <1>3. Sound(f, [a EXCEPT !.replacement = IF a.replacement = u THEN NoUid ELSE a.replacement])
        BY <1>2, SoundFields
    <1>4. Sound(f, StopPod(EnsureActive(a, u), u, FALSE))  BY <1>1, SoundEnsureActive, SoundStopPod
    <1> QED BY <1>3, <1>4 DEF OrphanFinalize

\* CRI events and commands stop and start nothing.
LEMMA SoundSignals ==
    ASSUME NEW f, NEW a, Sound(f, a), NextOperation \in Nat, NEW u \in Born
    PROVE  Sound(f, CriEvent(a, u)) /\ Sound(f, LifecycleCommand(a, u))
    <1>1. Sound(f, EnsureActive(a, u))  BY SoundEnsureActive
    <1>2. Sound(f, ReconcileOrDefer(EnsureActive(a, u), u))  BY <1>1, SoundReconcile
    <1>3. Sound(f, Dispatch(EnsureActive(a, u), "HandleCommand", u, FALSE))
        BY <1>1, SoundDispatch DEF Kinds
    <1> QED BY <1>2, <1>3 DEF CriEvent, LifecycleCommand

\* Every message keeps an actor sound.
LEMMA SoundHandle ==
    ASSUME NEW f, NEW a, Sound(f, a), NextOperation \in Nat, NEW m \in SoundMessages
    PROVE  Sound(f, Handle(a, m))
    <1>1. /\ m.type \in Types /\ m.uid \in Born
          /\ m.type = "orphan" => m.uid \in Doomed
        BY DEF SoundMessages
    <1> QED BY <1>1, SoundWatchAdded, SoundWatchModified, SoundWatchDeleted, SoundOrphanFinalize, SoundSignals
            DEF Handle, Types

------------------------------------------------------------------------------
(* Timers and answers. *)

\* A retry timer repeats a stop of a doomed Pod or a start of an entitled one.
LEMMA SoundRetryDue ==
    ASSUME NEW f, NEW a, Sound(f, a), NextOperation \in Nat, NEW u \in Born
    PROVE  Sound(f, RetryDue(a, u))
    <1> DEFINE b == EnsureActive(a, u)
               p == [b EXCEPT !.phase = "PendingStart"]
    <1>1. Sound(f, b)  BY SoundEnsureActive
    <1>2. Sound(f, p)
        <2> HIDE DEF b
        <2> QED BY <1>1, SoundFields DEF Phases
    <1>3. Sound(f, RetryPending(p, u))
        <2> HIDE DEF p
        <2>1. p.pendingStart \in Starts /\ p.admitted \in Entitled \cup {NoUid} /\ u # NoUid
            BY <1>2 DEF Sound, SoundActors, Born, NoUid
        <2>2. CASE p.pendingStart # NoStart
            BY <1>2, <2>1, <2>2, SoundStartOrCheckSlotAdmission DEF RetryPending, Starts
        <2>3. CASE p.pendingStart = NoStart
            <3>1. p.admitted = u => Sound(f, StartPod(p, u, FALSE))
                BY <1>2, <2>1, SoundDispatch DEF StartPod, Kinds
            <3> QED BY <1>2, <2>3, <3>1 DEF RetryPending
        <2> QED BY <2>2, <2>3
    <1>4. a.phase = "Terminated" => a.active = NoUid  BY DEF Sound, LetGo
    <1>5. a.active = NoUid => Sound(f, FinalizePodDeletion(a, u))  BY SoundFinalizePodDeletion
    <1>6. a.pendingStop.uid = u => Sound(f, StopPod(a, u, a.pendingStop.graceful))
        <2>1. a.pendingStop \in Stops  BY DEF Sound, SoundActors
        <2>2. a.pendingStop.uid = u => u \in Doomed  BY <2>1 DEF Stops, Born, NoUid
        <2>3. a.pendingStop.graceful \in BOOLEAN  BY <2>1 DEF Stops
        <2> QED BY <2>2, <2>3, SoundStopPod
    <1>7. \/ RetryDue(a, u) \in {a, b, RetryPending(p, u)}
          \/ a.active = NoUid /\ RetryDue(a, u) = FinalizePodDeletion(a, u)
          \/ a.pendingStop.uid = u /\ RetryDue(a, u) = StopPod(a, u, a.pendingStop.graceful)
        BY DEF RetryDue
    <1> HIDE DEF b, p
    <1> QED BY <1>1, <1>3, <1>5, <1>6, <1>7

\* A deadline belongs to a doomed Pod.
LEMMA SoundDeletionDeadlineDue ==
    ASSUME NEW f, NEW a, Sound(f, a), NextOperation \in Nat, a.deadline.uid # NoUid
    PROVE  Sound(f, DeletionDeadlineDue(a))
    <1> DEFINE u == a.deadline.uid
               b == [a EXCEPT !.deadline.fired = TRUE]
    <1>1. a.deadline \in Deadlines /\ u \in Doomed
        BY DEF Sound, SoundActors, Deadlines
    <1>2. [a.deadline EXCEPT !.fired = TRUE] \in Deadlines  BY <1>1 DEF Deadlines
    <1>3. Sound(f, b)
        <2>1. b = [a EXCEPT !.deadline = [a.deadline EXCEPT !.fired = TRUE]]  OBVIOUS
        <2> QED BY <1>2, <2>1, SoundFields
    <1>4. Sound(f, StopPod(CancelInFlight(b), u, FALSE)) /\ Sound(f, StopPod(b, u, FALSE))
        <2> HIDE DEF b
        <2> QED BY <1>1, <1>3, SoundCancelInFlight, SoundStopPod
    <1>5. DeletionDeadlineDue(a) \in {b, StopPod(CancelInFlight(b), u, FALSE), StopPod(b, u, FALSE)}
        BY DEF DeletionDeadlineDue
    <1> QED BY <1>3, <1>4, <1>5

\* Work that was put off is taken up when nothing is in flight.
LEMMA SoundDrains ==
    ASSUME NEW f, NEW a, Sound(f, a), NextOperation \in Nat, NEW u \in Born
    PROVE  Sound(f, DrainRuntime(a, u)) /\ Sound(f, RetryFinalizeStartup(a, u))
    <1>1. Sound(f, [a EXCEPT !.startupRetry = FALSE])  BY SoundFields
    <1>2. Sound(f, FinalizeStartup([a EXCEPT !.startupRetry = FALSE], u, FALSE))
        BY <1>1, SoundDispatch DEF FinalizeStartup, Kinds
    <1> QED BY <1>2, SoundReconcile DEF DrainRuntime, RetryFinalizeStartup

\* A start that is done goes on to the startup confirmation.
LEMMA SoundStartCompleted ==
    ASSUME NEW f, NEW a, Sound(f, a), NextOperation \in Nat, NEW u \in Born
    PROVE  Sound(f, StartCompleted(a, u))
    <1> DEFINE b == [a EXCEPT !.phase = "Running", !.pendingStart = NoStart, !.pendingRuntime = TRUE]
               c == [b EXCEPT !.sandbox = TRUE, !.finalized = FALSE, !.startupRetry = FALSE]
    <1>1. Sound(f, b)
        <2>1. Sound(f, [a EXCEPT !.phase = "Running"])  BY SoundFields DEF Phases
        <2>2. Sound(f, [[a EXCEPT !.phase = "Running"] EXCEPT !.pendingStart = NoStart])
            BY <2>1, NothingSound, SoundFields
        <2> QED BY <2>2, SoundFields
    <1>2. Sound(f, c)
        <2> HIDE DEF b
        <2>1. Sound(f, [b EXCEPT !.sandbox = TRUE])  BY <1>1, SoundFields
        <2>2. Sound(f, [[b EXCEPT !.sandbox = TRUE] EXCEPT !.finalized = FALSE])  BY <2>1, SoundFields
        <2> QED BY <2>2, SoundFields
    <1>3. Sound(f, DrainRuntime(b, u)) /\ Sound(f, FinalizeStartup(c, u, FALSE))
        <2> HIDE DEF b, c
        <2> QED BY <1>1, <1>2, SoundDrains, SoundDispatch DEF FinalizeStartup, Kinds
    <1>4. StartCompleted(a, u) \in {DrainRuntime(b, u), FinalizeStartup(c, u, FALSE)}
        BY DEF StartCompleted
    <1> QED BY <1>3, <1>4

\* After the startup confirmation the work put off is taken up.
LEMMA SoundStartupFinalized ==
    ASSUME NEW f, NEW a, Sound(f, a), NextOperation \in Nat, NEW u \in Born, NEW confirmed \in BOOLEAN
    PROVE  Sound(f, StartupFinalized(a, u, confirmed))
    <1> DEFINE b == IF confirmed /\ a.sandbox THEN [a EXCEPT !.finalized = TRUE, !.startupRetry = FALSE] ELSE a
    <1>1. Sound(f, b)
        <2>1. Sound(f, [a EXCEPT !.finalized = TRUE])  BY SoundFields
        <2>2. Sound(f, [[a EXCEPT !.finalized = TRUE] EXCEPT !.startupRetry = FALSE])  BY <2>1, SoundFields
        <2> QED BY <2>2
    <1>2. Sound(f, DrainRuntime(b, u)) /\ Sound(f, RetryFinalizeStartup(b, u))
        <2> HIDE DEF b
        <2> QED BY <1>1, SoundDrains
    <1>3. StartupFinalized(a, u, confirmed) \in {b, DrainRuntime(b, u), RetryFinalizeStartup(b, u)}
        BY DEF StartupFinalized
    <1> QED BY <1>1, <1>2, <1>3

\* The Pod that waited for the name is admitted.
LEMMA SoundDeletionFinalized ==
    ASSUME NEW f, NEW a, Sound(f, a), NextOperation \in Nat
    PROVE  Sound(f, DeletionFinalized(a))
    <1>1. a.replacement \in MaybeBorn  BY DEF Sound, SoundActors
    <1> QED BY <1>1, SoundAdmitUid, SoundCreated DEF DeletionFinalized, MaybeBorn

\* The event kept during reconciliation is handled.
LEMMA SoundResumeAdmission ==
    ASSUME NEW f, NEW a, Sound(f, a), NextOperation \in Nat
    PROVE  Sound(f, ResumeAdmission(a))
    <1>1. a.deferred \in SoundMessages \cup {NoMessage}  BY DEF Sound, SoundActors
    <1>2. Sound(f, [a EXCEPT !.deferred = NoMessage])  BY SoundFields
    <1> QED BY <1>1, <1>2, SoundHandle DEF ResumeAdmission

\* A granted slot entitles its Pod to start.
LEMMA SoundSlotGranted ==
    ASSUME NEW f, NEW a, Sound(f, a), NextOperation \in Nat, NEW u \in Entitled, NEW start \in BOOLEAN
    PROVE  Sound(f, SlotGranted(a, u, start))
    <1> DEFINE b == [a EXCEPT !.waiting = FALSE, !.admitted = u, !.pendingStart = NoStart]
    <1>1. Sound(f, b)
        <2>1. Sound(f, [a EXCEPT !.waiting = FALSE])  BY SoundFields
        <2>2. Sound(f, [[a EXCEPT !.waiting = FALSE] EXCEPT !.admitted = u])  BY <2>1, SoundFields
        <2> QED BY <2>2, NothingSound, SoundFields
    <1>2. Sound(f, StartPod([b EXCEPT !.phase = "PendingStart"], u, TRUE))
        <2> HIDE DEF b
        <2>1. Sound(f, [b EXCEPT !.phase = "PendingStart"])  BY <1>1, SoundFields DEF Phases
        <2> QED BY <2>1, SoundDispatch DEF StartPod, Kinds, Entitled
    <1> QED BY <1>1, <1>2 DEF SlotGranted

\* What a work task may be: see SoundActions; a granted slot entitles.
SoundWork ==
    {w \in [kind : Kinds, uid : Born, op : Nat, flag : BOOLEAN,
            cancelled : BOOLEAN, stage : Stages, blocker : MaybeUid] :
        /\ w.kind = "StopPod" => w.uid \in Doomed
        /\ w.kind = "StartPod" \/ w.stage = "granted" => w.uid \in Entitled}

\* What the actor makes of a failure.
LEMMA SoundWorkFailed ==
    ASSUME NEW f, NEW a, Sound(f, a), a.inFlight = NoFlight, NextOperation \in Nat, NEW w \in SoundWork
    PROVE  Sound(f, WorkFailed(a, w))
    <1>1. w.uid \in Born  BY DEF SoundWork
    <1>2. \A v \in {"PendingStart", "Stopping"} : Sound(f, [a EXCEPT !.phase = v])
        BY SoundFields DEF Phases
    <1>3. \A v \in {"PendingStart", "Stopping"} : [a EXCEPT !.phase = v].inFlight = NoFlight
        BY DEF Sound, SoundActors
    <1>4. Sound(f, [a EXCEPT !.deleteRetry = TRUE])  BY SoundFields
    <1>5. [a EXCEPT !.deleteRetry = TRUE].inFlight = NoFlight  BY DEF Sound, SoundActors
    <1>6. /\ Sound(f, ScheduleRetry([a EXCEPT !.phase = "PendingStart"], w.uid))
          /\ Sound(f, ScheduleRetry([a EXCEPT !.phase = "Stopping"], w.uid))
          /\ Sound(f, ScheduleRetry([a EXCEPT !.deleteRetry = TRUE], w.uid))
          /\ Sound(f, ScheduleRetry(a, w.uid))
        BY <1>1, <1>2, <1>3, <1>4, <1>5, SoundScheduleRetry
    <1>7. Sound(f, ReconcileRuntime(a, w.uid)) /\ Sound(f, StopCompleted(a, w.uid))
        BY <1>1, SoundReconcile, SoundStopCompleted
    <1> QED BY <1>2, <1>6, <1>7 DEF WorkFailed

\* What the actor makes of a completed task.
LEMMA SoundWorkCompleted ==
    ASSUME NEW f, NEW a, Sound(f, a), a.inFlight = NoFlight, NextOperation \in Nat, NEW w \in SoundWork
    PROVE  Sound(f, WorkCompleted(a, w))
    <1>1. w.uid \in Born /\ w.flag \in BOOLEAN /\ (w.stage = "granted" => w.uid \in Entitled)
        BY DEF SoundWork
    <1>2. Sound(f, ResumeAdmission(a)) /\ Sound(f, DeletionFinalized(a))
        BY SoundResumeAdmission, SoundDeletionFinalized
    <1>3. Sound(f, [a EXCEPT !.waiting = TRUE])  BY SoundFields
    <1>4. w.stage = "granted" => Sound(f, SlotGranted(a, w.uid, w.flag))  BY <1>1, SoundSlotGranted
    <1>5. /\ Sound(f, StartCompleted(a, w.uid)) /\ Sound(f, StopCompleted(a, w.uid))
          /\ Sound(f, StartupFinalized(a, w.uid, w.stage = "confirmed"))
        BY <1>1, SoundStartCompleted, SoundStopCompleted, SoundStartupFinalized
    <1>6. Sound(f, RuntimeReconciled(a, w.uid))
        BY <1>1, SoundScheduleRetry, SoundDrains DEF RuntimeReconciled
    <1> QED BY <1>2, <1>3, <1>4, <1>5, <1>6 DEF WorkCompleted

\* An answer that is heard leaves nothing of its operation in flight.
LEMMA SoundWorkAnswered ==
    ASSUME NEW f, NEW a, Sound(f, a), NextOperation \in Nat, NEW w \in SoundWork
    PROVE  /\ Heard(a, w) => Sound(NoFlight, WorkAnswered(a, w))
           /\ ~Heard(a, w) => WorkAnswered(a, w) = a
    <1> DEFINE b == [a EXCEPT !.inFlight = NoFlight]
    <1>1. b.inFlight = NoFlight  BY DEF Sound, SoundActors
    <1>2. Sound(f, b)  BY SoundFields
    <1> HIDE DEF b
    <1>3. Sound(NoFlight, b)  BY <1>1, <1>2 DEF Sound, Flown
    <1>4. Sound(NoFlight, WorkFailed(b, w)) /\ Sound(NoFlight, WorkCompleted(b, w))
        BY <1>1, <1>3, SoundWorkFailed, SoundWorkCompleted
    <1> QED BY <1>4 DEF WorkAnswered, Heard, b

\* A woken waiter asks for the slot again.
LEMMA SoundSlotWake ==
    ASSUME NEW f, NEW a, Sound(f, a), NextOperation \in Nat, NEW u \in Born
    PROVE  Sound(f, SlotWake(a, u))
    <1>1. Sound(f, [a EXCEPT !.waiting = FALSE])  BY SoundFields
    <1>2. a.pendingStart.start \in BOOLEAN
        <2>1. a.pendingStart \in Starts  BY DEF Sound, SoundActors
        <2>2. NoStart.start \in BOOLEAN  BY DEF NoStart
        <2> QED BY <2>1, <2>2 DEF Starts
    <1>3. Sound(f, CheckSlotAdmission([a EXCEPT !.waiting = FALSE], u, a.pendingStart.start))
        BY <1>1, <1>2, SoundCheckSlotAdmission
    <1> QED BY <1>3 DEF SlotWake

------------------------------------------------------------------------------
(* The inductive invariant. *)

\* Stages of a slot waiter, whose check has been answered.
Waiting == {"unsubscribed", "subscribed", "woken"}

ActorInv ==
    /\ actor \in SoundActors /\ LetGo(actor)
    /\ actor.do = Nothing /\ actor.cancelled = 0

\* The actor does not listen to a waiter.
WorksInv ==
    /\ works \in SUBSET SoundWork /\ IsFiniteSet(works)
    /\ \A w \in works : w.stage \in Waiting => ~Heard(actor, w)

RuntimeInv ==
    /\ slot \in MaybeUid
    /\ sandbox \in [Uids -> {"none", "empty", "started"}]
    /\ sandboxes \subseteq Entitled

\* Only the newest Pod can be in the API, and the leader's own Pods are never
\* finalized through an outbox.
ApiInv ==
    /\ created \in 0..MaxUid
    /\ row \in [uid : {NoUid, created}, deleting : BOOLEAN, held : BOOLEAN, running : BOOLEAN]
    /\ row.uid = NoUid => row = NoPod
    /\ outbox \in [Uids -> [rows : Nat, dead : BOOLEAN]]
    /\ ~remote => \A u \in Uids : outbox[u] = EmptyOutbox
    /\ version \in Nat /\ remote \in BOOLEAN /\ upsets \in 0..MaxUpsets

\* Timers are armed for Pods that exist or existed.
Timers == {t \in [Uids -> Nat] : \A u \in Uids : t[u] > 0 => u \in Born}

IInv ==
    /\ ActorInv /\ WorksInv /\ RuntimeInv /\ ApiInv
    /\ timers \in Timers
    /\ mailbox \in Seq(SoundMessages)
    /\ InFlightAnswered

\* A step may make Pods unwanted and give new ones a UID, never the other way
\* round, and a wanted Pod keeps the slot.
Fades ==
    /\ created \in Nat /\ created' \in Nat /\ created <= created'
    /\ \A u \in Born : Wanted(u)' => Wanted(u) /\ (slot = u => slot' = u)

\* The sets of sound values only grow.
LEMMA FadesGrows ==
    ASSUME Fades
    PROVE  /\ Born \subseteq Born' /\ Doomed \subseteq Doomed' /\ Entitled \subseteq Entitled'
           /\ SoundMessages \subseteq SoundMessages' /\ Timers \subseteq Timers'
           /\ SoundWork \subseteq SoundWork' /\ SoundActors \subseteq SoundActors'
    <1>1. Born \subseteq Born'  BY DEF Fades, Born
    <1>2. Doomed \subseteq Doomed'  BY <1>1 DEF Fades, Doomed
    <1>3. Entitled \subseteq Entitled'  BY <1>1 DEF Fades, Entitled
    <1>4. SoundMessages \subseteq SoundMessages'  BY <1>1, <1>2 DEF SoundMessages
    <1>5. SoundActions \subseteq SoundActions'  BY <1>1, <1>2, <1>3 DEF SoundActions
    <1>6. SoundWork \subseteq SoundWork'  BY <1>1, <1>2, <1>3 DEF SoundWork
    <1>7. MaybeBorn \subseteq MaybeBorn'  BY <1>1 DEF MaybeBorn
    <1>8. /\ Flights \subseteq Flights' /\ Starts \subseteq Starts' /\ Stops \subseteq Stops'
          /\ Deadlines \subseteq Deadlines'
        BY <1>1, <1>2, <1>7 DEF Flights, Starts, Stops, Deadlines
    <1>9. SoundActors \subseteq SoundActors'
        BY <1>3, <1>4, <1>5, <1>7, <1>8 DEF SoundActors
    <1>10. Timers \subseteq Timers'  BY <1>1 DEF Timers
    <1> QED BY <1>1, <1>2, <1>3, <1>4, <1>6, <1>9, <1>10

\* Nothing fades when the row, the slot and the count of Pods stay.
LEMMA StillFades ==
    ASSUME ApiInv, UNCHANGED <<row, slot, created>>
    PROVE  Fades
    BY DEF ApiInv, Fades, Wanted, LivePod

\* There is always an operation id that no task uses.
LEMMA FreshOperation ==
    ASSUME IsFiniteSet(works)
    PROVE  NextOperation \in Nat /\ \A w \in works : w.op # NextOperation
    <1> DEFINE n == Cardinality(works)
    <1>1. n \in Nat  BY FS_CardinalityType
    <1>2. \E k \in 1..(n + 1) : \A w \in works : w.op # k
        <2> SUFFICES ASSUME \A k \in 1..(n + 1) : \E w \in works : w.op = k  PROVE FALSE
            OBVIOUS
        <2> DEFINE g == [k \in 1..(n + 1) |-> CHOOSE w \in works : w.op = k]
        <2>1. g \in [1..(n + 1) -> works]  OBVIOUS
        <2>2. \A k \in 1..(n + 1) : g[k].op = k  OBVIOUS
        <2>3. IsFiniteSet(1..(n + 1)) /\ Cardinality(1..(n + 1)) = n + 1
            BY <1>1, FS_Interval
        <2> HIDE DEF g
        <2>4. \E j, k \in 1..(n + 1) : j # k /\ g[j] = g[k]
            BY <1>1, <2>1, <2>3, FS_PigeonHole
        <2> QED BY <2>2, <2>4
    <1>3. NextOperation \in 1..(n + 1) /\ \A w \in works : w.op # NextOperation
        BY <1>2 DEF NextOperation
    <1> QED BY <1>1, <1>3

------------------------------------------------------------------------------
(* Steps of the actor's loop. *)

Same(v, w) == v.kind = w.kind /\ v.uid = w.uid /\ v.op = w.op

\* An actor listens to a task by its kind, UID and operation id.
LEMMA SameHeard ==
    ASSUME NEW a, NEW v, NEW w, Same(v, w)
    PROVE  Heard(a, v) <=> Heard(a, w)
    BY DEF Same, Heard

\* What the actor has given up is told so and otherwise stays.
LEMMA ToldSound ==
    ASSUME NEW a, NEW ws \in SUBSET SoundWork, IsFiniteSet(ws)
    PROVE  LET told == {[w EXCEPT !.cancelled = w.cancelled \/ (a.cancelled # 0 /\ w.op = a.cancelled)] : w \in ws}
           IN  /\ told \in SUBSET SoundWork /\ IsFiniteSet(told)
               /\ \A v \in told : \E w \in ws : Same(v, w) /\ v.stage = w.stage
               /\ \A w \in ws : \E v \in told : Same(v, w)
    <1> DEFINE Told(w) == [w EXCEPT !.cancelled = w.cancelled \/ (a.cancelled # 0 /\ w.op = a.cancelled)]
               told == {Told(w) : w \in ws}
               g == [w \in ws |-> Told(w)]
    <1>1. \A w \in ws : Told(w) \in SoundWork /\ Same(Told(w), w) /\ Told(w).stage = w.stage
        BY DEF SoundWork, Same
    <1> HIDE DEF Told
    <1>2. g \in Surjection(ws, told)  BY DEF Surjection
    <1>3. IsFiniteSet(told)  BY <1>2, FS_Surjection
    <1>4. /\ told \in SUBSET SoundWork
          /\ \A v \in told : \E w \in ws : Same(v, w) /\ v.stage = w.stage
          /\ \A w \in ws : \E v \in told : Same(v, w)
        BY <1>1
    <1> QED BY <1>3, <1>4 DEF Told

\* A sound actor does not listen to a waiter it did not listen to before.
LEMMA WaitersStayUnheard ==
    ASSUME WorksInv, NEW a, NEW f \in {NoFlight, actor.inFlight}, Sound(f, a), NEW w \in works, w.stage \in Waiting
    PROVE  ~Heard(a, w)
    <1>1. w.kind \in Kinds /\ ~Heard(actor, w) /\ w.op # NextOperation
        BY FreshOperation DEF WorksInv, SoundWork
    <1>2. CASE a.inFlight = NoFlight  BY <1>1, <1>2 DEF Heard, NoFlight, Kinds
    <1>3. CASE a.inFlight = f /\ a.inFlight # NoFlight  BY <1>1, <1>3 DEF Heard
    <1>4. CASE a.inFlight = [kind |-> a.do.kind, uid |-> a.do.uid, op |-> a.do.op] /\ a.do.op = NextOperation
        BY <1>1, <1>4 DEF Heard
    <1> QED BY <1>2, <1>3, <1>4 DEF Sound, Flown

\* A timer is armed, or one of those armed fires.
LEMMA TimersMove ==
    ASSUME NEW ts \in Timers, NEW u
    PROVE  /\ u \in Born => [ts EXCEPT ![u] = @ + 1] \in Timers
           /\ u \in Uids /\ ts[u] > 0 => u \in Born /\ [ts EXCEPT ![u] = @ - 1] \in Timers
    <1>1. ts \in [Uids -> Nat] /\ \A v \in Uids : ts[v] > 0 => v \in Born  BY DEF Timers
    <1>2. ASSUME u \in Born  PROVE [ts EXCEPT ![u] = @ + 1] \in Timers
        <2>1. [ts EXCEPT ![u] = @ + 1] \in [Uids -> Nat]
            <3>1. CASE u \in Uids
                <4>1. ts[u] + 1 \in Nat  BY <1>1, <3>1
                <4> QED BY <1>1, <4>1
            <3>2. CASE u \notin Uids
                <4>1. [ts EXCEPT ![u] = @ + 1] = ts  BY <1>1, <3>2
                <4> QED BY <1>1, <4>1
            <3> QED BY <3>1, <3>2
        <2>2. ASSUME NEW v \in Uids, [ts EXCEPT ![u] = @ + 1][v] > 0  PROVE v \in Born
            BY <1>1, <1>2, <2>2
        <2> QED BY <2>1, <2>2 DEF Timers
    <1>3. ASSUME u \in Uids, ts[u] > 0  PROVE u \in Born /\ [ts EXCEPT ![u] = @ - 1] \in Timers
        <2>1. u \in Born /\ [ts EXCEPT ![u] = @ - 1] \in [Uids -> Nat]  BY <1>1, <1>3
        <2>2. ASSUME NEW v \in Uids, [ts EXCEPT ![u] = @ - 1][v] > 0  PROVE v \in Born
            BY <1>1, <2>1, <2>2
        <2> QED BY <2>1, <2>2 DEF Timers
    <1> QED BY <1>2, <1>3

\* A handler's result is taken: its task is spawned, or its timer armed.
LEMMA TakeKeeps ==
    ASSUME NEW f, NEW a, Sound(f, a), Fades,
           NEW ws \in SUBSET SoundWork, IsFiniteSet(ws),
           NEW ts \in Timers,
           \A w \in ws : w.stage \in Waiting => ~Heard(a, w),
           Take(a, ws, ts)
    PROVE  /\ ActorInv' /\ WorksInv' /\ timers' \in Timers'
           /\ actor'.inFlight = a.inFlight
           /\ \A w \in ws : Heard(a, w) => \E v \in works' : Heard(actor', v)
           /\ a.inFlight \in {NoFlight, f} \/ \E v \in works' : Heard(actor', v)
    <1> DEFINE told == {[w EXCEPT !.cancelled = w.cancelled \/ (a.cancelled # 0 /\ w.op = a.cancelled)] : w \in ws}
               spawned == [kind |-> a.do.kind, uid |-> a.do.uid, op |-> a.do.op, flag |-> a.do.flag,
                           cancelled |-> FALSE, stage |-> "begin", blocker |-> NoUid]
               all == told \cup (IF a.do.kind \in Kinds THEN {spawned} ELSE {})
    <1>1. /\ told \in SUBSET SoundWork /\ IsFiniteSet(told)
          /\ \A v \in told : \E w \in ws : Same(v, w) /\ v.stage = w.stage
          /\ \A w \in ws : \E v \in told : Same(v, w)
        BY ToldSound
    <1> HIDE DEF told
    <1>2. a.do \in SoundActions /\ a \in SoundActors  BY DEF Sound, SoundActors
    <1>3. a.do.kind \in Kinds => spawned \in SoundWork
        <2> SUFFICES ASSUME a.do.kind \in Kinds PROVE spawned \in SoundWork  OBVIOUS
        <2>1. a.do # Nothing  BY DEF Nothing, Kinds
        <2>2. /\ a.do \in [kind : Kinds \cup {"retry"}, uid : Born, op : Nat, flag : BOOLEAN]
              /\ a.do.kind = "StopPod" => a.do.uid \in Doomed
              /\ a.do.kind = "StartPod" => a.do.uid \in Entitled
            BY <1>2, <2>1 DEF SoundActions
        <2> QED BY <2>2 DEF SoundWork, Stages, MaybeUid, NoUid
    <1>4. a.do.kind = "retry" => a.do.uid \in Born
        BY <1>2 DEF SoundActions, Nothing
    <1>5. all \in SUBSET SoundWork /\ IsFiniteSet(all)
        <2>1. all = told \/ all = told \cup {spawned}  OBVIOUS
        <2> QED BY <1>1, <1>3, <2>1, FS_AddElement
    <1>6. /\ actor' = [a EXCEPT !.do = Nothing, !.cancelled = 0]
          /\ works' = Relevant(a, all)
          /\ timers' = IF a.do.kind = "retry" THEN [ts EXCEPT ![a.do.uid] = @ + 1] ELSE ts
        BY DEF Take, told
    <1>7. actor' \in SoundActors
        <2>1. Nothing \in SoundActions  BY DEF SoundActions
        <2> QED BY <1>2, <1>6, <2>1, ActorFields
    <1>8. /\ actor'.do = Nothing /\ actor'.cancelled = 0 /\ actor'.inFlight = a.inFlight
          /\ actor'.phase = a.phase /\ actor'.active = a.active
        BY <1>2, <1>6 DEF SoundActors
    <1>9. ActorInv'
        <2>1. LetGo(actor')  BY <1>8 DEF Sound, LetGo
        <2>2. actor' \in SoundActors'  BY <1>7, FadesGrows
        <2> QED BY <1>8, <2>1, <2>2 DEF ActorInv, LetGo
    <1>10. \A v : Heard(actor', v) <=> Heard(a, v)  BY <1>8 DEF Heard
    <1>11. works' \in SUBSET all /\ \A v \in all : Heard(a, v) => v \in works'
        BY <1>6 DEF Relevant
    <1>12. \A v \in all : v.stage \in Waiting => ~Heard(a, v)
        <2>1. \A v \in told : v.stage \in Waiting => ~Heard(a, v)
            BY <1>1, SameHeard
        <2>2. spawned.stage \notin Waiting  BY DEF Waiting
        <2> QED BY <2>1, <2>2
    <1> HIDE DEF all
    <1>13. WorksInv'
        <2>1. works' \in SUBSET SoundWork' /\ IsFiniteSet(works')
            BY <1>5, <1>11, FadesGrows, FS_Subset
        <2>2. \A w \in works' : w.stage \in Waiting => ~Heard(actor', w)
            BY <1>10, <1>11, <1>12
        <2> QED BY <2>1, <2>2 DEF WorksInv, Heard
    <1>14. timers' \in Timers'
        <2>1. timers' \in Timers  BY <1>4, <1>6, TimersMove
        <2> QED BY <2>1, FadesGrows
    <1>15. ASSUME NEW w \in ws, Heard(a, w)  PROVE \E v \in works' : Heard(actor', v)
        <2>1. PICK v \in told : Same(v, w)  BY <1>1
        <2>2. Heard(a, v) /\ v \in all  BY <1>15, <2>1, SameHeard DEF all
        <2> QED BY <1>10, <1>11, <2>2
    <1>16. a.inFlight \in {NoFlight, f} \/ \E v \in works' : Heard(actor', v)
        <2> SUFFICES ASSUME a.inFlight \notin {NoFlight, f} PROVE \E v \in works' : Heard(actor', v)
            OBVIOUS
        <2>1. a.inFlight = [kind |-> a.do.kind, uid |-> a.do.uid, op |-> a.do.op] /\ a.do.kind \in Kinds
            BY DEF Sound, Flown
        <2>2. Heard(a, spawned)  BY <2>1 DEF Heard
        <2>3. spawned \in all  BY <2>1 DEF all
        <2> QED BY <1>10, <1>11, <2>2, <2>3
    <1> QED BY <1>8, <1>9, <1>13, <1>14, <1>15, <1>16

\* Steps that leave the runtime and the API alone.
LEMMA LoopKeepsRest ==
    ASSUME RuntimeInv, ApiInv, UNCHANGED <<slot, sandbox, row, version, outbox, remote, upsets, created>>
    PROVE  RuntimeInv' /\ ApiInv' /\ Fades
    <1>1. Fades  BY StillFades
    <1>2. sandboxes' = sandboxes  BY DEF sandboxes
    <1>3. RuntimeInv'  BY <1>1, <1>2, FadesGrows DEF RuntimeInv
    <1>4. ApiInv'  BY DEF ApiInv, NoPod, Born
    <1> QED BY <1>1, <1>3, <1>4

\* The actor as it rests between messages is sound.
LEMMA RestingSound ==
    ASSUME ActorInv
    PROVE  Sound(actor.inFlight, actor)
    BY DEF ActorInv, Sound, Flown

\* Taking the head of a queue leaves the other messages.
LEMMA TailRange ==
    ASSUME NEW S, NEW s \in Seq(S), s # <<>>, NEW m \in Range(s)
    PROVE  m = Head(s) \/ m \in Range(Tail(s))
    <1>1. PICK i \in 1..Len(s) : m = s[i]  BY LenProperties DEF Range
    <1>2. CASE i = 1  BY <1>1, <1>2
    <1>3. CASE i # 1
        <2>1. /\ Tail(s) \in Seq(S) /\ Len(Tail(s)) = Len(s) - 1
              /\ \A j \in 1..Len(Tail(s)) : Tail(s)[j] = s[j + 1]
            BY HeadTailProperties
        <2>2. Len(s) \in Nat  BY LenProperties
        <2>3. i - 1 \in 1..Len(Tail(s)) /\ Tail(s)[i - 1] = m  BY <1>1, <1>3, <2>1, <2>2
        <2>4. DOMAIN Tail(s) = 1..Len(Tail(s))  BY <2>1, LenProperties
        <2> QED BY <2>3, <2>4 DEF Range
    <1> QED BY <1>2, <1>3

\* A message is handled; a DELETED event that was awaited ends the wait.
LEMMA ReceiveKeeps == IInv /\ Receive => IInv'
    <1> SUFFICES ASSUME IInv, Receive PROVE IInv'  OBVIOUS
    <1> DEFINE m == Head(mailbox)
               a == Handle(actor, m)
               f == actor.inFlight
    <1>1. /\ mailbox # <<>> /\ mailbox' = Tail(mailbox) /\ Take(a, works, timers)
          /\ UNCHANGED <<slot, sandbox, row, version, outbox, remote, upsets, created>>
        BY DEF Receive, runtimeVars
    <1>2. RuntimeInv' /\ ApiInv' /\ Fades  BY <1>1, LoopKeepsRest DEF IInv
    <1>3. m \in SoundMessages /\ mailbox' \in Seq(SoundMessages)
        BY <1>1, HeadTailProperties DEF IInv
    <1>4. mailbox' \in Seq(SoundMessages')  BY <1>2, <1>3, FadesGrows, SeqMonotonic
    <1>5. NextOperation \in Nat  BY FreshOperation DEF IInv, WorksInv
    <1>6. Sound(f, actor)  BY RestingSound DEF IInv
    <1>7. Sound(f, a)  BY <1>3, <1>5, <1>6, SoundHandle
    <1>8. m.type = "deleted" /\ f.kind = "FinalizePodDeletion" /\ f.uid = m.uid => a.inFlight = NoFlight
        <2>1. m.type = "deleted" => a = WatchDeleted(actor, m)  BY DEF Handle
        <2> QED BY <1>3, <1>5, <1>6, <2>1, SoundWatchDeleted
    <1> HIDE DEF a
    <1>9. \A w \in works : w.stage \in Waiting => ~Heard(a, w)
        BY <1>7, WaitersStayUnheard DEF IInv
    <1>10. /\ ActorInv' /\ WorksInv' /\ timers' \in Timers'
           /\ actor'.inFlight = a.inFlight
           /\ \A w \in works : Heard(a, w) => \E v \in works' : Heard(actor', v)
           /\ a.inFlight \in {NoFlight, f} \/ \E v \in works' : Heard(actor', v)
        BY <1>1, <1>2, <1>7, <1>9, TakeKeeps DEF IInv, WorksInv
    <1>11. InFlightAnswered'
        <2> SUFFICES ASSUME actor'.inFlight # NoFlight, ~\E v \in works' : Heard(actor', v)
                     PROVE  /\ actor'.inFlight.kind = "FinalizePodDeletion"
                            /\ \/ Pending(actor.inFlight.uid)'
                               \/ \E n \in Range(mailbox') : n.uid = actor'.inFlight.uid /\ n.type = "deleted"
            BY DEF InFlightAnswered, Heard
        <2>1. a.inFlight = f /\ f # NoFlight  BY <1>10
        <2>2. \A w : Heard(a, w) <=> Heard(actor, w)  BY <2>1 DEF Heard
        <2>3. ~\E w \in works : Heard(actor, w)  BY <1>10, <2>2
        <2>4. /\ f.kind = "FinalizePodDeletion"
              /\ Pending(f.uid) \/ \E n \in Range(mailbox) : n.uid = f.uid /\ n.type = "deleted"
            BY <2>1, <2>3 DEF IInv, InFlightAnswered
        <2>5. ASSUME NEW n \in Range(mailbox), n.uid = f.uid, n.type = "deleted"
              PROVE  n \in Range(mailbox')
            <3>1. n # m  BY <1>8, <2>1, <2>4, <2>5
            <3> QED BY <1>1, <3>1, TailRange DEF IInv
        <2>6. Pending(f.uid) => Pending(actor.inFlight.uid)'  BY <1>1, <1>10, <2>1 DEF Pending, LivePod
        <2> QED BY <1>10, <2>1, <2>4, <2>5, <2>6
    <1> QED BY <1>2, <1>4, <1>10, <1>11 DEF IInv

\* The other steps of the loop take no message.
LEMMA LoopKeeps ==
    ASSUME IInv, NEW a, NEW f \in {NoFlight, actor.inFlight}, Sound(f, a),
           NEW ws \in SUBSET SoundWork, IsFiniteSet(ws), NEW ts \in Timers,
           \A w \in ws : w.stage \in Waiting => ~Heard(a, w),
           f = NoFlight \/ \A w \in works : Heard(actor, w) => \E v \in ws : Same(v, w),
           Take(a, ws, ts),
           UNCHANGED <<slot, sandbox, row, version, mailbox, outbox, remote, upsets, created>>
    PROVE  IInv'
    <1>1. RuntimeInv' /\ ApiInv' /\ Fades  BY LoopKeepsRest DEF IInv
    <1>2. mailbox' \in Seq(SoundMessages')
        <2>1. mailbox' \in Seq(SoundMessages)  BY DEF IInv
        <2> QED BY <1>1, <2>1, FadesGrows, SeqMonotonic
    <1>3. /\ ActorInv' /\ WorksInv' /\ timers' \in Timers'
          /\ actor'.inFlight = a.inFlight
          /\ \A w \in ws : Heard(a, w) => \E v \in works' : Heard(actor', v)
          /\ a.inFlight \in {NoFlight, f} \/ \E v \in works' : Heard(actor', v)
        BY <1>1, TakeKeeps
    <1>4. InFlightAnswered'
        <2> SUFFICES ASSUME actor'.inFlight # NoFlight, ~\E v \in works' : Heard(actor', v)
                     PROVE  /\ actor'.inFlight.kind = "FinalizePodDeletion"
                            /\ \/ Pending(actor.inFlight.uid)'
                               \/ \E n \in Range(mailbox') : n.uid = actor'.inFlight.uid /\ n.type = "deleted"
            BY DEF InFlightAnswered, Heard
        <2>1. a.inFlight = f /\ f # NoFlight  BY <1>3
        <2>2. f = actor.inFlight  BY <2>1
        <2>3. \A w : Heard(a, w) <=> Heard(actor, w)  BY <2>1, <2>2 DEF Heard
        <2>4. ~\E w \in works : Heard(actor, w)  BY <1>3, <2>1, <2>3, SameHeard
        <2>5. /\ f.kind = "FinalizePodDeletion"
              /\ Pending(f.uid) \/ \E n \in Range(mailbox) : n.uid = f.uid /\ n.type = "deleted"
            BY <2>1, <2>2, <2>4 DEF IInv, InFlightAnswered
        <2>6. Pending(f.uid) => Pending(actor.inFlight.uid)'  BY <1>3, <2>1 DEF Pending, LivePod
        <2> QED BY <1>3, <2>1, <2>5, <2>6
    <1> QED BY <1>1, <1>2, <1>3, <1>4 DEF IInv

\* An answer is taken, heard or not, or a waiter wakes the actor.
LEMMA DeliverKeeps ==
    ASSUME IInv, NEW w \in works, Deliver(w)
    PROVE  IInv'
    <1> DEFINE ws == IF w.stage = "blocked" THEN (works \ {w}) \cup {[w EXCEPT !.stage = "unsubscribed"]}
                                            ELSE works \ {w}
               a == IF w.stage = "woken" THEN SlotWake(actor, w.uid) ELSE WorkAnswered(actor, w)
    <1>1. /\ w.stage \in Answers \cup {"blocked", "woken"} /\ Take(a, ws, timers)
          /\ UNCHANGED <<slot, sandbox, row, version, mailbox, outbox, remote, upsets, created>>
        BY DEF Deliver, runtimeVars, apiVars
    <1>2. NextOperation \in Nat  BY FreshOperation DEF IInv, WorksInv
    <1>3. Sound(actor.inFlight, actor)  BY RestingSound DEF IInv
    <1>4. w \in SoundWork /\ w.uid \in Born  BY DEF IInv, WorksInv, SoundWork
    <1>5. /\ [w EXCEPT !.stage = "unsubscribed"] \in SoundWork
          /\ Same([w EXCEPT !.stage = "unsubscribed"], w)
        BY <1>4 DEF SoundWork, Stages, Same
    <1>6. ws \in SUBSET SoundWork /\ IsFiniteSet(ws)
        <2>1. works \ {w} \in SUBSET SoundWork /\ IsFiniteSet(works \ {w})
            BY FS_RemoveElement DEF IInv, WorksInv
        <2> QED BY <1>5, <2>1, FS_AddElement
    <1>7. CASE w.stage = "woken"
        <2>1. Sound(actor.inFlight, a)  BY <1>2, <1>3, <1>4, <1>7, SoundSlotWake
        <2>2. ~Heard(actor, w)  BY <1>7 DEF IInv, WorksInv, Waiting
        <2>3. ws = works \ {w}  BY <1>7
        <2> HIDE DEF a
        <2>4. \A v \in ws : v.stage \in Waiting => ~Heard(a, v)
            BY <2>1, <2>3, WaitersStayUnheard DEF IInv
        <2>5. \A v \in works : Heard(actor, v) => \E x \in ws : Same(x, v)
            BY <2>2, <2>3 DEF Same
        <2> HIDE DEF ws
        <2> QED BY <1>1, <1>6, <2>1, <2>4, <2>5, LoopKeeps DEF IInv
    <1>8. CASE w.stage # "woken" /\ Heard(actor, w)
        <2>1. Sound(NoFlight, a)  BY <1>2, <1>3, <1>4, <1>8, SoundWorkAnswered
        <2> HIDE DEF a
        <2>2. ~Heard(a, w)
            <3>1. w.kind \in Kinds /\ w.op # NextOperation
                BY <1>4, FreshOperation DEF SoundWork, IInv, WorksInv
            <3>2. a.inFlight = NoFlight \/ (a.do.op = NextOperation /\ a.inFlight.op = a.do.op)
                BY <2>1 DEF Sound, Flown
            <3> QED BY <3>1, <3>2 DEF Heard, NoFlight, Kinds
        <2>3. \A v \in ws : v.stage \in Waiting => ~Heard(a, v)
            <3>1. \A v \in works : v.stage \in Waiting => ~Heard(a, v)
                BY <2>1, WaitersStayUnheard DEF IInv
            <3>2. ~Heard(a, [w EXCEPT !.stage = "unsubscribed"])  BY <1>5, <2>2, SameHeard
            <3> QED BY <3>1, <3>2
        <2> HIDE DEF ws
        <2> QED BY <1>1, <1>6, <2>1, <2>3, LoopKeeps DEF IInv
    <1>9. CASE w.stage # "woken" /\ ~Heard(actor, w)
        <2>1. a = actor  BY <1>2, <1>3, <1>4, <1>9, SoundWorkAnswered
        <2> HIDE DEF a
        <2>2. \A v \in ws : v.stage \in Waiting => ~Heard(a, v)
            <3>1. \A v \in works : v.stage \in Waiting => ~Heard(a, v)
                BY <2>1 DEF IInv, WorksInv
            <3>2. ~Heard(a, [w EXCEPT !.stage = "unsubscribed"])  BY <1>5, <1>9, <2>1, SameHeard
            <3> QED BY <3>1, <3>2
        <2>3. \A v \in works : Heard(actor, v) => \E x \in ws : Same(x, v)
            BY <1>9 DEF Same
        <2> HIDE DEF ws
        <2> QED BY <1>1, <1>3, <1>6, <2>1, <2>2, <2>3, LoopKeeps DEF IInv
    <1> QED BY <1>7, <1>8, <1>9

\* A retry timer fires or a deadline passes.
LEMMA TimersKeep ==
    ASSUME IInv, (\E u \in Uids : RetryFires(u)) \/ DeadlineFires
    PROVE  IInv'
    <1>1. NextOperation \in Nat  BY FreshOperation DEF IInv, WorksInv
    <1>2. Sound(actor.inFlight, actor)  BY RestingSound DEF IInv
    <1>3. works \in SUBSET SoundWork /\ IsFiniteSet(works) /\ timers \in Timers
        BY DEF IInv, WorksInv
    <1>4. \A w \in works : Heard(actor, w) => \E v \in works : Same(v, w)  BY DEF Same
    <1>5. ASSUME NEW u \in Uids, RetryFires(u)  PROVE IInv'
        <2>0. u \in Born /\ [timers EXCEPT ![u] = @ - 1] \in Timers
            BY <1>3, <1>5, TimersMove DEF RetryFires
        <2>1. Sound(actor.inFlight, RetryDue(actor, u))  BY <1>1, <1>2, <2>0, SoundRetryDue
        <2>2. \A v \in works : v.stage \in Waiting => ~Heard(RetryDue(actor, u), v)
            BY <2>1, WaitersStayUnheard DEF IInv
        <2>3. /\ Take(RetryDue(actor, u), works, [timers EXCEPT ![u] = @ - 1])
              /\ UNCHANGED <<slot, sandbox, row, version, mailbox, outbox, remote, upsets, created>>
            BY <1>5 DEF RetryFires, runtimeVars, apiVars
        <2> QED BY <1>3, <1>4, <2>0, <2>1, <2>2, <2>3, LoopKeeps
    <1>6. CASE DeadlineFires
        <2>1. actor.deadline.uid # NoUid  BY <1>6 DEF DeadlineFires
        <2>2. Sound(actor.inFlight, DeletionDeadlineDue(actor))
            BY <1>1, <1>2, <2>1, SoundDeletionDeadlineDue
        <2>3. \A v \in works : v.stage \in Waiting => ~Heard(DeletionDeadlineDue(actor), v)
            BY <2>2, WaitersStayUnheard DEF IInv
        <2>4. /\ Take(DeletionDeadlineDue(actor), works, timers)
              /\ UNCHANGED <<slot, sandbox, row, version, mailbox, outbox, remote, upsets, created>>
            BY <1>6 DEF DeadlineFires, runtimeVars, apiVars
        <2> QED BY <1>3, <1>4, <2>2, <2>3, <2>4, LoopKeeps
    <1> QED BY <1>5, <1>6

------------------------------------------------------------------------------
(* A fresh actor. *)

\* An actor that has seen nothing is sound.
LEMMA FreshSound == FreshActor \in SoundActors /\ LetGo(FreshActor) /\ FreshActor.inFlight = NoFlight
    <1>1. Nothing \in SoundActions  BY DEF SoundActions
    <1>2. FreshActor \in SoundActors
        BY <1>1, NothingSound DEF FreshActor, SoundActors, Phases
    <1> QED BY <1>2 DEF FreshActor, LetGo, NoFlight

\* It listens to no task.
LEMMA FreshUnheard ==
    ASSUME NEW w \in SoundWork
    PROVE  ~Heard(FreshActor, w)
    BY FreshSound DEF SoundWork, Heard, NoFlight, Kinds

\* No timer is armed.
LEMMA NoTimersArmed == NoTimers \in Timers  BY DEF NoTimers, Timers

\* A fresh actor waits for nothing, so nothing is owed to it.
LEMMA FreshKeeps ==
    ASSUME WorksInv, Fades, actor' = FreshActor, works' \subseteq works
    PROVE  ActorInv' /\ WorksInv' /\ InFlightAnswered'
    <1>1. actor' \in SoundActors'  BY FreshSound, FadesGrows
    <1>2. ActorInv'  BY <1>1, FreshSound DEF ActorInv, LetGo, FreshActor
    <1>3. works' \in SUBSET SoundWork /\ IsFiniteSet(works')  BY FS_Subset DEF WorksInv
    <1>4. \A w \in works' : ~Heard(actor', w)  BY <1>3, FreshUnheard
    <1>5. WorksInv'  BY <1>3, <1>4, FadesGrows DEF WorksInv, Heard
    <1>6. InFlightAnswered'  BY FreshSound DEF InFlightAnswered
    <1> QED BY <1>2, <1>5, <1>6

\* The registry forgets an idle actor.
LEMMA RemoveIdleKeeps == IInv /\ RemoveIdle => IInv'
    <1> SUFFICES ASSUME IInv, RemoveIdle PROVE IInv'  OBVIOUS
    <1>1. /\ actor' = FreshActor /\ timers' = NoTimers
          /\ works' \subseteq works
          /\ UNCHANGED <<slot, sandbox, row, version, mailbox, outbox, remote, upsets, created>>
        BY DEF RemoveIdle, runtimeVars, apiVars, Relevant
    <1>2. RuntimeInv' /\ ApiInv' /\ Fades  BY <1>1, LoopKeepsRest DEF IInv
    <1>3. ActorInv' /\ WorksInv' /\ InFlightAnswered'  BY <1>1, <1>2, FreshKeeps DEF IInv
    <1>4. mailbox' \in Seq(SoundMessages')
        <2>1. mailbox' \in Seq(SoundMessages)  BY <1>1 DEF IInv
        <2> QED BY <1>2, <2>1, FadesGrows, SeqMonotonic
    <1>5. timers' \in Timers'  BY <1>1, <1>2, NoTimersArmed, FadesGrows
    <1> QED BY <1>2, <1>3, <1>4, <1>5 DEF IInv

------------------------------------------------------------------------------
(* Messages sent to the actor. *)

\* A signal or an event of the row is sound when it tells of a doomed Pod only
\* what is true.
LEMMA MessageSound ==
    ASSUME NEW type \in Types,
           NEW pod \in [uid : Nat, deleting : BOOLEAN, held : BOOLEAN, running : BOOLEAN], pod.uid \in Born,
           NEW rv \in Nat,
           pod.deleting \/ type \in {"deleted", "orphan"} => pod.uid \in Doomed
    PROVE  /\ Message(type, pod, rv) \in SoundMessages
           /\ Message(type, pod, rv).type = type /\ Message(type, pod, rv).uid = pod.uid
    BY DEF Message, SoundMessages

\* A signal of this node: an orphan must be doomed.
LEMMA SignalSound ==
    ASSUME NEW type \in Types \ {"deleted"}, NEW u \in Born, type = "orphan" => u \in Doomed, created \in Nat
    PROVE  Signal(type, u) \in SoundMessages
    <1>1. [NoPod EXCEPT !.uid = u] \in [uid : Nat, deleting : BOOLEAN, held : BOOLEAN, running : BOOLEAN]
        <2>1. u \in Nat  BY DEF Born
        <2>2. NoPod \in [uid : Nat, deleting : BOOLEAN, held : BOOLEAN, running : BOOLEAN]
            BY DEF NoPod, NoUid
        <2> QED BY <2>1, <2>2
    <1>2. [NoPod EXCEPT !.uid = u].uid = u /\ ~[NoPod EXCEPT !.uid = u].deleting  BY DEF NoPod
    <1> QED BY <1>1, <1>2, MessageSound DEF Signal

\* A Pod of the API may be announced as it is.
LEMMA RowSound ==
    ASSUME ApiInv, row # NoPod, NEW type \in Types \ {"deleted", "orphan"}, NEW rv \in Nat
    PROVE  Message(type, row, rv) \in SoundMessages
    <1>1. row.uid \in Born  BY DEF ApiInv, Born, NoUid
    <1>2. row \in [uid : Nat, deleting : BOOLEAN, held : BOOLEAN, running : BOOLEAN]
        BY DEF ApiInv, NoUid
    <1>3. row.deleting => row.uid \in Doomed  BY <1>1 DEF Doomed, Wanted
    <1> QED BY <1>1, <1>2, <1>3, MessageSound

\* A message appended is in the queue, with all that were there.
LEMMA AppendRange ==
    ASSUME NEW S, NEW s \in Seq(S), NEW m \in S
    PROVE  m \in Range(Append(s, m)) /\ Range(s) \subseteq Range(Append(s, m))
    <1>1. /\ Append(s, m) \in Seq(S) /\ Len(Append(s, m)) = Len(s) + 1
          /\ \A i \in 1..Len(s) : Append(s, m)[i] = s[i]
          /\ Append(s, m)[Len(s) + 1] = m
        BY AppendProperties
    <1>2. Len(s) \in Nat /\ DOMAIN s = 1..Len(s) /\ DOMAIN Append(s, m) = 1..(Len(s) + 1)
        BY <1>1, LenProperties
    <1> QED BY <1>1, <1>2 DEF Range

\* A message inserted anywhere keeps those that were there.
LEMMA InsertRange ==
    ASSUME NEW S, NEW s \in Seq(S), NEW m \in S, NEW i \in 0..Len(s)
    PROVE  InsertAt(s, i + 1, m) \in Seq(S) /\ Range(s) \subseteq Range(InsertAt(s, i + 1, m))
    <1> DEFINE p == SubSeq(s, 1, i)
               q == SubSeq(s, i + 1, Len(s))
               t == p \o <<m>>
    <1>1. Len(s) \in Nat /\ DOMAIN s = 1..Len(s)  BY LenProperties
    <1>2. i \in Int /\ i + 1 \in Int  BY <1>1
    <1>3. /\ p \in Seq(S) /\ Len(p) = i
          /\ \A j \in 1..i : p[j] = s[j]
        <2>1. \A j \in 1..i : s[j] \in S  BY <1>1, ElementOfSeq
        <2> QED BY <1>1, <1>2, <2>1, SubSeqProperties
    <1>4. /\ q \in Seq(S) /\ Len(q) = Len(s) - i
          /\ \A j \in 1..(Len(s) - i) : q[j] = s[i + j]
        <2>1. \A j \in (i + 1)..Len(s) : s[j] \in S  BY <1>1, ElementOfSeq
        <2>2. /\ q \in Seq(S) /\ Len(q) = IF i + 1 <= Len(s) THEN Len(s) - (i + 1) + 1 ELSE 0
              /\ \A j \in 1..(Len(s) - (i + 1) + 1) : q[j] = s[(i + 1) + j - 1]
            BY <1>1, <1>2, <2>1, SubSeqProperties
        <2>3. Len(q) = Len(s) - i
            <3>1. PICK k : k = Len(q)  OBVIOUS
            <3>2. k = IF i + 1 <= Len(s) THEN Len(s) - (i + 1) + 1 ELSE 0  BY <2>2, <3>1
            <3>3. PICK n \in Nat : n = Len(s)  BY <1>1
            <3>4. i \in Nat /\ i <= n  BY <3>3
            <3>5. k = n - i  BY <3>2, <3>3, <3>4
            <3> QED BY <3>1, <3>3, <3>5
        <2>4. ASSUME NEW j \in 1..(Len(s) - i)  PROVE q[j] = s[i + j]
            <3>1. j \in 1..(Len(s) - (i + 1) + 1) /\ (i + 1) + j - 1 = i + j  BY <1>1
            <3>2. q[j] = s[(i + 1) + j - 1]  BY <2>2, <3>1
            <3> QED BY <3>1, <3>2
        <2> QED BY <2>2, <2>3, <2>4
    <1> HIDE DEF p, q
    <1>5. <<m>> \in Seq(S) /\ Len(<<m>>) = 1  OBVIOUS
    <1>6. /\ t \in Seq(S) /\ Len(t) = i + 1
          /\ \A j \in 1..i : t[j] = s[j]
        BY <1>3, <1>5, ConcatProperties
    <1> HIDE DEF t
    <1>7. /\ t \o q \in Seq(S) /\ Len(t \o q) = Len(s) + 1
          /\ \A j \in 1..i : (t \o q)[j] = s[j]
          /\ \A j \in (i + 1)..Len(s) : (t \o q)[j + 1] = s[j]
        <2>1. /\ t \o q \in Seq(S) /\ Len(t \o q) = Len(s) + 1
              /\ \A j \in 1..(Len(s) + 1) : (t \o q)[j] = IF j <= i + 1 THEN t[j] ELSE q[j - (i + 1)]
            BY <1>1, <1>4, <1>6, ConcatProperties
        <2>2. ASSUME NEW j \in (i + 1)..Len(s)  PROVE (t \o q)[j + 1] = s[j]
            <3>1. j + 1 \in 1..(Len(s) + 1) /\ ~(j + 1 <= i + 1) /\ (j + 1) - (i + 1) = j - i
                BY <1>1
            <3>2. j - i \in 1..(Len(s) - i) /\ i + (j - i) = j  BY <1>1
            <3> QED BY <1>4, <2>1, <3>1, <3>2
        <2> QED BY <1>1, <1>6, <2>1, <2>2
    <1>8. InsertAt(s, i + 1, m) = t \o q
        <2>1. (i + 1) - 1 = i  BY <1>1
        <2> QED BY <2>1 DEF InsertAt, t, p, q
    <1>9. PICK r : r = t \o q  OBVIOUS
    <1>10. DOMAIN r = 1..(Len(s) + 1)  BY <1>7, <1>9, LenProperties
    <1>11. ASSUME NEW j \in 1..Len(s)  PROVE \E k \in DOMAIN r : r[k] = s[j]
        <2>1. CASE j <= i
            <3>1. j \in 1..i /\ j \in DOMAIN r  BY <1>1, <1>10, <2>1
            <3> QED BY <1>7, <1>9, <3>1
        <2>2. CASE ~(j <= i)
            <3>1. j \in (i + 1)..Len(s) /\ j + 1 \in DOMAIN r  BY <1>1, <1>10, <2>2
            <3> QED BY <1>7, <1>9, <3>1
        <2> QED BY <2>1, <2>2
    <1>12. Range(s) \subseteq Range(r)  BY <1>1, <1>11 DEF Range
    <1> QED BY <1>7, <1>8, <1>9, <1>12

\* Routing a message loses none.
LEMMA RouteKeeps ==
    ASSUME NEW S, mailbox \in Seq(S), NEW m \in S, Route(m)
    PROVE  mailbox' \in Seq(S) /\ Range(mailbox) \subseteq Range(mailbox')
    <1> DEFINE locals == {i \in 1..Len(mailbox) : \E j \in i..Len(mailbox) : Local(mailbox[j])}
    <1>1. Len(mailbox) \in Nat  BY LenProperties
    <1>2. LastLocal \in Nat
        <2>1. IsFiniteSet(1..Len(mailbox))  BY <1>1, FS_Interval
        <2>2. locals \in SUBSET (1..Len(mailbox))  OBVIOUS
        <2>3. IsFiniteSet(locals)  BY <2>1, <2>2, FS_Subset
        <2> QED BY <2>3, FS_CardinalityType DEF LastLocal
    <1>3. PICK i \in LastLocal..Len(mailbox) : mailbox' = InsertAt(mailbox, i + 1, m)  BY DEF Route
    <1>4. i \in 0..Len(mailbox)  BY <1>1, <1>2
    <1> QED BY <1>3, <1>4, InsertRange

------------------------------------------------------------------------------
(* Steps of the work tasks. *)

\* Tasks change, and the actor listens to the same ones.
LEMMA TasksKept ==
    ASSUME IsFiniteSet(works), \A w \in works : w.stage \in Waiting => ~Heard(actor, w),
           actor' = actor,
           NEW ws, ws \in SUBSET SoundWork', IsFiniteSet(ws),
           \A v \in ws : v.stage \in Waiting => \E w \in works : Same(v, w) /\ w.stage \in Waiting,
           works' \in SUBSET ws, \A v \in ws : Heard(actor, v) => v \in works'
    PROVE  WorksInv'
    <1>1. works' \in SUBSET SoundWork' /\ IsFiniteSet(works')  BY FS_Subset
    <1>2. \A v : Heard(actor', v) <=> Heard(actor, v)  BY DEF Heard
    <1>3. \A v \in works' : v.stage \in Waiting => ~Heard(actor', v)  BY <1>2, SameHeard
    <1> QED BY <1>1, <1>3 DEF WorksInv, Heard

\* A task reaches its next stage.
LEMMA MoveKeeps ==
    ASSUME WorksInv, Fades, actor' = actor, NEW w \in works, NEW stage \in Stages,
           stage = "granted" => w.uid \in Entitled', stage \in Waiting => w.stage \in Waiting,
           Move(w, stage)
    PROVE  /\ WorksInv'
           /\ \A x \in works : Heard(actor, x) => \E v \in works' : Heard(actor', v)
    <1> DEFINE n == [w EXCEPT !.stage = stage]
               ws == (works \ {w}) \cup {n}
    <1>1. works \in SUBSET SoundWork' /\ w \in SoundWork'  BY FadesGrows DEF WorksInv
    <1>2. n \in SoundWork' /\ Same(n, w) /\ n.stage = stage
        BY <1>1 DEF SoundWork, Same
    <1> HIDE DEF n
    <1>3. ws \in SUBSET SoundWork' /\ IsFiniteSet(ws)
        <2>1. IsFiniteSet(works \ {w})  BY FS_RemoveElement DEF WorksInv
        <2> QED BY <1>1, <1>2, <2>1, FS_AddElement
    <1>4. \A v \in ws : v.stage \in Waiting => \E x \in works : Same(v, x) /\ x.stage \in Waiting
        <2>1. \A v \in works : Same(v, v)  BY DEF Same
        <2> QED BY <1>2, <2>1
    <1>5. \A x \in works : \E v \in ws : Same(v, x)
        <2>1. \A v \in works : Same(v, v)  BY DEF Same
        <2> QED BY <1>2, <2>1
    <1>6. works' = Relevant(actor, ws)  BY DEF Move, n
    <1>7. works' \in SUBSET ws /\ \A v \in ws : Heard(actor, v) => v \in works'
        BY <1>6 DEF Relevant
    <1> HIDE DEF ws
    <1>8. WorksInv'  BY <1>3, <1>4, <1>7, TasksKept DEF WorksInv
    <1>9. \A v : Heard(actor', v) <=> Heard(actor, v)  BY DEF Heard
    <1>10. \A x \in works : Heard(actor, x) => \E v \in works' : Heard(actor', v)
        BY <1>5, <1>7, <1>9, SameHeard
    <1> QED BY <1>8, <1>10

\* A task reaches its next stage and the waiters are woken.
LEMMA WakeKeeps ==
    ASSUME WorksInv, Fades, actor' = actor, NEW w \in works, NEW stage \in Stages \ Waiting,
           stage = "granted" => w.uid \in Entitled', NEW changed,
           works' = Relevant(actor, WakeWaiters((works \ {w}) \cup {[w EXCEPT !.stage = stage]}, changed))
    PROVE  /\ WorksInv'
           /\ \A x \in works : Heard(actor, x) => \E v \in works' : Heard(actor', v)
    <1> DEFINE n == [w EXCEPT !.stage = stage]
               xs == (works \ {w}) \cup {n}
               Woken(v) == IF v.stage = "subscribed" /\ v.blocker \in changed
                           THEN [v EXCEPT !.stage = "woken"] ELSE v
               ws == {Woken(v) : v \in xs}
               g == [v \in xs |-> Woken(v)]
    <1>1. works \in SUBSET SoundWork' /\ w \in SoundWork'  BY FadesGrows DEF WorksInv
    <1>2. n \in SoundWork' /\ Same(n, w) /\ n.stage = stage
        BY <1>1 DEF SoundWork, Same
    <1>3. works' = Relevant(actor, ws)  BY DEF WakeWaiters
    <1> HIDE DEF n
    <1>4. xs \in SUBSET SoundWork' /\ IsFiniteSet(xs)
        <2>1. IsFiniteSet(works \ {w})  BY FS_RemoveElement DEF WorksInv
        <2> QED BY <1>1, <1>2, <2>1, FS_AddElement
    <1>5. /\ \A v \in xs : v.stage \in Waiting => v \in works
          /\ \A x \in works : \E v \in xs : Same(v, x)
        <2>1. \A v \in works : Same(v, v)  BY DEF Same
        <2> QED BY <1>2, <2>1
    <1> HIDE DEF xs
    <1>6. \A v \in xs : /\ Woken(v) \in SoundWork' /\ Same(Woken(v), v)
                        /\ Woken(v).stage \in Waiting => v.stage \in Waiting
        <2> SUFFICES ASSUME NEW v \in xs
                     PROVE  /\ Woken(v) \in SoundWork' /\ Same(Woken(v), v)
                            /\ Woken(v).stage \in Waiting => v.stage \in Waiting
            OBVIOUS
        <2>1. v \in SoundWork'  BY <1>4
        <2>2. CASE v.stage = "subscribed" /\ v.blocker \in changed
            <3>1. Woken(v) = [v EXCEPT !.stage = "woken"]  BY <2>2
            <3>2. [v EXCEPT !.stage = "woken"] \in SoundWork' /\ Same([v EXCEPT !.stage = "woken"], v)
                BY <2>1, <2>2 DEF SoundWork, Same, Stages
            <3> QED BY <2>2, <3>1, <3>2 DEF Waiting
        <2>3. CASE ~(v.stage = "subscribed" /\ v.blocker \in changed)
            BY <2>1, <2>3 DEF Same
        <2> QED BY <2>2, <2>3
    <1> HIDE DEF Woken
    <1>7. g \in Surjection(xs, ws)  BY DEF Surjection
    <1>8. IsFiniteSet(ws)  BY <1>4, <1>7, FS_Surjection
    <1>9. /\ ws \in SUBSET SoundWork'
          /\ \A v \in ws : v.stage \in Waiting => \E x \in works : Same(v, x) /\ x.stage \in Waiting
        BY <1>5, <1>6
    <1>10. \A x \in works : Heard(actor, x) => \E v \in ws : Heard(actor, v)
        BY <1>5, <1>6, SameHeard
    <1>11. works' \in SUBSET ws /\ \A v \in ws : Heard(actor, v) => v \in works'
        BY <1>3 DEF Relevant
    <1> HIDE DEF ws
    <1>12. WorksInv'  BY <1>8, <1>9, <1>11, TasksKept DEF WorksInv
    <1>13. \A v : Heard(actor', v) <=> Heard(actor, v)  BY DEF Heard
    <1>14. \A x \in works : Heard(actor, x) => \E v \in works' : Heard(actor', v)
        BY <1>10, <1>11, <1>13
    <1> QED BY <1>12, <1>14

\* A task ends without an answer.
LEMMA EndKeeps ==
    ASSUME WorksInv, Fades, actor' = actor, NEW w \in works, works' = works \ {w}
    PROVE  /\ WorksInv'
           /\ \A x \in works : x # w /\ Heard(actor, x) => \E v \in works' : Heard(actor', v)
    <1>1. works' \in SUBSET SoundWork' /\ IsFiniteSet(works')
        BY FadesGrows, FS_RemoveElement DEF WorksInv
    <1>2. \A v : Heard(actor', v) <=> Heard(actor, v)  BY DEF Heard
    <1>3. \A v \in works' : v.stage \in Waiting => ~Heard(actor', v)  BY <1>2 DEF WorksInv
    <1>4. WorksInv'  BY <1>1, <1>3 DEF WorksInv, Heard
    <1> QED BY <1>2, <1>4

\* A finalization in the outbox stays pending while its Pod is in the API.
LEMMA PendingKept ==
    ASSUME outbox' = outbox, row.uid # NoUid => row'.uid = row.uid
    PROVE  \A u : Pending(u) => Pending(u)'
    BY DEF Pending, LivePod, Uids, NoUid

\* The operation in flight is still answered.
LEMMA AnsweredKept ==
    ASSUME InFlightAnswered, actor' = actor,
           \A w \in works : Heard(actor, w) =>
               (\E v \in works' : Heard(actor', v)) \/ (w.kind = "FinalizePodDeletion" /\ Pending(w.uid)'),
           \A u : Pending(u) => Pending(u)' \/ \E m \in Range(mailbox') : m.uid = u /\ m.type = "deleted",
           Range(mailbox) \subseteq Range(mailbox')
    PROVE  InFlightAnswered'
    <1> SUFFICES ASSUME actor'.inFlight # NoFlight, ~\E v \in works' : Heard(actor', v)
                 PROVE  /\ actor'.inFlight.kind = "FinalizePodDeletion"
                        /\ \/ Pending(actor.inFlight.uid)'
                           \/ \E n \in Range(mailbox') : n.uid = actor'.inFlight.uid /\ n.type = "deleted"
        BY DEF InFlightAnswered, Heard
    <1>1. CASE \E w \in works : Heard(actor, w)
        <2>1. PICK w \in works : Heard(actor, w)  BY <1>1
        <2>2. w.kind = "FinalizePodDeletion" /\ Pending(w.uid)'  BY <2>1
        <2>3. actor.inFlight.kind = w.kind /\ actor.inFlight.uid = w.uid  BY <2>1 DEF Heard
        <2> QED BY <2>2, <2>3
    <1>2. CASE ~\E w \in works : Heard(actor, w)
        <2>1. /\ actor.inFlight.kind = "FinalizePodDeletion"
              /\ \/ Pending(actor.inFlight.uid)
                 \/ \E n \in Range(mailbox) : n.uid = actor.inFlight.uid /\ n.type = "deleted"
            BY <1>2 DEF InFlightAnswered
        <2> QED BY <2>1
    <1> QED BY <1>1, <1>2

\* A step that leaves the actor, its timers and the API alone.
LEMMA TaskKeeps ==
    ASSUME IInv, Fades, RuntimeInv', WorksInv',
           \A x \in works : Heard(actor, x) => \E v \in works' : Heard(actor', v),
           UNCHANGED <<actor, timers, row, version, mailbox, outbox, remote, created>>,
           upsets' \in 0..MaxUpsets
    PROVE  IInv'
    <1>1. ActorInv'
        <2>1. actor' \in SoundActors'  BY FadesGrows DEF IInv, ActorInv
        <2> QED BY <2>1 DEF IInv, ActorInv, LetGo
    <1>2. ApiInv'  BY DEF IInv, ApiInv, NoPod, Born
    <1>3. mailbox' \in Seq(SoundMessages')
        <2>1. mailbox' \in Seq(SoundMessages)  BY DEF IInv
        <2> QED BY <2>1, FadesGrows, SeqMonotonic
    <1>4. timers' \in Timers'  BY FadesGrows DEF IInv
    <1>5. InFlightAnswered'
        <2>1. \A u : Pending(u) => Pending(u)'  BY PendingKept
        <2> QED BY <2>1, AnsweredKept DEF IInv
    <1> QED BY <1>1, <1>2, <1>3, <1>4, <1>5 DEF IInv

\* Sandboxes are made for entitled Pods only.
LEMMA SandboxKeeps ==
    ASSUME RuntimeInv, Fades, slot' \in MaybeUid,
           sandbox' \in [Uids -> {"none", "empty", "started"}],
           \A u \in Uids : sandbox'[u] # "none" => sandbox[u] # "none" \/ u \in Entitled
    PROVE  RuntimeInv'
    <1>1. sandboxes' \subseteq Entitled  BY DEF sandboxes, RuntimeInv
    <1> QED BY <1>1, FadesGrows DEF RuntimeInv

\* Most steps of a task move it on and touch at most its sandbox.
LEMMA AnswerKeeps ==
    ASSUME IInv, NEW w \in works, NEW stage \in Stages \ ({"granted"} \cup Waiting), Answer(w, stage),
           sandbox' \in [Uids -> {"none", "empty", "started"}],
           \A u \in Uids : sandbox'[u] # "none" => sandbox[u] # "none" \/ u \in Entitled,
           UNCHANGED <<slot, row, version, mailbox, outbox, created>>
    PROVE  IInv'
    <1>1. Fades  BY StillFades DEF IInv
    <1>2. Move(w, stage) /\ UNCHANGED <<actor, timers, remote, upsets>>  BY DEF Answer
    <1>3. RuntimeInv'  BY <1>1, SandboxKeeps DEF IInv, RuntimeInv
    <1>4. /\ WorksInv'
          /\ \A x \in works : Heard(actor, x) => \E v \in works' : Heard(actor', v)
        BY <1>1, <1>2, MoveKeeps DEF IInv
    <1>5. upsets' \in 0..MaxUpsets  BY <1>2 DEF IInv, ApiInv
    <1> QED BY <1>1, <1>2, <1>3, <1>4, <1>5, TaskKeeps

\* A task that leaves the sandboxes alone.
LEMMA QuietKeeps ==
    ASSUME IInv, NEW w \in works, NEW stage \in Stages \ ({"granted"} \cup Waiting), Answer(w, stage),
           UNCHANGED <<slot, sandbox, row, version, mailbox, outbox, created>>
    PROVE  IInv'
    BY AnswerKeeps DEF IInv, RuntimeInv

\* Stages that tell nobody of a slot.
LEMMA PlainStages ==
    {"blocked", "failed", "completed", "checked", "created", "init", "found", "clearing", "aborted",
     "confirmed", "unconfirmed", "terminal", "notfound"} \subseteq Stages \ ({"granted"} \cup Waiting)
    BY DEF Stages, Failures, Waiting

\* A slot check: the slot that is granted entitles the Pod, a held slot makes it wait.
LEMMA TryAdmitKeeps ==
    ASSUME IInv, NEW w \in works, TryAdmit(w), created' = created
    PROVE  IInv'
    <1>1. w \in SoundWork /\ w.uid \in Born  BY DEF IInv, WorksInv, SoundWork
    <1>2. /\ UNCHANGED <<actor, timers, remote, upsets, sandbox, row, version, mailbox, outbox>>
          /\ upsets' \in 0..MaxUpsets
        BY DEF TryAdmit, apiVars, IInv, ApiInv
    <1>3. Born \subseteq Uids  BY MaxUidAssumption DEF IInv, ApiInv, Born, Uids
    <1>4. CASE slot \in {NoUid, w.uid}
        <2>1. PICK changed : works' = Relevant(actor, WakeWaiters((works \ {w}) \cup {[w EXCEPT !.stage = "granted"]}, changed))
            BY <1>4 DEF TryAdmit
        <2>2. slot' = w.uid  BY <1>4 DEF TryAdmit
        <2>3. Fades
            <3>1. NoUid \notin Born  BY DEF Born, NoUid
            <3> QED BY <1>2, <1>4, <2>2, <3>1 DEF IInv, ApiInv, Fades, Wanted, LivePod
        <2>4. w.uid \in Entitled'  BY <1>1, <2>2 DEF Entitled, Born
        <2>5. /\ WorksInv'
              /\ \A x \in works : Heard(actor, x) => \E v \in works' : Heard(actor', v)
            <3>1. "granted" \in Stages \ Waiting  BY DEF Stages, Waiting
            <3> QED BY <1>2, <2>1, <2>3, <2>4, <3>1, WakeKeeps DEF IInv
        <2>6. RuntimeInv'
            BY <1>1, <1>2, <1>3, <2>2, <2>3, SandboxKeeps DEF IInv, RuntimeInv, MaybeUid
        <2> QED BY <1>2, <2>3, <2>5, <2>6, TaskKeeps
    <1>5. CASE slot \notin {NoUid, w.uid}
        <2>1. /\ works' = (works \ {w}) \cup {[w EXCEPT !.stage = "blocked", !.blocker = slot]}
              /\ slot' = slot
            BY <1>5 DEF TryAdmit
        <2>2. Fades  BY <1>2, <2>1, StillFades DEF IInv
        <2> DEFINE n == [w EXCEPT !.stage = "blocked", !.blocker = slot]
        <2>3. n \in SoundWork /\ Same(n, w) /\ n.stage = "blocked"
            BY <1>1 DEF SoundWork, Same, Stages, IInv, RuntimeInv
        <2> HIDE DEF n
        <2>4. works' \in SUBSET SoundWork' /\ IsFiniteSet(works')
            <3>1. IsFiniteSet(works \ {w})  BY FS_RemoveElement DEF IInv, WorksInv
            <3>2. works' = (works \ {w}) \cup {n}  BY <2>1 DEF n
            <3>3. IsFiniteSet(works')  BY <3>1, <3>2, FS_AddElement
            <3>4. works' \in SUBSET SoundWork  BY <2>3, <3>2 DEF IInv, WorksInv
            <3> QED BY <2>2, <3>3, <3>4, FadesGrows
        <2>5. works' = (works \ {w}) \cup {n}  BY <2>1 DEF n
        <2>6. \A v \in works : Same(v, v)  BY DEF Same
        <2>7. \A v \in works' : v.stage \in Waiting => \E x \in works : Same(v, x) /\ x.stage \in Waiting
            BY <2>3, <2>5, <2>6 DEF Waiting
        <2>8. WorksInv'  BY <1>2, <2>4, <2>7, TasksKept DEF IInv, WorksInv
        <2>9. \A v : Heard(actor', v) <=> Heard(actor, v)  BY <1>2 DEF Heard
        <2>10. \A x \in works : Heard(actor, x) => \E v \in works' : Heard(actor', v)
            BY <2>3, <2>5, <2>9, SameHeard
        <2>11. RuntimeInv'
            BY <1>2, <2>1, <2>2, SandboxKeeps DEF IInv, RuntimeInv
        <2> QED BY <1>2, <2>2, <2>8, <2>10, <2>11, TaskKeeps
    <1> QED BY <1>4, <1>5

\* A waiter subscribes or ends.
LEMMA SubscribeKeeps ==
    ASSUME IInv, NEW w \in works, Subscribe(w), created' = created
    PROVE  IInv'
    <1>1. /\ w.stage \in Waiting
          /\ UNCHANGED <<actor, timers, remote, upsets, slot, sandbox, row, version, mailbox, outbox>>
          /\ upsets' \in 0..MaxUpsets
        BY DEF Subscribe, Waiting, runtimeVars, apiVars, IInv, ApiInv
    <1>2. Fades  BY <1>1, StillFades DEF IInv
    <1>3. RuntimeInv'  BY <1>1, <1>2, SandboxKeeps DEF IInv, RuntimeInv
    <1>4. ~Heard(actor, w)  BY <1>1 DEF IInv, WorksInv
    <1>5. CASE works' = works \ {w}
        BY <1>1, <1>2, <1>3, <1>4, <1>5, EndKeeps, TaskKeeps DEF IInv
    <1>6. CASE Move(w, "subscribed")
        <2>1. "subscribed" \in Stages /\ "subscribed" # "granted"  BY DEF Stages
        <2>2. /\ WorksInv'
              /\ \A x \in works : Heard(actor, x) => \E v \in works' : Heard(actor', v)
            BY <1>1, <1>2, <1>6, <2>1, MoveKeeps DEF IInv
        <2> QED BY <1>1, <1>2, <1>3, <2>2, TaskKeeps
    <1> QED BY <1>5, <1>6 DEF Subscribe

\* The steps of a start make a sandbox for an entitled Pod only.
LEMMA StartKeeps ==
    ASSUME IInv, NEW w \in works, created' = created,
           StartBegins(w) \/ CreateSandbox(w) \/ AssignNetwork(w) \/ StartContainers(w)
    PROVE  IInv'
    <1>1. /\ w \in SoundWork /\ w.kind = "StartPod"
          /\ UNCHANGED <<slot, row, version, mailbox, outbox>>
        BY DEF IInv, WorksInv, StartBegins, CreateSandbox, AssignNetwork, StartContainers, runtimeVars, apiVars
    <1>2. w.uid \in Entitled  BY <1>1 DEF SoundWork
    <1>3. w.uid \in Uids  BY <1>2, MaxUidAssumption DEF IInv, ApiInv, Entitled, Born, Uids
    <1>4. sandbox \in [Uids -> {"none", "empty", "started"}]  BY DEF IInv, RuntimeInv
    <1>5. /\ Removed(w.uid) \in [Uids -> {"none", "empty", "started"}]
          /\ \A u \in Uids : Removed(w.uid)[u] # "none" => sandbox[u] # "none"
        BY <1>3, <1>4 DEF Removed
    <1>6. CASE StartBegins(w)
        <2>1. sandbox' = sandbox  BY <1>6 DEF StartBegins, runtimeVars
        <2>2. Answer(w, "failed") \/ Answer(w, "completed") \/ Answer(w, "checked")
            BY <1>6 DEF StartBegins
        <2> QED BY <1>1, <2>1, <2>2, QuietKeeps, PlainStages
    <1>7. CASE CreateSandbox(w)
        <2>1. sandbox' = [sandbox EXCEPT ![w.uid] = IF @ = "none" THEN "empty" ELSE @] /\ Answer(w, "created")
            BY <1>7 DEF CreateSandbox
        <2>2. /\ sandbox' \in [Uids -> {"none", "empty", "started"}]
              /\ \A u \in Uids : sandbox'[u] # "none" => sandbox[u] # "none" \/ u \in Entitled
            BY <1>2, <1>3, <1>4, <2>1
        <2> QED BY <1>1, <2>1, <2>2, AnswerKeeps, PlainStages
    <1>8. CASE AssignNetwork(w)
        <2>1. CASE Answer(w, "failed") /\ sandbox' = Removed(w.uid)
            BY <1>1, <1>5, <2>1, AnswerKeeps, PlainStages
        <2>2. CASE Answer(w, "init") /\ sandbox' = sandbox
            BY <1>1, <2>2, QuietKeeps, PlainStages
        <2> QED BY <1>8, <2>1, <2>2 DEF AssignNetwork
    <1>9. CASE StartContainers(w)
        <2>1. CASE Answer(w, "failed") /\ sandbox' = Removed(w.uid)
            BY <1>1, <1>5, <2>1, AnswerKeeps, PlainStages
        <2>2. CASE Answer(w, "failed") /\ sandbox' = sandbox
            BY <1>1, <2>2, QuietKeeps, PlainStages
        <2>3. CASE Answer(w, "completed") /\ sandbox' = [sandbox EXCEPT ![w.uid] = "started"]
            <3>1. /\ sandbox' \in [Uids -> {"none", "empty", "started"}]
                  /\ \A u \in Uids : sandbox'[u] # "none" => sandbox[u] # "none" \/ u \in Entitled
                BY <1>2, <1>3, <1>4, <2>3
            <3> QED BY <1>1, <2>3, <3>1, AnswerKeeps, PlainStages
        <2> QED BY <1>9, <2>1, <2>2, <2>3 DEF StartContainers
    <1> QED BY <1>6, <1>7, <1>8, <1>9

\* The steps of a stop: the slot that is cleared is that of a doomed Pod.
LEMMA StopKeeps ==
    ASSUME IInv, NEW w \in works, created' = created,
           ResolveSandbox(w) \/ RemoveSandbox(w) \/ ClearSlot(w) \/ AbortStop(w)
    PROVE  IInv'
    <1>1. /\ w \in SoundWork /\ w.kind = "StopPod"
          /\ UNCHANGED <<row, version, mailbox, outbox>>
        BY DEF IInv, WorksInv, ResolveSandbox, RemoveSandbox, ClearSlot, AbortStop, runtimeVars, apiVars
    <1>2. w.uid \in Doomed  BY <1>1 DEF SoundWork
    <1>3. w.uid \in Uids  BY <1>2, MaxUidAssumption DEF IInv, ApiInv, Doomed, Born, Uids
    <1>4. CASE ResolveSandbox(w)
        <2>1. slot' = slot /\ sandbox' = sandbox /\ (Answer(w, "found") \/ Answer(w, "clearing"))
            BY <1>4 DEF ResolveSandbox, runtimeVars
        <2> QED BY <1>1, <2>1, QuietKeeps, PlainStages
    <1>5. CASE AbortStop(w)
        <2>1. slot' = slot /\ sandbox' = sandbox /\ Answer(w, "aborted")
            BY <1>5 DEF AbortStop, runtimeVars
        <2> QED BY <1>1, <2>1, QuietKeeps, PlainStages
    <1>6. CASE RemoveSandbox(w)
        <2>1. slot' = slot /\ sandbox' = Removed(w.uid) /\ Answer(w, "clearing")
            BY <1>6 DEF RemoveSandbox
        <2>2. /\ sandbox' \in [Uids -> {"none", "empty", "started"}]
              /\ \A u \in Uids : sandbox'[u] # "none" => sandbox[u] # "none"
            BY <1>3, <2>1 DEF Removed, IInv, RuntimeInv
        <2> QED BY <1>1, <2>1, <2>2, AnswerKeeps, PlainStages
    <1>7. CASE ClearSlot(w)
        <2>1. PICK changed : works' = Relevant(actor, WakeWaiters((works \ {w}) \cup {[w EXCEPT !.stage = "completed"]}, changed))
            BY <1>7 DEF ClearSlot
        <2>2. /\ slot' = IF slot = w.uid THEN NoUid ELSE slot
              /\ UNCHANGED <<actor, timers, remote, upsets, sandbox>>
            BY <1>7 DEF ClearSlot
        <2>3. Fades
            BY <1>1, <1>2, <2>2 DEF IInv, ApiInv, Fades, Wanted, LivePod, Doomed
        <2>4. /\ WorksInv'
              /\ \A x \in works : Heard(actor, x) => \E v \in works' : Heard(actor', v)
            <3>1. "completed" \in Stages \ Waiting /\ "completed" # "granted"  BY DEF Stages, Waiting
            <3> QED BY <2>1, <2>2, <2>3, <3>1, WakeKeeps DEF IInv
        <2>5. RuntimeInv'  BY <2>2, <2>3, SandboxKeeps DEF IInv, RuntimeInv, MaybeUid
        <2>6. upsets' \in 0..MaxUpsets  BY <2>2 DEF IInv, ApiInv
        <2> QED BY <1>1, <2>2, <2>3, <2>4, <2>5, <2>6, TaskKeeps
    <1> QED BY <1>4, <1>5, <1>6, <1>7

\* Tasks that only report.
LEMMA ReportKeeps ==
    ASSUME IInv, NEW w \in works, created' = created, ConfirmStartup(w) \/ Acknowledge(w)
    PROVE  IInv'
    <1>1. /\ UNCHANGED <<slot, sandbox, row, version, mailbox, outbox>>
          /\ Answer(w, "completed") \/ Answer(w, "confirmed") \/ Answer(w, "unconfirmed")
        BY DEF ConfirmStartup, Acknowledge, runtimeVars, apiVars
    <1> QED BY <1>1, QuietKeeps, PlainStages

\* A task fails at any of its steps.
LEMMA FailKeeps ==
    ASSUME IInv, NEW w \in works, created' = created, Fail(w)
    PROVE  IInv'
    <1>1. /\ UNCHANGED <<actor, timers, remote, slot, row, version, mailbox, outbox>>
          /\ upsets < MaxUpsets /\ upsets' = upsets + 1
        BY DEF Fail, Upset, apiVars
    <1>2. PICK failure \in FailureOf(w.kind) : Move(w, failure)  BY DEF Fail
    <1>3. failure \in Stages \ ({"granted"} \cup Waiting)
        <2>1. FailureOf(w.kind) \subseteq {"failed", "terminal", "notfound"}  BY DEF FailureOf
        <2> QED BY <2>1, PlainStages
    <1>4. Fades  BY <1>1, StillFades DEF IInv
    <1>5. /\ WorksInv'
          /\ \A x \in works : Heard(actor, x) => \E v \in works' : Heard(actor', v)
        BY <1>1, <1>2, <1>3, <1>4, MoveKeeps DEF IInv
    <1>6. RuntimeInv'
        <2>1. sandbox' \in {sandbox, Removed(w.uid)}  BY DEF Fail
        <2>2. w.uid \in Uids
            <3>1. w.uid \in Born  BY DEF IInv, WorksInv, SoundWork
            <3> QED BY <3>1, MaxUidAssumption DEF IInv, ApiInv, Born, Uids
        <2>3. /\ sandbox' \in [Uids -> {"none", "empty", "started"}]
              /\ \A u \in Uids : sandbox'[u] # "none" => sandbox[u] # "none"
            BY <2>1, <2>2 DEF Removed, IInv, RuntimeInv
        <2> QED BY <1>1, <1>4, <2>3, SandboxKeeps DEF IInv, RuntimeInv
    <1>7. upsets' \in 0..MaxUpsets  BY <1>1, UpsetsAssumption DEF IInv, ApiInv
    <1> QED BY <1>1, <1>4, <1>5, <1>6, <1>7, TaskKeeps

------------------------------------------------------------------------------
(* Steps of the API. *)

\* A committed change of the row, or the creation of the next Pod: nothing that
\* is not wanted is wanted again, and the event tells the truth.
LEMMA CommitKeeps ==
    ASSUME IInv, slot' = slot, NEW type \in {"added", "modified", "deleted"},
           NEW pod \in [uid : {created'}, deleting : BOOLEAN, held : BOOLEAN, running : BOOLEAN],
           created' \in 1..MaxUid,
           \/ created' = created /\ row.uid = created /\ (row.deleting => pod.deleting)
           \/ created' = created + 1,
           Commit(type, pod)
    PROVE  /\ Fades
           /\ row' \in [uid : {NoUid, created'}, deleting : BOOLEAN, held : BOOLEAN, running : BOOLEAN]
           /\ row'.uid = NoUid => row' = NoPod
           /\ row'.uid = IF type = "deleted" THEN NoUid ELSE created'
           /\ version' \in Nat
           /\ mailbox' \in Seq(SoundMessages') /\ Range(mailbox) \subseteq Range(mailbox')
           /\ type = "deleted" => \E m \in Range(mailbox') : m.uid = created' /\ m.type = "deleted"
    <1> DEFINE m == Message(type, pod, version')
    <1>1. /\ row' = IF type = "deleted" THEN NoPod ELSE pod
          /\ version' = version + 1 /\ mailbox' = Append(mailbox, m)
        BY DEF Commit
    <1>2. created \in 0..MaxUid /\ created \in Nat /\ created' \in Nat /\ version' \in Nat
        BY <1>1, MaxUidAssumption DEF IInv, ApiInv
    <1>3. /\ row' \in [uid : {NoUid, created'}, deleting : BOOLEAN, held : BOOLEAN, running : BOOLEAN]
          /\ row'.uid = IF type = "deleted" THEN NoUid ELSE created'
          /\ row'.uid = NoUid => row' = NoPod
        <2>1. created' # NoUid  BY DEF NoUid
        <2> QED BY <1>1, <2>1 DEF NoPod
    <1>4. Fades
        <2> SUFFICES ASSUME NEW u \in Born, Wanted(u)'  PROVE Wanted(u)
            BY <1>2 DEF Fades
        <2>1. row'.uid = u /\ ~row'.deleting /\ u # NoUid  BY DEF Wanted, LivePod, Born, NoUid
        <2>2. type # "deleted" /\ row' = pod /\ u = created'  BY <1>1, <1>3, <2>1
        <2>3. created' = created  BY <1>2, <2>2 DEF Born
        <2>4. row.uid = created /\ (row.deleting => pod.deleting)  BY <1>2, <2>3
        <2> QED BY <2>1, <2>2, <2>3, <2>4 DEF Wanted, LivePod
    <1>5. m \in SoundMessages' /\ m.uid = created' /\ m.type = type
        <2>1. /\ m.uid = created' /\ m.type = type /\ m.deleting = pod.deleting
              /\ m = [type |-> type, uid |-> pod.uid, rv |-> version',
                      deleting |-> pod.deleting, running |-> pod.running]
            BY DEF Message
        <2>2. created' \in Born'  BY <1>2 DEF Born
        <2>3. \A u : u = created' /\ (pod.deleting \/ type = "deleted") => ~Wanted(u)'
            <3>1. pod.deleting /\ type # "deleted" => row'.deleting  BY <1>1
            <3>2. type = "deleted" => row'.uid # created'  BY <1>3 DEF NoUid
            <3> QED BY <3>1, <3>2 DEF Wanted, LivePod
        <2>4. m \in [type : Types, uid : Born', rv : Nat, deleting : BOOLEAN, running : BOOLEAN]
            BY <1>2, <2>1, <2>2 DEF Types
        <2>5. m.deleting \/ m.type \in {"deleted", "orphan"} => m.uid \in Doomed'
            BY <2>1, <2>2, <2>3 DEF Doomed
        <2> QED BY <2>1, <2>4, <2>5 DEF SoundMessages
    <1> HIDE DEF m
    <1>6. mailbox \in Seq(SoundMessages')
        <2>1. mailbox \in Seq(SoundMessages)  BY DEF IInv
        <2> QED BY <1>4, <2>1, FadesGrows, SeqMonotonic
    <1>7. /\ m \in Range(mailbox') /\ Range(mailbox) \subseteq Range(mailbox')
          /\ mailbox' \in Seq(SoundMessages')
        BY <1>1, <1>5, <1>6, AppendRange, AppendProperties
    <1> QED BY <1>2, <1>3, <1>4, <1>5, <1>7

\* A step that changes the row and leaves the actor alone.
LEMMA ApiStepKeeps ==
    ASSUME IInv, Fades, UNCHANGED <<actor, timers, slot, sandbox, remote>>,
           WorksInv', ApiInv', mailbox' \in Seq(SoundMessages'),
           InFlightAnswered'
    PROVE  IInv'
    <1>1. ActorInv'
        <2>1. actor' \in SoundActors'  BY FadesGrows DEF IInv, ActorInv
        <2> QED BY <2>1 DEF IInv, ActorInv, LetGo
    <1>2. RuntimeInv'  BY SandboxKeeps DEF IInv, RuntimeInv
    <1>3. timers' \in Timers'  BY FadesGrows DEF IInv
    <1> QED BY <1>1, <1>2, <1>3 DEF IInv

\* Tasks that do not move.
LEMMA RestKeeps ==
    ASSUME WorksInv, Fades, actor' = actor, works' = works
    PROVE  /\ WorksInv'
           /\ \A x \in works : Heard(actor, x) => \E v \in works' : Heard(actor', v)
    <1>1. works' \in SUBSET SoundWork' /\ IsFiniteSet(works')  BY FadesGrows DEF WorksInv
    <1>2. \A v : Heard(actor', v) <=> Heard(actor, v)  BY DEF Heard
    <1>3. \A v \in works' : v.stage \in Waiting => ~Heard(actor', v)  BY <1>2 DEF WorksInv
    <1>4. WorksInv'  BY <1>1, <1>3 DEF WorksInv, Heard
    <1> QED BY <1>2, <1>4

\* The row as it is named and bounded.
LEMMA RowNamed ==
    ASSUME IInv, row.uid # NoUid
    PROVE  /\ row.uid = created /\ created \in 1..MaxUid /\ row.uid \in Born
           /\ row \in [uid : {created}, deleting : BOOLEAN, held : BOOLEAN, running : BOOLEAN]
    <1>1. row.uid = created /\ created \in 0..MaxUid  BY DEF IInv, ApiInv
    <1>2. created \in 1..MaxUid /\ created \in Born  BY <1>1, MaxUidAssumption DEF NoUid, Born
    <1> QED BY <1>1, <1>2 DEF IInv, ApiInv

\* The row is marked, handed to the outbox or removed.
LEMMA FinalizeRowKeeps ==
    ASSUME IInv, NEW w \in works, created' = created, FinalizeRow(w)
    PROVE  IInv'
    <1>1. /\ slot' = slot /\ sandbox' = sandbox /\ w.kind = "FinalizePodDeletion"
        BY DEF FinalizeRow, runtimeVars
    <1>2. w.uid \in Born /\ w.uid # NoUid
        <2>1. w.uid \in Born  BY DEF IInv, WorksInv, SoundWork
        <2> QED BY <2>1 DEF Born, NoUid
    <1>3. CASE /\ Answer(w, "completed") \/ Answer(w, "failed")
               /\ UNCHANGED <<apiVars, outbox>>
        BY <1>1, <1>3, QuietKeeps, PlainStages DEF apiVars
    <1>4. CASE /\ LivePod(w.uid) /\ Commit("modified", [row EXCEPT !.deleting = TRUE])
               /\ Answer(w, "failed") /\ outbox' = outbox
        <2> DEFINE pod == [row EXCEPT !.deleting = TRUE]
        <2>1. row.uid = w.uid  BY <1>4 DEF LivePod
        <2>2. /\ created \in 1..MaxUid /\ row.uid = created
              /\ pod \in [uid : {created'}, deleting : BOOLEAN, held : BOOLEAN, running : BOOLEAN]
              /\ row.deleting => pod.deleting
            BY <1>2, <2>1, RowNamed
        <2>3. Commit("modified", pod)  BY <1>4
        <2> HIDE DEF pod
        <2>4. /\ Fades
              /\ row' \in [uid : {NoUid, created'}, deleting : BOOLEAN, held : BOOLEAN, running : BOOLEAN]
              /\ row'.uid = NoUid => row' = NoPod
              /\ row'.uid = created' /\ version' \in Nat
              /\ mailbox' \in Seq(SoundMessages') /\ Range(mailbox) \subseteq Range(mailbox')
            BY <1>1, <2>2, <2>3, CommitKeeps
        <2>5. Move(w, "failed") /\ UNCHANGED <<actor, timers, remote, upsets>>  BY <1>4 DEF Answer
        <2>6. /\ WorksInv'
              /\ \A x \in works : Heard(actor, x) => \E v \in works' : Heard(actor', v)
            BY <2>4, <2>5, MoveKeeps, PlainStages DEF IInv
        <2>7. InFlightAnswered'
            <3>1. \A u : Pending(u) => Pending(u)'  BY <1>1, <1>4, <2>2, <2>4, PendingKept
            <3> QED BY <2>4, <2>5, <2>6, <3>1, AnsweredKept DEF IInv
        <2>8. ApiInv'  BY <1>4, <2>4, <2>5 DEF IInv, ApiInv, NoPod
        <2> QED BY <1>1, <2>4, <2>5, <2>6, <2>7, <2>8, ApiStepKeeps
    <1>5. CASE /\ LivePod(w.uid) /\ remote /\ outbox' = [outbox EXCEPT ![w.uid].rows = @ + 1]
               /\ works' = works \ {w} /\ UNCHANGED <<actor, timers, remote, upsets, apiVars>>
        <2>1. UNCHANGED <<actor, timers, remote, upsets, row, version, mailbox>>  BY <1>5 DEF apiVars
        <2>2. Fades  BY <1>1, <2>1, StillFades DEF IInv
        <2>3. /\ WorksInv'
              /\ \A x \in works : x # w /\ Heard(actor, x) => \E v \in works' : Heard(actor', v)
            BY <1>5, <2>1, <2>2, EndKeeps DEF IInv
        <2>4. InFlightAnswered'
            <3>1. w.uid \in Uids
                <4>1. created \in 0..MaxUid  BY DEF IInv, ApiInv
                <4> QED BY <1>2, <4>1, MaxUidAssumption DEF Born, Uids
            <3>2. outbox \in [Uids -> [rows : Nat, dead : BOOLEAN]]  BY DEF IInv, ApiInv
            <3>3. outbox'[w.uid].rows # 0 /\ \A u \in Uids \ {w.uid} : outbox'[u] = outbox[u]
                BY <1>5, <3>1, <3>2
            <3>4. Pending(w.uid)'  BY <1>5, <2>1, <3>1, <3>3 DEF Pending, LivePod, EmptyOutbox
            <3>5. \A u : Pending(u) => Pending(u)'
                BY <2>1, <3>3, <3>4 DEF Pending, LivePod
            <3> QED BY <1>1, <2>1, <2>3, <3>4, <3>5, AnsweredKept DEF IInv
        <2>5. mailbox' \in Seq(SoundMessages')
            <3>1. mailbox' \in Seq(SoundMessages)  BY <2>1 DEF IInv
            <3> QED BY <2>2, <3>1, FadesGrows, SeqMonotonic
        <2>6. ApiInv'
            <3>1. outbox' \in [Uids -> [rows : Nat, dead : BOOLEAN]]
                <4>1. outbox \in [Uids -> [rows : Nat, dead : BOOLEAN]]  BY DEF IInv, ApiInv
                <4>2. ASSUME NEW r \in [rows : Nat, dead : BOOLEAN]
                      PROVE  [r EXCEPT !.rows = @ + 1] \in [rows : Nat, dead : BOOLEAN]
                    OBVIOUS
                <4>3. outbox' = [outbox EXCEPT ![w.uid] = [outbox[w.uid] EXCEPT !.rows = @ + 1]]  BY <1>5
                <4>4. CASE w.uid \in Uids
                    <5>1. outbox[w.uid] \in [rows : Nat, dead : BOOLEAN]  BY <4>1, <4>4
                    <5>2. [outbox[w.uid] EXCEPT !.rows = @ + 1] \in [rows : Nat, dead : BOOLEAN]  BY <4>2, <5>1
                    <5> QED BY <4>1, <4>3, <5>2
                <4>5. CASE w.uid \notin Uids  BY <4>1, <4>3, <4>5
                <4> QED BY <4>4, <4>5
            <3> QED BY <1>5, <2>1, <3>1 DEF IInv, ApiInv, NoPod
        <2> QED BY <1>1, <2>1, <2>2, <2>3, <2>4, <2>5, <2>6, ApiStepKeeps
    <1>6. CASE /\ LivePod(w.uid) /\ row.deleting /\ ~remote /\ Commit("deleted", row)
               /\ Answer(w, "completed") /\ outbox' = outbox
        <2>1. row.uid = w.uid  BY <1>6 DEF LivePod
        <2>2. /\ created \in 1..MaxUid /\ row.uid = created
              /\ row \in [uid : {created'}, deleting : BOOLEAN, held : BOOLEAN, running : BOOLEAN]
            BY <1>2, <2>1, RowNamed
        <2>3. /\ Fades
              /\ row' \in [uid : {NoUid, created'}, deleting : BOOLEAN, held : BOOLEAN, running : BOOLEAN]
              /\ row'.uid = NoUid => row' = NoPod
              /\ version' \in Nat
              /\ mailbox' \in Seq(SoundMessages') /\ Range(mailbox) \subseteq Range(mailbox')
            BY <1>1, <1>6, <2>2, CommitKeeps
        <2>4. Move(w, "completed") /\ UNCHANGED <<actor, timers, remote, upsets>>  BY <1>6 DEF Answer
        <2>5. /\ WorksInv'
              /\ \A x \in works : Heard(actor, x) => \E v \in works' : Heard(actor', v)
            BY <2>3, <2>4, MoveKeeps, PlainStages DEF IInv
        <2>6. InFlightAnswered'
            <3>1. \A u : ~Pending(u)  BY <1>6 DEF IInv, ApiInv, Pending
            <3> QED BY <2>3, <2>4, <2>5, <3>1, AnsweredKept DEF IInv
        <2>7. ApiInv'  BY <1>6, <2>3, <2>4 DEF IInv, ApiInv, NoPod
        <2> QED BY <1>1, <2>3, <2>4, <2>5, <2>6, <2>7, ApiStepKeeps
    <1> QED BY <1>3, <1>4, <1>5, <1>6 DEF FinalizeRow

\* What runs is published.
LEMMA PublishRuntimeKeeps ==
    ASSUME IInv, NEW w \in works, created' = created, PublishRuntime(w)
    PROVE  IInv'
    <1>1. slot' = slot /\ sandbox' = sandbox /\ outbox' = outbox /\ Answer(w, "completed")
        BY DEF PublishRuntime, runtimeVars
    <1>2. CASE UNCHANGED apiVars  BY <1>1, <1>2, QuietKeeps, PlainStages DEF apiVars
    <1>3. CASE LivePod(w.uid) /\ Commit("modified", [row EXCEPT !.running = TRUE])
        <2> DEFINE pod == [row EXCEPT !.running = TRUE]
        <2>1. row.uid # NoUid
            <3>1. w.uid \in Born  BY DEF IInv, WorksInv, SoundWork
            <3> QED BY <1>3, <3>1 DEF LivePod, Born, NoUid
        <2>2. /\ created \in 1..MaxUid /\ row.uid = created
              /\ pod \in [uid : {created'}, deleting : BOOLEAN, held : BOOLEAN, running : BOOLEAN]
              /\ row.deleting => pod.deleting
            BY <2>1, RowNamed
        <2>3. Commit("modified", pod)  BY <1>3
        <2> HIDE DEF pod
        <2>4. /\ Fades
              /\ row' \in [uid : {NoUid, created'}, deleting : BOOLEAN, held : BOOLEAN, running : BOOLEAN]
              /\ row'.uid = NoUid => row' = NoPod
              /\ row'.uid = created' /\ version' \in Nat
              /\ mailbox' \in Seq(SoundMessages') /\ Range(mailbox) \subseteq Range(mailbox')
            BY <1>1, <2>2, <2>3, CommitKeeps
        <2>5. Move(w, "completed") /\ UNCHANGED <<actor, timers, remote, upsets>>  BY <1>1 DEF Answer
        <2>6. /\ WorksInv'
              /\ \A x \in works : Heard(actor, x) => \E v \in works' : Heard(actor', v)
            BY <2>4, <2>5, MoveKeeps, PlainStages DEF IInv
        <2>7. InFlightAnswered'
            <3>1. \A u : Pending(u) => Pending(u)'  BY <1>1, <2>2, <2>4, PendingKept
            <3> QED BY <2>4, <2>5, <2>6, <3>1, AnsweredKept DEF IInv
        <2>8. ApiInv'  BY <1>1, <2>4, <2>5 DEF IInv, ApiInv, NoPod
        <2> QED BY <1>1, <2>4, <2>5, <2>6, <2>7, <2>8, ApiStepKeeps
    <1> QED BY <1>2, <1>3 DEF PublishRuntime

\* Every step of a task.
LEMMA WorkKeeps ==
    ASSUME IInv, NEW w \in works, Work(w), created' = created
    PROVE  IInv'
    BY TryAdmitKeeps, SubscribeKeeps, StartKeeps, StopKeeps, FinalizeRowKeeps, PublishRuntimeKeeps,
       ReportKeeps DEF Work

\* Changes of the row that clients make.
LEMMA ClientKeeps == IInv /\ (CreatePod \/ DeletePod \/ ReleasePod) => IInv'
    <1> SUFFICES ASSUME IInv, CreatePod \/ DeletePod \/ ReleasePod  PROVE IInv'  OBVIOUS
    <1>1. UNCHANGED <<actor, works, timers, slot, sandbox, outbox, remote, upsets>>
        BY DEF CreatePod, DeletePod, ReleasePod, actorVars, runtimeVars
    <1>2. ASSUME NEW type \in {"added", "modified"},
                 NEW pod \in [uid : {created'}, deleting : BOOLEAN, held : BOOLEAN, running : BOOLEAN],
                 created' \in 1..MaxUid, Commit(type, pod),
                 \/ created' = created /\ row.uid = created /\ (row.deleting => pod.deleting)
                 \/ created' = created + 1 /\ row = NoPod
          PROVE  IInv'
        <2>1. /\ Fades
              /\ row' \in [uid : {NoUid, created'}, deleting : BOOLEAN, held : BOOLEAN, running : BOOLEAN]
              /\ row'.uid = NoUid => row' = NoPod
              /\ row'.uid = created' /\ version' \in Nat
              /\ mailbox' \in Seq(SoundMessages') /\ Range(mailbox) \subseteq Range(mailbox')
            BY <1>1, <1>2, CommitKeeps
        <2>2. /\ WorksInv'
              /\ \A x \in works : Heard(actor, x) => \E v \in works' : Heard(actor', v)
            BY <1>1, <2>1, RestKeeps DEF IInv
        <2>3. InFlightAnswered'
            <3>1. row.uid # NoUid => row'.uid = row.uid  BY <1>2, <2>1 DEF NoPod
            <3>2. \A u : Pending(u) => Pending(u)'  BY <1>1, <3>1, PendingKept
            <3> QED BY <1>1, <2>1, <2>2, <3>2, AnsweredKept DEF IInv
        <2>5. ApiInv'
            <3>1. created' \in 0..MaxUid  BY <1>2, MaxUidAssumption
            <3> QED BY <1>1, <2>1, <3>1 DEF IInv, ApiInv, NoPod
        <2> QED BY <1>1, <2>1, <2>2, <2>3, <2>5, ApiStepKeeps
    <1>3. CASE CreatePod
        <2>1. row = NoPod /\ created < MaxUid /\ created' = created + 1  BY <1>3 DEF CreatePod
        <2>2. PICK held \in BOOLEAN :
                  Commit("added", [uid |-> created + 1, deleting |-> FALSE, held |-> held, running |-> FALSE])
            BY <1>3 DEF CreatePod
        <2>3. created' \in 1..MaxUid  BY <2>1, MaxUidAssumption DEF IInv, ApiInv
        <2> QED BY <1>2, <2>1, <2>2, <2>3
    <1>4. CASE DeletePod
        <2>1. row.uid \in Uids /\ row.uid # NoUid
            BY <1>4, PodLifecycleAssumption DEF DeletePod, Uids, NoUid
        <2>2. created' = created /\ Commit("modified", [row EXCEPT !.deleting = TRUE])
            BY <1>4 DEF DeletePod
        <2>3. /\ created' \in 1..MaxUid /\ row.uid = created
              /\ row \in [uid : {created'}, deleting : BOOLEAN, held : BOOLEAN, running : BOOLEAN]
            BY <2>1, <2>2, RowNamed
        <2> QED BY <1>2, <2>2, <2>3
    <1>5. CASE ReleasePod
        <2>1. row.uid # NoUid
            BY <1>5 DEF ReleasePod, IInv, ApiInv, NoPod
        <2>2. created' = created /\ Commit("modified", [row EXCEPT !.held = FALSE])
            BY <1>5 DEF ReleasePod
        <2>3. /\ created' \in 1..MaxUid /\ row.uid = created
              /\ row \in [uid : {created'}, deleting : BOOLEAN, held : BOOLEAN, running : BOOLEAN]
            BY <2>1, <2>2, RowNamed
        <2> QED BY <1>2, <2>2, <2>3
    <1> QED BY <1>3, <1>4, <1>5

\* What a step of the outbox makes of its rows.
LEMMA OutboxTyped ==
    ASSUME ApiInv, NEW u \in Uids, NEW d \in BOOLEAN, NEW n \in Nat, outbox[u] # EmptyOutbox, remote' = remote,
           outbox' = [outbox EXCEPT ![u] = [rows |-> n, dead |-> d]]
    PROVE  /\ outbox' \in [Uids -> [rows : Nat, dead : BOOLEAN]]
           /\ remote /\ (~remote' => \A v \in Uids : outbox'[v] = EmptyOutbox)
           /\ outbox'[u] = [rows |-> n, dead |-> d]
           /\ \A v \in Uids \ {u} : outbox'[v] = outbox[v]
    BY DEF ApiInv

\* A step that changes the outbox alone.
LEMMA OutboxKeeps ==
    ASSUME IInv, UNCHANGED <<actor, works, timers, slot, sandbox, row, version, mailbox, remote, created>>,
           upsets' \in 0..MaxUpsets,
           outbox' \in [Uids -> [rows : Nat, dead : BOOLEAN]], remote,
           \A u : Pending(u) => Pending(u)'
    PROVE  IInv'
    <1>1. Fades  BY StillFades DEF IInv
    <1>2. /\ WorksInv'
          /\ \A x \in works : Heard(actor, x) => \E v \in works' : Heard(actor', v)
        BY <1>1, RestKeeps DEF IInv
    <1>3. mailbox' \in Seq(SoundMessages')
        <2>1. mailbox' \in Seq(SoundMessages)  BY DEF IInv
        <2> QED BY <1>1, <2>1, FadesGrows, SeqMonotonic
    <1>4. InFlightAnswered'  BY <1>2, AnsweredKept DEF IInv
    <1>5. ApiInv'  BY DEF IInv, ApiInv, NoPod
    <1> QED BY <1>1, <1>2, <1>3, <1>4, <1>5, ApiStepKeeps

\* The outbox delivers a finalization: for the Pod in the API the DELETED event
\* takes its place; nobody waits for that of another.
LEMMA SettleKeeps == IInv /\ SettleFinalization => IInv'
    <1> SUFFICES ASSUME IInv, SettleFinalization  PROVE IInv'  OBVIOUS
    <1>1. UNCHANGED <<actor, works, timers, slot, sandbox, remote, upsets, created>>
        BY DEF SettleFinalization, actorVars, runtimeVars
    <1>2. PICK u \in Uids :
              /\ Deliverable(u)
              /\ outbox' = [outbox EXCEPT ![u] = [rows |-> @.rows - 1, dead |-> row.uid \notin {NoUid, u}]]
              /\ IF LivePod(u) THEN Commit("deleted", row) ELSE UNCHANGED apiVars
        BY DEF SettleFinalization
    <1> DEFINE n == outbox[u].rows - 1
               d == row.uid \notin {NoUid, u}
    <1>3. outbox \in [Uids -> [rows : Nat, dead : BOOLEAN]]  BY DEF IInv, ApiInv
    <1>4. n \in Nat /\ outbox[u] # EmptyOutbox  BY <1>2, <1>3 DEF Deliverable, EmptyOutbox
    <1>5. d \in BOOLEAN  OBVIOUS
    <1>6. outbox' = [outbox EXCEPT ![u] = [rows |-> n, dead |-> d]]  BY <1>2, <1>3
    <1> HIDE DEF n, d
    <1>7. /\ outbox' \in [Uids -> [rows : Nat, dead : BOOLEAN]]
          /\ remote /\ (~remote' => \A v \in Uids : outbox'[v] = EmptyOutbox)
          /\ \A v \in Uids \ {u} : outbox'[v] = outbox[v]
        BY <1>1, <1>4, <1>5, <1>6, OutboxTyped DEF IInv
    <1>8. CASE LivePod(u)
        <2>1. u = row.uid /\ u # NoUid  BY <1>8 DEF LivePod, Uids, NoUid
        <2>2. /\ created \in 1..MaxUid /\ row.uid = created
              /\ row \in [uid : {created'}, deleting : BOOLEAN, held : BOOLEAN, running : BOOLEAN]
            BY <1>1, <2>1, RowNamed
        <2>3. Commit("deleted", row)  BY <1>2, <1>8
        <2>4. /\ Fades
              /\ row' \in [uid : {NoUid, created'}, deleting : BOOLEAN, held : BOOLEAN, running : BOOLEAN]
              /\ row'.uid = NoUid => row' = NoPod
              /\ version' \in Nat
              /\ mailbox' \in Seq(SoundMessages') /\ Range(mailbox) \subseteq Range(mailbox')
              /\ \E m \in Range(mailbox') : m.uid = created' /\ m.type = "deleted"
            BY <1>1, <2>2, <2>3, CommitKeeps
        <2>5. /\ WorksInv'
              /\ \A x \in works : Heard(actor, x) => \E v \in works' : Heard(actor', v)
            BY <1>1, <2>4, RestKeeps DEF IInv
        <2>6. \A v : Pending(v) => \E m \in Range(mailbox') : m.uid = v /\ m.type = "deleted"
            BY <1>1, <2>2, <2>4 DEF Pending, LivePod
        <2>7. InFlightAnswered'  BY <1>1, <2>4, <2>5, <2>6, AnsweredKept DEF IInv
        <2>8. ApiInv'  BY <1>1, <1>7, <2>4 DEF IInv, ApiInv, NoPod
        <2> QED BY <1>1, <2>4, <2>5, <2>7, <2>8, ApiStepKeeps
    <1>9. CASE ~LivePod(u)
        <2>1. UNCHANGED <<row, version, mailbox>>  BY <1>2, <1>9 DEF apiVars
        <2>2. \A v : Pending(v) => Pending(v)'  BY <1>7, <1>9, <2>1 DEF Pending, LivePod
        <2>3. upsets' \in 0..MaxUpsets  BY <1>1 DEF IInv, ApiInv
        <2> QED BY <1>1, <1>7, <2>1, <2>2, <2>3, OutboxKeeps
    <1> QED BY <1>8, <1>9

\* A finalization becomes a dead letter, or a dead letter is sent again: the
\* outbox holds it all the while.
LEMMA DeadLettersKeep == IInv /\ (DeadLetterFinalization \/ ReplayDeadLetter) => IInv'
    <1> SUFFICES ASSUME IInv, DeadLetterFinalization \/ ReplayDeadLetter  PROVE IInv'  OBVIOUS
    <1>1. UNCHANGED <<actor, works, timers, slot, sandbox, row, version, mailbox, remote, created>>
        BY DEF DeadLetterFinalization, ReplayDeadLetter, actorVars, runtimeVars, apiVars
    <1>2. upsets' \in 0..MaxUpsets
        BY UpsetsAssumption DEF DeadLetterFinalization, ReplayDeadLetter, Upset, IInv, ApiInv
    <1>3. outbox \in [Uids -> [rows : Nat, dead : BOOLEAN]]  BY DEF IInv, ApiInv
    <1>4. ASSUME NEW u \in Uids, NEW n \in Nat, NEW d \in BOOLEAN, outbox[u] # EmptyOutbox,
                 outbox' = [outbox EXCEPT ![u] = [rows |-> n, dead |-> d]], n # 0 \/ d
          PROVE  IInv'
        <2>1. /\ outbox' \in [Uids -> [rows : Nat, dead : BOOLEAN]] /\ remote
              /\ outbox'[u] = [rows |-> n, dead |-> d]
              /\ \A v \in Uids \ {u} : outbox'[v] = outbox[v]
            BY <1>1, <1>4, OutboxTyped DEF IInv
        <2>2. outbox'[u] # EmptyOutbox  BY <1>4, <2>1 DEF EmptyOutbox
        <2>3. \A v : Pending(v) => Pending(v)'  BY <1>1, <2>1, <2>2 DEF Pending, LivePod
        <2> QED BY <1>1, <1>2, <2>1, <2>3, OutboxKeeps
    <1>5. CASE DeadLetterFinalization
        <2>1. PICK u \in Uids : /\ Deliverable(u)
                                /\ outbox' = [outbox EXCEPT ![u] = [rows |-> @.rows - 1, dead |-> TRUE]]
            BY <1>5 DEF DeadLetterFinalization
        <2>2. outbox[u].rows - 1 \in Nat /\ outbox[u] # EmptyOutbox
            BY <1>3, <2>1 DEF Deliverable, EmptyOutbox
        <2>3. outbox' = [outbox EXCEPT ![u] = [rows |-> outbox[u].rows - 1, dead |-> TRUE]]  BY <1>3, <2>1
        <2> QED BY <1>4, <2>2, <2>3
    <1>6. CASE ReplayDeadLetter
        <2>1. PICK u \in Uids : /\ outbox[u].dead
                                /\ outbox' = [outbox EXCEPT ![u] = [rows |-> @.rows + 1, dead |-> FALSE]]
            BY <1>6 DEF ReplayDeadLetter
        <2>2. outbox[u].rows + 1 \in Nat \ {0} /\ outbox[u] # EmptyOutbox
            BY <1>3, <2>1 DEF EmptyOutbox
        <2>3. outbox' = [outbox EXCEPT ![u] = [rows |-> outbox[u].rows + 1, dead |-> FALSE]]  BY <1>3, <2>1
        <2> QED BY <1>4, <2>2, <2>3
    <1> QED BY <1>5, <1>6

\* Messages that this node sends itself.
LEMMA SendKeeps ==
    ASSUME IInv, NEW m \in SoundMessages, Route(m),
           UNCHANGED <<actor, works, timers, slot, sandbox, row, version, outbox, remote, created>>,
           upsets' \in 0..MaxUpsets
    PROVE  IInv'
    <1>1. Fades  BY StillFades DEF IInv
    <1>2. /\ WorksInv'
          /\ \A x \in works : Heard(actor, x) => \E v \in works' : Heard(actor', v)
        BY <1>1, RestKeeps DEF IInv
    <1>3. mailbox' \in Seq(SoundMessages) /\ Range(mailbox) \subseteq Range(mailbox')
        BY RouteKeeps DEF IInv
    <1>4. mailbox' \in Seq(SoundMessages')  BY <1>1, <1>3, FadesGrows, SeqMonotonic
    <1>5. InFlightAnswered'
        <2>1. \A u : Pending(u) => Pending(u)'  BY PendingKept
        <2> QED BY <1>2, <1>3, <2>1, AnsweredKept DEF IInv
    <1>6. ApiInv'  BY DEF IInv, ApiInv, NoPod, Born
    <1> QED BY <1>1, <1>2, <1>4, <1>5, <1>6, ApiStepKeeps

\* The deferred-delete queue, CRI events and commands.
LEMMA SignalsKeep == IInv /\ (DeleteWake \/ SendSignal) => IInv'
    <1> SUFFICES ASSUME IInv, DeleteWake \/ SendSignal  PROVE IInv'  OBVIOUS
    <1>1. UNCHANGED <<actor, works, timers, slot, sandbox, row, version, outbox, remote, created>>
        BY DEF DeleteWake, SendSignal, actorVars, runtimeVars
    <1>2. CASE DeleteWake
        <2>1. row # NoPod /\ Route(Message("modified", row, version)) /\ upsets' = upsets
            BY <1>2 DEF DeleteWake, NoPod
        <2>2. Message("modified", row, version) \in SoundMessages
            BY <2>1, RowSound DEF IInv, ApiInv, Types
        <2> QED BY <1>1, <2>1, <2>2, SendKeeps DEF IInv, ApiInv
    <1>3. CASE SendSignal
        <2>1. row.uid \in Born /\ created \in Nat
            <3>1. row.uid \in Entitled  BY <1>3 DEF SendSignal, IInv, RuntimeInv
            <3> QED BY <3>1 DEF Entitled, IInv, ApiInv
        <2>2. upsets' \in 0..MaxUpsets
            BY <1>3, UpsetsAssumption DEF SendSignal, Upset, IInv, ApiInv
        <2>3. Route(Signal("cri", row.uid)) \/ Route(Signal("command", row.uid))
            BY <1>3 DEF SendSignal
        <2>4. Signal("cri", row.uid) \in SoundMessages /\ Signal("command", row.uid) \in SoundMessages
            BY <2>1, SignalSound DEF Types
        <2> QED BY <1>1, <2>2, <2>3, <2>4, SendKeeps
    <1> QED BY <1>2, <1>3

\* A sandbox the API does not know is removed.
LEMMA CollectKeeps == IInv /\ CollectSandbox => IInv'
    <1> SUFFICES ASSUME IInv, CollectSandbox  PROVE IInv'  OBVIOUS
    <1>1. UNCHANGED <<actor, works, timers, slot, row, version, mailbox, outbox, remote, upsets, created>>
        BY DEF CollectSandbox, actorVars, apiVars
    <1>2. PICK u \in sandboxes : sandbox' = Removed(u)  BY DEF CollectSandbox
    <1>3. /\ sandbox' \in [Uids -> {"none", "empty", "started"}]
          /\ \A v \in Uids : sandbox'[v] # "none" => sandbox[v] # "none"
        BY <1>2 DEF Removed, IInv, RuntimeInv, sandboxes
    <1>4. Fades  BY <1>1, StillFades DEF IInv
    <1>5. RuntimeInv'  BY <1>1, <1>3, <1>4, SandboxKeeps DEF IInv, RuntimeInv
    <1>6. /\ WorksInv'
          /\ \A x \in works : Heard(actor, x) => \E v \in works' : Heard(actor', v)
        BY <1>1, <1>4, RestKeeps DEF IInv
    <1> QED BY <1>1, <1>4, <1>5, <1>6, TaskKeeps DEF IInv, ApiInv

\* The messages of a restart: orphans that nobody wants, and the row.
LEMMA RestartKeeps == IInv /\ Restart => IInv'
    <1> SUFFICES ASSUME IInv, Restart  PROVE IInv'  OBVIOUS
    <1> DEFINE orphans == {Signal("orphan", u) : u \in sandboxes \ {row.uid}}
               attached == {Message("added", row, 0) : u \in sandboxes \cap {row.uid}}
               recovered == {Message("added", row, version) : r \in {row} \ {NoPod}}
    <1>1. /\ actor' = FreshActor /\ works' = {} /\ timers' = NoTimers /\ upsets < MaxUpsets /\ upsets' = upsets + 1
          /\ UNCHANGED <<slot, sandbox, row, version, outbox, remote, created>>
        BY DEF Restart, Upset, runtimeVars
    <1>2. PICK found \in SetToSeqs(orphans \cup attached) : mailbox' = found \o SetToSeq(recovered)
        BY DEF Restart
    <1>3. Fades  BY <1>1, StillFades DEF IInv
    <1>4. ActorInv' /\ WorksInv' /\ InFlightAnswered'  BY <1>1, <1>3, FreshKeeps DEF IInv
    <1>5. RuntimeInv'  BY <1>1, <1>3, SandboxKeeps DEF IInv, RuntimeInv
    <1>6. ApiInv'
        <2>1. upsets' \in 0..MaxUpsets  BY <1>1, UpsetsAssumption DEF IInv, ApiInv
        <2> QED BY <1>1, <2>1 DEF IInv, ApiInv, NoPod, Born
    <1>7. orphans \cup attached \in SUBSET SoundMessages
        <2>1. ASSUME NEW u \in sandboxes \ {row.uid}  PROVE Signal("orphan", u) \in SoundMessages
            <3>1. u \in Entitled  BY DEF IInv, RuntimeInv
            <3>2. u \in Born /\ u \in Doomed /\ created \in Nat
                BY <3>1 DEF Entitled, Doomed, Wanted, LivePod, IInv, ApiInv
            <3> QED BY <3>2, SignalSound DEF Types
        <2>2. ASSUME NEW u \in sandboxes \cap {row.uid}  PROVE Message("added", row, 0) \in SoundMessages
            <3>1. row # NoPod
                <4>1. row.uid \in Uids  BY DEF sandboxes
                <4> QED BY <4>1 DEF Uids, NoPod, NoUid
            <3> QED BY <3>1, RowSound DEF IInv, Types
        <2> QED BY <2>1, <2>2
    <1>8. IsFiniteSet(orphans \cup attached)
        <2>1. IsFiniteSet(Uids)  BY MaxUidAssumption, FS_Interval DEF Uids
        <2>2. sandboxes \in SUBSET Uids  BY DEF sandboxes
        <2>3. IsFiniteSet(sandboxes \ {row.uid})
            <3>1. sandboxes \ {row.uid} \in SUBSET Uids  BY <2>2
            <3> QED BY <2>1, <3>1, FS_Subset
        <2> DEFINE g == [u \in sandboxes \ {row.uid} |-> Signal("orphan", u)]
        <2>4. g \in Surjection(sandboxes \ {row.uid}, orphans)  BY DEF Surjection
        <2>5. IsFiniteSet(orphans)  BY <2>3, <2>4, FS_Surjection
        <2>6. orphans \cup attached \in SUBSET (orphans \cup {Message("added", row, 0)})  OBVIOUS
        <2>7. IsFiniteSet(orphans \cup {Message("added", row, 0)})  BY <2>5, FS_AddElement
        <2> QED BY <2>6, <2>7, FS_Subset
    <1>9. recovered = {} \/ \E m \in SoundMessages : recovered = {m}
        <2>1. row # NoPod => Message("added", row, version) \in SoundMessages
            BY RowSound DEF IInv, ApiInv, Types
        <2> QED BY <2>1
    <1>10. SetToSeq(recovered) \in Seq(SoundMessages)
        <2>1. CASE recovered = {}
            <3>1. Cardinality(recovered) = 0  BY <2>1, FS_EmptySet
            <3> DEFINE e == [i \in 1..0 |-> i]
            <3>2. e \in [1..Cardinality(recovered) -> recovered] /\ IsInjective(e)
                BY <3>1 DEF IsInjective
            <3>3. SetToSeq(recovered) \in [1..Cardinality(recovered) -> recovered]
                BY <3>2 DEF SetToSeq
            <3> HIDE DEF e, recovered
            <3>4. PICK n \in Nat : n = 0  OBVIOUS
            <3>5. SetToSeq(recovered) \in [1..n -> SoundMessages]  BY <2>1, <3>1, <3>3, <3>4
            <3> QED BY <3>5, SeqDef
        <2>2. CASE recovered # {}
            <3>1. PICK m \in SoundMessages : recovered = {m}  BY <1>9, <2>2
            <3> HIDE DEF recovered
            <3>2. Cardinality(recovered) = 1  BY <3>1, FS_Singleton
            <3> DEFINE e == [i \in 1..1 |-> m]
            <3>3. e \in [1..Cardinality(recovered) -> recovered] /\ IsInjective(e)
                BY <3>1, <3>2 DEF IsInjective
            <3>4. SetToSeq(recovered) \in [1..Cardinality(recovered) -> recovered]
                BY <3>3 DEF SetToSeq
            <3>5. PICK n \in Nat : n = 1  OBVIOUS
            <3>6. SetToSeq(recovered) \in [1..n -> SoundMessages]  BY <3>1, <3>2, <3>4, <3>5
            <3> QED BY <3>6, SeqDef
        <2> QED BY <2>1, <2>2
    <1> HIDE DEF orphans, attached, recovered
    <1>11. found \in Seq(SoundMessages)
        <2> DEFINE n == Cardinality(orphans \cup attached)
        <2>1. n \in Nat  BY <1>8, FS_CardinalityType
        <2>2. found \in [1..n -> orphans \cup attached]  BY DEF SetToSeqs
        <2> HIDE DEF n
        <2>3. found \in [1..n -> SoundMessages]  BY <1>7, <2>2
        <2> QED BY <2>1, <2>3, SeqDef
    <1>12. mailbox' \in Seq(SoundMessages)  BY <1>2, <1>10, <1>11, ConcatProperties
    <1>13. mailbox' \in Seq(SoundMessages')  BY <1>3, <1>12, FadesGrows, SeqMonotonic
    <1>14. timers' \in Timers'  BY <1>1, <1>3, NoTimersArmed, FadesGrows
    <1> QED BY <1>4, <1>5, <1>6, <1>13, <1>14 DEF IInv

------------------------------------------------------------------------------
(* The theorems. *)

\* The invariant holds at the start.
LEMMA InitInv == Init => IInv
    <1> SUFFICES ASSUME Init PROVE IInv  OBVIOUS
    <1>1. /\ actor = FreshActor /\ works = {} /\ timers = NoTimers /\ slot = NoUid
          /\ sandbox = [u \in Uids |-> "none"] /\ row = NoPod /\ version = 1 /\ mailbox = <<>>
          /\ outbox = [u \in Uids |-> EmptyOutbox] /\ upsets = 0 /\ created = 0
        BY DEF Init
    <1>2. remote \in BOOLEAN
        <2>1. PICK c \in Cases : remote = c[1]  BY DEF Init
        <2> QED BY <2>1, PodLifecycleAssumption
    <1>3. ActorInv  BY <1>1, FreshSound DEF ActorInv, FreshActor
    <1>4. WorksInv  BY <1>1, FS_EmptySet DEF WorksInv
    <1>5. RuntimeInv  BY <1>1 DEF RuntimeInv, MaybeUid, sandboxes
    <1>6. ApiInv
        BY <1>1, <1>2, MaxUidAssumption, UpsetsAssumption DEF ApiInv, NoPod, NoUid, EmptyOutbox
    <1>7. InFlightAnswered  BY <1>1, FreshSound DEF InFlightAnswered
    <1>8. timers \in Timers /\ mailbox \in Seq(SoundMessages)  BY <1>1, NoTimersArmed
    <1> QED BY <1>3, <1>4, <1>5, <1>6, <1>7, <1>8 DEF IInv

\* Nothing changes.
LEMMA StutterKeeps == IInv /\ UNCHANGED vars => IInv'
    <1> SUFFICES ASSUME IInv, UNCHANGED vars PROVE IInv'  OBVIOUS
    <1>1. UNCHANGED <<actor, works, timers, slot, sandbox, row, version, mailbox, outbox, remote, upsets, created>>
        BY DEF vars, actorVars, runtimeVars, apiVars
    <1>2. Fades  BY <1>1, StillFades DEF IInv
    <1>3. RuntimeInv'  BY <1>1, <1>2, SandboxKeeps DEF IInv, RuntimeInv
    <1>4. /\ WorksInv'
          /\ \A x \in works : Heard(actor, x) => \E v \in works' : Heard(actor', v)
        BY <1>1, <1>2, RestKeeps DEF IInv
    <1> QED BY <1>1, <1>2, <1>3, <1>4, TaskKeeps DEF IInv, ApiInv

\* Every step keeps the invariant.
LEMMA NextKeeps == IInv /\ [Next]_vars => IInv'
    <1> SUFFICES ASSUME IInv, [Next]_vars PROVE IInv'  OBVIOUS
    <1>1. CASE Receive  BY <1>1, ReceiveKeeps
    <1>2. CASE Delivers  BY <1>2, DeliverKeeps DEF Delivers
    <1>3. CASE Retries \/ DeadlineFires  BY <1>3, TimersKeep DEF Retries
    <1>4. CASE Works  BY <1>4, WorkKeeps DEF Works
    <1>5. CASE Fails  BY <1>5, FailKeeps DEF Fails
    <1>6. CASE RemoveIdle  BY <1>6, RemoveIdleKeeps
    <1>7. CASE CreatePod \/ DeletePod \/ ReleasePod  BY <1>7, ClientKeeps
    <1>8. CASE SettleFinalization  BY <1>8, SettleKeeps
    <1>13. CASE DeadLetterFinalization \/ ReplayDeadLetter  BY <1>13, DeadLettersKeep
    <1>9. CASE DeleteWake \/ SendSignal  BY <1>9, SignalsKeep
    <1>10. CASE CollectSandbox  BY <1>10, CollectKeeps
    <1>11. CASE Restart  BY <1>11, RestartKeeps
    <1>12. CASE UNCHANGED vars  BY <1>12, StutterKeeps
    <1> QED BY <1>1, <1>2, <1>3, <1>4, <1>5, <1>6, <1>7, <1>8, <1>9, <1>10, <1>11, <1>12, <1>13 DEF Next

\* The invariant always holds.
LEMMA InvHolds == Spec => []IInv
    BY InitInv, NextKeeps, PTL DEF Spec

\* The invariant bounds every variable.
LEMMA InvTypes == IInv => TypeOK
    <1> SUFFICES ASSUME IInv PROVE TypeOK  OBVIOUS
    <1>1. created \in Nat /\ created \in 0..MaxUid /\ Born \subseteq Uids
        BY MaxUidAssumption DEF IInv, ApiInv, Born, Uids
    <1>2. Doomed \subseteq Uids /\ Entitled \subseteq Uids /\ MaybeBorn \subseteq MaybeUid
        BY <1>1 DEF Doomed, Entitled, MaybeBorn, MaybeUid
    <1>3. SoundMessages \subseteq Messages  BY <1>1 DEF SoundMessages, Messages
    <1>4. /\ actor \in SoundActors /\ actor.do = Nothing /\ actor.cancelled = 0
        BY DEF IInv, ActorInv
    <1>5. /\ Starts \subseteq [uid : MaybeUid, start : BOOLEAN]
          /\ Stops \subseteq [uid : MaybeUid, graceful : BOOLEAN]
          /\ Flights \subseteq [kind : Kinds \cup {"none"}, uid : MaybeUid, op : Nat]
          /\ Deadlines \subseteq [uid : MaybeUid, fired : BOOLEAN]
        <2>1. Doomed \cup {NoUid} \subseteq MaybeUid /\ Born \subseteq MaybeUid /\ NoUid \in MaybeUid
            BY <1>1, <1>2 DEF MaybeUid
        <2>2. Starts \subseteq [uid : MaybeUid, start : BOOLEAN]
            <3>1. [uid : Born, start : BOOLEAN] \subseteq [uid : MaybeUid, start : BOOLEAN]  BY <2>1
            <3>2. NoStart \in [uid : MaybeUid, start : BOOLEAN]  BY <2>1 DEF NoStart
            <3> QED BY <3>1, <3>2 DEF Starts
        <2>3. /\ Stops \subseteq [uid : MaybeUid, graceful : BOOLEAN]
              /\ Deadlines \subseteq [uid : MaybeUid, fired : BOOLEAN]
            BY <2>1 DEF Stops, Deadlines
        <2>4. Flights \subseteq [kind : Kinds \cup {"none"}, uid : MaybeUid, op : Nat]
            BY <1>2 DEF Flights
        <2> QED BY <2>2, <2>3, <2>4
    <1>6. actor \in [phase : Phases, active : MaybeUid, admitted : MaybeUid, sandbox : BOOLEAN,
                  replacement : MaybeUid, pendingStart : [uid : MaybeUid, start : BOOLEAN],
                  pendingStop : [uid : MaybeUid, graceful : BOOLEAN], waiting : BOOLEAN,
                  inFlight : [kind : Kinds \cup {"none"}, uid : MaybeUid, op : Nat],
                  finalized : BOOLEAN, pendingRuntime : BOOLEAN, startupRetry : BOOLEAN,
                  deleteRetry : BOOLEAN, deadline : [uid : MaybeUid, fired : BOOLEAN],
                  lastRv : Nat, reconciled : BOOLEAN, deferred : Messages \cup {NoMessage},
                  do : {Nothing}, cancelled : {0}]
        <2>1. Entitled \cup {NoUid} \subseteq MaybeUid  BY <1>2 DEF MaybeUid
        <2> QED BY <1>2, <1>3, <1>4, <1>5, <2>1 DEF SoundActors
    <1>7. works \subseteq [kind : Kinds, uid : Uids, op : Nat, flag : BOOLEAN,
                        cancelled : BOOLEAN, stage : Stages, blocker : MaybeUid]
        BY <1>1 DEF IInv, WorksInv, SoundWork
    <1>8. mailbox \in Seq(Messages)
        <2>1. mailbox \in Seq(SoundMessages)  BY DEF IInv
        <2> QED BY <1>3, <2>1, SeqMonotonic
    <1>9. timers \in [Uids -> Nat] /\ outbox \in [Uids -> [rows : Nat, dead : BOOLEAN]]
        BY <1>1 DEF IInv, ApiInv, Timers
    <1>10. row \in [uid : MaybeUid, deleting : BOOLEAN, held : BOOLEAN, running : BOOLEAN]
        <2>1. {NoUid, created} \subseteq MaybeUid  BY <1>1, MaxUidAssumption DEF MaybeUid, Uids, NoUid
        <2> QED BY <2>1 DEF IInv, ApiInv
    <1>11. /\ sandbox \in [Uids -> {"none", "empty", "started"}] /\ slot \in MaybeUid
           /\ version \in Nat /\ remote \in BOOLEAN /\ upsets \in 0..MaxUpsets
        BY DEF IInv, RuntimeInv, ApiInv
    <1> QED BY <1>1, <1>6, <1>7, <1>8, <1>9, <1>10, <1>11 DEF TypeOK

\* Sandboxes and starts belong to entitled Pods.
LEMMA InvHoldsSlot == IInv => WantedHoldsSlot
    <1> SUFFICES ASSUME IInv, NEW u \in Uids, Wanted(u),
                        u \in sandboxes \/ \E w \in works : Starting(w) /\ w.uid = u
                 PROVE  slot = u
        BY DEF WantedHoldsSlot
    <1>1. u \in Entitled
        <2>1. CASE u \in sandboxes  BY <2>1 DEF IInv, RuntimeInv
        <2>2. CASE \E w \in works : Starting(w) /\ w.uid = u
            BY <2>2 DEF IInv, WorksInv, SoundWork, Starting
        <2> QED BY <2>1, <2>2
    <1> QED BY <1>1 DEF Entitled

\* Stops belong to doomed Pods.
LEMMA InvStopsDoomed == IInv => OnlyDoomedStopped
    BY DEF IInv, WorksInv, SoundWork, OnlyDoomedStopped, Doomed

\* Every variable of a Pod lifecycle keeps its type: no answer, timer, event
\* or restart leaves the actor (PodLifecycleState) with an operation, a
\* pending start or stop or a message of a Pod that was never created.
THEOREM PodTypes == Spec => []TypeOK
    BY InvHolds, InvTypes, PTL

\* However many Pods of a name follow one another and whatever comes late from
\* an earlier one, a Pod the API wants has a sandbox or a start under way only
\* while it holds the admission slot of the name (slot_admission.rs).
THEOREM WantedAlwaysHoldsSlot == Spec => []WantedHoldsSlot
    BY InvHolds, InvHoldsSlot, PTL

\* The actor never has a Pod stopped that nobody deleted, in any order of
\* events, answers, timers, orphans and restarts.
THEOREM OnlyDoomedEverStopped == Spec => []OnlyDoomedStopped
    BY InvHolds, InvStopsDoomed, PTL

\* The operation in flight always has a task that answers it, a DELETED event on
\* its way or a finalization of the Pod that the outbox still holds, as a row or
\* as a dead letter: handing the finalization over, dropping the answers of
\* operations given up, dead letters, their replays and restarts lose none.
THEOREM InFlightAlwaysAnswered == Spec => []InFlightAnswered
    <1>1. IInv => InFlightAnswered  BY DEF IInv
    <1> QED BY <1>1, InvHolds, PTL
==============================================================================
