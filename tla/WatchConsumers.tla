---------------------------- MODULE WatchConsumers ----------------------------
(*****************************************************************************)
(* A leader's store and watch session with one of its two kinds of consumer: *)
(* a worker's mirror or a client of the API server.                          *)
(*****************************************************************************)
EXTENDS WorkerMirror, ApiWatch

vars == <<storeVars, sessionVars, breaks, mirrorVars, apiVars>>

TypeOK == SessionTypeOK /\ MirrorTypeOK /\ ApiTypeOK

Init == SessionInit /\ MirrorInit /\ ApiInit

\* The initial frames leave before the session is pulled.
PullAfterInitial == Pull /\ baseline = NoBaseline

\* The server's apply task.
Applies ==
    \/ CatchUp /\ UNCHANGED <<sessionVars, breaks, mirrorVars, apiVars>>
    \/ Publish /\ UNCHANGED <<breaks, mirrorVars, apiVars>>

\* The server's task for the stream.
Streams ==
    \/ (Serve \/ PullAfterInitial) /\ UNCHANGED <<storeVars, breaks, mirrorVars, apiVars>>
    \/ MirrorSend /\ UNCHANGED <<storeVars, apiVars>>
    \/ (ApiAnchor \/ ApiInitial \/ ApiDeliver) /\ UNCHANGED <<storeVars, mirrorVars>>

Consumes ==
    \/ (MirrorList \/ MirrorOpen \/ MirrorRejected \/ MirrorApply) /\ UNCHANGED <<storeVars, apiVars>>
    \/ (ClientList \/ ClientWatch \/ ClientRejected) /\ UNCHANGED <<storeVars, mirrorVars>>

\* Nothing has been sent for a while.
Ticks ==
    \/ Heartbeat /\ UNCHANGED <<storeVars, apiVars>>
    \/ Bookmark /\ UNCHANGED <<storeVars, mirrorVars>>

Commands ==
    /\ \/ \E k \in Keys : PutResource(k) \/ DeleteResource(k)
       \/ \E ks \in Batches : ApplyResourceBatch(ks)
       \/ GcHistory
    /\ UNCHANGED <<sessionVars, breaks, mirrorVars, apiVars>>

\* The initial frames of a stream that is gone are lost.
Faults ==
    \/ /\ Failover /\ baseline' = NoBaseline
       /\ UNCHANGED <<breaks, mirrorVars, clientRv, clientView, through, delivered>>
    \/ MirrorBreak /\ UNCHANGED <<storeVars, apiVars>>
    \/ ClientBreak /\ UNCHANGED <<storeVars, mirrorVars>>

Next == Applies \/ Streams \/ Consumes \/ Ticks \/ Commands \/ Faults

Spec == Init /\ [][Next]_vars

\* Server and consumer go on while they can; ticks, commands and faults need
\* not happen.
FairSpec == Spec /\ WF_vars(Applies) /\ WF_vars(Streams) /\ WF_vars(Consumes)

------------------------------------------------------------------------------
\* What the consumer holds.
View == IF watcher = "worker" THEN reflected ELSE clientView

\* Nothing is on its way: the session waits for a signal, and what it has told
\* was received.
AtRest == Quiet /\ wire = <<>> /\ baseline = NoBaseline

\* A consumer that is told nothing more has been told everything: whichever
\* signals were dropped, coalesced or published before it subscribed, and
\* whichever baseline it resumed from, an idle watch shows the store
\* (next_event waits for a signal only after an empty page). An API client,
\* which resumes by resourceVersion, needs its events to have different ones.
QuietMeansCurrent == AtRest /\ (watcher = "worker" \/ RvsApart) => View = Matching(Latest.rows)

\* "Every await after it is covered by durable replay from the chosen cursor"
\* (PositionedWatchService::open): once commands and faults are over, the
\* worker shows the Pods of its node for good.
MirrorCatchesUp == <>[](View = Matching(Latest.rows))
==============================================================================
