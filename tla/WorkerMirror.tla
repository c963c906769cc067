----------------------------- MODULE WorkerMirror -----------------------------
(*****************************************************************************)
(* A worker's mirror of the Pods of its node: LIST, then WATCH from the      *)
(* listed position over gRPC, reconnecting from the last applied position    *)
(* and listing again when the leader has forgotten it.                       *)
(*                                                                           *)
(* A snapshot whose publication fails leaves cursor, reflector and projector *)
(* as they were and is not a step here; back-off times are left out.         *)
(*****************************************************************************)
EXTENDS WatchSession

CONSTANT MaxWire  \* bound: frames in flight

ASSUME MirrorAssumption == MaxWire \in Nat \ {0}

VARIABLES
    cursor,     \* next_watch_replay_position, or NoCursor
    reflected,  \* ReflectorState: rows the node knows of
    projected,  \* membership of the worker's own SelectorWatchTransitionProjector
    wire,       \* frames in flight to the worker
    sent        \* last_position of the gRPC stream

mirrorVars == <<cursor, reflected, projected, wire, sent>>

NoCursor == [rv |-> 0, id |-> 0, thru |-> 1]

Heartbeats == [type : {"BOOKMARK"}, pos : Position]

MirrorTypeOK ==
    /\ cursor \in Position /\ sent \in Position
    /\ reflected \in [Keys -> Row \cup {NoRow}]
    /\ projected \in [Keys -> Row \cup {NoRow}]
    /\ wire \in Seq(Frame \cup Heartbeats)

MirrorInit ==
    /\ cursor = NoCursor /\ sent = NoCursor
    /\ reflected = NoRows /\ projected = NoRows /\ wire = <<>>

\* reconcile_watch_snapshot: rows and position come from one transaction.
MirrorList ==
    /\ watcher = "worker" /\ phase = "closed" /\ wire = <<>> /\ cursor = NoCursor
    /\ cursor' = CurrentPosition(Served)
    /\ reflected' = Matching(Served.rows) /\ projected' = reflected'
    /\ UNCHANGED <<wire, sent, breaks>> /\ UNCHANGED sessionVars

\* watch_resources from the cursor.
MirrorOpen ==
    /\ watcher = "worker" /\ wire = <<>> /\ cursor # NoCursor
    /\ Open(cursor, TRUE)
    /\ sent' = cursor
    /\ UNCHANGED <<cursor, reflected, projected, wire, breaks>>

\* The leader answers with an error, behind the frames on the wire. Only
\* ReplayExpired makes the worker list again.
MirrorRejected ==
    /\ watcher = "worker" /\ phase \in {"expired", "refused"} /\ wire = <<>>
    /\ cursor' = IF phase = "expired" THEN NoCursor ELSE cursor
    /\ Close("closed")
    /\ UNCHANGED <<reflected, projected, wire, sent, breaks>>

\* Mutant: the stream keeps the position it was opened at.
OpeningPosition(told) == sent

\* The position of the last event sent, for the heartbeats.
LastPosition(told) == IF told = {} THEN sent ELSE pending[1].pos

\* The gRPC stream takes the next event of the session.
MirrorSend ==
    /\ watcher = "worker" /\ Len(wire) < MaxWire
    /\ Pop
    /\ wire' = wire \o SetToSeq(Told)
    /\ sent' = LastPosition(Told)
    /\ UNCHANGED <<cursor, reflected, projected, breaks>>

\* No event within the heartbeat interval: a BOOKMARK at the last position.
Heartbeat ==
    /\ watcher = "worker" /\ phase = "live" /\ pending = <<>> /\ Len(wire) < MaxWire
    /\ wire' = Append(wire, [type |-> "BOOKMARK", pos |-> sent])
    /\ UNCHANGED <<cursor, reflected, projected, sent, breaks>> /\ UNCHANGED sessionVars

\* ReflectorState::observe
Observed(rows, e) ==
    IF e.type # "DELETED" THEN [rows EXCEPT ![e.key] = e.row]
    ELSE IF rows[e.key].uid = e.row.uid THEN [rows EXCEPT ![e.key] = NoRow]
    ELSE rows

\* One frame: checked against the cursor, projected, published, observed; the
\* cursor moves last. A frame that does not follow the cursor ends the stream.
MirrorApply ==
    /\ wire # <<>>
    /\ LET e == wire[1]
       IN  IF ~PermitsSuccessor(cursor, e.pos)
           THEN wire' = <<>> /\ Close("closed") /\ UNCHANGED <<cursor, reflected, projected>>
           ELSE /\ cursor' = e.pos
                /\ wire' = Tail(wire)
                /\ IF e.type = "BOOKMARK" THEN UNCHANGED <<reflected, projected>>
                   ELSE /\ projected' = Commits(projected, e)
                        /\ reflected' = IF Transition(projected, e) = {} THEN reflected
                                        ELSE Observed(reflected, CHOOSE f \in Transition(projected, e) : TRUE)
                /\ UNCHANGED sessionVars
    /\ UNCHANGED <<sent, breaks>>

\* Mutant: the cursor moves before the event is published.
CursorFirst == IF wire = <<>> THEN cursor ELSE wire[1].pos

\* The last applied position.
ResumeCursor == cursor

\* The connection breaks, or the next frame cannot be published: the stream is
\* dropped with what is in flight, and the worker resumes from its cursor.
MirrorBreak ==
    /\ watcher = "worker" /\ (phase # "closed" \/ wire # <<>>)
    /\ breaks < MaxBreaks
    /\ breaks' = breaks + 1
    /\ wire' = <<>> /\ Close("closed")
    /\ cursor' = ResumeCursor
    /\ UNCHANGED <<reflected, projected, sent>>

------------------------------------------------------------------------------
\* The reflector is the node's Pods at the cursor, body by body, through
\* reconnects, relists, lagging leaders and pruned history: no event is
\* skipped and none is applied that the cursor does not account for
\* (run_watch_mirror commits state and cursor together).
MirrorMatchesCursor ==
    watcher = "worker" /\ cursor # NoCursor => reflected = Matching(RowsAfter(Prefix(cursor)))

\* Frames, heartbeats included, always follow the cursor: the check in
\* advance_after_apply never ends a stream.
FramesFollowCursor == wire # <<>> => PermitsSuccessor(cursor, wire[1].pos)
==============================================================================
