------------------------------- MODULE ApiWatch -------------------------------
(*****************************************************************************)
(* A client's watch through the API server (build_label_selector_watch_      *)
(* stream): the client keeps a resourceVersion, the server a session and the *)
(* highest resourceVersion it has delivered, which its bookmarks carry.      *)
(*                                                                           *)
(* The HTTP stream is in order and dies with the session, so a frame in      *)
(* flight that gets lost is one that was not pulled.                         *)
(*****************************************************************************)
EXTENDS WatchSession

CONSTANTS
    Requests,  \* subset of {"list", "initial", "unset"}
    WaitEnds   \* whether READ_FRESHNESS_TIMEOUT or a lagged receiver ends the
               \* wait for a server that is behind

\* Keys: an initial state is told from NoBaseline.
ASSUME RequestsAssumption ==
    Requests \subseteq {"list", "initial", "unset"} /\ WaitEnds \in BOOLEAN /\ Keys # {}

VARIABLES
    clientRv,    \* resourceVersion the client resumes from; 0: it has none
    clientView,  \* the client's copy of the objects it watches
    through,     \* history: events up to here were delivered or listed
    delivered,   \* last_delivered_rv
    baseline     \* initial frames not yet sent, or NoBaseline

apiVars == <<clientRv, clientView, through, delivered, baseline>>

NoBaseline == <<>>

ApiTypeOK ==
    /\ clientRv \in Nat /\ through \in Nat /\ delivered \in Nat
    /\ clientView \in [Keys -> Row \cup {NoRow}]
    /\ baseline \in [Keys -> Row \cup {NoRow}] \cup {NoBaseline}

ApiInit ==
    /\ clientRv = 0 /\ clientView = NoRows /\ through = 0
    /\ delivered = 0 /\ baseline = NoBaseline

Larger(m, n) == IF m > n THEN m ELSE n

\* The client lists, to watch from the list's resourceVersion later (external).
ClientList ==
    /\ watcher # "worker" /\ phase = "closed" /\ clientRv = 0 /\ "list" \in Requests
    /\ clientRv' = Served.rv /\ clientView' = Matching(Served.rows)
    /\ through' = Len(Served.log)
    /\ UNCHANGED <<delivered, baseline, breaks>> /\ UNCHANGED sessionVars

\* wait_until_resource_version_fresh
Fresh(rv) == Served.rv >= rv \/ WaitEnds

\* The watch request: from the client's resourceVersion; with the initial
\* state, listed before the session opens at the list's position; or neither
\* (only a watch without selector starts without an initial state).
ClientWatch ==
    /\ watcher # "worker"
    /\ \/ /\ clientRv > 0
          /\ Fresh(clientRv)
          /\ delivered' = clientRv /\ Open(At(clientRv, 0), FALSE) /\ UNCHANGED baseline
       \/ /\ clientRv = 0 /\ "initial" \in Requests
          /\ delivered' = Served.rv /\ baseline' = Matching(Served.rows)
          /\ Open(CurrentPosition(Served), TRUE)
       \/ /\ clientRv = 0 /\ "unset" \in Requests /\ ~HasSelector
          /\ delivered' = 0 /\ Open(At(0, 0), FALSE) /\ UNCHANGED baseline
    /\ UNCHANGED <<clientRv, clientView, through, breaks>>

\* The session anchors a request without position. A client that asked for no
\* state is owed the events after the anchor.
ApiAnchor ==
    /\ ReadAnchor
    /\ through' = IF pos.rv = 0 THEN Len(Served.log) ELSE through
    /\ UNCHANGED <<clientRv, clientView, delivered, baseline, breaks>>

ApiInitial ==
    /\ phase = "live" /\ baseline # NoBaseline
    /\ clientView' = baseline /\ clientRv' = delivered /\ through' = pos.id
    /\ baseline' = NoBaseline
    /\ UNCHANGED <<delivered, breaks>> /\ UNCHANGED sessionVars

\* The next event of the session. The client resumes from what it saw last
\* (external); a synthesized DELETED carries the prior body's resourceVersion.
ApiDeliver ==
    /\ watcher # "worker" /\ baseline = NoBaseline
    /\ Pop
    /\ through' = Larger(through, pending[1].pos.id)
    /\ IF Told = {} THEN UNCHANGED <<clientRv, clientView, delivered>>
       ELSE LET e == CHOOSE f \in Told : TRUE
            IN  /\ delivered' = Larger(delivered, e.row.rv)
                /\ clientRv' = e.row.rv
                /\ clientView' = [clientView EXCEPT ![e.key] = IF e.type = "DELETED" THEN NoRow ELSE e.row]
    /\ UNCHANGED <<baseline, breaks>>

\* Mutant: the bookmark carries the store's resourceVersion.
BookmarkFresh == Served.rv

\* resolve_periodic_bookmark_rv: cursor_high_water_rv and the scoped one are
\* both last_delivered_rv; without a selector, 0 is replaced by a fresh list's.
BookmarkRv == IF delivered = 0 /\ ~HasSelector THEN Served.rv ELSE delivered

\* A tick may win over events that are ready.
Bookmark ==
    /\ watcher # "worker" /\ phase = "live" /\ baseline = NoBaseline
    /\ clientRv' = BookmarkRv
    /\ UNCHANGED <<clientView, through, delivered, baseline, breaks>> /\ UNCHANGED sessionVars

\* 410 makes the client start over, other errors make it retry (external).
ClientRejected ==
    /\ watcher # "worker" /\ phase \in {"expired", "refused"}
    /\ clientRv' = IF phase = "expired" THEN 0 ELSE clientRv
    /\ baseline' = NoBaseline
    /\ Close("closed")
    /\ UNCHANGED <<clientView, through, delivered, breaks>>

\* Timeout of the watch or a lost connection.
ClientBreak ==
    /\ watcher # "worker" /\ phase # "closed"
    /\ breaks < MaxBreaks
    /\ breaks' = breaks + 1
    /\ baseline' = NoBaseline
    /\ Close("closed")
    /\ UNCHANGED <<clientRv, clientView, through, delivered>>

------------------------------------------------------------------------------
\* No batch has written two objects that the watch is about.
RvsApart ==
    \A i, j \in 1..Len(Latest.log) :
        /\ i < j /\ {Latest.log[i].key, Latest.log[j].key} \subseteq Target
        => Latest.log[i].row.rv < Latest.log[j].row.rv

\* No event that changes what the client sees is at or below the
\* resourceVersion and still undelivered.
ReceivedThrough(rv) ==
    \A i \in (through + 1)..Len(Latest.log) : Latest.log[i].row.rv <= rv => ~Changes(i)

\* The client resumes without loss, whether its resourceVersion came from an
\* event, a bookmark or a list of another leader (build_label_selector_watch_
\* stream), while no two events of its scope share a resourceVersion.
ResumeSafe == RvsApart => ReceivedThrough(clientRv)

\* "you have received every event for this watch's scope with rv <=
\* bookmark_rv; you may resume from it" (resolve_periodic_bookmark_rv), of the
\* bookmark that a tick would send now. A batch breaks it between two of its
\* events.
BookmarkPromise ==
    watcher # "worker" /\ phase = "live" /\ baseline = NoBaseline => ReceivedThrough(BookmarkRv)
==============================================================================
