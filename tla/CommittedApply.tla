---------------------------- MODULE CommittedApply ----------------------------
(*****************************************************************************)
(* The raft state machine: API commands on one resource name, materialised   *)
(* by a leader from its own cluster.db, committed by raft and applied by     *)
(* every replica to its cluster.db, with the applied log id kept in node.db. *)
(*                                                                           *)
(* The two files are written one after the other, so a crash between them    *)
(* makes the restarted replica apply its last entry again. Raft is external: *)
(* a proposal is appended to the one committed log or lost. Any server may   *)
(* build a proposal at any time: it leads in some term, and leadership says  *)
(* nothing about how far its own cluster.db has come.                        *)
(*****************************************************************************)
EXTENDS Integers, Sequences, FiniteSets

CONSTANTS
    Servers,     \* replicas
    Bodies,      \* resource bodies, resourceVersion and UID left out
    NoBody,      \* the body of an absent row and of a delete
    Uids,        \* UIDs a create may draw (a UUID: never drawn twice)
    NoUid,       \* the UID of an absent row
    Commands,    \* API commands in use: subset of the next line
    MaxLog,      \* bound: committed entries
    MaxPending,  \* bound: proposals built and not yet committed
    MaxCrashes   \* bound: crashes of replicas

ASSUME ApplyAssumption ==
    /\ Commands \subseteq {"create", "update", "patch", "delete"}
    /\ NoBody \notin Bodies /\ NoUid \notin Uids
    /\ MaxLog \in Nat /\ MaxPending \in Nat /\ MaxCrashes \in Nat

VARIABLES
    pending,      \* proposals on their way to raft
    log,          \* committed entries
    db,           \* db[s]: cluster.db of s
    lastApplied,  \* lastApplied[s]: index of the applied log id in node.db of s
    applying,     \* applying[s]: entry lastApplied[s] + 1 is in cluster.db, its
                  \* log id not yet in node.db, and the process is running
    reached,      \* history: entries that have ever entered cluster.db of s
    skewed,       \* history: some replica has applied a patch or a delete twice
    crashes

vars == <<pending, log, db, lastApplied, applying, reached, skewed, crashes>>

\* A mutation carried by a log entry. absent: require_absent; exp:
\* precondition_resource_version. No entry carries a resourceVersion of its
\* own: it is stamped at apply.
Entry == [op : {"put", "patch", "delete"}, absent : BOOLEAN, uid : Uids, exp : Nat,
          body : Bodies \cup {NoBody}]

\* base: the version a conditional update replaced, 0 for other events.
Event == [type : {"ADDED", "MODIFIED", "DELETED"}, uid : Uids, rv : Nat, base : Nat]

\* rv: metadata.resource_version of the store; uid, ver and body: the resource
\* row; events: table watch_events.
Db == [rv : Nat, uid : Uids \cup {NoUid}, ver : Nat, body : Bodies \cup {NoBody}, events : Seq(Event)]

EmptyDb == [rv |-> 0, uid |-> NoUid, ver |-> 0, body |-> NoBody, events |-> <<>>]

TypeOK ==
    /\ pending \subseteq Entry
    /\ log \in Seq(Entry)
    /\ db \in [Servers -> Db]
    /\ lastApplied \in [Servers -> Nat]
    /\ applying \in [Servers -> BOOLEAN]
    /\ reached \in [Servers -> Nat]
    /\ skewed \in BOOLEAN
    /\ crashes \in Nat

Init ==
    /\ pending = {} /\ log = <<>>
    /\ db = [s \in Servers |-> EmptyDb]
    /\ lastApplied = [s \in Servers |-> 0]
    /\ applying = [s \in Servers |-> FALSE]
    /\ reached = [s \in Servers |-> 0]
    /\ skewed = FALSE /\ crashes = 0

------------------------------------------------------------------------------
(* Building a proposal from the server's own rows. A command whose check     *)
(* fails here proposes nothing.                                              *)

Propose(entry) ==
    /\ Cardinality(pending) < MaxPending
    /\ Len(log) + Cardinality(pending) < MaxLog
    /\ pending' = pending \cup {entry}
    /\ UNCHANGED <<log, db, lastApplied, applying, reached, skewed, crashes>>

UsedUids == {e.uid : e \in pending} \cup {log[k].uid : k \in 1..Len(log)}

\* CreateResource: a fresh UID; absence is left to the apply.
BuildCreate(body) ==
    /\ "create" \in Commands
    /\ \E uid \in Uids \ UsedUids :
         Propose([op |-> "put", absent |-> TRUE, uid |-> uid, exp |-> 0, body |-> body])

\* UpdateResource with the resourceVersion the client read, which the build
\* has compared with the row.
BuildUpdate(view, body) ==
    /\ "update" \in Commands
    /\ view.uid # NoUid
    /\ Propose([op |-> "put", absent |-> FALSE, uid |-> view.uid, exp |-> view.ver, body |-> body])

\* PatchResource applied to the latest row (merge patch bound to the UID).
BuildPatch(view, body) ==
    /\ "patch" \in Commands
    /\ view.uid # NoUid
    /\ Propose([op |-> "patch", absent |-> FALSE, uid |-> view.uid, exp |-> 0, body |-> body])

\* DeleteResource: PutWatchEvent DELETED and DeleteResource in one commit.
BuildDelete(view) ==
    /\ "delete" \in Commands
    /\ view.uid # NoUid
    /\ Propose([op |-> "delete", absent |-> FALSE, uid |-> view.uid, exp |-> view.ver, body |-> NoBody])

\* client_write: appended to the committed log, or never.
CommitProposal(entry) ==
    /\ entry \in pending
    /\ pending' = pending \ {entry}
    /\ log' = Append(log, entry)
    /\ UNCHANGED <<db, lastApplied, applying, reached, skewed, crashes>>

LoseProposal(entry) ==
    /\ entry \in pending
    /\ pending' = pending \ {entry}
    /\ UNCHANGED <<log, db, lastApplied, applying, reached, skewed, crashes>>

------------------------------------------------------------------------------
(* apply_commit_in_tx_for_raft: one transaction. A failed precondition rolls *)
(* back to the savepoint and leaves the database as it was.                  *)

\* The next resourceVersion, the row and its event.
Written(uid, body, type, base, d) ==
    [rv     |-> d.rv + 1, uid |-> uid, ver |-> d.rv + 1, body |-> body,
     events |-> Append(d.events, [type |-> type, uid |-> uid, rv |-> d.rv + 1, base |-> base])]

\* Mutant: the resourceVersion precondition is checked at build time only.
AbsenceHolds(entry, d) == IF entry.absent THEN d.uid = NoUid ELSE d.uid # NoUid

\* validate_put_resource_apply_preconditions
PreconditionsHold(entry, d) ==
    IF entry.absent THEN d.uid = NoUid ELSE d.uid # NoUid /\ d.ver = entry.exp

\* Mutant: a put is applied without looking at the row.
PutBlindly(entry, d) ==
    Written(entry.uid, entry.body, IF d.uid = NoUid THEN "ADDED" ELSE "MODIFIED", entry.exp, d)

\* resolve_noop_put_resource: a body equal to the row's is dropped, without a
\* new resourceVersion; apply_put_resource otherwise.
ApplyPut(entry, d) ==
    IF \/ ~PreconditionsHold(entry, d)
       \/ d.uid = entry.uid /\ d.body = entry.body
    THEN d
    ELSE Written(entry.uid, entry.body, IF d.uid = NoUid THEN "ADDED" ELSE "MODIFIED", entry.exp, d)

\* Mutant: the patch keeps the resourceVersion of the store.
PatchUnstamped(entry, d) ==
    IF d.uid # entry.uid THEN d
    ELSE [d EXCEPT !.body = entry.body,
                   !.events = Append(d.events, [type |-> "MODIFIED", uid |-> d.uid, rv |-> d.rv, base |-> 0])]

\* apply_patch_resource_latest: rejected unless the row has the UID.
ApplyPatch(entry, d) ==
    IF d.uid # entry.uid THEN d ELSE Written(entry.uid, entry.body, "MODIFIED", 0, d)

\* Mutant: the event of a rejected delete is not rolled back.
DeleteKeepsEvent(entry, d) ==
    LET logged == [d EXCEPT !.rv = d.rv + 1,
                            !.events = Append(d.events, [type |-> "DELETED", uid |-> entry.uid,
                                                         rv |-> d.rv + 1, base |-> 0])]
    IN  IF d.uid = entry.uid /\ d.ver = entry.exp
        THEN [logged EXCEPT !.uid = NoUid, !.ver = 0, !.body = NoBody]
        ELSE logged

\* Mutant: the event names the row it finds at apply, not the one it was built from.
DeleteNamesRow(entry, d) ==
    [d EXCEPT !.rv = d.rv + 1, !.uid = NoUid, !.ver = 0, !.body = NoBody,
              !.events = Append(d.events, [type |-> "DELETED", uid |-> d.uid,
                                           rv |-> d.rv + 1, base |-> 0])]

\* apply_put_watch_event, then apply_delete_resource: rejected, event included,
\* when the row has the UID and another version; the row goes when it has both;
\* an absent row or another UID leaves the event alone (decide_resource_delete).
ApplyDelete(entry, d) ==
    LET logged == [d EXCEPT !.rv = d.rv + 1,
                            !.events = Append(d.events, [type |-> "DELETED", uid |-> entry.uid,
                                                         rv |-> d.rv + 1, base |-> 0])]
    IN  IF d.uid # entry.uid THEN logged
        ELSE IF d.ver # entry.exp THEN d
        ELSE [logged EXCEPT !.uid = NoUid, !.ver = 0, !.body = NoBody]

Applied(entry, d) ==
    CASE entry.op = "put" -> ApplyPut(entry, d)
      [] entry.op = "patch" -> ApplyPatch(entry, d)
      [] entry.op = "delete" -> ApplyDelete(entry, d)

------------------------------------------------------------------------------
(* SqliteRaftStateMachine::apply on one replica, and its restart.            *)

ApplyCommitted(s) ==
    /\ ~applying[s]
    /\ lastApplied[s] < Len(log)
    /\ LET k == lastApplied[s] + 1
       IN  /\ db' = [db EXCEPT ![s] = Applied(log[k], db[s])]
           /\ reached' = [reached EXCEPT ![s] = k]
           /\ skewed' = (skewed \/ (reached[s] = k /\ log[k].op # "put"))
    /\ applying' = [applying EXCEPT ![s] = TRUE]
    /\ UNCHANGED <<pending, log, lastApplied, crashes>>

\* write_applied_state
RecordApplied(s) ==
    /\ applying[s]
    /\ applying' = [applying EXCEPT ![s] = FALSE]
    /\ lastApplied' = [lastApplied EXCEPT ![s] = lastApplied[s] + 1]
    /\ UNCHANGED <<pending, log, db, reached, skewed, crashes>>

\* The replica dies between the two writes and restarts from node.db
\* (applied_state). Dying elsewhere changes nothing that is kept.
Crash(s) ==
    /\ applying[s]
    /\ crashes < MaxCrashes
    /\ crashes' = crashes + 1
    /\ applying' = [applying EXCEPT ![s] = FALSE]
    /\ UNCHANGED <<pending, log, db, lastApplied, reached, skewed>>

Build(s) ==
    \/ \E body \in Bodies : BuildCreate(body) \/ BuildUpdate(db[s], body) \/ BuildPatch(db[s], body)
    \/ BuildDelete(db[s])

Next ==
    \/ \E s \in Servers : Build(s) \/ ApplyCommitted(s) \/ RecordApplied(s) \/ Crash(s)
    \/ \E entry \in pending : CommitProposal(entry) \/ LoseProposal(entry)

Spec == Init /\ [][Next]_vars

------------------------------------------------------------------------------
Replays(s) == lastApplied[s] + 1 = reached[s] /\ ~applying[s]

\* Applying the last entry again after a crash does no harm when it is a put:
\* its own precondition or the equal body stops it, so neither the store's
\* resourceVersion nor the watch history moves (T1.3: one apply path).
PutsReplayInert ==
    [][\A s \in Servers :
         Replays(s) /\ applying'[s] /\ log[reached[s]].op = "put" => db'[s] = db[s]]_vars

\* Per incarnation the watch history and the store agree on every replica,
\* whatever is raced or rejected: a UID that was added is present exactly when
\* no DELETED event names it. A client that tracks UIDs is never told that a
\* living object is gone, nor left with one that is. Replicas that a replayed
\* patch or delete has set apart number their versions differently, and an
\* update of one incarnation may then meet its version on another.
WatchTellsPresence ==
    ~skewed => \A s \in Servers :
        LET Named(type) == {d.uid : d \in {db[s].events[i] : i \in {j \in 1..Len(db[s].events) :
                                                                      db[s].events[j].type = type}}}
        IN  Named("ADDED") \ Named("DELETED") = {db[s].uid} \ {NoUid}

\* The watch cursor works on every replica: each event has a resourceVersion
\* of its own, above all earlier ones, and none above the store's.
EventsIncrease ==
    \A s \in Servers :
        LET events == db[s].events
        IN  /\ \A i, j \in 1..Len(events) : i < j => events[i].rv < events[j].rv
            /\ \A i \in 1..Len(events) : events[i].rv <= db[s].rv

\* Optimistic concurrency across build and apply: an update replaces the very
\* version it names, though another proposal built from the same row may have
\* been committed in between; and that version is one of its own incarnation,
\* as long as the replicas number their versions alike.
NoLostUpdate ==
    \A s \in Servers :
        LET events == db[s].events
        IN  \A i \in 1..Len(events) :
                events[i].base # 0 =>
                    \E j \in 1..(i - 1) :
                        /\ events[j].rv = events[i].base
                        /\ skewed \/ events[j].uid = events[i].uid
                        /\ \A k \in (j + 1)..(i - 1) : events[k].uid # events[j].uid

\* "cluster.db is byte-identical across the cluster" (state_machine.rs): two
\* replicas that have taken in the same entries hold the same database.
ReplicasAgree ==
    \A s, t \in Servers : reached[s] = reached[t] => db[s] = db[t]

\* That promise is kept, crashes between the two files included, until a patch
\* or a delete is applied twice: a put that is replayed does not set replicas
\* apart.
AgreeUnlessSkewed == ~skewed => ReplicasAgree

\* "The stale delete is a no-op": for a client that tracks the name, the last
\* watch event tells what the store holds.
WatchMatchesStore ==
    \A s \in Servers :
        LET events == db[s].events
            last   == events[Len(events)]
        IN  events # <<>> =>
                IF last.type = "DELETED" THEN db[s].uid = NoUid
                ELSE db[s].uid = last.uid /\ db[s].ver = last.rv
==============================================================================
