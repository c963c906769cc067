----------------------------- MODULE LeaderOutbox -----------------------------
(*****************************************************************************)
(* The control plane's side of one outbox stream: the replicated state a     *)
(* stream position is decided against, how the leader materialises a command *)
(* into a commit from its own applied state, and how every replica applies   *)
(* that commit.                                                              *)
(*                                                                           *)
(* Raft is external: a proposed commit is either applied, once per proposal, *)
(* in a single order, or lost. `head` is the state after the last committed  *)
(* entry; a server's own state may lag behind it, also right after it has    *)
(* become leader, because leadership is read from raft metrics alone.        *)
(*****************************************************************************)
EXTENDS Integers, Sequences

CONSTANTS
    Servers,       \* control-plane servers
    MaxElections   \* bound: changes of leader

ASSUME ServersAssumption == Servers # {} /\ MaxElections \in Nat

VARIABLES
    head,       \* cluster state after the committed log
    applied,    \* applied[s]: the cluster state server s has reached
    leader,     \* the server raft metrics name as leader
    elections,
    effects     \* history: positions whose command changed public state

leaderVars == <<head, applied, leader, elections, effects>>

\* The Pod incarnation the stream belongs to: "terminating" is being deleted
\* with no finalizer left, "replaced" is absent with another Pod of its name.
PodState == {"live", "terminating", "absent", "replaced"}
Present(state) == state.pod \in {"live", "terminating"}

\* wm: outbox_stream_watermarks.last_seq; ledger: applied_outbox keys, failed:
\* those of them holding an error result; maxStamp: MAX(status_stamp) of the
\* subject's ledger rows; shown: the stamp of the status the Pod carries (a
\* status equal to the one it carries counts as shown); ver: the Pod's
\* resourceVersion, counted in writes of this Pod.
ClusterState == [wm : Nat, ledger : SUBSET Nat, failed : SUBSET Nat,
                 pod : PodState, maxStamp : Nat, shown : Nat, ver : Nat]

EmptyState == [wm |-> 0, ledger |-> {}, failed |-> {}, pod |-> "live",
               maxStamp |-> 0, shown |-> 0, ver |-> 1]

LeaderTypeOK ==
    /\ head \in ClusterState
    /\ applied \in [Servers -> ClusterState]
    /\ leader \in Servers
    /\ elections \in 0..MaxElections
    /\ effects \in Seq(Nat)

LeaderInit ==
    /\ head = EmptyState
    /\ applied = [s \in Servers |-> EmptyState]
    /\ leader \in Servers
    /\ elections = 0
    /\ effects = <<>>

------------------------------------------------------------------------------
(* Admission on the leader, before anything is proposed.                     *)

\* authorize_live_pod_metadata and the checks before it. "go": the command
\* itself is proposed. Any other verdict is a terminal error, for which the
\* terminal-decision sentinel is proposed at the same position.
Admit(command, view) ==
    CASE command.kind = "bad" -> "invalid"
      [] command.kind \in {"meta", "finalize"} /\ view.pod = "absent" -> "notFound"
      [] command.kind \in {"meta", "finalize"} /\ view.pod = "replaced" -> "uidMismatch"
      [] OTHER -> "go"

\* What the proposal build finds at the position: the ledger and the watermark
\* decide before the command is looked at.
AlreadyApplied(n, view) == n \in view.ledger \/ n <= view.wm

StreamGap(n, view) == ~AlreadyApplied(n, view) /\ n # view.wm + 1

\* The commits the build may produce for a command admitted with `verdict`:
\* the mutation it carries, the resourceVersion that is its precondition at
\* apply (0: none) and the answer given once it has been applied.
LedgerOnly(answer) == [effect |-> "none", exp |-> 0, answer |-> answer]
Mutates(effect, exp) == [effect |-> effect, exp |-> exp, answer |-> "ok"]

\* UpdateStatus, with the Pod's stamp checked ahead of the apply.
BuiltStatus(command, view) ==
    {IF command.stamp <= view.maxStamp THEN LedgerOnly("ok") ELSE Mutates("status", 0)}

\* A metadata update conflicts when the Pod has moved on since the worker read
\* it, or is rebased on the current Pod, possibly leaving nothing to change.
BuiltMetadata(view) ==
    {Mutates("meta", view.ver), Mutates("meta", 0), LedgerOnly("ok"), LedgerOnly("conflict")}

\* FinalizeBoundPod conflicts when the Pod was written since the live check;
\* a Pod that is not terminating is left alone.
BuiltFinalization(view) ==
    {LedgerOnly("conflict"),
     IF view.pod = "terminating" THEN Mutates("finalize", 0) ELSE LedgerOnly("ok")}

BuiltForPresentPod(command, view) ==
    CASE command.kind = "status" -> BuiltStatus(command, view)
      [] command.kind = "meta" -> BuiltMetadata(view)
      [] OTHER -> BuiltFinalization(view)

\* terminal_error_for_stale_uid_bound_pod comes first; a finalization of a Pod
\* that is gone has nothing left to do.
Materialized(command, verdict, view) ==
    IF verdict # "go" THEN {LedgerOnly(verdict)}
    ELSE IF Present(view) THEN BuiltForPresentPod(command, view)
    ELSE IF command.kind = "finalize" THEN {LedgerOnly("ok")}
    ELSE {LedgerOnly(IF view.pod = "absent" THEN "notFound" ELSE "uidMismatch")}

------------------------------------------------------------------------------
(* apply_commit_in_tx_for_raft: the deterministic apply of one commit.       *)

\* decide_status_stamp: an older-or-equal stamp records the ledger only.
StaleStamp(command, state) == command.kind = "status" /\ command.stamp <= state.maxStamp

\* Whether the commit's mutation changes public state when it is applied.
TakesEffect(command, commit, state) ==
    \/ commit.effect = "status" /\ ~StaleStamp(command, state) /\ Present(state)
    \/ commit.effect = "meta" /\ Present(state) /\ commit.exp \in {0, state.ver}
    \/ commit.effect = "finalize" /\ state.pod = "terminating"

\* A UID, existence or resourceVersion precondition fails at apply: rolled
\* back to the savepoint, position and key still consumed. A finalization has
\* no precondition left: it is dropped silently.
Rejected(command, commit, state) ==
    /\ commit.effect \in {"status", "meta"}
    /\ ~TakesEffect(command, commit, state)
    /\ ~(commit.effect = "status" /\ StaleStamp(command, state))

\* Mutant: no duplicate is recognised.
NeverDuplicate(n, state) == n \notin Nat

Duplicate(n, state) == n \in state.ledger \/ n <= state.wm

\* The sentinel's ledger row belongs to another subject and carries no stamp.
StampRecorded(command, commit) ==
    IF command.kind = "status" /\ commit.verdict = "go" THEN command.stamp ELSE 0

\* Mutants: the ledger row is written for successful commands only; the stamp
\* column keeps the last stamp instead of the largest.
ConsumeWithoutErrorRow(n, command, commit, state) ==
    [state EXCEPT !.wm = n,
                  !.ledger = IF commit.answer = "ok" THEN state.ledger \cup {n} ELSE state.ledger]

ConsumeLastStamp(n, command, commit, state) ==
    LET stamp == StampRecorded(command, commit)
    IN  [state EXCEPT !.wm = n,
                      !.ledger = state.ledger \cup {n},
                      !.maxStamp = stamp,
                      !.shown = IF TakesEffect(command, commit, state) /\ commit.effect = "status"
                                THEN stamp ELSE state.shown]

Consume(n, command, commit, state) ==
    LET effect == TakesEffect(command, commit, state)
        stamp  == StampRecorded(command, commit)
        error  == commit.answer # "ok" \/ Rejected(command, commit, state)
    IN  [wm       |-> n,
         ledger   |-> state.ledger \cup {n},
         failed   |-> IF error THEN state.failed \cup {n} ELSE state.failed,
         pod      |-> IF effect /\ commit.effect = "finalize" THEN "absent" ELSE state.pod,
         maxStamp |-> IF stamp > state.maxStamp THEN stamp ELSE state.maxStamp,
         shown    |-> IF effect /\ commit.effect = "status" THEN command.stamp ELSE state.shown,
         ver      |-> IF effect THEN state.ver + 1 ELSE state.ver]

Apply(n, command, commit, state) ==
    IF Duplicate(n, state) THEN state ELSE Consume(n, command, commit, state)

\* propose_outbox_command_effect after client_write: an error result of the
\* apply is a terminal conflict whatever the build had concluded;
\* consume_terminal_sequence takes a conflict for its sentinel as unproven.
ProposalAnswer(n, command, commit, state) ==
    IF \/ n \in state.failed
       \/ ~Duplicate(n, state) /\ Rejected(command, commit, state)
    THEN IF commit.verdict = "go" THEN "conflict" ELSE "retry"
    ELSE commit.answer

------------------------------------------------------------------------------
(* Committed entries reach `head` and the server that proposed them (its     *)
(* client_write returns after the apply); that may be a former leader.       *)

\* Mutant: the mutation the leader built is carried out as built.
CommitAsBuilt(n, command, commit, s) ==
    /\ head' = Consume(n, command, commit, head)
    /\ applied' = [applied EXCEPT ![s] = head']
    /\ effects' = IF commit.effect = "none" THEN effects ELSE Append(effects, n)
    /\ UNCHANGED <<leader, elections>>

CommitEntry(n, command, commit, s) ==
    /\ head' = Apply(n, command, commit, head)
    /\ applied' = [applied EXCEPT ![s] = head']
    /\ effects' = IF ~Duplicate(n, head) /\ TakesEffect(command, commit, head)
                  THEN Append(effects, n) ELSE effects
    /\ UNCHANGED <<leader, elections>>

\* Other writers of the Pod: graceful delete, forced removal, a new Pod of the
\* same name, and the removal of that one.
PodTransitions == {<<"live", "terminating">>, <<"terminating", "absent">>,
                   <<"absent", "replaced">>, <<"replaced", "absent">>}

OtherWrite(next, s) ==
    /\ <<head.pod, next>> \in PodTransitions
    /\ head' = [head EXCEPT !.pod = next, !.ver = IF Present(head) THEN head.ver + 1 ELSE head.ver]
    /\ applied' = [applied EXCEPT ![s] = head']
    /\ UNCHANGED <<leader, elections, effects>>

CatchUp(s) ==
    /\ applied[s] # head
    /\ applied' = [applied EXCEPT ![s] = head]
    /\ UNCHANGED <<head, leader, elections, effects>>

Elect(s) ==
    /\ elections < MaxElections
    /\ s # leader
    /\ leader' = s
    /\ elections' = elections + 1
    /\ UNCHANGED <<head, applied, effects>>
==============================================================================
