# klights: TLA+ models and proofs

klights is a Kubernetes distribution in one Rust binary: API server, raft-replicated
store, controllers, kubelet and service routing. This directory models the parts of it
that are hardest to test: how what a worker node knows reaches the replicated store, what
a replica does with what raft has committed, how watchers learn of it, and how the kubelet
starts and stops the Pods of one name. Paths below are relative to `src/crates/`.
`PROJECT.json` holds the exact correspondence of every definition with the lines it
stands for.

## 1. The system

### Components

| Component | State | Operations | Talks to |
|---|---|---|---|
| Pod status stamp allocator (`klights-kubelet/src/node_outbox`) | `StampState` behind an async mutex; a high-water mark in node.db | `next_status_stamp` | node.db executor |
| Node outbox and dispatcher (`klights-kubelet/src/node_outbox`, `klights-node-datastore/src/delivery*`) | tables `outbox`, `outbox_dead_letter`, `outbox_stream_sequences`; leases | enqueue, claim, deliver, settle, supersede, requeue, dead-letter, replay | leader over RPC, node.db |
| Outbox delivery on the leader (`klights-replication/src/leader_api.rs`, `proposal.rs`) | none of its own: reads cluster.db | admit, build, propose, answer | raft, cluster.db |
| Raft state machine and committed apply (`klights-replication/src/state_machine.rs`, `klights-cluster-datastore/src/sqlite`) | cluster.db (resources, watch events, `applied_outbox`, watermarks); applied log id in node.db | build a commit from a command, apply a committed entry | raft, watchers |
| Watch sessions and signals (`klights-watch/src`, `klights-cluster-datastore/src`) | replay position, selector membership, pending page, signal queue; watch history and retention floors in cluster.db | subscribe, anchor, read the baseline, replay, deliver, expire, prune | cluster.db, consumers |
| Worker store and reflector (`klights-kubelet/src/worker_store`) | cursor, reflected Pods, projector | list, watch, apply a frame, resume, relist | leader over RPC, Pod actors |
| API server watches (`k8s-native-service`) | highest delivered resourceVersion, initial frames | list, watch, bookmark, deliver | sessions, clients |
| Pod lifecycle actor, core and router (`klights-kubelet/src/pod_lifecycle_actor`, `pod_lifecycle`) | phase, active UID, work in flight, deferred events, mailbox, timers | handle an event, an answer, a timer, a command; start, stop, finalize, wait for the slot | container runtime, slot table, outbox |
| Pod delete coordinator and work queue | dirty and processing sets, deadlines | enqueue, take, finish, retry | lifecycle actor, outbox |
| Raft snapshots | snapshot files, cluster.db, node.db | build, install | raft |
| Leader authority, flow control, membership, join, codec activation | permits, drain, voter set | acquire, drain, change membership | raft |
| Raft log storage and network | log, vote, connections | append, truncate, send | openraft |
| Pod repository and status checkpoints | cached Pods, checkpoints | read, update status, checkpoint | outbox |
| Task supervisor and SQLite executor | task registry, FIFO per database | spawn, call, shut down | everything |
| Controllers, API server, admission, authentication and authorisation | caches, queues | reconcile, serve | store |
| Service routing, CNI, WireGuard, subnet allocation | kernel tables | render, coalesce | kernel |
| Leader RPC transport, codecs, redb backend, bootstrap | | | |

A status update takes this way. The kubelet draws a **stamp** (`StatusStamp`) and
enqueues a row in its **outbox**, at the next position of the Pod's **stream**. The
**dispatcher** leases the lowest position and calls the leader. The leader admits the
command against live state, **builds** a commit from its own cluster.db, **proposes** it
to raft, and answers once it has been applied. The **apply** consumes the position in the
ledger and the watermark, mutates the Pod if its preconditions still hold, and appends a
watch event. The dispatcher settles its row by the answer: complete it, retry it,
dead-letter it. An administrator may **replay** a dead letter.

A change comes back this way. The apply publishes a **signal**; a **session** that is
woken up replays the retained events after its **position** through the **membership** of
its selector, and hands them to a worker's mirror or to a client of the API server. A
consumer that was away resumes from its position, for which the session reconstructs the
membership from the current rows and the retained events; when history has been pruned
past the position, it lists again. The worker routes what it mirrors to the **actor** of
the Pod's name, which has one task at a time work on the container runtime, under the
**slot** of the name, and hands the end of a deleted Pod to the outbox.

### What is hard, and what makes it correct

* *Lost and late answers.* A call outlives its caller; a retry runs beside it and both
  may commit. Correct: each position has its effect once, in stream order
  (`EffectsInOrder`, `ImplementsStream`), and none is given up undecided
  (`UnconsumedIsHeld`).
* *Stale reads.* A commit is built from a view that may lag behind the head (also on a
  new leader) and applied to a head that has moved on. Correct: no gap enters the log
  (proved: `GapNeverCommitted`), the newest status wins (`NewestStatusShown`), an update never
  overwrites what its author has not seen (`NoLostUpdate`).
* *Crashes between two writes.* Ceiling and memory (`SeedCoversIssued`), settlement and
  lease (`RowsSettle`), cluster.db and node.db (`PutsReplayInert`, `AgreeUnlessSkewed`).
* *Races on the worker.* Two status writers in the opposite order of their stamps; two
  replays of one dead letter; a replay beside a live call (`NoOvertaking`).
* *Boundaries.* i64 saturation of the stamp, the last attempt, the limits of the ledger
  (`StampsIncrease`, `LedgerMatchesWatermark`).
* *Watch history.* A rejected or replayed commit must not leave an event that contradicts
  the store (`WatchTellsPresence`, `EventsIncrease`).
* *Baselines read in pieces, dropped signals, pruned history, lagging servers.* Correct:
  from the first page on the membership is that of the session's place in the log
  (`MembershipFaithful`), the mirror is that of its cursor (`MirrorMatchesCursor`), a
  resourceVersion to resume from hides nothing (`ResumeSafe`), and an idle watch is a
  current one (`QuietMeansCurrent`), the last two as long as no batch gives two events of
  the watch the same resourceVersion.
* *Late messages of an earlier Pod of the name.* Correct: a Pod nobody deleted is not
  stopped (`OnlyDoomedStopped`), nor is its slot taken away (`WantedHoldsSlot`), nor does
  anything but a retry timer start it twice (`OnlyRetriesOverlap`); the actor never waits for what
  nobody can answer any more (`InFlightAnswered`), and what is deleted goes
  (`DeletedPodsGo`).

`PROJECT.json` lists the hazards line by line, the ones no property covers included.

## 2. Modules

```
StatusStamp                    OutboxStream   (abstract)
     |                              ^ refined by
StatusStampProofs              OutboxDelivery ---- OutboxDeliveryProofs ---- OutboxHeldProofs
MCStatusStamp                    /       \   \
                          NodeOutbox  LeaderOutbox  MCOutboxDelivery

CommittedApply ---- CommittedApplyProofs, MCCommittedApply

WatchStore                     PodActor
     |                             |
WatchSession                   PodRuntime
   /      \                        |
WorkerMirror  ApiWatch         PodLifecycle ---- PodLifecycleProofs, MCPodLifecycle
   \      /
WatchConsumers ---- WatchConsumersProofs (with WatchStoreProofs) ---- WatchClientProofs
                    MCWatchConsumers
```

**`StatusStamp`**: `Outbox::next_status_stamp`. The holder of the mutex is in one of the
stages `read` (awaiting the seed), `choose`, `write` (awaiting the ceiling write). The
future can be dropped at each await (`Abandon`) while the node.db executor still owns the
write: `writes` is that FIFO. Store errors, a crash at any point, and a wall clock that
reads anything are part of it. Arithmetic saturates at `I64Max`.

**`NodeOutbox`**: node.db's outbox tables and the dispatcher, for the stream of one Pod
incarnation. Streams share nothing but the claim window and a claim takes at most one row
of a stream, so one stream carries the whole ordering argument. `Claim` is the SQL of
`OUTBOX_CLAIM_DUE`; `Settle(answer)` is `process_claimed_row` after the call returned,
with one way out per answer and the failure of node.db as another; `Supersede` is the
clean-up after a delivered terminal Pod delete; `ReplayRead`/`ReplayInsert` are the two
calls of `replay_dead_letter`. Time is abstracted: a row not under lease may be due, an
ownerless lease may expire, at any moment.

**`LeaderOutbox`**: the replicated state a position is decided against (`wm`, `ledger`,
`failed`, the Pod, its newest recorded stamp and the stamp it shows), admission (`Admit`),
the build (`Materialized`: the set of commits the leader can produce from its view) and
the deterministic apply (`Apply`, `Consume`, `TakesEffect`, `Rejected`). `head` is the
state after the committed log; `applied[s]` is what server `s` has reached. Other writers
delete, force-remove and re-create the Pod (`OtherWrite`).

**`OutboxDelivery`** joins the two by the calls in flight (`sent`, `admitted`,
`proposed`, `answered`); `mine` marks the call the dispatcher is waiting for. A timeout, a
lost answer or a crash orphans a call, which goes on at the leader. `Refuse` stands for
every way the leader turns a call away without a proposal.

**`OutboxStream`** is the promise: `Submit` appends a command, `Decide` consumes the next
one, which takes effect then or never; nothing takes effect after the finalization and no
status over a newer one. `OutboxDelivery` implements it with `stream <- cmd`,
`consumed <- head.wm` (`ImplementsStream`).

**`CommittedApply`**: create, conditional update, latest-row patch and delete of one name.
A command is built from the rows of the building server, committed or lost, and applied
on each replica in two writes, `ApplyCommitted` (cluster.db) and `RecordApplied`
(node.db), with `Crash` between them. Any server may build at any time, since leadership
says nothing of how far its own database has come. The history variable `skewed` records
that a patch or a delete was applied twice around a crash. From then on replicas number
their versions differently, and an update, which carries a resourceVersion and no UID, may
meet its version on another incarnation of the name. Up to then `AgreeUnlessSkewed` and
`WatchTellsPresence` hold, and `NoLostUpdate` says that the version an update replaces is
one of its own incarnation; that it replaces the version it names holds always.

**`WatchStore`**: cluster.db as the watch path reads it: rows, the watch history and its
retention (`GcWatchEvents`, floors per scope), the algebra of replay positions
(`Represents`, `AdvanceThrough`, `PermitsSuccessor`), pages, and the reconstruction of a
row at a position from the current row and the retained events read backwards
(`Identity`). A command has one resourceVersion and an event for each object it writes,
so the events of a batch (`ApplyResourceBatch`) share theirs (`Logged`). Operators only.

**`WatchSession`**: a leader that applies commands, signals them (`Publish`, a bounded
channel that drops its oldest), prunes and fails over to a server that lags; and a
positioned session: `Open`, `ReadAnchor`, the baseline (`CheckFloor`, `ReadCurrent`,
`ReadTouched`, `ReadRow`, `ReadIdentity`, `AcceptBaseline`), `ReplayOnce`, `RecvSignal`,
and the selector's membership (`Transition`, `Commits`). `read_db_call` opens no
transaction, so each statement of a baseline is a step: the check of the floor, which
each of the three reads begins with, and the read itself, of the current keys, of the
touched keys, and for one key after the other of its row (`found`) and of its events.
History may be pruned between any two of them, and a baseline may then be wrong; what
saves the session is the first page, which looks at the floors again. All replicas go
through the same databases, so the store is the history of databases and the index the
current server has applied.

**`WorkerMirror`** and **`ApiWatch`** are the consumers: a worker that lists, watches over
gRPC with frames and heartbeats on the wire, and keeps cursor, reflector and projector
together; and a client that lists or asks for the initial state, gets bookmarks and
resumes from a resourceVersion. **`WatchConsumers`** composes each with the session and
states what only the composition can (`QuietMeansCurrent`, `MirrorCatchesUp`).

**`PodActor`**: the handlers of the actor of one Pod name, as operators from an actor and
a message to an actor with the action it asks for. **`PodRuntime`**: the work tasks on
the runtime, step by step (slot admission, sandbox, containers, stop, finalization), each
step of which can fail, be cancelled or find the Pod gone. **`PodLifecycle`** composes them
with the mailbox, the timers, the API row, the outbox, the deferred-delete queue, CRI
events, probe commands, the sandbox collector and restarts of the kubelet. The watch
stream and the mailbox are one queue, into which messages of the node itself are inserted
anywhere after the last such message. An answer is handled in the step that delivers it.
Finalizations wait in the outbox of their UID (`outbox`), from where they are delivered
(`SettleFinalization`), moved to the dead letters after the last attempt or on a terminal
error (`DeadLetterFinalization`; a replaced Pod makes `SettleFinalization` itself do that)
and put back by an administrator (`ReplayDeadLetter`); behind a dead letter nothing of the
UID is sent. The deferred-delete queue is the leader's and wakes its own actors only
(`DeleteWake`): for a worker's Pod that carries the delete mark it writes nothing.
Timers are counted per UID, since nothing deduplicates them; works that nobody listens to
and that cannot touch the node any more are dropped (`Relevant`). A
deadline fires once per UID.

openraft and the container runtime are external: a proposal is appended to one committed
log or lost; a runtime call succeeds, fails, or reports that its object is gone. The crash
of a process is external as well.

## 3. Runs

| Run | Shows |
|---|---|
| `StatusStamp` | Stamps strictly increase and every possible seed covers those issued. |
| `OutboxOrder` | Two racing status writers and a finalization, retries beside orphaned calls, codec refusals: `UnconsumedIsHeld`, `NewestStatusShown`, `ImplementsStream`. |
| `OutboxReplay` | One attempt only, so that every failure dead-letters; two positions and room to replay both, two replays beside late calls, two servers with an election to a lagging one: `EffectsInOrder`, `NoOvertaking`, `LedgerMatchesWatermark`, `NewestStatusShown`, `ImplementsStream`. |
| `OutboxLiveness` | Every kind of row, a replay and a crash: `UnconsumedIsHeld`, and `RowsSettle` under `FairSpec`. |
| `CommittedApply` | `WatchTellsPresence`, `EventsIncrease`, `NoLostUpdate`, `AgreeUnlessSkewed`, `PutsReplayInert`. |
| `WatchConsumers` | A worker's mirror, a scoped and an unscoped API watch, over single commands and batches: `MembershipFaithful`, `MirrorMatchesCursor`, `FramesFollowCursor`, `ResumeSafe`, `QuietMeansCurrent`. |
| `PodLifecycle` | Two Pods of one name, the first deleted, on a worker and on the leader: `WantedHoldsSlot`, `OnlyDoomedStopped`, `InFlightAnswered`, `OnlyRetriesOverlap`. |
| `PodDeletion` | `DeletedPodsGo` under `FairSpec`, with a finalizer held and released on a worker, over a fault, a restart or a CRI event, and on the leader over a probe command. |
| `OutboxSupersede`, `ApplyReplay`, `WatchResume`, `WatchBatch` | Violations: see the findings. |

**Bounds.** Every bound is a named constant. Stamps: four stamps, a block of two, a clock
that reads 0, 3 or 7 and `I64Max = 9` reach a clock step in both directions, a ceiling
renewed twice, two writes queued at once, and saturation. Streams: two positions are
enough for a reordering or an overtaking, three for two statuses and a finalization
(`OutboxOrder`). Two calls are a
retry beside the orphan of the attempt before it. Two attempts separate "retry" from "last
attempt"; one makes the last attempt immediate where replays are the subject.
`MaxInserts` counts enqueues and replays together: with four, both positions of
`OutboxReplay` are enqueued and replayed, or one of them twice beside the other. A
crash of the worker is left to `OutboxLiveness`. A second server is
enough for a lagging view, and one election for the old and new leader's proposals to
meet. `CommittedApply` has five entries, enough for create, delete, create, a stale delete
and one more, two UIDs, two bodies (an update may change nothing) and one crash. Watches:
three commands are a create, a change or delete, or a batch of two objects, and a
pruning that hits a baseline between two statements or a client that is away; pages of
two rows and a history of one make replays take several pages and expire; one signal
fills the channel; one frame in flight (`MaxWire`) is a frame that can be lost with the
connection. Pods: two UIDs are a late message of an earlier Pod; two upsets combine a
restart with a failing task or a dead letter; mailbox and tasks are bounded where messages could pile up
(`MaxMailbox`, `MaxTasks`, and `MaxTimers` for the wakes of the deferred-delete queue), and
a delivery of what is there is never bounded. CRI events are left to `PodDeletion`: with
them `PodLifecycle` passes too, on 2.8 million states instead of 1.4. Symmetry is
over servers, calls, replays, bodies and UIDs, which are interchangeable; watch and Pod
UIDs are ordered and use none, nor do the liveness runs.

**Deadlock.** Checked in the outbox, stamp and watch runs. The `CommittedApply` and Pod
runs do not check it: replicas rest once they have applied a log that has reached its
bound and no client proposes, and so do Pods that run or are gone.

**Fairness.** `OutboxLiveness`: weak fairness of the dispatcher's claim, of the supersede
step, of the requeue of ownerless leases (the dispatcher loop runs each round
unconditionally, and a lease has an expiry time), and of the end of a call the dispatcher
waits for (`Reply` or `GiveUp`: the leader client puts a deadline on every unary call).
Weak fairness of each call at the leader: it is refused, built, committed or lost, since a
client_write ends. Strong fairness of a settlement that changes the tables says that
node.db does not refuse every statement for ever; without it a broken disk keeps a row for
ever, which is what the code does. Nothing is assumed of crashes, refusals or success:
calls may fail every time, and the row then ends as a dead letter. Codec refusals are left
out of this run: such a row is retried without a limit on purpose. `PodDeletion`: weak
fairness of the actor's receive, of answers, retry timers, work tasks and the settlement
of the outbox, and of the wakes of the deferred-delete queue, each of which is a loop or a
task the runtime polls. The outbox of this run delivers: a dead letter waits for an
administrator, who is owed nothing. The wakes are for the leader's own Pods only.
On a worker two ways remain for a deleted Pod to wait for its next event or a restart of
the kubelet, and they are left out of the run by name (`Recoverable`) or by its one
upset: a probe command that displaces a forced stop, which no retry timer and no wake
makes up for, and a failed finalization followed by a CRI event. `WatchResume`: weak fairness of the apply task, of the stream's task and of
the consumer; commands, ticks and faults are owed nothing.

## 4. Proofs

Proved by TLAPS for every value of the constants, from the assumptions named in the
modules (`StampAssumption`, `OutboxAssumption`, `ServersAssumption`, `RefusalAssumption`,
`ApplyAssumption`, and those of the watch and Pod modules: types, a non-empty set of
servers, at least one attempt, a positive block).

*Stamps* (`StatusStampProofs`): `TypeCorrect`, `StampsAlwaysIncrease`, `SeedAlwaysCovers`.
The two invariants are not inductive: a queued ceiling whose caller is gone may land after
later ones were chosen. `IInv` adds that the ceiling in memory is below what node.db holds
and below every write still queued (`CeilingDurable`), that the holder's write is the
youngest (`HolderWriteLast`), and that every stamp issued is below every ceiling a crash
could leave behind (`IssuedCovered`).

*Delivery* (`OutboxDeliveryProofs`): `DeliveryTypes`, `EffectsAlwaysInOrder`,
`GapNeverCommitted`, `LedgerAlwaysMatches`, `NewestAlwaysShown` and
`DeliveryImplementsStream`. Most steps are *quiet*: they leave the decided state alone
and change calls only in ways that keep them sound (`QuietSteps`, `QuietKeepsIInv`). The
argument is in two steps. A build looks at a view that is `Behind` the head: fewer
decisions, older stamps, possibly a Pod that is gone, never the other way round
(`ViewsBehind`). Hence a position next to the view's watermark is at most next to the
head's (`NoGapCommitted`), and a status built without effect has lost to a recorded stamp
or to the end of the Pod, which stays true as the head moves (`ProposedSound`). A commit
then either repeats a decided position, which `LedgerMatchesWatermark` turns into a
no-op, or is the next one, where `EffectsRecorded` relates the history of effects to the
head and gives order, newest status and the refinement. For the refinement, quiet steps
submit or stutter (`QuietRefines`) and a commit decides or stutters (`CommitRefines`).

*Nothing undecided is lost* (`OutboxHeldProofs`): `NothingUndecidedLost`,
`NeverOvertaken` and `WithoutReplaysSupersededFirst`. A row leaves the tables on an
answer, so `HeldInv` says who answers what: the dispatcher waits for at most one call and
that call carries its position (`MineDispatched`); an answer that is not an invitation to
retry tells of a position at or below the head's watermark (`AnswersDecided`), which a
lagging leader can only say if it is so (`ViewsBehind`); a row is found by an id that
belongs to one position (`RowIds`, `Dispatched`). The two theorems carry the hypothesis
`ReplaysSafe`: there are no replays, or no finalizations. It is necessary. With both, a
replayed finalization removes younger status rows by their id, undecided ones included,
which is the finding of `OutboxSupersede`; without replays ids follow the stream
(`IdsInOrder`) and the removal is sound.

*Apply* (`CommittedApplyProofs`): `ApplyTypes`, `EventsAlwaysIncrease`,
`PutsAlwaysReplayInert`, `UpdatesNeverLost`, `ReplicasAlwaysAgree`, `PresenceAlwaysTold`.
node.db is at most one entry behind cluster.db (`OneBehind`), and an entry caught between
the two writes is, if a put, one whose second application changes nothing (`PutsSettled`,
from `PutIdempotent`). The last three rest on `AgreeInv`: as long as nothing is `skewed`
there is one history of databases, a function of the position in the log, along which
every replica walks (`Timeline`, `Course`). The history is existential: it is
extended when an entry is committed, and a replica that applies moves to its next element.
Versions, UIDs and events then have the same meaning on every replica, so an update built
on one and applied on another replaces what its author saw.

*Pods* (`PodLifecycleProofs`): `PodTypes`, `WantedAlwaysHoldsSlot`,
`OnlyDoomedEverStopped`, `InFlightAlwaysAnswered`. `IInv` types every message, work, timer
and field of the actor over sets of UIDs that only grow: `Born`, `Doomed` (nobody wants
them, and nobody will again) and `Entitled` (if wanted, they hold the slot). A stop names
a doomed UID and a start an entitled one wherever they are stored: in a message, in the
actor's pending fields, in a work. Every step `Fades` (it may doom Pods, never revive
them), which carries all stored values over (`FadesGrows`), and each handler is sound: it
makes sound actors of sound actors and messages. A finalization in flight stands for a
task, for a DELETED event on its way, or for a row or a dead letter in the outbox of the
Pod in the API; a dead letter leaves by its replay only, and what is delivered behind it
commits that event. For `InFlightAnswered` the invariant also says which works the actor may hear, and that a waiter for the slot is not one of
them.

 *Watch store* (`WatchStoreProofs`): what the positions, pages and reconstructions of one
database hold, for every `Chronicle`: a history of databases, each made from the one
before it by one committed command (`LoggedSucceeds`, `GcSucceeds`), which may write
several objects under one resourceVersion. A position, also one that filters by
resourceVersion, is a place in the log (`PrefixRight`); pruning takes the oldest events of
a scope and raises its floor by exactly those (`GcSucceeds`), so that a position that is
not below the floors represents all that was pruned (`FloorCovered`); a page that is not
expired holds the next events without a gap (`PageRight`); and, as long as nothing after
the position was pruned (`Intact`), the row that is read backwards from the retained
events, starting at a row that an earlier statement found, is the one the key had at the
position, or the body of the delete that comes next, or the answer is expired
(`IdentityRight`). The last is an induction over the retained ids, for the loop invariant
"right after the id just observed" (`RecallsBack`).

*Watches* (`WatchConsumersProofs`): `TypesKept`, `MembershipKept`, `MirrorExact`,
`StreamNeverRefused`, `QuietMirrorCurrent`. The invariant `WatchInv` has a part per
component. `SessionInv`: the rest of a page holds the events of the watcher without a gap
and ends where the position is (`PageInv`); each key of a baseline that was read is right
for the position, although its statements are separate and commits go on between them,
unless history after the position was pruned meanwhile (`BaselineInv`, `Unpruned`). No
statement of the baseline excludes that. But floors only rise, so that the check of the
first page decides it for all of them: a page that is not expired shows that nothing after
the position is pruned, hence that nothing was, and the baseline was right. That is why
`MembershipFaithful` speaks of sessions with a page. A session that waits has told all it
was served, or a signal for the rest is queued, dropped as lagged, or about to be
published (`SignalInv`; this is where subscribing before reading is needed). Membership is
not exact: the body of a delete that comes next stands for the row before it (`Tracks`);
its UID is the right one, which is all that `prepare` compares (`ToldRight`). `MirrorInv`:
the mirror is at its cursor, and the frames on the wire lead step by step from there to
the place of the session, up to events that the watcher does not see.

*Clients of the API server* (`WatchClientProofs`): `ResumeAlwaysSafe` and
`QuietAlwaysCurrent`. A client knows a resourceVersion only, and its copy need not be the
state at any one place: after it resumed behind what it had already seen, some rows are
ahead of the session. `Resumable` says what is true instead: each row of the copy is one
of a place between the session's and the last one delivered, so that the rest of the
replay repairs it, and after the last one delivered nothing was to be seen. `ClientInv`
states this for the place of the session (`DeliveryInv`), which has passed all that
`last_delivered_rv` covers, and for the resourceVersion of a client that is away
(`AwayInv`). A session that is anchored on another server starts where that
resourceVersion is, because the server has applied it (`AnchorInv`). The theorems carry
the hypothesis `RequestsSafe`: watches start from a list or an initial state, and the wait
for a fresh server does not end early. It is necessary, see the end of section 5; the run
`WatchConsumers` uses the same values. The invariant is also under `RvsApart`, which
`ResumeSafe` and `QuietMeansCurrent` name themselves: until a batch writes two objects of
the watch, the resourceVersion of an event covers no later event of it (`BelowEvent`).
Since the log only grows, `RvsApart` in a state gives it in all earlier ones
(`ApartBefore`), which is what the induction needs.

**Model-checked only.** `RowsSettle`, `DeletedPodsGo` and the counterexample of
`MirrorCatchesUp`, because liveness under fairness is out of the prover's reach.
`OnlyRetriesOverlap`, whose inductive form has to say that the actor is busy with a wanted
Pod whose start is under way: it is the active and the admitted one, no slot check runs,
what is pending or in flight belongs to it, and no older `added` event is left in the
mailbox. Every other invariant and action property that a run checks is a theorem, some
under a named hypothesis (`ReplaysSafe`, `RequestsSafe`). `GapNeverCommitted` is proved
only: an instance in which a lagging leader meets a hole in the stream is too large for
TLC, and a smaller one would repeat the guard of the build.

## 5. Findings

1. `OutboxSupersede`. A delivered finalization removes superseded status rows by row id,
   though the store contract makes the stream position authoritative and a replayed
   finalization has a newer id than rows enqueued after it: a younger status row is
   deleted undelivered and the stream has a hole, at which later positions fail.
2. `ApplyReplay`. cluster.db and the applied log id are two files; a crash between the two
   writes makes one replica apply a delete or a patch twice, and take another
   resourceVersion, while the module says that replicas are byte-identical. Puts are
   inert. Once versions differ, an update built on one replica may meet its version on
   another incarnation of the name, since it carries no UID.
3. `WatchResume`. A worker that resumes behind the delete of one of its Pods is refused:
   the reconstructed baseline holds the body of the DELETED event, which is newer than the
   position, and `validate_selector_baseline` takes that for corruption. Only an expired
   position makes the worker list again, so it retries the same cursor until history is
   pruned past it.
4. `WatchBatch`. A batch gives its events one resourceVersion, and a bookmark, or the
   first event itself, gives the client that resourceVersion before it was sent the
   second: it resumes behind both. The comment on `resolve_periodic_bookmark_rv` promises
   that everything up to a bookmark was received. The endpoints controller writes the
   EndpointSlices of a Service in such batches. Workers resume by event id and are not
   affected; `ResumeSafe` and `QuietMeansCurrent` are stated for clients whose events have
   different resourceVersions (`RvsApart`).

Statements that the code does not make true, and that are therefore not properties here:

* An update or delete that was rejected is told so on every retry: the build with a
  watermark answers `AlreadyApplied` for any recorded key.
* A live Pod is eventually started: a waiter for the slot subscribes after it has reported
  `Blocked` (`slot_admission.rs:84`), a probe command displaces a start in flight
  (`actor.rs:2500`), and a failed slot check is not retried. A slot row whose
  Pod went away while the kubelet was down, with no sandbox left, is never cleared
  (`reconciler/startup.rs:72`); the stop of an orphan in flight is displaced when the replacement is
  deferred (`actor.rs:1096`).
* Two starts of a Pod never run side by side, as the comment on `WorkPermit` suggests
  (`concurrency.rs:10`). The actor serializes messages: `RetryDue` does not look at the work
  in flight (`actor.rs:1941`) and retry timers are not deduplicated (`retry.rs:28`), so two
  CRI events, each with a reconcile that finds the runtime objects gone, arm two timers, and
  both start the Pod. `OnlyRetriesOverlap` says that nothing else does.
* A deleted Pod of a worker leaves the API whatever happens on the worker: see the
  fairness of `PodDeletion` above, and the dead letters of finalizations
  (`node_outbox/mod.rs:1595`, `1637`), which nothing but an administrator replays.
* Sandboxes of one name exclude each other (`service.rs:1097`), and a slot row is removed
  only after its sandbox (`executor.rs:1654`).
* A watch resumes safely from a bookmark of a session that was opened without a
  resourceVersion (`stream.rs:663`): `ResumeSafe` is stated for `list` and `initial`
  requests. With `WaitEnds`, a server that is still behind when the wait for freshness
  times out makes `QuietMeansCurrent` fail.

## 6. Not modelled

Within the modelled parts: rows whose envelope is invalid on the node itself; unsequenced
rows (node status, leases, events), which have no ordering promise; Pod status
checkpoints, counters and the RTT estimate, which no modelled step reads; the leader's
conflict answer on a mismatch of client identity; power loss, which may undo completed
transactions of a database in WAL mode; the merge of status bodies (a status is its
stamp); namespaces, batches, tombstones and unconditional updates in `CommittedApply`;
compaction of the ledger. In the watch modules: projected and multi-target plans, the
namespace sweep, legacy floors, a key whose retained events take several reads, custom resources, table rendering, the in-process bus. In
the Pod modules: ephemeral containers, configuration-error fingerprints, node-lost
snapshots, Pods of other nodes, the probes themselves, failed spawns, a second, shorter
grace period, overlay echoes, and the echo of a Pending status.

Whole parts: see the components in `PROJECT.json`. openraft, the codecs and the kernel
interfaces are third-party, generated or I/O. The others are left for the extensions
below.

## 7. Plan

Done, in this order because the delivery of status and deletion is what the rest of a
node stands on: `StatusStamp`, `NodeOutbox`, `LeaderOutbox`, `OutboxDelivery` with its
abstract `OutboxStream`, `CommittedApply`; then the watch modules and the Pod modules; the
theorems of section 4.

Next:

1. `OnlyRetriesOverlap` for every instance.
2. `SnapshotInstall`: install over a lagging replica, with a crash between cluster.db and
   node.db; extends `CommittedApply`.
3. `FlowControl`: permits, priority lane, the exclusive drain and its membership caller;
   deadlock and starvation.
4. `PodWorkqueue` and the delete coordinator: dirty and processing sets, deadlines; no
   key lost, none processed twice at a time.
5. Extensions: unconditional updates and namespaces in `CommittedApply`; Pod status
   checkpoints in `NodeOutbox`.
