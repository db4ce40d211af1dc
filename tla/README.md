# A TLA+ verification of tigerbeetle-rs

tigerbeetle-rs is a Rust port of TigerBeetle, a replicated accounting database:
Viewstamped Replication over a journal, a superblock, a copy-on-write grid of
blocks, and a forest of LSM trees. The port is *sans-IO*: a `Replica` is driven
by the calls of its owner (`on_message`, `tick`, `drive_storage`), puts what it
sends into `send_queue`, and the owner delivers it. The repository's own owner is
the cluster simulation of the tests; `tigerbeetle-server` formats data files and
starts no replica.

This directory holds TLA+ modules of the parts that are hard to test, TLC
instances that check them, and proofs checked by TLAPS. `PROJECT.json` maps
each definition to the lines it models.

## Inventory

Paths are below `src/crates/`; `vsr` is `tigerbeetle-vsr/src`, `lsm` is
`tigerbeetle-lsm/src`, `core` is `tigerbeetle-core/src`.

| Component | State | Operations | What is hard | What makes it correct |
|---|---|---|---|---|
| Replica, normal operation (`vsr/replica.rs`) | op, journal, commit_min/max, pipeline and request queue, acknowledgement masks, timers, commit stage | on_request, on_prepare, on_prepare_ok, on_commit, commit_dispatch, timeouts | loss, repetition and reordering of messages; a commit parked between two stages; a full pipeline | replicas execute one log, in order; what is executed is on a quorum; the pipeline moves |
| Replica, view change (`vsr/replica.rs`, `vsr/jv_quorum.rs`) | view, log_view, status, votes, join_view headers, durable view | on_exit_view, on_join_view, on_view, on_get_view, view_durable_update | concurrent views, stale votes, a crash before the view is durable, dirty and missing prepares | committed ops survive; one log per view |
| Journal repair (`vsr/replica.rs`, `vsr/journal.rs`) | dirty and faulty slots, repair budget | repair, on_headers, on_get_prepare, on_repair | slots of an older wrap, a head that jumped | only prepares of the hash chain are installed |
| Client sessions and replies (`vsr/client_sessions.rs`, `vsr/client_replies.rs`) | session table, faulty bits, queued reads and writes | create, update, evict, read_reply, write_reply, checkpoint | repeated requests, eviction while preparing, a read racing a write | a request executes once; a reply served is the session's |
| Superblock (`vsr/superblock.rs`, `vsr/superblock_quorums.rs`) | working and staging header, four copies, queue of two operations | format, open, checkpoint, view_change, repair | a crash between the writes of the copies, latent errors, misdirected writes | open finds the last state that was durable, or the one being written |
| Free set (`lsm/free_set.rs`, `core/ewah.rs`) | acquired and released bits, shard index, reservations | reserve, acquire, forfeit, release, mark_checkpoint_durable, encode | reservations in several sessions, release before durability | no block of a durable checkpoint is reused; reservations are disjoint |
| Grid (`vsr/grid.rs`, `vsr/grid_scrubber.rs`, `vsr/grid_blocks_missing.rs`, `vsr/repair_budget.rs`) | reads and writes in flight, cache, missing blocks, budgets | create_block, read_block, on_block, repair, scrub | bounded queues, a repair racing a write or a release | a read returns the block asked for; every fault is repaired or released |
| State machine (`vsr/state_machine.rs`) | accounts, transfers, pending status, expiry index | create_accounts, create_transfers, post, void, expire, lookups and queries | linked chains, overflow of balances, expiry against posting | balances add up; a pending transfer is resolved once |
| Forest (`vsr/forest.rs`, `vsr/groove.rs`, `vsr/tree.rs`, `vsr/compaction.rs`, `vsr/manifest_log.rs`, `lsm/*`) | mutable and immutable tables, levels, compaction beats | put, remove, get, scope, compact, checkpoint | work spread over beats, snapshots, interrupted bars | a lookup sees the latest value; compaction keeps what is visible |
| Client (`vsr/client.rs`) | session, request in flight, timeouts | register, request, on_reply, on_eviction, timeouts | a late reply racing a retry | one request in flight, each answered once |
| Clock and detectors (`vsr/clock.rs`, `vsr/marzullo.rs`, `vsr/fault_detector.rs`) | samples per replica, windows, arrival intervals | learn, synchronize, tardy | skewed, missing and late samples | the interval is one a quorum agrees on |
| Message bus (`vsr/message_bus.rs`, `vsr/message_pool.rs`, `vsr/message_buffer.rs`) | connections, reference counts, receive buffer | send, receive, suspend, resume | pool exhaustion, partial messages | no message is lost in the buffer or freed twice |
| Wire formats, utilities, command line | none, or local | encode, decode, parse | boundaries | round trips (unit tests) |

A replica owns its journal, superblock, grid, sessions and state machine and
calls them directly; replicas and clients interact by messages only. A
replica's commit path is one loop (`commit_dispatch`) that executes the next op
on the state machine, updates the client's session, and at the end of a bar
compacts and at the end of an interval checkpoints; stages that wait for
storage park the loop, and a completion polled by the owner resumes it.

## Modules

| Module | Models |
|---|---|
| `VsrQuorums` | `quorums()`, the acknowledgement mask and its comparison, `primary_index_for_view` |
| `CommittedLog` | what a cluster promises: one log, decided once, executed by every replica in order |
| `NormalOperation`, `MCNormalOperation` | a cluster in one view: requests, prepares, acknowledgements, commits, heartbeats, timers |
| `NormalOperationProofs` | its theorems |
| `JoinViewQuorum` | which ops of the collected join views survive (`jv_quorum.rs`) |
| `ViewChange`, `MCViewChange` | a cluster that changes its view: leaving a view, the choice and installation of the new log, normal operation in every view |
| `ViewChangeProofs` | its theorems |
| `DurableRegister` | what the superblock promises: a register that survives crashes |
| `SuperBlock` | the four copies, their writes, open and repair, and the replica that drives them |
| `SuperBlockProofs` | its theorems |
| `FreeSet` | the operators of the free set: reserve, acquire, release, forfeit, durability, open |
| `GridCheckpoint` | the free set through beats of compaction, checkpoints and restarts |
| `GridCheckpointProofs` | its theorems |
| `Extremes` | least and greatest elements of sets of integers, for the proofs |
| `StateMachine`, `MCStateMachine` | accounts and transfers: batches, linked chains, two-phase transfers, expiry |
| `StateMachineProofs` | what an event does to the balances of a ledger, and the theorems of `StateMachine` |
| `Sessions`, `MCSessions` | clients, the session table, the request queue, evictions and repeated replies |
| `SessionsProofs` | its theorems |
| `ClientReplies` | the replies on disk: queued writes, reads, repairs, and the commits that wait for them |
| `ClientRepliesProofs` | its theorems |

`NormalOperation` and `ViewChange` extend `VsrQuorums` (the second through
`JoinViewQuorum`) and do not share a state: the first keeps the request queue,
the pulses, the timers of the pipeline and the bodies of prepares for one view,
the second drops them and adds what a change of view needs. `GridCheckpoint`
extends `FreeSet`. `Sessions` stands on the promise of the two clusters: what a
primary has executed is in the log of the next one. `NormalOperation`
instantiates `CommittedLog`, and `SuperBlock` instantiates `DurableRegister`;
both are checked to implement them.

### NormalOperation

Each handler is one action; a handler whose early return changes nothing but
the network has a small action of its own (`OnPrepareInvalid`,
`OnPrepareOkIgnored`), so that the guards of `on_prepare_message` and
`on_prepare_ok` can be read off.

* A *prepare* is its header; its checksum is the header itself, and its parent is
  what the parent's checksum tells apart (the request before it). Client, session
  and timestamps are left out; the body is one bit, because the only thing the
  code asks of it is whether it matches the checksum in the header.
* The *pipeline queue* is the range of ops between the primary's `commit_min` and
  its `op`, which is what pushing at the head and popping at each commit keep it
  to. `acks` keeps the masks of ops that have left it, which only the properties
  read.
* `committing[r]` says that `commit_prepare` is set, that is, that the loop is
  parked at or before the execution of `commit_min + 1`. Entering the loop
  (`on_prepare_ok`, `commit_journal`) and executing the op are two actions, so that
  every message and timeout can come between, as when `commit_stall` or
  `commit_reply_setup` parks it. What follows the execution in the same call (the
  queued request, the pulse, the look at the next op) is in the same action.
* `clean` slots: in a single view a slot is dirty from `set_header_as_dirty` until
  `commit_op`, so that it is a function of `commit_min`.
* An assertion that fails stops the process: the replica joins `panicked` with the
  name of the assertion, and what it had put into `send_queue` is lost with it.
* The replicas start as those of the repository's cluster tests do: Normal, an
  empty journal, `journal_repair_timeout` inactive (so `repair()` returns at once).
  Every op is inside the first checkpoint interval.
* Whether the state machine asks for a pulse is a free choice, and so is which
  request arrives; the network may reorder, and repeat (`Duplication`) or lose (at
  most `MaxLost`) messages.

### JoinViewQuorum and ViewChange

* A join view is a record with the headers from `op` down to `tail`, and the sets
  of ops its two bit sets stand for (`present`, `nacks`). `quorum_headers` walks
  the ops between `HeadMin` and `HeadMax` up to the first that is nacked or has no
  copy; here that op is `FirstStop`, and the three results of the walk are
  `Awaits`, `OpHead >= HeadMin` and the assertion of `on_join_view` that it is
  not below (`nacked_commit`).
* `status`, `view`, `log_view`, `op`, `commit_min` and `commit_max` are the fields
  of those names. `journal` is the header in each slot, `dirty` the bit of the
  slot, `prepares` the header whose prepare was written, which in this code is
  `commit_op`. `exit_views` and `joins` are the two arrays of votes.
* A header is the view that prepared it, the view of its parent and the commit it
  carries. That a view and an op name one prepare is the property `PreparedOnce`,
  so that equality of headers stands for equality of checksums.
* `transition_to_view_change_status`, `transition_to_normal_from_view_change_status`
  and `primary_start_view_as_the_new_primary` are called from the handlers and are
  part of `OnExitView`, `OnView` and `OnJoinView`; nothing else happens in between,
  because the port installs a log in the call that receives it.
* Timers: only whether one is running is kept, and only for the two that outlive
  the status they are meant for (`commit_timer`, `exit_window`). The others restart
  themselves and may fire whenever their status holds.
* The fault detector turns red at any moment (`SendExitView`), and whether a
  heartbeat is fresh (`OnCommit`) is free.
* A failed assertion stops the replica and names itself in `panicked`, as in
  `NormalOperation`. A replica that stops for good is one that takes no more
  steps, which every behaviour allows; a restart is not modelled, since no
  superblock is mounted in the instances the tests build.

### SuperBlock and DurableRegister

* A header's checksum covers its parent's, so a header is the chain of the
  states of its ancestors, and equality of chains stands for equality of
  checksums. A slot of `disk` holds a chain and a copy index, which no checksum
  protects, or nothing that can be read.
* `sb` is the `SuperBlock` in memory: the working and staging headers, and the
  queue of two operations (`head`, `tail`). The copies are written one after the
  other and read back; each I/O is a step, so that a crash, a view change or a
  checkpoint comes between any two.
* The replica is the caller: `EnterView` and `EstablishView` are the two calls of
  `view_durable_update` (the second may come while the first is being written and
  is then made up for in `Release`), `Checkpoint` that of the commit pipeline.
* A crash keeps `disk`; the write in flight landed, did not, or is torn. At most one
  slot at a time is faulty: its write was lost or landed elsewhere, its sector
  decayed, or its copy index did.
* `stable` and `pending` are what `working` and `staging` told the caller last.
  They make the abstract register of `DurableRegister`: a value that only moves to
  the one being written, with crashes in between. `SuperBlock` implements it with
  `up <- sb.opened`.

### FreeSet and GridCheckpoint

* `FreeSet` holds the operators, named as the functions of `free_set.rs`:
  `Reserve`, `Acquire`, `Release`, `Forfeit`, the two marks of durability,
  `OpenFreeSet`, and the shard index.
* In `GridCheckpoint` a beat is a sequence of jobs. A tree's job reserves
  (`StartTree`), acquires and writes (`AcquireBlock`), releases (`ReleaseBlock`) and
  forfeits (`FinishTree`); the manifest log holds a reservation across the beat
  (`ManifestReserves`, `Reconcile`, `CompleteBeat`) and appends at the checkpoint
  (`ManifestAppends`, `FlushDone`).
* `stage` follows the commit pipeline and the checkpoint of the forest: open,
  durable, compact, checkpoint, free, encode, encoded, superblock. `Restart` may
  strike at each and reopens what the superblock refers to; the beats since are
  executed again with the plans in `trace`, since the log they come from is the same.
* `content` is what was last written to an address, `superblock` and `previous` are
  the two checkpoints whose blocks somebody may still need.
* `ReplicaCommits` says whether the replica runs its own commit stage for the
  durable checkpoint, or leaves that to the forest. The run has FALSE: with TRUE
  the free set is marked durable while the manifest log holds a reservation, an
  assertion fails and the behaviour is over (see the disagreements).

### StateMachine

* The committed stores (`store`) and the object caches (`cache`) are two copies of one
  shape: accounts, transfers, rows of pending transfers. An event of a batch is one
  step (`ExecuteAccount`, `ExecuteTransfer`), and one step of the walk that persists
  it. A chain saves the caches (`saved`), as the scopes of the grooves do.
* `Pulse` and `Expire` are the expiry of pending transfers, one transfer a step.
* The requests are a constant, given by `MCStateMachine`: `Openings`, `SingleTransfers`,
  `ChainedTransfers`. Every event has passed the checks of a single field
  (`AccountEvents`, `TransferEvents`): ids are not zero, a transfer that posts or voids
  names another one and a regular one names none but both its accounts, an imported
  event has a timestamp. A refused field gives a status and changes nothing.
* `None` stands for a row that is not there, and for the zero of an optional field.
* `Timestamps` is the primary's clock: it advances by one per prepare (replica.rs:1285),
  however many events the prepare has, and by the time that passes, at most
  `MaxGap`. The timestamps of a batch are counted back from its own, so that two
  operations may share some.
* `transfers_pending` is kept by timestamp. `HoldsAt` and `WithRow` give two holds that
  share a timestamp one row, as the caches do.
* An assertion that fails names itself in `panic`, and nothing happens after it
  (`Stop`), whether it is in the decision of a status (`Assertions`), in the loop
  (`LoopPanic`), in the walk that persists or in an expiry. The timestamp of an event
  is a subtraction that may underflow at the start of the clock: the module has the
  build that checks it (`timestamp_underflow`); one that does not wraps instead.
* `AssertionsHold` says which assertions may fail, and when. `Spaced` is the state
  predicate it uses: the operation has a timestamp of its own for each event.

### Sessions

* `clients` is the state of each client, `table[v]` the session table of the primary of
  view `v`, `queue[v]` its request queue, which is a stack in this code.
* A reply is named by the op it answers; the context that a client sends back, a
  checksum of the reply, tells replies apart in the same way.
* Requests, replies and evictions are sets that only grow: each message may arrive
  late, again, or never.
* Of a view change only the promise is kept: the new primary's log holds what any
  primary has executed. `TruncatedCommit` shows where the port breaks it; `Sessions`
  asks what holds on top of it. The old primary prepares nothing that counts any
  more, but it goes on answering, and executes what later views have kept
  (`kept`).
* `stopped` holds the views whose primary an assertion has stopped in `commit_execute`:
  the request executed does not follow the last one of its session (2619), or a
  request of the queue filled the pipeline again before `pulse_enabled` looked at it
  (5136). The rest of the call is lost with it, and nothing happens at that primary
  any more.
* A request that is answered already may be dropped (`OnRequestRepeated`): without a
  storage, or with every read busy, `on_request_repeat_reply` (6951-6960) sends
  nothing.

### ClientReplies

* One replica. `replies` is the `ClientReplies` in memory, field by field; `sessions` is
  the reply header that the session table has in each slot; `disk` what the slot
  holds; `io` the completions that the storage has not been asked for.
* `Commit` is `commit_reply_setup` and, when there is room, the execution of any op the
  clients may have sent: a register, which may evict, or a request whose reply has
  a body or none. `Poll` is `poll_client_replies` with any number of completions,
  then the notifications; the one for a parked commit executes it. `ReadReply` stands
  for a repeated request and for a `GetReply`; what differs is only who is answered.
* The storage performs an I/O at once and in order, as `MemoryStorage` and
  `FileStorage` do (storage.rs); only the completion is late. A client registers
  once, and pulses, which have no client, are left out: they take an op and touch
  nothing here.

## Runs

| Run | Instance | States | Shows |
|---|---|---|---|
| `NormalOperation` | 3 replicas, 2 ops, 2 requests, pipeline of 1, queue of 1, repetition | 150,334 | executed prepares agree and are on a replication quorum; heads within a pipeline of the commits; no backup fails an assertion; refinement of `CommittedLog` |
| `NormalLiveness` | 2 replicas, 2 ops, one loss | 6,876 | a quorum leads to execution; a backup with the log catches up |
| `ViewChange` | 3 replicas, 1 executed op, 1 request per log, 1 view change | 364,256 | an acknowledged prepare stays in the log of its view; executed ops keep their headers; logs of one view agree; an op is prepared once in a view |
| `ViewChangeGap` | the same with 2 requests, for a replica that missed the first | 300,342 | the head jumps over the gap; no comparison of headers fails |
| `TruncatedCommit` | as `ViewChange` | | a committed op is truncated by the new primary |
| `SuperBlock` | 4 copies, 1 view, 1 checkpoint, 2 crashes, 1 fault | 102,095 | open finds the last promised state or the next one; refinement of `DurableRegister`; views become durable |
| `GridCheckpoint` | 8 blocks in shards of 4, 2 trees, 3 beats, 1 restart | 635,585 | the blocks of the durable checkpoint and of the one before are not overwritten; repeated beats give the same free set |
| `Transfers` | 2 accounts, 5 operations of 1 to 3 events, 1 or 2 timestamps apart | 1,699,326 | balances are the sums of the history; holds are resolved once; no expiry is missed; which assertions fail |
| `Chains` | batches of 1 to 3 events, 3 operations, 1 to 3 timestamps apart | 1,441,071 | chains are atomic; the caches agree with what is persisted |
| `Sessions` | 2 clients, a table of 1, a pipeline of 2, 4 ops, 1 view change | 1,502,266 | table and client agree; only clients without a session stop; no request is dropped for good |
| `RepeatedRequest` | 2 clients, a table of 2, a pipeline of 2, 4 ops | | a repeated request is prepared twice, and the copy breaks the order of its session |
| `ClientReplies` | 3 clients, 2 slots, 1 read and 2 writes, 4 ops, a checkpoint every 2, 1 fault | 40,936 | a durable slot holds the reply of its session; no completion meets an operation that is gone; a parked commit goes on |

The bounds of the cluster: two ops are enough for a gap, a jump of the head and
an acknowledgement for the wrong op; with a pipeline of one they also fill it,
wait in the queue, drain it and fill it again, with a pulse behind; three replicas
are the smallest cluster in which a quorum leaves someone out. `NormalLiveness` has
two ops in the pipeline at once. With a pipeline of two (273,046 states), and with
two replicas and three ops (179,206), the same properties hold, and each safety
property is proved for every pipeline. The messages are a set, so that repetition
costs no state. Deadlock is not checked: when `MaxOp` ops are prepared and
delivered a run is over; the same holds for the bounds of the other modules.
`NormalOperation` uses the symmetry of the requests, the runs of `Sessions` that of
the clients: no action and none of their properties, all of them safety, tells
one from another.

In the view-change runs every message ever sent may arrive at any time, again or
never, so that no step is needed for a loss or a repetition. Three replicas are
the smallest cluster that can leave a view (with two, the mask test of
`on_exit_view` wants the bits of both, and the primary never asks), and one view
change, which every replica may take at any moment or miss, is enough for logs
of two views to meet. The first op is executed everywhere at the start
(`BootOps`), because a cluster without a committed op cannot change its view: its
join views all nack the root. One more op makes the interesting choice of the new
primary, keep or truncate. `ViewChangeGap` allows two and bounds the rest of the
behaviour by a state constraint (`MissedPrepare`): replica 2 is the one that lost
a prepare and the only one that wants to leave. What these two runs show on their
instances is proved for every cluster and any number of views (see the proofs).

`SuperBlock`: a view change and a checkpoint queue behind each other in both orders,
two crashes strike an update and the repair at the open that follows, and one
fault is what the quorums of four copies are made for. A larger instance (two
views, 699,774 states) shows the safety properties as well. `GridCheckpoint`: two
shards, one of which fills up, two trees whose reservations meet the manifest
log's, and three checkpoints, so that blocks released before one are freed after
the next and taken again. `Transfers`: three operations make a hold, two of them
compete to resolve it, and amounts up to three reach the limit. The amounts of these
requests do not overflow, those of `Chains` do. Operations lie one or two timestamps
apart and have up to three events, so that some share timestamps. `Chains`: three events are the smallest chain with a member before
and after the one that fails. `Sessions`: a table of one entry (`CLIENTS_MAX_MIN`)
makes two clients evict each other; with a pipeline of two a request is prepared
behind another and one more waits in the queue, and is still there when
`commit_execute` takes it and stops. `ClientReplies`: the numbers of reads and writes
are those of the configuration (config.rs:117-118); two slots are enough for a
third client to evict one of two, and four ops for two writes under way, a commit
that parks, a repair that takes its place and a checkpoint among them. The safety
properties hold with six ops as well (413,614 states).

Fairness. `CommitFairness`: a parked commit is resumed (`tick` fires the stall
timeout, the owner polls the reply writes), the primary's fault detector sends a
heartbeat at the latest after a second, and a heartbeat that is sent arrives.
It holds no more than the owner's loop guarantees; that a prepare is delivered is
not part of it. `BackupCatchesUp` excludes a head that is not journaled, since
`commit_start_journal` waits for it, and a primary that abdicates, since it stops
its heartbeats on purpose. In `SuperBlock` the storage completes every I/O, and a
process that crashed opens (or formats) its data file again; `ViewsBecomeDurable`
rests on the first, and no message or timer is assumed. In `ClientReplies` the storage
completes every I/O and the owner polls.

Each property of a passing run has a mutation of the code's definition (kept
beside it, marked as such) that violates it.

## Findings

1. `send_join_view` (replica.rs:3633) nacks what is dirty, and a slot is dirty until
   its op is executed (1665), although `on_prepare` acknowledges it at once. Two
   backups that gave the primary its quorum nack the op, and the new primary
   truncates what the old one has executed (run `TruncatedCommit`).
2. `on_request` (replica.rs:5789) compares a request with the last reply of its session
   and does not look for a copy that is being prepared or waits. A request that its
   client repeats in time is prepared twice. Executing the second copy fails the
   assertion that the numbers of a session follow each other (2619), at every replica
   that executes it (run `RepeatedRequest`).

### Other disagreements seen while modelling

These were met on the way, by reading or by instances of the modules, and have no
run of their own. Lines are those of the file named first.

Replica (replica.rs):

* `on_prepare_ok` (1576) compares the mask of acknowledgements with
  `(1 << quorum) - 1` as a number: a high bit is as good as a quorum. With five
  replicas `commit_start_pipeline` (1964) asserts the count and the primary stops.
* `commit_execute` (2291-2308) prepares a queued request, which fills the pipeline,
  and then calls `pulse_enabled` (5136), which asserts that it is not full.
* `on_prepare_ok` (1582) stops the timers when the last op has its quorum though it is
  still in the queue; a prepare that joins it does not start them.
* `primary_abdicating` stays set when the timer is stopped by a late quorum; the next
  `send_commit` asserts that the timer runs (2901).
* `on_prepare_timeout` (4220) sends the header without the body, and
  `on_prepare_message` (5837) drops it: the retry works only for empty bodies.
* `transition_to_view_change_status` (3305) does not cancel a parked commit. When it
  resumes, after the new log is installed, it executes an op of the new view that
  no quorum has acknowledged.
* A register that is repeated while the first copy is being prepared is accepted like
  the request of finding 2, and its execution finds that the client has a session.
  The queue has no bound and is last in, first out (5797, 2291), though
  `constants.rs:267-271` describes one. A request that waits is prepared only by a
  primary that stops in the same call (5136).
* The stage that frees blocks (2670-2706) runs while the manifest log holds a
  reservation (manifest_log.rs:299-337), and `free` asserts that there is none
  (free_set.rs:637-652). `GridCheckpoint` with `ReplicaCommits = TRUE` shows it:
  `FreesUnreserved` fails. The forest does it in the right order
  (forest.rs:560-583).

Free set (free_set.rs):

* `open` (240-258) calls `decode`, which does not rebuild the index, though the
  comment at 127 says that shards are found full after a restart; a full shard makes
  `verify_index` panic.

State machine (state_machine.rs):

* `prepare_timestamp` advances by one per prepare (replica.rs:1285), a batch of `n`
  events uses `n` timestamps. When an operation lies closer to the one before than it
  has events, these assertions fail: on a timestamp before the first
  (`timestamp_underflow`, 1275), on a transfer that is not later than its accounts (290),
  on accounts (4349) and transfers (5001) that share a timestamp, and on an expiry that
  is not later than the last commit (4873); the run `Transfers` reaches each. Two holds that share a timestamp share a
  row of `transfers_pending`, so that a post or void may find the status of the other
  one (`post_or_void`). A post or void may get a timestamp before that of its hold, and
  stops the replica when it is repeated (816, `resolved_before_hold`, in `Chains`).
  `AssertionsHold` names all of these, and is proved: no other assertion fails.
* An imported event is compared with the timestamp of its batch (1104, 1318) and then
  asserted not to be later than its own place in it (273, 754, 1131, 1520): a batch of
  several events whose first lies in between stops the replica (`imported_after_event`).
* Two holds that expire at one instant: `expires_at <= timestamp_event` (4878)
  fails for the first (`expiry_too_early`). An imported transfer whose timestamp
  is that of an expiry event fails the assertion on account events
  (`two_account_events_share`).
* `create_transfer_exists` compares the amount of a balancing transfer exactly, so
  that one that was clamped and is sent again is not found to exist.
* An account that is not found is reported before the id is looked up, so that the
  id of a stored transfer can be orphaned, though the two are documented as
  disjoint (about 2388).
* `execute_create_accounts` does not restore the running maximum of the keys when a
  chain breaks; `execute_create_transfers` does.

Client replies (client_replies.rs):

* `write_reply` (390-404) enters a write that replaces a queued one twice in
  `writes_in_flight`. With the two writes of the configuration a queued write is never
  replaced; with `WritesMax = 3` `AssertionsHold` fails (the second completion finds no
  operation), and so does `DurableIsWritten` (a write that waits behind another slot's
  is not yet in `writing`).
* The field `faulty` documents that its bits belong to replies with a body (145-147).
  A read of a decayed reply that completes after the client's next request was
  answered without a body sets the bit again: `write_reply` resolves only the reads
  of the same reply (358-373), and `poll_client_replies` (replica.rs:4704) does not
  look at the header that the event carries.
* `commit_checkpoint_data` (replica.rs:2744) does not wait for `CheckpointDone`. The
  replies are not durable at a checkpoint, as the head of the file promises (14), and
  an op committed before the next poll meets an assertion of `write_reply` (346) or
  of `checkpoint` (455): the two that `AssertionsHold` leaves out.

The view-change runs also reach assertions that stop a replica without breaking a
property; TLC finds a behaviour for each of these names of `panicked`:
`commit_timer` (`commit_message_timeout` still runs when its primary has left the
view, 4236), `exit_window` (the window fires after the votes were reset, 4254),
`get_view_status` and `join_view_status` (a late `GetView` or an early `JoinView`
reaches a primary of another status), `join_view_headers` and `repair_head` (the
head is a slot that a jump left empty), `nacked_commit`, `new_primary`,
`truncated_commit` and `replaced_commit` (a committed op was nacked, and the
replicas that executed it refuse the log without it), `commit_missing` and
`commit_as_primary` (a parked commit meets a log without its op, or a status it
does not expect). `hash_chain`, `jumped_head`, `commit_checksum`,
`join_view_conflict`, `broken_chain` and `view_commit` are proved never to occur.
`op_head_range` needs two view changes, beyond the instances: a replica that
executed an op that was truncated meets a later log. `quorum_count` does not occur
in the instances.

## Proofs

TLAPS checks the proofs from the assumptions in the modules alone; the constants
are arbitrary. Each specification has an inductive invariant, one lemma per
action that says the step keeps it, and lemmas below for what several actions
share.

### NormalOperationProofs

For every number of replicas, every primary, every set of requests and every
bound:

* `Invariance`: `Inductive` holds in every reachable state;
* `TypeCorrect`, `CommitIsFollowed`, `HeadIsBounded`, `BackupsLive`,
  `ExecutedAgree`, `ExecutedSurvives`: the invariants of the run, and that no replica
  believes in a commit the primary has not executed (`CommitFollowsPrimary`);
* `ExecutedStays`: no step takes back or rewrites an executed prepare;
* `Refinement`: the specification implements `CommittedLog`.

The assumptions are those of the module: a cluster of at least one replica, a
request that is neither the pulse nor the root, natural bounds. Executed prepares
agree because every journal holds a part of the primary's (`BackupLogs`), which in
turn needs that what is in flight was true of its sender and still is
(`Messages`). The primary's own log has no hole and is chained (`PrimaryLog`),
which is why no backup fails the hash-chain assertion and why the head is within a
pipeline of the commit its prepare carries. That an executed op is on a quorum
needs that a replica is counted only for what it journaled (`AcksAreJournaled`)
and that the op in the commit pipeline was counted, not only masked (`Commits`,
`Committing`): the assertion in `commit_start_pipeline` is what keeps the mask
comparison from losing data.

### ViewChangeProofs

For every number of replicas, any number of views and ops: `TypeCorrect`,
`AcknowledgedStays`, `ExecutedStays`, `LogsMatch`, `PreparesOnce` and
`NeverConflicts`, which are all the properties of the runs `ViewChange` and
`ViewChangeGap`. The assumptions are those of the module: at least one replica,
natural bounds, and values for "no header" and "no join view" that are neither.

The difficulty is that no variable holds the log of a view: its primary
truncates and extends it, and stale copies of it travel in prepares, join views and
views. The invariant therefore says that there is a log for each view
(`OneLogPerView(L)`, with `L` an existential witness that a step may extend), and
that every journal and every message shows a part of one of them:

* a log is *chained*: up to a header of an earlier view it is the log of that view,
  and the commit a header carries lies below it (`Chained`);
* the log of a view is empty until its primary starts it, and ends at that
  primary's head (`OfPrimaries`), so that an op is prepared once in a view;
* the primary of a new view starts from the part of its old log that it has
  executed: `primary_start_view_as_the_new_primary` fails an assertion
  (`StartFailure`) unless everything is committed and clean. This is why the log it
  installs is the beginning of one log of an earlier view, though its headers were
  chosen among several join views;
* what a replica has acknowledged in its view is behind its head (`Promised`), and
  what it may install is the log of the view (`Possible`).

`NeverConflicts` follows because two headers of one op that are compared are
parts of one log, or of two of which one was truncated there (`Harmless`,
`Conflicting`).

That committed ops survive (`CommittedIsNeverTruncated`) is not among the theorems,
since it fails.

### SuperBlockProofs

For 4, 6 or 8 copies, any number of views, checkpoints and crashes, and at most one
fault: `TypeCorrect`, `PanicFree`, `Recoverable`, `NothingUndone` and `Refines`, which
are all the safety properties of the run, the refinement of `DurableRegister`
among them. The assumptions are those of the module (`CopiesAssumption`,
`BoundsAssumption`, and `DistinctAssumption`: the values for no header, no operation
and no copy are none) and `OneFault`, a hypothesis of each theorem.

One fault is what the design withstands, and `AlwaysRecoverable` fails with two: a
crash leaves slot 0 with the update that was being written, the repair of slot 0 is
lost, and the next update's write of slot 0 lands in slot 2. Slots 0 and 2 then hold two
different successors of one header, a fork, and open() finds no quorum.

No crash is bounded, so that the slots may be left in the middle of an update, of the
repair of that, or of the repair of a repair. The invariant (`IInv`) has one
disjunct per stage of the process: stopped, formatted, reading, repairing,
updating, at rest. Each says what the slots may hold:

* a slot that is not in `bad` holds the last promised header or the one being
  written (`Fits`); while an update is written, those before the current slot hold the
  new one and the others the old one (`Passed`);
* the fault leaves at most two bad slots: the one that missed its write, and the one
  that got it. The first may hold a header that no one was promised, which is
  harmless only in the first slots and while the header being written is on few
  (`Outcast`, `Content`);
* without a fault only a torn slot is bad, and the header being written is in too
  few slots to be chosen, or in enough to be chosen (`Early`);
* while slots are read, `Merged` is what the reading will find; a slot may decay after it
  was read, and not before (`Reads`), so that a verification passes;
* a repair that was lost leaves its slot in a state from which no later choice of
  open() differs (`Lost`, `Mended`).

The choice open() makes is the lemma `Chosen`: from slots that fit, it is the header being
written if a threshold of copies has it, else the last promised one. `Queued` says
of the queue that what waits was computed from what is being written, which
makes the asserts of view_change and checkpoint hold. The refinement and the step
property come out of the same lemma as the invariant (`EveryStep`, `Kept`): each step
is one of the register or leaves it alone.

### GridCheckpointProofs

For every number of blocks, shards, trees, beats and restarts: `GridInvariant`,
`GridTypeCorrect`, `DurableCheckpointIsKept` (`CheckpointIsIntact`),
`PreviousCheckpointIsKept` (`PreviousIsIntact`), `ForestFreesUnreserved` (with
`ReplicaCommits = FALSE`, the stage "free panics" is not reached), `ReplayInvariant`,
`ReservationsFindTheFirst` (`FirstOfItsReservation`) and `StorageStaysDeterministic`
(`StorageIsDeterministic`): all the properties of the run `GridCheckpoint`. The
assumptions are `FreeSetAssumption`, `GridAssumption` and that `None` is no job
(`NoneAssumption`).

`CheckpointIsIntact` and `PreviousIsIntact` are not inductive. `Kept` says that the blocks of the superblock's
checkpoint and of the one before stay acquired, and that
`mark_checkpoint_durable` will not free them: what it frees was released before
the last checkpoint, when nothing of it was referred to any more. `Encoded` says the
same of the checkpoint that is being written, which a restart may find.
A block is written only by the job that acquires it, and `acquire` returns one that
was not acquired, so no needed block is written. `Extremes` has the facts on least
and greatest elements that the search for a free block, and the choice of a log,
rest on.

That storage is deterministic is a statement about two executions of a beat, of which the
state has one. `Replay` therefore keeps the history: for each beat that the trace
has since the durable checkpoint there is a `Run`, a function from the number of jobs done
to the free set, that begins with the free set before the beat (`Begins`: with what a
checkpoint that becomes durable in this beat frees already freed), follows the log and
ends as the trace says (`Recorded`); for the beat that is executed there is one up to the
last job that is done, and the state differs from its end by what the job that runs has
acquired and released (`Compacting`). A step from one end to the next is a
relation, `Done`, and the proof is that it is a function (`DoneOnce`). It is because a
reservation of n free blocks ends in one place (`EndOnce`) and the first k of its free
blocks are one set (`FirstOnce`), and because `reserve` and `acquire` find just these: they
start at the first shard that the index does not hold full, which skips no free block
(`SkippedAreFull`), though after `open` the index knows only the shards of the blocks
that held the free set (`IndexSound` rather than `IndexIsExact`). Two runs of one log then end
alike (`RunOnce`: the first job after which they differed would have given two
results). `Beats` carries what makes a checkpoint begin a trace of its own: no beat
between the durable checkpoint and the end of the trace ended in a checkpoint, so a
replica that reaches one has executed the whole trace.

### StateMachineProofs

For every finite set of accounts and of transfer ids, every amount and time bound and
every choice of requests: `TypesAreCorrect`, `BalancesFollowHistory`, `LimitsAreKept`,
`PendingResolvedOnce`, `PulseIsScheduled`, `AssertionsAreKept`, `StoresFollowCaches`,
`ChainsAreKeptAtomic` and `HistoryIsKept`: all the properties of the runs `Transfers` and
`Chains`. Nothing is assumed of how operations lie in time. The assumptions are those
of the module: finite sets, natural bounds, requests whose events passed the checks of
a field, and a `None` that is no row.

The first part is about one database. `Ledger(db)` says that the rows refer to each
other, that each balance is the sum of the transfers that make it, that the sums fit
and limited accounts are within their limit, that a hold has one resolution, and that
an account which a hold closes stays closed until that hold is resolved. The last
part is in no run: it is what the assertions on closed accounts need, because the
reopening of an account by one hold must not disturb another. The lemma
`CreatedIsApplicable` ties the checks to what is applied: where a status is `Created`, the
transfer can be applied without an overflow, a negative balance or a failed
assertion; `CreateKeepsLedger`, `ResolveKeepsLedger` and `LapseKeepsLedger` that it keeps the
ledger. Sums over a finite set are unfolded by hand (`TotalAdd`, `TotalRemove`): the sum
is a fold whose CHOOSE may take any element first, and the induction over finite sets
is that of a well-founded order, on sets rather than on predicates.

The second part is about a batch. The stores are a ledger throughout, and so are the
caches, also after a chain is discarded, as long as no two holds in them share a
timestamp (`Sound`): a new hold that takes the timestamp of another overwrites its row.
The stores never come to that, because persisting such a hold fails an assertion
(`SeparateHolds`, `Distinct(store)`).

The walk that persists
sees only results, so that what it will write must be known before it starts:
`Remembered` says that there is a history `h` of databases, one per result, each the
effect of its event on the one before, that starts with the stores as they were, passes
through what has been persisted (`h[persisted]`), and ends in the caches; an open chain
keeps a place in it (`h[chain - 1]`), to which a failure returns. No variable holds that
history, which is why the properties are not inductive. A transfer of the caches that
the stores do not have was added by one event of the history, and that event was
answered as created (`HistoryAdds`, `CreatedIsNew`, `NewIsCreated`); with `Atomic`, that
the results of a chain are all `Created` or none, this is `ChainsAreAtomic`.

An assertion on timestamps may fail, and which one says something about the state
(`Expected`): that the operation is not spaced, or that two holds of the caches share a
row. Every other assertion is shown not to fail where it stands, and nothing moves
after one that does (`StopKeepsInvariant`).

### SessionsProofs

For any number of clients, views, requests and ops, and for tables and pipelines of any
size: `SessionsAgree` (`SessionFollowsClient`), `EvictionIsFinal`
(`EvictedHasNoSession`) and `RequestsAreServed` (`RequestIsServed`), all the properties
of the run `Sessions`. The assumptions are `SessionsAssumption` (the two sizes are
positive, the bounds natural) and `NoneAssumption` (`None` is no request).

A primary's table depends on every request it executed, for each register may evict
someone, so the invariant `History(h, n)` speaks of the table after each op: `h` is a
history of tables, `n` the ops executed anywhere, and `table[v] = h[executed[v]]`
for every primary. No variable holds `h`; `Invariance` says that there is always one.
Its parts:

* `Past`: each table comes from the one before by a request the assertions let pass; an entry of `h[i]`
  (`EntryAt`) was in every table since its session began, and its requests were
  executed once each, in the order of their numbers;
* `Logs`: what is kept of a log is the beginning of every later one, so that all
  primaries are somewhere on the same history (`Executed`);
* `Prepared`, `Sent`, `Known`: what is prepared was sent, and every request was stamped with
  a session that a primary of its view, or of one before, had executed. This is why a
  primary that has executed what it prepared knows the session of any request it may
  look at, and why a table without it means that the session has ended;
* `ClientAt`: where a client is: its session and its parent are ops of the history, the
  parent that of the last request it got an answer to;
* `Ended`: an evicted client's session is missing from some table of the history, and
  a session that is missing once never comes back.

A new primary starts with `TableAfter`, a recursive function of the log. That it is
`h[e]` is an induction on ops, done as the search for a least op where the two differ
(`TableOfHistory`, with `Extremes`). A primary that stops keeps its state, and its part of
the history with it. `RequestsAreSequential` is no theorem, since the run
`RepeatedRequest` violates it: it is about what is prepared, and `Past` about what the
assertions let pass.

### ClientRepliesProofs

For any number of clients, slots, reads, ops and faults, and up to two write operations
(`WritesMax <= 2`: config.rs:118 has two): `WrittenTheorem` (`DurableIsWritten`) and
`AssertionsTheorem` (`AssertionsHold`), both invariants of the run. The assumptions are
`RepliesAssumption` (positive sizes) and `NoneAssumption` (`None` is no operation and no
name). The hypothesis is no convenience: with three write operations both properties
fail (see the disagreements).

Neither property is inductive: whether a slot holds a reply depends on writes that are
queued, under way or evicted from, and whether a completion meets a live operation
on every completion before it. The invariant is `Keeps(x, t, n, R)`, of a component `x`,
a session table `t`, the ops `n` and the registered clients `R`:

* `Reading` and `Writing`: the operations taken are those in flight, once each; the storage
  reports once for each that was started; the second of two writes is queued when it is for
  the slot of the first (`Waits`), and nothing else is;
* `Contents`: every write in flight is `Recent`, that is, of a client's own slot and of its
  latest reply or an older one, unless the client was evicted; a write under way is what
  the disk has; and a slot that is not faulty `Holds` its reply, on disk or in its
  last write.

It is stated of a component and a table rather than of the state, so that one lemma
serves every caller: `WriteReplyKeeps` is used by the commit, which changes the table
under the writes in flight, by the commit that a poll wakes, and by a repair.
`WriteDoneKeeps` and `ReadDoneKeeps` are the two completions; that any number of them in
one poll keeps the component (`DrainedKeeps`) is an induction on their number,
done as a search for the least one that would not. `NewTable` says that the entry of the
next reply, in a free slot, in that of its client or in that of the client it
evicts, leaves the older writes recent. `LatestIsReply` is why a read never meets the
write of another reply. `Pipeline` ties `ready_waiting` to a parked commit, so that a
notification finds one.

### Only model-checked

The liveness properties (`QuorumLeadsToExecution`, `BackupCatchesUp`,
`ViewsBecomeDurable`, `ParkedCommitResumes`), since fairness and ENABLED are out of the
prover's reach. Every invariant and every action property of the passing runs is a theorem.

## Plan

1. Repair: header and prepare requests and their answers, in `ViewChange`; restarts,
   with the durable views that `SuperBlock` already has.
2. `ClientReplies` composed with `Sessions`, and the repair of replies between replicas.
3. Repair budgets, journal recovery, the clock: one module each, checked together
   where they are algorithms over bounded inputs.
4. The LSM structures (merge iterators, table memory, levels, caches), the
   contents of the manifest log and of a compaction.
5. Proofs: the properties of the parts that are added; the refinement of an abstract
   replicated log by a view change, whose safety is proved directly so far.

## Not modelled

* The answers to repair requests: the port drops most of them when no repair timer
  runs, and its tests run with none; journal slots, their wrap and the recovery
  decisions; the durable view inside a view change (the superblock has it).
* The messages that ask other replicas for a faulty reply (the port sends none),
  repair budgets, the scrubber and the repair of missing
  blocks.
* The contents of tables, levels, the manifest and compaction, and the in-memory
  structures they are built from: algorithms over data, which the unit tests
  compare with references.
* Clock, Marzullo's algorithm and the fault detector, the message bus and its pool.
* The server's command line, the inspector and the wire encodings, which keep no
  state of their own; sockets and files, which are I/O.
