# TLA+ models of the Starcoin node

This directory models the parts of the node (`src/`) where concurrency, crashes
or long sequences of calls decide about correctness. TLC checks the models on
small instances, and TLAPS proves the main invariants of three of them for
every instance. `PROJECT.json` is the index: components, runs, the lines of
source behind each definition, hazards, findings and theorems.

## The system

A node is one process of actors (services of `commons/service-registry`) over
one RocksDB store. Actors have bounded mailboxes and talk through the event
bus. Blocks reach the node from its miner, from peers that relay them
(`block-relayer`) and from sync tasks (`sync/src/tasks`) that download whole
chains. Sync tasks execute blocks on chains of their own and tell the block
connector (`sync/src/block_connector`), the one actor that chooses the main
chain. It persists the head, tells the transaction pool (`txpool`), and
broadcasts the new head. The miner follows the head through the bus and its
blocks come back to the connector.

### Inventory

| Part | State | Operations | What makes it hard | What correct means |
|---|---|---|---|---|
| Block connector (`sync/src/block_connector`) | main chain, startup info in memory, mailbox | connect a mined, relayed or synced block; select head; new head | sync tasks write the same store; a stop between any two writes; a full mailbox; failing writes | one head, only ever heavier; the pool is told the right blocks of a reorganisation |
| Chain store (`chain/src/chain.rs`, `storage`) | blocks, block infos, state nodes, failed blocks, startup info | flush, `commit_block`, `save_block_info`, `save_startup_info` | separate durable writes, two writers | a block info on disk means the block is executed; the persisted head can always be opened |
| Sync service (`sync/src/sync.rs`) | stage, status, handle of the task | check, start, force, cancel; begin and end of a task | requests and reports of a detached task arrive in any order | one task; stages end; the status tells the truth |
| Stream tasks (`commons/stream-task`) | window of sub tasks, channel, collector | fill, retry, yield, send, collect, `and_then`, cancel | sub tasks finish out of order, fail and are retried; the collector is a task of its own | items arrive in order and once; success is complete; every task ends |
| Key-value store (`storage/src/storage.rs`) | database, LRU cache with absent entries | get, contains, put, remove, `write_batch` | operations of threads interleave between cache and database | the cache agrees with the database |
| Transaction pool (`txpool`) | pool, priorities, sequence number cache, head | import, remove, read pending, `chain_new_block` | readers keep a view of an old head; imports race a reorganisation; limits | limits hold; what is pending can be packaged; retracted transactions return |
| Service registry and bus | mailboxes, subscriptions | start, stop, subscribe, broadcast | bounded mailboxes, commands between events | subscribed once; in order; nothing vanishes unaccounted |
| Miner (`miner`) | current task, retries, head of the template service | generate, dispatch, submit seal, retry | four actors learn of a new head on different paths | the node keeps minting, on its head; one block per task |
| Block sync tasks (`sync/src/tasks`) | target, ancestor, blocks in flight | find ancestor, fetch accumulator and blocks, collect | interrupted syncs, peers that fail | the target chain is connected or the task fails |
| Block relayer | compact blocks being completed | announce, fill, hand over | missing transactions, late answers | a complete block reaches the connector |
| Network (`network`, `network-p2p`) | peers, reputations, protocol handlers | connect, accept, reject, drop, report | crossing open and close handshakes | slots are not exceeded, messages go to open peers |
| Network RPC | rate limiters | request, answer | bursts | limits hold |
| Chain reader, announcements, JSON RPC, stratum | head followed, subscribers | queries, fan-out | late subscribers | follow the head |
| Execution, state tree, accumulator, consensus, Move library | Merkle trees, VM state | append, prove, execute, adjust difficulty | arithmetic and tree positions | the same result on every node |
| Accounts | unlocked keys with expiry | unlock, lock, sign | expiry between check and use | a locked account does not sign |
| Node, genesis, configuration, command line, tests | | start-up | | |

The last eight rows are not modelled (of the sync tasks only what the first
rows need); the reasons are in `PROJECT.json` and the order in which they are
planned is at the end.

## Modules and how they correspond to the code

**`BlockTree`, `ChainStore`, `BlockConnector`, `ForkChoice`, `MCBlockConnector`.**
Blocks are model values with a parent, a number and a difficulty; a chain is the
list of leaves of its block accumulator (`ChainTo`). `BlockTree` has the pure
algorithms over chains, `find_ancestor` and `find_blocks_until`. `ChainStore`
has one action fragment per durable write, in the order of
`execute_block_and_save`. `BlockConnector` adds the memory of the connector.
`Receive` takes a message and follows `connect_inner` into one of its branches;
`VerifyOk` to `CommitToTxpool` are the steps of one handler, separated because
sync tasks write the store in between. The `Task...` actions are `BlockCollector`
and `BlockSyncTask`; `StorageError` is the early return of any failed write,
`Crash` a stop of the process with a restart from disk. Signature, proof of work
and execution are the constant `Valid`; `Late` are blocks whose timestamp may
still lie in the future. `ForkChoice` is the promise: execute a block on an
executed parent, move the head to a strictly heavier executed block.

**`SyncService`, `MCSyncService`.** The stage machine of `sync.rs`: one action
per handler (`NewHeadBlock`, `SystemStarted`, `PeerOpen`, `SyncCancelRequest`,
`SyncStartRequest`, `SyncBegin`, `SyncDone`; `StartTask` and `AlreadyStarted`
are the two outcomes of `check_and_start_sync`) and the steps of the spawned
future: it waits for peers (`EnoughPeers`, or `PeerSetFails` when the network
does not answer), looks for a target (`FindTarget`) and ends (`Finish`). Peers
come and go with `PeerSetChange`. `SystemStarted` is broadcast once, and the
variable `started` remembers whether it found a sync running: it then overwrites
the status of that sync. A chain is its total difficulty.

**`StreamTask`, `MCStreamTask`.** The window of `buffered`, the batch that
`send_all` holds, the channel and the collector are variables. `NewSubTask`
fills the window, `SubTaskOk` and `handle` complete, retry or fail a sub task,
`Yield` hands the first finished one on. `Collect` and `CollectorEnd` are the
collector's own task, `wait_output` the join, `AndThen` the next stage, `cancel`
the abort of the future, which only drops its side of the channel.

**`StorageCache`, `MCStorageCache`.** Each access to the cache and each access to
the database is one step; an operation is several. `write_batch` also stands
for `put` and `remove`, which are batches of one row.

**`TxPool`, `MCTxPool`.** A client (`pool_client.rs`) is a view of the state at
the head it was made for, and an operation keeps it across steps. The crate
`transaction-pool` is external and modelled from its use: `AddToSender`, `Worst`
and `PoolImport`. `NewHead`, `ClearNonces`, `cull`, `ImportRetracted` and
`NewBlockDone` are the steps of `chain_new_block`. Two history fields of `job`
serve the properties: `owed` and `spanned`.

**`ServiceBus`, `NodeEvents`.** `ServiceBus` has the mailboxes, the bus actor and
start and stop of services; `NodeEvents` gives the requests that four services
make in `started` and `stopped`.

**`Miner`.** Pacemaker, template service, miner service, clients and connector,
with the bus between them in order. A template is its parent and its minting
blob. Two templates on one parent may have the same blob (the same millisecond
and the same transactions), so tasks have an identity of their own. A seal
solves the blob or does not (`verify_blob`). A template can fail, and so can the
template service's change to a new head (`UpdateChainFails`) and the connection
of a mined block (`ConnectFails`). `connector.aside` is history: the last block
the connector took did not become the head.

## What the runs show

| Run | Bounds | Result |
|---|---|---|
| `connector_crash` | six blocks with a tie, an overtaking branch and an invalid block; one mined and one relayed block, one sync task, a mailbox of 1 | `TypeOK`, `InfoMeansExecuted`, `Recoverable`, `OneHead`, `ReorgToldToTxpool`, `HeadGrows` and the refinement of `ForkChoice` hold, with a crash or a failed write anywhere. Where writes fail `OneHead` does not claim that disk and pool have followed the memory, and `ReorgToldToTxpool` is about the switches whose startup info was saved: after a failed `save_startup_info` (`write_block_chain.rs:153`) the pool is not told at all |
| `connector_alone` | the same tree, all blocks relayed, two mined, a mailbox of 2, no sync task | `HeadIsHeaviest`, and `OneHead` in its strong form (memory, disk and pool agree) |
| `connector_reorg` | one sync task | `EnactedNotRetracted` is violated (finding) |
| `sync_stages` | two task names, total difficulty up to 2, two waiting checks | `IInv`, `OneTask`, `BeginOnlyInChecking`, `SyncIsShown` (a task that the status does not show is canceled); canceling and synchronizing end, and checking ends once there are enough peers for good |
| `sync_status` | the same | `SynchronizingIsActive` is violated (finding) |
| `stream_chain` | four sub tasks of two items, a window of three, one retry, two stages | `IInv`, `InOrder`, `OkIsComplete`, `Terminates` |
| `storage_shared` | two threads, two content-hash keys and one that is rewritten and removed, a cache of two | `TypeOK`, `Coherent`, `CachedIsDurable` |
| `txpool_reorg` | four transactions of two accounts, four heads with a fork, a pool of two, one importer and one reader | `TypeOK`, `WithinLimits`, `NoncesFresh`, `RetractedReturn` |
| `txpool_stale` | the same | `PendingIsPackagable` is violated (finding) |
| `bus_commands` | two services, two event types, mailboxes of 2, two broadcasts, three commands | `SubscribedOnce`, `InOrder`, `EventsSettle`, `HeardUnlessFull` (while no service is stopped or started, only a full mailbox loses an event) |
| `bus_txn_sync` | pacemaker and transaction sync, one broadcast | `StatusIsHeard` is violated (finding) |
| `mint_node` | two heads, two status changes, one failed template, two seals | `KeepsMinting` (a synced node has a task, or something under way leads to one), `OncePerTask`, `MintsOnHead` |

Why the bounds are enough to be interesting: in the block tree a tie, a longer
branch that wins and an extension by two blocks all occur; a mailbox of one is
full whenever a message waits. Two task names let a second live task show. The
window of three is smaller than the number of sub tasks, so it is refilled while
it is in use, and the channel fills up. The cache is smaller than the number of
keys. The pool of two is full with three transactions that could be pooled
together, and Alice has two for one number. Three commands stop, start and stop
a service again. `CHECK_DEADLOCK FALSE` is set where a bound on inputs (imports,
broadcasts, commands, seals) or the end of a task lets the system come to rest.

### Fairness

* `SyncService`: the actor handles what is in its mailbox (`CheckSync`,
  `Service`), the wait for peers asks every second (`EnoughPeers`), and a task
  that found its peers ends (`Finish`): sub tasks have bounded retries and
  requests to peers time out. Nothing is assumed of users and peers. The wait
  for peers has no end of its own, so `CheckingEnds` says that checking ends if
  there are enough peers from some time on.
* `StreamTask`: the executor keeps polling a future that is ready (`Step`);
  cancelling is not fair.
* `ServiceBus`: each actor runs on a thread of its own and handles what is ready.

### Findings

Four runs show that the code does something else than a comment or the API's
documentation says; `PROJECT.json` quotes both sides.

* `find_ancestor` searches below the smaller head, so a branch that extends the
  head by two or more blocks makes the head both enacted and retracted
  (`connector_reorg`).
* A check that is handled while a sync is being canceled overwrites the stage;
  the status then stays "Synchronizing" after the task ended (`sync_status`).
* A reader with a view of the previous head refills the sequence number cache
  after it was cleared; a transaction that is already in a block stays pending
  (`txpool_stale`).
* The transaction sync service unsubscribes in `started` (`bus_txn_sync`).

More deviations came up while modelling. They are listed as hazards, and the
properties above are stated so that they are excluded explicitly:

* A forced sync request can be lost: its check is handled before the canceled
  task reports its end, and nothing repeats it (`sync.rs:588`).
* A stream task whose collector has enough can end with the error of a sub task
  that was started ahead (`generator.rs:169`).
* Between the miss of `get` and its "none" entry another thread's `put` can
  complete, and the entry then hides the row until it is evicted
  (`storage.rs:127`). `Coherent` leaves out keys on which two operations have met.
* The retry of a forced block generation is not forced (`miner/src/lib.rs:216`).
  `MintsOnHead` is stated for runs without a failed template.
* A cancel request that arrives while the service is checking does nothing
  (`sync.rs:285`); the sync that the check finds runs.
* Heads that arrive while the node is not synced are ignored, and the event that
  follows is not forced (`generate_block_event_pacemaker.rs:93`). The old task
  stays; its block becomes a branch, for which no new task is asked. `KeepsMinting`
  leaves out the time between such a block and the next head.
* After a failed `save_startup_info` the new head is in memory, and the pool never
  hears of the switch (`write_block_chain.rs:153`).

## What is proved

TLAPS checks the following for all values of the constants that satisfy the
named assumptions (`BlockTreeAssumption`, `ConnectorAssumption`,
`SyncAssumption`, `StreamAssumption`). The assumptions say what a block tree is
(a valid block is one above its parent, `ChainTo` appends a block to the chain
of its parent) and that capacities are positive; TLC evaluates them in the runs.

* `ConnectorStoreProofs`, `ConnectorTaskProofs`, `BlockConnectorProofs` (each
  extends the one before: the writes of the store, the steps of a sync task, the
  handlers and the theorems). `Invariance` proves `Spec => []IInv`, from which follow
  `TypeCorrect`, `InfoIsLastWrite`, `RestartIsSafe` and `HeadsAgree`. `OneHead` is
  not inductive: during a handler the three heads differ. `IInv` adds how they
  differ at each step (`HeadInv`), what a step of a handler or a sync task has
  already written (`JobInv`, `TaskInv`), and that the leaves of an executed chain
  are executed and sit at their numbers. The lemmas go from the writes of the
  store (`SmallWrites`, `InfoWrite`, `GrowthKeeps`: a block info that is there is
  never changed) to the handlers (`ReceiveIInv`, `ApplyIInv`, `NewHeadIInv`,
  `TaskIInv`, `CrashIInv`). `HeadNeverLighter` is the action property: a new
  startup info is heavier than the one on disk, because `HeadInv` bounds the disk
  by the memory. `ImplementsForkChoice` shows that each step of the connector, of
  a sync task and each crash is a step or a stutter of `ForkChoice`.
* `SyncServiceProofs`. `IInv` names the only task that may be alive and ties its
  progress, its messages and the stage together, and in Synchronizing the stage
  with the status. `NeverTwoTasks`, `UnexpectedNeverHappens` and
  `NothingRunsUnseen` follow.
* `StreamTaskProofs`. `IInv` says that what is collected, in the channel, in the
  batch and in the window are consecutive parts of one item sequence.
  `CollectsInOrder` and `SuccessIsComplete` follow.

Only model-checked: liveness (`CancelingEnds`, `CheckingEnds`,
`SynchronizingEnds`, `Terminates`, `EventsSettle`, `HeardUnlessFull`), because
fairness is out of the prover's reach; `ReorgToldToTxpool` and `HeadIsHeaviest`; and everything
about the key-value store, the transaction pool, the bus and the miner.

## What is left out

* What a block computes: the Move virtual machine, state trees, hashes and
  signatures. A block executes or does not.
* Peers as adversaries: a peer delivers blocks of the tree or fails.
* Streams and timers of an actor and the order of the futures it waits for: they
  are decided in the actor library. `ServiceCmd::Restart`, which is a stop and a
  start.
* Stop and start of the sync service alone. `stopped` cancels a task only in
  Synchronizing, so after a stop in Checking the spawned future lives on, and the
  new instance, in NotStart, can start a second one and get the SyncBegin of the
  first outside of Checking (`sync.rs:393`). `OneTask` and `BeginOnlyInChecking`
  are stated for a service that is not stopped.
* An error of `check_and_start_sync` before the future is spawned (`sync.rs:117`,
  `120`, `210`): it would leave the stage in Checking, and needs a check before
  the network and the connector are registered. That the mailbox of the sync
  service is full when a task ends (`sync.rs:270`).
* The mailboxes of `Miner` are not bounded (`ServiceBus` has the loss), and its
  event for propagated transactions is left out.
* Metrics, logs, progress reports and penalties for peers.
* In the pool: local priority, the memory limit, listeners, and the eviction of
  half of the sequence number cache when it is full (`pool_client.rs:99`).

## Plan

1. Sync tasks: ancestor search, accumulator and block fetchers with their
   retries, the choice of a target, and the restart of an interrupted sync over
   blocks that are already executed (`block_sync_task.rs:274`).
2. Pure algorithms: accumulator node positions, append and proofs against a
   reference; the difficulty adjustment; the epoch and governance state machines
   of the Move library.
3. Network: the peer set manager, the handshakes of the notification protocol
   handler, the rate limits of network RPC.
4. Block relayer with compact blocks, composed with the connector and the pool;
   stratum; the expiry of unlocked accounts.
5. Proofs: `WithinLimits` and the sequence number cache of the pool, `InOrder`
   and `SubscribedOnce` of the bus, `OncePerTask` of the miner, `CachedIsDurable`
   of the store, `ReorgToldToTxpool` of the connector.
