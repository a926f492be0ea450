# Formal specifications of the node's validation core

TLA+ specifications of the part of bitfinite-core (a descendant of Bitcoin Cash
Node) that decides which chain of blocks is active and that keeps the
unspent-output set, the block index, the block files, the memory pool and the
transaction index consistent with it, with TLC configurations and TLAPS proofs.
Source paths are relative to the repository root.

## 1. Inventory

### The system

The node receives headers and blocks, stores the blocks in flat files, keeps an
index entry for every header, and moves its *active chain* to the valid chain with
the most work. For the active chain it keeps the set of unspent outputs, in a stack
of caches over a LevelDB database. Connecting a block checks its scripts on a pool
of threads. Transactions that wait for a block are in the memory pool, which follows
the active chain back and forth. Other parts of the node, the transaction index among
them, learn of changes through a queue of notifications that a scheduler thread
works off. An operator can veto chains (`invalidateblock`, `parkblock`), prefer one
(`preciousblock`) or pin one (`finalizeblock`); the node itself parks deep
reorganisations and finalizes old blocks. The process can stop or lose power at any
moment and must find a usable state on disk.

| Part | Sources | State | Modelled in |
|---|---|---|---|
| Coin caches | `src/coins.{h,cpp}` | `cacheCoins` with DIRTY and FRESH flags, `hashBlock` | `CoinsCache`, `CoinsView` |
| Coins database, flush, recovery | `src/txdb.cpp`, `src/validation.cpp` | coins, `DB_BEST_BLOCK`, `DB_HEAD_BLOCKS`, undo data | `CoinsFlush` |
| Block index and chain selection | `src/validation.cpp`, `src/chain.h`, `src/blockstatus.h` | status flags, `nChainTx`, `setBlockIndexCandidates`, `mapBlocksUnlinked`, `m_failed_blocks`, active chain, finalized block | `BlockTree`, `ChainState` |
| Script check queue | `src/checkqueue.h` | queue, `nIdle`, `nTotal`, `nTodo`, `fAllOk`, threads | `CheckQueue` |
| Block and undo files | `src/node/blockstorage.cpp`, `src/flatfile.cpp` | `vinfoBlockFile`, `nLastBlockFile`, positions, file contents | `BlockFiles` |
| Block contents rules, scripts | `src/consensus/`, `src/script/` | none | a constant verdict |
| Scheduler, validation notifications | `src/scheduler.cpp`, `src/validationinterface.cpp` | task queue, callback queue, `m_are_callbacks_running` | `SerialQueue`, `Notifications` |
| Transaction index | `src/index/` | `m_synced`, `m_best_block_index`, entries and locator on disk | `TxIndex` |
| Memory pool, its reorganisation | `src/txmempool.{h,cpp}`, `src/validation.cpp` | `mapTx`, `mapNextTx`, `mapLinks`, disconnected transactions | `Mempool` |
| Double spend proofs | `src/dsproof/` | proofs, orphan flags and counter | `DSProofStorage`, `Mempool` |
| Start-up and shutdown | `src/init.cpp` | order of stopping and joining threads | `Notifications`, and the restarts of the others |
| Block download, addresses, bans, signature cache, block assembly | `src/net_processing.cpp`, `src/addrman.cpp`, `src/banman.cpp`, `src/cuckoocache.h`, `src/miner.cpp` | tables per peer, bounded tables | no, section 5 |
| Sockets, RPC, REST, ZMQ, GUI, wallet, seeder, vendored libraries | | | no |

`PROJECT.json` has the full list, with the reason for everything that is left out,
and the hazards of the code with the properties that cover them.

### How the parts interact

`ProcessNewBlock` accepts a block (index entry, position in a file), then
`ActivateBestChain` picks the best candidate and disconnects and connects blocks one
at a time. Each connection runs the check queue and applies a temporary coin cache
to `pcoinsTip`. `FlushStateToDisk` syncs the files, writes the index, removes pruned
files, and writes the coins, in that order. At start-up `LoadBlockIndex` and
`ReplayBlocks` rebuild memory from what survived.

Connecting and disconnecting blocks takes transactions out of the memory pool and puts
them back. Under `cs_main`, `ActivateBestChain` queues `BlockConnected` and
`FlushStateToDisk` queues `ChainStateFlushed`; the scheduler thread runs these callbacks
one after the other, without `cs_main`, so a subscriber sees the chain with a delay. The
transaction index catches up in a thread of its own first and on these callbacks
afterwards. A thread that needs the callbacks done waits for the queue to drain; so does
`ActivateBestChain` when more than ten are waiting.

Two locks matter. `cs_main` guards all of this state. `m_cs_chainstate` is held by
`ActivateBestChain` from beginning to end, while `cs_main` is released between two
steps; `UnwindBlock` (behind `invalidateblock` and `parkblock`) takes and releases
`cs_main` once per disconnected block and does not take `m_cs_chainstate`. So the two
interleave.

### What is hard

* Flags of cached coins: dropping a FRESH coin is only right if the parent lacks it.
* A crash between two batches of one flush, again during recovery.
* Decisions made before `cs_main` was released and used afterwards.
* Data arriving out of order below blocks that are invalid, parked or later reconsidered.
* Failed reorganisations, and finalization in the middle of one.
* Lost wake-ups and counters of the check queue.
* Data synced after the index entry that points to it; pruned files.
* Callbacks that are queued, scheduled and run by different threads under two locks, and
  threads that wait for them, also while the node shuts down.
* The index: the hand-over from its thread to callbacks that may be about branches
  already left, and a crash between any two of its writes and those of the coins.
* The pool over a reorganisation: transactions of blocks and pool must return with
  parents before children, under rules that may have changed, while `cs_main` is released.
* Proofs whose entry comes and goes, with a counter kept apart from them.

## 2. Modules

Each component has one module. Definitions keep the names of the functions they
model; `map` in `PROJECT.json` gives the lines. Definitions named `Mut_...` are
deliberately wrong variants of the definition that follows them; they take part in
no specification and are there to show that the properties can fail.

**CoinsView, CoinsCache.** `CoinsView` is the promise: one map from outpoints to
coins and a best block, changed atomically by committing a view. `CoinsCache` is the
code: database, `pcoinsTip`, and a temporary `CCoinsViewCache` above it. Actions are
`GetCoin`, `AddCoin` (also its throwing path), `SpendCoin`, `SetBestBlock`,
`Flush`/`BatchWrite` at both levels, `Uncache`, and dropping the view. A coin is a
model value, an entry a coin with its two flags. Memory accounting is left out.

**BlockTree.** The tree of blocks all other modules share, with ancestors, forks and
the next block towards a descendant (`CBlockIndex::GetAncestor`, `LastCommonAncestor`).

**CoinsFlush.** `pcoinsTip` is a plain map here, as `CoinsCache` shows it may be.
Blocks are connected and disconnected with undo data. `FlushIndex` and `FlushAll`
are the two forms of `FlushStateToDisk`. `WritePartialBatch` writes any subset of the
dirty coins and leaves the two head hashes; `WriteFinalBatch` ends the flush. `Crash`
keeps what LevelDB made durable. `Start`, `StartReplay`, `RollbackBlock`,
`ForkReached`, `RollforwardBlock` and `ReplayDone` are `LoadChainTip` and
`ReplayBlocks`. LevelDB is modelled by what `txdb.cpp` relies on: a batch is atomic,
batches become durable in order, an unsynced one may be lost.

**ChainState.** The index (`validity`, flags, sequence ids, linked, unlinked,
candidates, failed, dirty), the active chain, the thread in `ActivateBestChain`
(`abc`), a running `UnwindBlock` (`unwind`) and the index on disk. One hold of
`cs_main` is one action, except that inside `ActivateBestChain` each candidate looked
at and each block connected or disconnected is a step with `cs_main` held
(`CsMainFree` is false). What makes a block bad is given by the constants `BadData`
and `BadConnect`. The node does not prune here.

**CheckQueue.** Threads with the program counters of `CCheckQueue::Loop`. A step is
one critical section or the execution of a batch. Both condition variables are
modelled with spurious wake-ups. The pool is stopped and started in between.

**BlockFiles.** File contents are sets of extents; a write destroys what it overlaps.
`safe` is what a power loss leaves. `FlushStateToDisk` is broken up into its steps, with a
crash possible between any two. Unsigned subtraction wraps at `UnsignedRange`.

**SerialQueue, Notifications.** `SerialQueue` is what `scheduler.h` promises of
`SingleThreadedSchedulerClient`: callbacks are run in order, as if by a single thread.
`Notifications` is the code: `CScheduler::serviceQueue` for any number of threads, with
its condition variable, spurious wake-ups and a clock; `MaybeScheduleProcessQueue` and
`ProcessQueue`, whose steps are the critical sections of `m_cs_callbacks_pending`; and the
threads that use them: message handler and RPC threads and the block import thread in
`ActivateBestChain`, `AcceptToMemoryPool` and `SyncWithValidationInterfaceQueue`, with
`cs_main` and `m_cs_chainstate`; and the main thread in `Shutdown`. Time is relative: a task
carries the time left. A callback is a signal, for which the subscribers need `cs_main`, or
the fulfilment of a promise. `MaxPending` and `MaxTasks` bound what may be begun.

**TxIndex.** `BaseIndex` with `TxIndex`: `ThreadSync` in steps of one `cs_main` section, one
write or one commit; the callbacks, taken from a queue that behaves like `SerialQueue`;
`BlockUntilSyncedToCurrentChain`; `Interrupt`, `Shutdown` and a crash, each followed by a
start. The chain moves by whole `cs_main` sections of `ActivateBestChain` or `UnwindBlock`,
which queue `BlockConnected` at the end of the section and `ChainStateFlushed` in the middle,
as a flush in `ConnectTip` or `DisconnectTip` does. `db.named` is not in the code: it
remembers blocks whose locator was committed before they were written.

**DSProofStorage, Mempool.** `DSProofStorage` has the operations of
`DoubleSpendProofStorage`, each of which holds its lock throughout, as operators on the
store. `Mempool` has `CTxMemPool` with `mapTx` in entry order, `mapNextTx` and both directions
of `mapLinks`; the removals and `addForBlock` and `importMempool` of
`DisconnectedBlockTransactions`, written after the loops of the code; and as actions
`AcceptToMemoryPool` with its conflict path, the DSPROOF message, `periodicCleanup`,
`ActivateBestChainStep`, `UnwindBlock` and each turn of `updateMempoolForReorg`.
`periodicCleanup` needs no lock but that of the store, so a call of
`AcceptToMemoryPoolWorker` is several steps (`atmp`): up to `addUnchecked`, with the orphans
found on the way; `LimitSize`; for each of these orphans the lookup; and the claim, which
adds the copy that was looked up. Resurrected transactions go through the same steps but
`LimitSize`. Where two accesses to the store are one step, what expires in between could as
well have expired before or after. A transaction is a number, as ids order
transactions in a block, with its inputs, the first height at which it is final and the
script flags under which it verifies. Which entries expire or are trimmed is a free choice,
since fees, sizes and times are left out.

`MC*.tla` instantiate the modules; `MC*.cfg` choose the constants.

## 3. Runs

| Run | Shows |
|---|---|
| `coins_cache` | The stack of caches implements `CoinsView`; FRESH and DIRTY flags are always right |
| `coins_flush` | The database can be repaired after any sequence of crashes; recovery ends |
| `chain_selection` | `CheckBlockIndex`'s statements, undone reorganisations, finality, best tip, for every arrival order |
| `chain_restart` | The same about the index and the tip when the node restarts, and that every call of `ActivateBestChain` returns |
| `chain_commands` | Any two operator commands, interleaved with everything else: marks have a cause and the tip is the best |
| `check_queue` | Counters and results of the pool are exact; `Wait` and stopping end |
| `block_files` | No two index entries share space, stored blocks stay readable, pruning limits |
| `notifications` | The client implements `SerialQueue`, with its liveness; no callback is forgotten, waiting for the queue ends, timers keep running, shutdown ends |
| `tx_index` | The index has what it claims after any stop or crash, catches up, answers `BlockUntilSyncedToCurrentChain` truly, and finds transactions in the active chain |
| `mempool` | Whoever locks `cs_main` finds a pool that passes `CTxMemPool::check` and could be mined; a reorganisation leaves nothing out; proofs belong to entries and orphans are counted |
| `failed_header`, `unwind_mempool` | Disagreements between code and its own comments and assertions, section 6 |

Some properties are conjunctions of statements that belong together: `CheckBlockIndex`
(links, unlinked blocks, candidates), `DatabaseSound`, `CountersExact`, `WaitSound`,
`FilesConsistent`. Each conjunct has a name in its module, and the property has several mutants.

### Bounds and why they are enough

* `coins_cache`: two outpoints, two coins, two block hashes. Operations act on one
  outpoint; a second shows that they leave others alone, and two coins let a spent
  outpoint be recreated with another coin. The proofs cover every size.
* `coins_flush`: two branches of two blocks after genesis and three outpoints. One
  outpoint is spent within its block, one is created on both branches. Crashes are not
  bounded. The proofs cover every tree.
* `chain_*`: two branches A and B of up to three blocks that fork at genesis.
  `SkewedWork` makes B heavier, so that A3 ties with B2 and the tip changes sides
  repeatedly; `EvenWork` makes ties at every height. `MaxReorgDepth` is 1 or 2, so that
  finalization happens. `MaxCommands` and `MaxRestarts` bound the operator.
  `chain_restart` has branches of two blocks, one block with bad data and one that does not
  connect (54,519 states). With a third block on B it has 255,284 states and passes too, in
  14 minutes.
  `chain_commands` uses branches of one and two blocks, the smallest tree in which an
  unwinding takes two lock sections and has somewhere else to go. It runs with
  `AutomaticUnparking` off, as the repository's functional tests for parking do; with it
  on, a parked chain with the most work is unparked at once.
  The proofs cover every tree and any number of restarts, for the commands given in section 4.
* `check_queue`: two workers and the master, four checks of which one fails, batches of
  at most two, two blocks, two starts of the pool. The proofs cover every size.
* `block_files`: three blocks after genesis in three files of at most three units, one
  crash. It is enough for a file to be left, for a block to be connected after its file
  was left, and for a file to be pruned and reused. The proofs cover every size.
* `notifications`: two scheduler threads, which the node does not have but the client is
  written for, one server thread, one timer, the main thread. `CallbackLimit` is scaled from
  10 to 0, so that `ActivateBestChain` waits whenever a callback is pending, also while
  `Shutdown` is under way. The block import thread is left out, since
  `Shutdown` may wait for it forever (section 6). The proofs cover every size, with it.
* `tx_index`: branches of two blocks and of one whose first blocks share a transaction (the
  longer branch has others besides), two callbacks waiting, one stop, fatal error or crash
  (547,875 states). With transactions of its own on the shorter branch it has 1,233,286
  states and passes too, in four and a half minutes. Two callbacks are a whole reorganisation, or the end of one
  and the beginning of the next; one restart is enough for a locator of a branch that was
  left. `IndexComplete` is proved for every size.
* `mempool`: two branches, one with a child before its parent and a spend of a coinbase,
  the other with a conflict, a change of rules and a bad block; two entries in the pool,
  five in the queue, so that both limits are reached. Three proofs, one of them false, two
  about one output and one about another entry, with room for two orphans: when `LimitSize`
  takes that entry out, its proof becomes an orphan and one is reaped that the call has just
  found. One transaction is not final on the genesis block, one only valid before the change
  of rules and one only after it. `UnwindBlock` is called for the first block of one branch
  and for the second of the other. `MaxDisconnectPoolBlocks` is scaled from 10 to 0, so that
  the second block it disconnects is not kept (451,739 states; with three entries in the pool
  it has 1,088,715 and passes too). `QuietUnwind` keeps transactions from arriving between the first block
  `UnwindBlock` disconnects and the last; without it `PoolConsistent` fails (section 6).

### Fairness

* `CoinsFlush.FairSpec`: weak fairness of recovery and of the last batch of a flush. One
  thread does both and waits for nobody. `RecoveryCompletes` assumes that crashes stop.
* `ChainState.FairSpec`: weak fairness of the thread in `ActivateBestChain` and of
  `UnwindBlock`. Both only wait for `cs_main`, which every holder releases. Arrivals and
  commands are not fair.
* `CheckQueue.FairSpec`: weak fairness of each thread's `Loop`, of `Wait`, and of the two
  remaining steps of `StopWorkerThreads`. Executing a script ends. Nothing forces the
  master to start a block or anybody to stop the pool, and spurious wake-ups are not
  relied on.
* `Notifications.FairSpec`: weak fairness of every thread that has begun something,
  `Shutdown` included, and of the clock; strong fairness of the two steps that take `cs_main`, a mutex that
  other threads take and release again and again. Nothing forces a thread to begin
  something, and spurious wake-ups are not relied on.
* `TxIndex.FairSpec`: weak fairness of the sync thread and of the callbacks. `CatchesUp`
  assumes that the chain comes to rest and the node keeps running.

Deadlock is not checked: in every module the environment may stop sending input.

## 4. Proofs

`tlapm` checks `CoinsCacheProofs`, `CoinsFlushProofs`, `ChainShapeProofs` and
`ChainStateProofs` (one proof in two modules), `CheckQueueProofs`, `BlockFilesProofs`,
`NotificationsProofs` and `TxIndexProofs`. The modules about chains begin with the lemmas on the
tree of blocks they need. They use the named assumptions of the modules and nothing else:
`CoinsAssumption` (coins, the spent mark and "no entry" differ), `BlockTreeAssumption`
(every block but genesis has a parent one lower), `UtxoAssumption` (blocks spend
unspent outputs and do not recreate unspent ones; this is what the consensus rules
give), `ChainStateAssumption` (work grows along a chain, addresses differ, genesis is not
bad, the limits are numbers), `CheckQueueAssumption` (finitely many threads and checks, a positive batch
size), `BlockFilesAssumption` (blocks have a size, files a limit, and pruning starts no
earlier than the blocks to keep), `NotificationsAssumption` (the kinds of threads are disjoint, a positive interval) and
`TxIndexAssumption` (null is no block, the genesis block has nothing to index). TLC
evaluates all of them.

**Coin caches.** The invariant is `TypeOK`, `CacheCoherent` and `NeverMisapplied`
together. `FlagsSound` relates an entry to the coin its parent returns; each helper
(`Fetched`, `Added`, `AfterSpend`, `Merged`) has a lemma that it keeps `FlagsSound`, and
`Step` combines them with the refinement step. Proved: `TypeCorrect`, `Coherent`,
`FreshNeverMisapplied` (the `logic_error` in `BatchWrite` is unreachable) and
`CacheImplementsView`.

**Flush and recovery.** `CoinsMatchTip` is not inductive: what `ReplayBlocks` starts
from is a mixture, and what it needs is on disk. `IInv` adds that both indexes are
closed under parents and hold the right undo data (`IndexSound`), that the marks of
both databases refer to blocks the disk index has as connected (`MarksConnected`), and
what each control point knows (`ControlInv`), above all that during a replay every coin
has its value at the current position or at the target (`Between`). `ApplyBetween` and
`UndoBetween` show that applying or undoing a block keeps `Between` whether or not the
block had been applied to that coin already: this is why replaying is idempotent.
Proved from `Inductive`: `CoinsAlwaysMatchTip`, `DatabaseAlwaysSound` (from
`DatabaseAlwaysDescribed` and `HeadsAlwaysAgree`), `RecoveryNeverFails`,
`TipCanBeDisconnected`.

**Block index and chain selection.** What holds of the index depends on what the operator
does: section 6 lists what `invalidateblock`, `reconsiderblock` and `finalizeblock` break.
So there are five invariants, each with the commands and restarts it survives, all for every
tree of blocks, any work and any verdicts on the blocks:

| Invariant | Says | Proved for |
|---|---|---|
| `Shape` | types; known, linked and stored blocks form chains down to genesis (`Rooted`); the disk is right about what is not dirty (`OnDisk`); no candidate has less work than the tip (`EnoughWork`); what `ActivateBestChain` keeps while `cs_main` is free is linked and not on the active chain (`InHand`) | all commands and restarts |
| `Causes` | whatever is marked invalid or parked is on a chain with a block that carries the mark itself | all commands, no restart, as long as the assertion in `AcceptBlockHeader` holds |
| `Final` | the finalized block is on the active chain and on the one in hand | all commands but `finalize`, all restarts |
| `Valid` | no block of these two chains is marked invalid; what is in `m_failed_blocks` has failed, and will have after a restart | commands that leave the marks of invalid blocks alone (`Harmless`: `park`, `unpark`, `precious`), all restarts |
| `Linking` | a block with data that is not linked is in `mapBlocksUnlinked`, or has an ancestor that will never be accepted because a block below it failed (`Stuck`) | the same |

Proved from them: `TypeCorrect`; `MarksCaused` and `MarksCausedUnlessInvalidated`
(`MarksHaveCause`); `FinalizedBlockStays`; `ChainIsValid` (`ActiveChainValid`);
`FailedHeadersFound`, the assertion in `AcceptBlockHeader` that `failed_header` refutes for
the other commands; and `LinksHold` (`LinkedWhenComplete` and `WaitingBlocksRemembered`, two of
the four parts of `CheckBlockIndex`; `TypeCorrect` is a third). `Valid` needs `Final`, since a
block on a chain in conflict with the finalized one is marked, and `Linking` needs `Valid`. `Stuck` is what
makes `Linking` inductive across restarts: `LoadBlockIndex` rebuilds `mapBlocksUnlinked`, also with
blocks that `ReceivedBlockTransactions` would have found an invalid parent of, and marks only
children of failed blocks, so that which blocks are waiting must not depend on marks a restart
can lose. Each action has a lemma about what it does to the fields of the index (`...Effect`) and
one for each invariant that it keeps it. `ChainShapeProofs` has `Shape` and `Causes`,
`ChainStateProofs` the other three and the theorems. Lemmas that need finite sets and least
numbers have this as a hypothesis (`Counting`), which `CountingHolds` proves from the library.

**Check queue.** `ResultCorrect` speaks only of the return. `IInv` adds `Places` (which
batches and locations go together) and `Verdict` (`fAllOk` and the threads' `fOk`
account for exactly the failed checks done so far). `CriticalSection` treats the
clean-up of the last iteration once for all ways out of the critical section. Proved:
`CountersAlwaysExact` (from `TodoAlwaysCounts` and `PoolAlwaysCounts`) and
`WaitAlwaysSound` (from `NothingLeftOnReturn` and `ResultAlwaysCorrect`).

**Block files.** `DataReadable` is not inductive: what a crash leaves readable depends on
what was synced, and what the next start believes on what was written. `IInv` speaks of two
indexes, in memory and in the database, and of two sets of extents, in the files and safe
from a power loss. `Sound` is what one index and its file information must satisfy by
themselves; `Stored` says that an index finds its blocks in a set of extents; `Pending`, that
memory and database differ only in what is dirty; `Covers`, that but for a pruning about
to be written memory has what the database has. Proved for any blocks, sizes, number of files
and of crashes: `FilesAlwaysConsistent`, `DataAlwaysReadable` and `RecentNeverPruned`.

**Scheduler and notifications.** `NoCallbackForgotten` is part of its own proof but needs
what `IInv` adds: which places a kind of thread can be at (`Roles`), that the flag
`m_are_callbacks_running` is held by at most one thread, which has a callback in hand
(`Exclusion`), and what `Shutdown` has joined by each of its steps (`Stages`): a callback
queued after the scheduler stopped is the main thread's. Proved for any number of threads:
`CallbacksNeverForgotten`, and `ServedAsBySingleThread`, the safety part of
`ImplementsSerialQueue`.

**Transaction index.** `IndexComplete` is about the best block and the locator. `IInv` adds
what the sync thread has in hand at each place (`SyncInHand`): a block all of whose
predecessors are in the index; and the same of a callback between its write and its update
of the best block. The lemmas about chains show that a callback that connects to an ancestor
of the best block, and a sync thread that goes back to the fork, keep this, since the index
never forgets a transaction. Proved for every tree, queue length and number of restarts:
`IndexAlwaysComplete`.

**Only model-checked.** All liveness (`RecoveryCompletes`, `ActivationEnds`, `WaitReturns`,
`StopCompletes`, `SyncReturns`, `TimersKeepRunning`, `ShutdownCompletes`, `CatchesUp`, the
liveness of `ImplementsSerialQueue`), since fairness and ENABLED are outside the prover;
`QueueCatchesUp`, which is about a recursion over the queue, and `SyncedOnReturn` and
`FoundInActiveChain` of the index, which rest on it; everything about `Mempool`, whose
`addForBlock` is recursive. Of `ChainState`: `CandidatesConsistent`, `NoWorkLost` and
`TipIsBest`. The first compares every block with the tip in the order of
`CBlockIndexWorkComparator`, sequence ids included, in the middle of a reorganisation too, so that
its invariant has to follow the candidates through every step of `FindMostWorkChain`; the other two
build on it, and `NoWorkLost` fails for some constants (section 6). And `MarksHaveCause` after a restart, which
fails for some commands.

## 5. What is not modelled

*Within the modelled parts.* Block contents rules and scripts (a verdict), time other than
through the choice of the block to finalize and the scheduler's clock, I/O errors other
than those named, low disk space, `-reindex` and block import, checkpoints, pruning inside
`ChainState`, the warnings fed by `pindexBestInvalid` and `pindexBestParked`.
`CScheduler::stop(drain)`, which only tests call, and `MockForward`. Subscribers of the
notifications other than the index. `TxIndex::MigrateData`, which converts the index of
versions before 0.17. In the pool, fees, sizes, prioritisation and the rolling minimum fee,
and `LoadMempool` other than as a series of `AcceptToMemoryPool`; of the proofs, the peers
they came from and the filter of rejected ones.

*Not composed.* `CoinsFlush` takes files as synced when the index is written, which section 6
disputes, and has no pruning. `BlockFiles` has the block up to which the coins are flushed,
but not the coins. `TxIndex` uses `SerialQueue` for `Notifications`.

*Not modelled at all.* Block download, compact blocks and the rest of message processing,
addresses and bans are bookkeeping per peer with randomised placement or dispatch, with no
state shared with validation other than calls that are actions here. The signature cache may
forget anything, and what it must not do rests on 256 bit hashes. Block size and difficulty
algorithms are arithmetic on 64 and 256 bit integers whose corner cases TLC's integers do
not reach. Block assembly changes no state. Wallet, servers, interface, seeder, cryptography
and vendored libraries are outside the validation core.

## 6. Disagreements

Kept as runs, with the quoted statement in `PROJECT.json`:

* `failed_header`: a block known by its header alone stays in `m_failed_blocks` after
  `reconsiderblock`; the next header above it meets `assert(failedit->nStatus.hasFailed())`.
* `unwind_mempool`: `UnwindBlock` imports the pool before the first block it disconnects and
  releases `cs_main` before the next. A transaction accepted in between can lose its inputs,
  and stays in the pool after `UnwindBlock` has ended. With a change of rules in the second
  block `importMempool`'s temporary object is destroyed non-empty, which it asserts against
  (`src/txmempool.h:807`; `stuck` in `Mempool`).

Configurations that show others, to be run by hand; TLC reports the violation:

| Command | Statement | What happens |
|---|---|---|
| `tlc -config MCInvalidateRace.cfg MCChainState` | `ActiveChainValid` (`src/validation.cpp:2401`) | `ActivateBestChain` reconnects a block that `invalidateblock` marked while `cs_main` was released |
| `tlc -config MCReconsiderHeader.cfg MCChainState` | `WaitingBlocksRemembered` (`src/validation.cpp:5026`) | data received below an invalid header-only block is forgotten when that block is reconsidered |
| `tlc -config MCUndoSync.cfg MCBlockFiles` | `UndoReadable` (`src/validation.cpp:1883`) | undo data in an older file is indexed before it is synced |
| `tlc -config MCPruneReplay.cfg MCBlockFiles` | `ReplayReadable` (`src/validation.cpp:1930`) | pruned files are removed (line 1911) before the coins are flushed; after a crash in between, `ReplayBlocks` needs a block that is gone |
| `tlc -config MCShutdownJoin.cfg MCNotifications` | `ShutdownCompletes` (`src/init.cpp:147`) | the import thread waits in `ActivateBestChain` for the notification queue, `Shutdown` has stopped the scheduler and waits for the import thread |

Also met, stated in `ChainState` and without a configuration of their own. Each can be
seen with the constants of `chain_selection` changed as given (`EvenWork`, no minimum work,
no bad block and, in the first four, `MaxReorgDepth` 2, unless stated):

| Statement | Instance | What happens |
|---|---|---|
| `TipAgreesWithFinality` (`src/rpc/blockchain.cpp:1720`) | branches of two, one `finalize` | the chain selected before `finalizeblock` is connected although it lacks the finalized block |
| `CandidatesAtRelease` (`src/validation.cpp:4989`) | branches of two, one `park` | between two sections of `UnwindBlock` a block is connected that is not a candidate |
| `HeaderNotBehindTip` (`src/validation.h:233`) | branches of three, B3 bad | `InvalidChainFound` leaves `pindexBestHeader` at the fork |
| `DescendantsMarkedAtStartup` (`src/validation.cpp:130`) | B of three with B1 bad, one restart | grandchildren of a failed block are not marked |
| `NoWorkLost` (`src/validation.cpp:2718`) | `LateWork`, B3 bad, `BatchSize` 2, `ParkDeepReorg` off | a block is finalized in the middle of a reorganisation that then fails |
| `MarksHaveCause` (`src/validation.cpp:4978`) | `chain_commands` with one restart and the commands `finalize` and `invalidate` | `FindMostWorkChain` marks a block that conflicts with finalization without adding it to `setDirtyBlockIndex`; after a restart its descendants are marked and it is not |
| `ActivationEnds` (`src/validation.cpp:2673`) | G, A1, A2, one `invalidate`, `FairSpec` | after `MCInvalidateRace`, `FinalizeBlockInternal` refuses the same block forever |

Of the transaction index, seen in `TxIndex` with the constants of `tx_index`:

* `LocatorIndexed` ("Write block locator of the chain that the txindex is in sync with.",
  `src/index/base.h`) does not hold: the periodic `Commit` of `ThreadSync` names a block before
  it is written, and a `Commit` without a best block names the tip. A crash right after it
  leaves blocks out of the index until it is rebuilt. `IndexComplete` excepts exactly these.
* `FoundInActiveChain` is limited to the time before the first restart: after a reorganisation
  and a restart from a locator beyond it a transaction can be located in the branch that was
  left.
* `BlockUntilSyncedToCurrentChain` reads the best block through a null pointer if it is
  called on the first start, before the callback for the genesis block has run. The model
  takes this as a crash.
* `ChainStateFlushed` of a flush in the middle of a turn comes before `BlockConnected` of
  that turn, unlike what a comment in `BaseIndex::ChainStateFlushed` says; it does no harm, as
  the locator is then not written, and the best block it reads is never null
  (`QueueCatchesUp`).

Of the scheduler: with two service threads a thread whose wait for one task has timed out
takes whatever task is first by then, so a task may run before its time ("Call func at/after
time t", `src/scheduler.h`). The node runs one service thread.

## 7. What could follow

1. `BlockFiles` composed with `CoinsFlush`, with the coins themselves.
2. Prioritisation in `Mempool`, and the peers behind double spend proofs.
3. Block download: blocks in flight, stalling, compact blocks.
4. Proofs: `CandidatesConsistent` of `ChainState`, and from it `NoWorkLost` where it holds.
