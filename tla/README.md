# Octopus blockchain: TLA+ specifications

These modules specify the parts of the node where several goroutines, crashes
or a long history of calls decide whether the program is right: the
transaction pool, the chain of blocks and its head, the miner, the event feed
that connects them, the fetcher that brings transactions in, the downloader's
queue and skeleton, the freezer, and the state database. TLC checks every
module on small instances, and TLAPS proves the safety properties of
eight of the ten, all but one, with both refinements, for every value of their
constants. `PROJECT.json` lists the
parts of the system, the runs, the source lines behind every definition and
the hazards the properties are aimed at.

## 1. The system

```
  peers --> oct/fetcher/tx_fetcher --> tx pool --> miner worker --> chain
             (announce, request)        ^  ^          |   ^          |
                                        |  +-- feed --+   +-- feed --+
                                        |        (new transactions, new head)
  peers --> downloader: skeleton, queue +--------------------------> chain
                                                                       |
                     operationdb (state), freezer and key-value store <-+
```

| Part | Source (under `src/`) | Module |
|---|---|---|
| Transaction pool: lists, lookup, limits | `blockchain/octopus_blockchain_tx_pool.go` | `TxPool` |
| Transaction pool: goroutines and channels | the same file | `TxPoolReorg` |
| Block chain: insertion, fork choice, head markers, restart | `blockchain/octopus_blockchain.go`, `octopus_forkchoice.go`, `octopus_headerchain.go` | `Chain` |
| Miner and its worker, local sealing | `miner/`, `consensus/octell/octopus_octell_sealer.go` | `MinerWorker` |
| Event feed | `event/octopus_feed.go` | `Feed`, promise in `Broadcast` |
| Transaction fetcher | `oct/fetcher/tx_fetcher.go` | `TxFetcher` |
| Downloader: queue, result store, concurrent fetchers | `oct/downloader/queue.go`, `resultstore.go`, `fetchers_concurrent.go`, `downloader.go` | `DownloadQueue` |
| Downloader: skeleton and backfiller | `oct/downloader/skeleton.go`, `beaconsync.go` | `Skeleton` |
| Freezer | `entity/rawdb/octopus_typedb_freezer.go` | `Freezer` |
| State database, and what the virtual machine does to it | `operationdb/`, `vm/octopus_ovm.go`, `vm/instructions.go` | `OperationDB`, promise in `WorldState` |
| The rest | see section 7 | |

The modules meet at what one part sees of another. `Feed` stands under the
head and transaction events of `TxPoolReorg` and `MinerWorker`, which take
them at any time and in order, as `Broadcast` allows. `TxPoolReorg` takes any
outcome of the lists that `TxPool` allows. The states `Chain` commits are
those of `OperationDB`, and `RootsComplete` is what makes one flag for each
state enough there: a code that is missing shows when it is called, not when
the state is opened. The blocks `Skeleton` fills are fetched by a cycle of
`DownloadQueue`.

## 2. Modules and how they correspond to the code

`X.tla` is the specification, `MCX.tla` gives its constants values for TLC
(`.cfg` files choose among them) and `XProofs.tla` holds the theorems. Names
follow the source. A definition that stands next to one of the same shape and
is used by nothing (for instance `CopyOnce` before `Copy` in `OperationDB`)
is a deliberate mistake: putting it in the place of the other must break the
property `PROJECT.json` pairs it with.

**TxPool.** `pending`, `queue` are sets of transactions, `localTxs` and
`remoteTxs` the two halves of `txLookup`, `pendingNonces` the virtual nonces,
`beats` the accounts with a heartbeat, `locals` the local accounts. A
transaction is a model value with a sender, nonce, price, cost and gas given
by constants; a chain head is a record of nonces, balances and a gas limit.
`AddTx` is the whole of `add` with the eviction of cheaper transactions when
the pool is full; a run of `runReorg` keeps the pool's lock and is split, for
readability, into phases (reset, promote, demote, truncate) that nothing else
can interrupt. The price heap contributes only what it promises: the
cheapest remote transactions. Signature checks, size limits, the journal
file and base fees are left out.

**TxPoolReorg.** One program counter for every caller of `addTxs`, for the
event loop, for `scheduleReorgLoop` and for the `runReorg` it launches;
the request and reply channels are rendezvous; `Stop` closes the shutdown
channel at any time. What the lists do is abstracted to any outcome that
`TxPool` allows: a transaction has a sender, a nonce and a price, and an
addition may be turned away, queue it, take the place of another with or
without an event, and drop others to make room. Events are kept by account and
nonce as in `txSortedMap`, so a new one overwrites an old one (`Put`). A head
comes with an event if it was mined (`HeadMined`) and without if it was
imported (`HeadImported`). `reset` reaches its new head (`RunReset`) or gives
up on a missing block or state (`RunResetAborted`), after which the pool stays
where it was while the loop has moved on; `gaveUp` remembers the head that
was not reached.

**Chain.** The tree of blocks that may be offered is a constant. `db` is the
stored blocks with their total difficulty, `stateDb` the blocks whose state
is on disk, `currentBlock` and `currentHeader` the markers in memory.
Writers, miners and importers, step through `writeBlockWithState`, fork
choice, `reorg` and `writeHeadBlock` with a program counter because the
code takes no lock there; `raced` remembers that two of them were in the
head update at once. The batch with a block may fail (`WriteFails`), which the
code logs before it commits the state all the same: `lost` is the blocks with
a state that were not stored because of it. A commit may fail too. A step may
crash the process; `Restart` is `loadLastState`. `Invalid` is the blocks whose root an import does not
arrive at: `Process` fails on them, which `insertChain` does not look at, or
their root has the reward that only `FinalizeAndAssemble` adds. The node's
engine is the beacon engine around octell, which cannot verify the headers
`insertChain` hands over, so imports succeed only with octell's full fake
mode (`FullFake`).

**MinerWorker.** `Miner.update`, the worker's `newWorkLoop`, `mainLoop`,
`taskLoop` and `resultLoop`, and each sealing goroutine. Channels have the
capacity of the code as a constant. A block's content is reduced to its
number, parent, timestamp and whether it has transactions. A block the node
mines itself is announced to `newWorkLoop`; an imported one moves the head
without an event, so `wanted` is the head of the last start or of the last
block of its own. Not modelled: the
recommit timer, whose case is commented out, the interval and work query
channels, and the remote sealer.

**Feed and Broadcast.** `Feed` has the inbox, the cases array with its
served suffix, the send lock and the removal channel; each `Send` and each
subscription has a program counter. `Broadcast` is what a subscriber may
rely on, and `Implements` says that `Feed` refines it: a value counts as
delivered when it enters the channel.

**TxFetcher.** The eight maps of the three stages (waiting, queued,
fetching), the two timers, and one action for every case of `loop`: announcement,
wait timer, timeout timer, delivery, drop, and the scheduling that ends each
of them, which is part of the same step as in the code. The order of Go's
map iteration is a nondeterministic allotment. Time is abstracted: an
expired set is any subset. The set of underpriced hashes and the
filter in front of the loop only shrink announcements, and the model allows
every announcement.

**DownloadQueue.** One sync cycle once headers arrive. The queue's pools and
priority queues, the result store with its offset and its remembered count of
complete blocks, a `concurrentFetch` loop for each kind of block part with
its requests, timers, stale requests and wake-up channel, `processHeaders`
as the feeder, `Results` and `processFullSyncContent` as the importer,
`spawnSync` closing the queue, and peers that register, unregister and are
revoked in two steps as in the code. `gone` is the peers whose connection
turned out to be closed and that are about to be unregistered. A header is its
number. The runs have
the body fetcher only, because full sync has no receipt tasks; the module
takes any set of kinds. `orphaned` marks the tasks whose answer arrived
between `Unregister` and `Revoke`: the comment at `queue.go:573` expects the
fetcher to be woken for them, and nothing wakes it.

**Skeleton.** The subchains on disk (`status`, `headers`) and in memory
(`progress`), the scratch space with its owners, the requests the loop tracks
and the goroutines behind them, the peers, and the backfiller, which
reads the disk without a lock. `Crash` keeps only what is on disk, and
`CrashCleaning` stops `cleanStales` between two of its batches. A peer may
answer with another chain, late or not at all. `stained` records the known
ways in which a subchain is damaged, defined at `Damages` and `Consumed`.

**Freezer.** Each table is its data files and index as byte and entry
sequences, how much of each is synced, and its counters and batch in
memory; the key-value store is the set of canonical numbers it holds, and of
those with a canonical hash (`hashes`). The freeze thread goes one file
operation at a time, and deletes in three batches of their own: the frozen
blocks, what is left at the frozen numbers, and what descends from the last of
that. Blocks of side chains are not represented, so the last two batches find
something only after the first has failed: `dropped` is the canonical blocks
above the frozen ones that they take for a side chain. `Kill` keeps what was
written, `PowerLoss` takes any unsynced suffix of each file, and `Open` is
table repair, the alignment of the tables and the checks of
`NewDatabaseWithFreezer`. Truncations and writes to the key-value store are
taken to be durable. `stained` records three of the four defects listed in
section 5, `dropped` the fourth.

**OperationDB and WorldState.** `OperationDB` is the state database of a block
in execution: objects over the account trie, each with dirty, pending and
original storage over its own trie, the journal's dirty accounts, and the
pending and dirty sets. A trie is a function and its root hash is the trie.
`tasks` are assembled blocks waiting for a seal, each with a state that is a
copy of a copy, and `disk` is what `Commit` has written. Its batch of new codes
may fail, which is logged only; `disk.missing` is the codes of such batches,
and an account whose code is not there does not run (`Runs`). A `Commit` that
returns an error leaves no root and is a step of `Chain`. The actions are the
calls transactions make (gas and transfers, nonces, `create` in its two
halves, `opSstore`, `opSelfdestruct`), assembling, writing a sealed block
and importing one. `WorldState` is what this promises: one map from
addresses to accounts, read and written directly. It names the two cases in
which the code does less, `Returned` and `Survived` (section 5).

## 3. Runs

Start one with `tlc -config MCTxPool.cfg MCTxPool`.

| Run | Instance | What it shows |
|---|---|---|
| `txpool` | 2 accounts, 6 transactions, limits of 1 to 3 slots (209,869 states) | the lookup is exactly the lists, what pending offers first is executable, local transactions are kept, the limits hold again after every run |
| `txpool_reorg` | 2 callers with different transactions of one nonce, 2 heads, mined or imported, a mined transaction of the same nonce that comes back (724,014) | a caller is released only by a run that served it, resets join up with the one before, an event gives way only to a replacement's or to a reset, calls return unless a `Send` never ends, `Stop` completes, the pool ends on the last head it was told of or has given up on it |
| `chain` | 5 blocks: a branch that begins with an invalid block, a rival, one as heavy as two; miner and importer, terminal difficulty, a failed write or commit, a restart (2,262,622) | difficulties add up; heads, and whatever they may switch to, are stored and have a state; without a race the head moves in order and settles on the heaviest block |
| `chain_race` | two branches of equal weight, two writers | violated: see section 5 |
| `miner` | capacities of 1, two heads, one transaction event (251,666) | a result that is not stale still has its task; at most one sealing |
| `miner_live` | the same with close at any point and no transaction event (242,834) | every goroutine ends except in two named circular waits; a running miner works on the newest head it was told of |
| `feed` | 3 subscribers, 2 sends | the cases array is exact, `Feed` implements `Broadcast`, unsubscribing gets through a blocked send, a send returns |
| `txfetcher` | 2 peers, 2 hashes, requests of two (11,453); a third hash (120,037) adds minutes and no new kind of step | no panic, one stage for each hash, indexes agree, timers armed, never idle on work |
| `download` | 2 headers, the last with an empty body, 2 peers that leave and come back (758,170) | no task lost, doubled or delivered twice; only complete blocks handed out; no stall; a sync without an error has imported everything |
| `skeleton` | 7 headers on two branches, 2 announcements, one fault, an import past the backfiller, a crash (517,984) | subchains on disk are contiguous and complete, regions are owned exactly while they are asked for or there, the backfiller finds a whole skeleton, the skeleton reaches the local chain |
| `freezer` | 2 tables of different item size, 4 blocks, a failure, a crash or power loss, a shutdown (166,610) | no block is lost, the tables agree after any restart, the freezer catches up, but for four named defects |
| `operationdb` | 2 accounts, one with code and a slot in use, 4 operations over 2 blocks, a second code to deploy, batches of code that fail (247,463) | what is read is what was written; what is committed is what was read last but for two named cases; no committed state lacks storage, or code but that of a failed batch |

The bounds are the smallest at which the interesting cases happen: two
accounts so that one can be evicted for the other, two offers for a nonce so
that replacement and its price bump occur, limits of one to three so that the
next transaction overflows them; two branches, one as heavy as the other, so
that ties occur; capacities of one so that channels fill; three channels so
that a case in the middle of the array is removed; files of three bytes so
that an item starts a new one; four operations so that an account can be
destroyed, created, given code and made to run again. `MaxHead`, `MaxRestarts`,
`MaxFaults`, `MaxHeads`, `MaxStarts`, `MaxTxEvents`, `MaxJoins`,
`MaxAnnounces` and `MaxImports` of `Skeleton`, `MaxCrashes`, `MaxFailures`,
`MaxCloses`, `MaxOps`, `MaxTasks`, `MaxBlocks`, `MaxBalance` and `MaxNonce`
cap what would otherwise repeat for ever.

Larger instances ended without an error as well, and take longer than the
listed ones: `Chain` with two failures (7,241,064 states), `DownloadQueue` with more registrations of peers
(18.6 million) and with both kinds of part and one peer (1.2
million), `Skeleton` with two headers to a request (361,000) or three
announcements (498,000), `Freezer` with two failures (901,158).

Symmetry is used only in `txfetcher`, whose peers and hashes are
interchangeable and whose properties are invariants. Deadlock is not checked
where the system may come to rest: callers have returned, the miner is
closed, all blocks are written, the sync has ended. `TxPool`, `TxFetcher`,
`Freezer` and `OperationDB` always have a step, and there it is checked.

## 4. Fairness

Go's scheduler runs every goroutine that can run, so each loop has weak
fairness (`TxPoolReorg`, `MinerWorker`, the loops of `Skeleton` and
`Freezer`). A `select` with several ready cases chooses at random, and a lock
or a rendezvous serves its waiters, so in `Feed` a `Send` and a removal have
strong fairness. In `Skeleton` requests do not stay out for ever, since each
has a timer, and a peer that is to be disconnected leaves. In `Freezer` a
process that is down is started again, and the thread does not stay for ever
in a `Sync` on files that were closed. `Chain`, `TxPool`, `TxFetcher`,
`DownloadQueue` and `OperationDB` assume no fairness: what has to go on
there is stated as an invariant (`TimersArmed`, `NeverIdleWithWork`,
`NeverStalls`, `SyncComplete`). Nothing is assumed of the environment: nobody
has to call, to find a nonce, to deliver a block, to announce a head, to read
from a channel or to stop. So `txFeed.Send`, at the end of a run
(`octopus_blockchain_tx_pool.go:375`), may wait for ever for a subscriber
that does not read, until `Stop` takes the subscriptions away. While it waits
no further run is launched, and whoever waits for one waits along:
`CallersReturn` (for the callers of `AddLocals`) and `HeadFollowed` are claimed
only if every `Send` ends (`SendsEnd`). `AddRemotes` returns, and `Stop`
completes, without that.

## 5. Where code and comments disagree

`chain_race` ends in a counterexample. `writeHeadBlock` "assumes that the mutex
is held" and resets both markers "to the same block"
(`octopus_blockchain.go:530-531`), but the lock is commented out (`:663`), and
two writers leave the markers on different blocks.

These were met while modelling. The models follow the code, and where a
property has to make an exception for one, the exception is named.

- **Pool.** Replacing a pending transaction (`octopus_blockchain_tx_pool.go:523`)
  returns before the account of a local one is registered, which `:470`
  promises. A promotion merged into a reset is not looked at again (`:314`).
  A gap inside a pending list is not found, only one in front (`:726`),
  though the list is strict (`:1421`); hence `FrontExecutable`. A `reset` that
  gives up (`:395-447`) leaves the pool on its old head, while the loop takes
  the new one for the start of the next reset (`:1170`): `gaveUp`.
- **Chain.** The batch with the head markers is never written
  (`octopus_blockchain.go:542`), so a restart begins at genesis. An import
  passes no head event (`:628`), and the accumulated one of `:973` does not
  exist. Only the first block of a batch is stored (`:610`). `Stop` closes a
  mutex nobody takes (`:149`), so it does not wait as `:147` says. A failed
  `Process` (`:621`) does not stop the block; `HeadHasState` excepts such a block.
  A batch with a block that is not written is logged (`:689`) and the state is
  committed: `lost`. Such a block has no total difficulty, so the fork choice
  ends with an error and it does not become the head.
- **Miner.** `mainLoop` may wait for room in `resubmitAdjustCh` for ever
  (`octopus_worker.go:683`), and `close` with it: `AdjustStuck`, `StartStuck`.
- **Transaction fetcher.** A dropped peer stays an alternate
  (`tx_fetcher.go:653` against `:615`), and the announcement limit is cut to
  the wrong length (`:372`).
- **Download queue.** An answer between `Unregister` and `Revoke` leaves tasks
  nobody is woken for (`queue.go:573`): `orphaned`.
- **Skeleton.** `cleanStales` can take over the parent of a filled header of
  another chain, leave out the header just past the head, or save a head whose
  header is not there (`skeleton.go:1120`), and linking deletes a stray
  single header that may be its own: `stained`. `resume` is ignored while a
  cancelled fill has not ended.
- **Freezer.** The bytes of a failed write stay behind, because the rollback cuts
  only tables whose count grew (`octopus_typedb_freezer.go:217`). Blocks are
  deleted after a `Sync` that failed (`:591`). `advanceHead` closes a full file
  no later `Sync` covers (`:1237`). All three: `stained`. When the batch that
  deletes the frozen blocks fails (`:604`), the next two take what is left of
  them for a side chain and delete the canonical blocks above, which are not
  frozen: `dropped`. The freezer then waits for a block that is gone.
- **State database.** A pending slot equal to the never filled original value
  is not written (`octopus_operationdb_object.go:268`), so a slot of an
  earlier block cannot be cleared: `Returned`. A copy does not take the journal
  along (`octopus_operationdb.go:835`), so an account destroyed in a block
  being mined lives on, while an import deletes it: `Survived`.
  `getOperationObject` returns deleted objects (`:583`). `Snapshot` and
  `RevertToSnapshot` panic, so a failed call is not undone. A batch of codes
  that is not written is logged (`:688`) and the state is committed without
  them: `missing`.

## 6. Proofs

Check one with `tlapm TxPoolProofs.tla`. The constants are arbitrary up to the
`ASSUME`s of the specification: finite sets of transactions, hashes and kinds
of block part, limits of at least one (what `sanitize` leaves), channels with
room for one, blocks that form a tree with numbers that count from the genesis
block, a genesis state made of accounts, and a `None` or `Nil` that is no value
of the sets it is told apart from. The bounds that end a run (`MaxOps`,
`MaxHeads`, `MaxJoins` and the like) are arbitrary as well, so that the
theorems speak of behaviours of any length.

| Theorem | Statement | Argument |
|---|---|---|
| `TxPoolProofs!TypeCorrect` | `Spec => []TypeOK` | the virtual nonces are the hard part: the least and the greatest nonce of a list must exist, which `MinNat` and `MaxNat` show |
| `TxPoolProofs!ListsAndLookupAgree` | `Spec => [](LookupExact /\ OneTxPerNonce)` | exactness alone is not inductive: replacement by nonce removes at most one transaction only if nonces are unique, and uniqueness across both lists needs the lookup; both are proved together with the types |
| `TxPoolProofs!LocalsStay` | `Spec => LocalsKept` | eviction takes remote transactions and truncation pops accounts; `Apart` says that no transaction of a local account is tracked as remote and that no local account is popped |
| `TxPoolProofs!PendingExecutable` | `Spec => []FrontExecutable` | `Offered`: only between a reset and its `demoteUnexecutables` may pending be out of date. `Due` adds what makes it inductive: an account without a list has a virtual nonce that has not run ahead, so promotion starts its list at the right place |
| `TxPoolProofs!LimitsHold` | `Spec => LimitsRestored` | finite cardinalities: of the accounts `truncatePending` has popped all but the last have lists of one length, and nobody still to be popped has a longer one (`Popped`), so what it leaves above the limit is within the guaranteed slots (`Truncated`) |
| `TxPoolReorgProofs!CallersServed` | `Spec => []ServedWhenDone` | `Inv` joins the types with `Channels` (the done channel of the active run is open, earlier ones are behind `nextDone`), `Replies` (whoever waits for a reply is alone, and has no channel before), `Served` (an unserved account is on its way into the run whose channel its caller has), `Locked` (one holder of the pool's lock), `OnePerNonce` (no two transactions of an account and nonce in the pool) and `HeadsLinked` |
| `TxPoolReorgProofs!ResetsContinue` | `Spec => []ResetContinues` | `HeadsLinked`: pending reset, running reset and the loop's head form a chain from the pool's head, or from the head that the last reset did not reach |
| `TxPoolReorgProofs!NoEventDropped` | `Spec => EventsKept` | each step under `Inv` keeps what is on its way to the feed; `Put` overwrites only the event of a transaction that `OnePerNonce` shows to have left the pool |
| `ChainProofs!TypeCorrect` | `Spec => []TypeOK` | with the invariant that a writer in the middle of a write has a block, and one that sets a head has heads to set |
| `ChainProofs!DifficultiesAddUp` | `Spec => []DifficultyAddsUp` | a writer past the ancestor check keeps a parent that is stored, whatever the others do; stored blocks are never removed |
| `ChainProofs!HeadsHaveState` | `Spec => []HeadHasState` | strengthened with where each writer's block stands: a block a writer is at is stored or its write failed (`Known`); one that the fork choice accepts is stored, since it has a difficulty, and has its state or is invalid, and so have the blocks a reorg still has to set |
| `ChainProofs!HeadsSettle` | `Spec => []HeadSettled` | without a race, one writer at most is past the fork choice: `Path` says that the blocks it still has to set lead from the head to its block, `Leading` that it is alone on it, `Weighed` that no block with a state is heavier than the head or the block about to become head unless it is still to be compared, `Matched` that the markers agree when nobody is between them |
| `ChainProofs!HeadMovesInOrder` | `Spec => HeadAdvances` | from the same invariant: the next block of a `Path` is a child of the head or of an ancestor of it |
| `FeedProofs!TypeCorrect`, `ChannelsExact` | `Spec => []TypeOK`, `Spec => []CasesExact` | `IInv` adds who holds the lock in which step and that the served suffix stays within the array; lemmas say what swapping, appending and deleting do to the channels of a list |
| `FeedProofs!FeedImplements` | `Spec => Implements` | the initial state and each step under `IInv`: sending begins when the inbox has been merged, a delivery is a value entering a channel, every other step stutters |
| `TxFetcherProofs!TypeCorrect` | `Spec => []TypeOK` | part of `IInv` |
| `TxFetcherProofs!LoopNeverPanics` | `Spec => []NeverPanics` | `IInv` says that the panics' conditions contradict the disjointness of the stages |
| `TxFetcherProofs!StagesExclusive`, `StagesAgree` | `Spec => []OneStage`, `Spec => []IndexesAgree` | `IInv` gathers the agreement of the eight maps as a predicate on a record of them, so that each helper (`Untrack`, the scheduling) is one lemma and each case of the loop chains the lemmas |
| `TxFetcherProofs!TimersStayArmed` | `Spec => []TimersArmed` | the wait timer is re-armed by whatever adds to or shrinks the waiting hashes, the timeout timer by whatever sends the first request or has used up the tick (`ScheduleArms`) |
| `TxFetcherProofs!NeverIdle` | `Spec => []NeverIdleWithWork` | if `scheduleFetches` leaves no request out, no peer it looked at has anything to fetch (`ScheduleServes`): with nobody fetching every hash is free, and the limit lets a peer have at least one |
| `MinerWorkerProofs!TypeCorrect`, `SealsOne` | `Spec => []TypeOK`, `Spec => []OneSealing` | `taskLoop` is the only one to start a sealing, and interrupts the former first |
| `MinerWorkerProofs!ResultsHaveTasks` | `Spec => []ResultHasTask` | a result comes from a sealing goroutine and that from the task at hand, so these keep their tasks as well; `clearPending` gets its number from an event that may be old, so every number on its way to `newWorkLoop` is bounded by the head |
| `DownloadQueueProofs!TypeCorrect`, `TasksAreExact` | `Spec => []TypeOK`, `Spec => []TasksExact` | `Exactly` states the invariant of one kind of part as sets and functions, and `Taken`, `Given` and `Added` that reserving, giving back or delivering, and scheduling keep it; `Slotted` and `InWindow` tie it to the result store |
| `DownloadQueueProofs!CompletedStaysComplete` | `Spec => []CompleteRemembered` | the remembered index moves with the items, and a complete slot stays complete until it is handed out |
| `DownloadQueueProofs!SyncEndsComplete` | `Spec => []SyncComplete` | a fetcher returns only after it was told that the last header is scheduled (`Ending`), and then with no task left but those whose answer was ignored (`Answered`); the importer stops only when the queue is closed, which nobody does before, and no complete block is left (`Importing`) |
| `OperationDBProofs!CommittedIsComplete` | `Spec => []RootsComplete` | an object of the block in execution has its storage root on disk, and its code was given to a batch (`Given`: written, or lost with it) unless `dirtyCode` says that `Commit` has to write it (`Backed`); `IntermediateRoot` leaves accounts that are on disk or dirty (`Sealed`), across both copies |
| `OperationDBProofs!DatabaseImplements` | `Spec => ImplementsWorldState` | see below |

The state database is the larger of the two refinements. `Seen` is what the
getters return, written without the trie database, and `RootsComplete` makes it
equal to what they really read. `RInv` says how objects may differ from the
trie under them (`Fits`): storage is the parent's or none, with the dirty slots
over it, and an object outside the journal's dirty accounts is the trie's, but
for storage `CreateAccount` made invisible. Under it each operation changes `Seen` as
`WorldState` says (the lemmas whose names end in `Shows`). `Settles` and
`UpdatedRoot` say that `IntermediateRoot` turns `Seen` into the new trie but for
what `Returned` and `Survived` name. A copy has no object of an account that is
not in the journal, so storage that `CreateAccount` made invisible is seen
again; `Near` is this difference, and `NearSettled` shows that it does not
outlast what the two exceptions allow.

Only model-checked:

- liveness under fairness, which is out of the prover's reach
  (`CallersReturn`, `StopCompletes`, `HeadFollowed`, `CloseUnlessStuck`,
  `HeadWorked`, `UnsubscribeReturns`, `SendReturns`, `LinksUp`, `CatchesUp`);
- `NeverStalls` of `DownloadQueue`, a statement about which of the loops can
  still move. Its two exceptions are a neglected answer and `Unavailable`, a
  task that every peer has answered nothing for; the second matters only when
  an empty block follows within the store's threshold, since a round that
  drops one counts as progress;
- `Skeleton` and `Freezer`, which rest on recursive functions and on folds over
  files and batches: what such a definition computes for every input needs an
  induction over data that the installed provers cannot do.

## 7. Not modelled

The modules cover the node's concurrent core, a small share of a source tree
of which most is computation over data, transport and user interface.
`PROJECT.json` gives the reason for each part.

- **Sequential computation.** The virtual machine's instructions, the Merkle
  trie, hashing and the DAG of octell, RLP and other codecs, cryptography,
  accounts and the signer. A model would repeat the code, there is no
  interleaving to explore, and tests suit it better. The calls of the virtual
  machine that change the state are actions of `OperationDB`.
- **Transport and user interface.** Peer-to-peer networking with discovery and
  simulations, wire protocols, RPC, filters, console, commands, metrics,
  logging. What they do to the modelled parts (peers join and leave, answers are lost,
  late or wrong, calls arrive at any time) is in the modules that wait for them.
- **Left out for their size.** The block fetcher, with seven maps, two timers
  and a nested rendezvous; the header skeleton of the queue and the search for
  the common ancestor; snap sync's pivot; the price heap, of which `TxPool`
  uses the promise only; the remote sealer.
- **Left out because nothing calls it.** Reverting the journal, tail truncation
  and migration of freezer tables, the worker's recommit timer, the
  prefetcher and the snapshot tree of the state database, `BeaconSync` and
  `BeaconExtend` (their effect, an announced head, is an input of `Skeleton`).
