# A TLA+ verification of naive-vite

naive-vite is a small node of a DAG-like ledger: every account has a chain of
its own, and one snapshot chain, produced by a committee, fixes the state of all
accounts at intervals.  A node receives blocks of both kinds in any order,
keeps competing branches in pools, and writes the branch it follows to disk.
This directory models that node in TLA+, checks the models with TLC on small
instances and proves the safety properties with TLAPS for instances of every size.

## 1. Inventory

| Component | State | Operations | Interacts with |
|---|---|---|---|
| block-chain pool `BCPool` (`pool/bc_pool.go`) | free and compounded blocks, snippets, forked chains and what each refers to, the current chain, the disk chain | `AddBlock`, `loopGenSnippetChains`, `loopAppendChains`, `loopFetchForSnippets`, `rollback`, `currentModifyToChain`, `AddDirectBlock` | embedded by the snapshot pool and by every account pool |
| snapshot pool (`pool/snapshot_pool.go`) | a `BCPool`, the shared lock | `loop`, `loopCheckFork`, `snapshotFork`, `snapshotTryInsert`, `insertVerifyFail` | account pools (unlock, fork), verifier, snapshot chain |
| account pools (`pool/account_pool.go`, `pool/pool.go`) | a `BCPool` per address, `compactLock`, the last verification | `Compact`, `TryInsert`, `Rollback`, `ForkAccounts`, `ForkAccountTo` | snapshot pool, fetcher |
| chains and store (`chain/`, `store/`) | heads, blocks by height and hash, sources, snapshot points | insert, remove, `SnapshotPoint`, `RollbackSnapshotPoint`, `selfAc` | called by the pools |
| verifiers (`verifier/`, `version/`) | the fork version | `VerifyReferred` | called by the pools |
| ledger (`ledger/`) | the shared `RWMutex`, pending requests | `MiningSnapshotBlock`, `RequestAccountBlock`, `ResponseAccountBlock`, `ListRequest` | pools, sender |
| syncer (`syncer/`) | peers and their heights, retry status, the first synchronisation | handlers, `Fetch`, `retry`, `done`, `syncFirst` | pools, p2p, the event `DwlDone` |
| p2p (`p2p/p2p.go`, `peer.go`, `server.go`, `handshaker.go`) | peers, pending dials, write queues | `addPeer`, `loopRead`, `loopWrite`, `Write`, `Stop` | syncer |
| boot node (`p2p/bootnode.go`, `bootnode_linker.go`) | connections listed by identifier | register, list, remove, `Stop` | every node's linker, p2p's dials |
| consensus (`consensus/`) | schedule, last notified round, the subscription | `update`, `Subscribe`, `verifyProducer`, `Stop` | miner, verifier |
| miner (`miner/`) | status, worker goroutine and its channel | `Init`, `Start`, `Stop`, `DwlDone`, `genAndInsert` | committee, ledger, syncer |
| node (`node/node.go`) | the parts above | `StartMiner`, `StopMiner`, `Stop` | all |
| monitor, wallet, command line, examples | | | |

What is hard in this code:

* blocks arrive in any order and every slice copied from a Go map has a random
  order (`sort.Reverse` at `bc_pool.go:735` sorts nothing);
* `loop()` changes snippets and chains without the lock that `snapshotFork`
  holds, and the chain to switch to is chosen before the lock is taken;
* a switch of branches is a sequence of steps over several structures (accounts,
  disk, current chain, references), each of which may fail;
* one `RWMutex`, one `NonBlockLock` and one `Mutex` per pool are taken in nested
  calls that live in different packages;
* callers of the ledger, the insertion loop and `insertVerifyFail` all hold the
  shared lock for reading only, so that the rollback of an account interleaves with
  insertions into it;
* two nodes dial each other, stop and crash while readers delete entries that are
  named by peer and not by link;
* the miner, the committee and the first synchronisation start, stop, sleep and time
  out independently of each other, and messages are dropped without notice.

What makes each component correct: the disk is one hash-linked chain and the
current chain continues it; every forked chain can be read down to genesis;
snippets are unbroken runs; references end at the disk; no block that was
accepted is forgotten; the node ends up on the longest branch; every lock that
is asked for is granted; every receipt has its sent block and no money appears; a
confirmed block stays; the map of peers and its readers agree and no link stays half
open; a slot gets one block, at a time that verifies; a missing block is fetched.  `PROJECT.json` lists the hazards line by line.

## 2. Modules

| Module | Content |
|---|---|
| `BCPool` | the state of one `BCPool` and the data operations of `bc_pool.go` and `snapshot_chain.go` |
| `SnapshotPool` | extends `BCPool`: the network, `loop()` and `loopCheckFork()` as interleaved processes; the properties |
| `FollowBranch` | abstract: a node that follows one branch at a time; `SnapshotPool` implements it |
| `MCSnapshotPool` | block trees for the runs |
| `BCPoolLemmas` | what the operators of `BCPool` return |
| `SnapshotPoolProofs` | the theorems about `SnapshotPool` that hold for every tree |
| `PoolBranchProofs` | the theorems about `SnapshotPool` for trees with one fork point, and the refinement of `FollowBranch` |
| `LedgerLocks` | the locks that ledger, snapshot pool and account pools share |
| `LedgerLocksProofs` | its theorem |
| `AccountChain` | account chains, snapshot points, store, request pool, verifiers and the account pools' chains: the state, what the code reads from it, and its functions as actions |
| `Ledger` | extends `AccountChain`: callers, network, insertion loop, snapshot loop and fork check as interleaved processes |
| `MCLedger` | the blocks of two accounts and three snapshot branches |
| `LedgerProofs` | the theorems about `Ledger` |
| `BootNode` | the boot node and the linkers |
| `PeerLink` | extends `BootNode`: dials, handshakes, readers, write queues, `Stop`, crash and restart |
| `MCLinks` | two nodes and a boot node |
| `PeerLinkProofs` | the theorems about both |
| `FirstSync` | `syncFirst`, the peers' heights, the event `DwlDone` |
| `Production` | extends `FirstSync`: committee, miner, workers, the node's calls |
| `Fetch` | the retry policy and the messages that bring one block |
| `MCProduction` | the two above side by side, their fairness and liveness |
| `ProductionProofs`, `FetchProofs` | the theorems about both |

### BCPool and SnapshotPool

A block is its own hash.  `PreHash` and `BlockHeight` describe the tree of all
blocks that exist, forks included (`TreeAssumption`: hashes identify blocks and a
height is one more than the predecessor's).  `heightBlocks` is a function from
heights in which `Nil` is an absent key.  A snippet is named by its head block
and a forked chain by the head of the snippet it was made from; these names
replace the counter of `genChainId`, and `NamesApart` proves that they are as
unique as the counter.

| Action | Code |
|---|---|
| `AddBlock` | `AddBlock`, under `pendingMu` |
| `GenStart`, `GenAddTail`, `GenDrop`, `GenNewSnippet`, `GenSplit`, `GenMerge`, `GenMerged`, `GenDone` | `loopGenSnippetChains`: the copies, one free block, `splitToMap`, one merge, the new map |
| `AppendNone` ... `AppendLeave` | `loopAppendChains`: one step per snippet and per chain that `forky` looks at |
| `Fetch` | `loopFetchForSnippets` and the peers' answers (`handler_reqs.go`) |
| `NothingToInsert`, `TryInsert(n, m)` | `loopCheckCurrentInsert`: blocks up to height n are written; m = n + 1 when `InsertSnapshotBlock` fails after it stored the block |
| `CheckFork` | `checkFork` up to the request for the lock |
| `AppendPanic` | `sameChain`, when the head of the chain it looks at cannot be found |
| `ForkGiveUp`, `ForkStart` | `snapshotFork` up to `Rollback`, with its early returns and its panic |
| `RollbackRemove`, `RollbackAddTail`, `RollbackCheck`, `ForkFailed` | `rollback`: a block leaves the disk, goes to the current chain, the check at the end, the return on its error |
| `CurrentModify` | `currentModifyToChain` up to its loop |
| `ModifyRemoveTail`, `ModifyAddTail` or `ModifyRefer`, then `ModifyReferTo`, `ModifyReferFrom` | one round of `modifyRefer`: a block leaves the one chain and goes to the other, or there is none to move; the two references are written |
| `ModifyCurrent` | the end of `currentModifyToChain` and of `snapshotFork` |

The lock does not keep `loop()` out of `snapshotFork`: `loop()` takes it for its insertion
only, and merges snippets and runs `forky` without it.  So `snapshotFork` is split
wherever `forky` can see what is between: after each removal from disk, before the
block is handed to the current chain, after each block that `modifyRefer` moves, and
between the two references it writes.  The block that is in neither place meanwhile is
`fork.block`.  `TryInsert` is one step, because `snapshotFork`, the only other process, waits for
the lock until it is over.  `removeChain` and `addTail` are one step each: `forky` reads
one height of one chain, or a chain's head, at a time, and one `AppendX` step stands for
the comparison of one snippet with one chain.  What `forky` reads of one chain is taken at
one moment, which the code does not guarantee; nor does it guarantee more about concurrent
access to one Go map, which the runtime may punish by ending the process.
Verification, `UnLockAccounts` and `ForkAccounts` succeed or fail by a free
choice: `TryInsert` may stop at any height and `ForkGiveUp` is possible whenever
`ForkStart` is, except in the one case where the code panics before it asks.

### LedgerLocks

A function is the sequence of locks it takes; its body runs when it holds all of
them and it gives them back in the reverse order.  The goroutines differ in the
functions they call.  `sync.RWMutex` is modelled from its contract: a writer
announces itself, waits for the readers that are there, keeps later readers
waiting, and lets those in when it is done, before another writer.

### FollowBranch

The abstract node has the stored blocks, the head of the branch it follows, and the
head of the branch it decided for.  It stores blocks of its branch from below; to
change, it decides for a longer branch, takes off exactly the blocks that are not on
it, one after the other from above, and only then follows it.  `Follow` in `SnapshotPool` is the refinement mapping:
`stored` is the disk, `branch` the head of the current chain, `target` the chain that
`snapshotFork` holds, `undone` the time from the beginning of its rollback to the change of the
current chain.  All of snippets, forked chains, references and locks is hidden.

### AccountChain and Ledger

An account block is its own hash, with the fields the verifiers read in `Body`;
`MCBody` lists blocks that can be made, one of them twice received and one a fork.
`AccountChain` has the state and the functions of the code that work on it; a
function that changes it is an action (`Put`, `Notify`, `RemoveChain`,
`InsertSnapshotBlock`, `NewCurrent`, `InsertNotify`) that an action of `Ledger` includes.
Where the code follows a nil pointer the step records which, in `panic`, and nothing
runs after that.

| Action | Code |
|---|---|
| `SelfPendingAc`, `SelfAcMiss`, `SelfAcStore` | the first use of an account: its pool, and `selfAc` before and inside its mutex |
| `MakeBlock`, `AddDirectVerify`, `AddDirectInsert`, `AddDirectRefuse`, `AddDirectNotify` | `RequestAccountBlock` and `ResponseAccountBlock`: the head is read, then `AddDirectAccountBlock`, up to the version check, the write, and the listener's call |
| `CompactExtend`, `CompactFork` | a block of a peer extends a chain of the pool, or forks off the current one |
| `TryInsertVerify`, `TryInsertPending`, `TryInsertWrite`, `TryInsertRefuse`, `TryInsertNotify`, `TryInsertPanics`, `TryInsertEnd` | `tryInsert` of an account pool: the walk over its current chain, block by block |
| `NotifyPanics` | `blockInsert` for a receipt whose request it does not have |
| `SnapshotInsert`, `SnapshotPending`, `SnapshotFail` | `snapshotTryInsert` with `insertVerifyPending` and the beginning of `insertVerifyFail` |
| `SnapshotFork`, `UnLockAccount`, `ForkAccounts`, `ForkKeys` | `snapshotFork` up to the lock, `UnLockAccounts` account by account, `ForkAccounts` |
| `WaitRollback` | one round of `getWaitRollbackAccounts` |
| `Rollback`, `RollbackBlock`, `RollbackEnd` | `rollback` of one account: its beginning, one block, its check |
| `ForkAccountTo`, `ModifyCheck`, `ModifyRefer`, `ModifyCurrent` | `ForkAccountTo` up to its decision, then `currentModifyToChain`, one round of `modifyRefer` per step |
| `FailEnd`, `ForkEnd` | the new fork version, and the rollback of snapshot blocks |

`snap` is the program counter and the locals of the fork under way; `snap.br` is not 0
when `snapshotFork`, which holds the write lock, is the one that forks.  `insertVerifyFail`
holds the read lock only, so that each of its steps interleaves with insertions.
`tryInsert` keeps `rMu` and the chain it began with over its whole walk: between two blocks
it is at "next", and the lock is free again at `TryInsertEnd`, `TryInsertPending` or `TryInsertRefuse`.
The verifiers' tasks only delay the next attempt and are left out.  Where the code takes
the first chain of a map that has a block (`whichChain`), any of them may be taken.  Which snapshot branch
is longer is decided in `SnapshotPool`; here `SnapshotFork` may choose any branch.  Whether the current
snapshot chain has a tail hash (`tailed`) decides whether a rollback with nothing to remove
fails (finding `rollback_check`); a switch leaves it open.  The hole that a fork point two or
more above the tail leaves is in `SnapshotPool` only (`deep_fork`); here the branch is handed
over whole.
`MiningSnapshotBlock` is left out of `Ledger`, because it never returns (run `mining`).

Two history variables say what the code has done to an account.  `removeChain` leaves
the head at a block that is gone, and `selfAc` may publish a second chain over the one in
use: such an account is recorded in `spoiled`, and most properties are stated for the
others (`Sound`).  `currentModifyToChain` may make a chain current that does not start at
the head of the disk, or turn references in the middle of an insertion: such an account
is recorded in `strayed`.  This is the scope in which the properties are true of the code.

### BootNode and PeerLink

A link is a connection with two ends; an end is a `peer` with the goroutine that serves
it and goes through the phases of `loopRead` and its deferred calls.  `AddDial` may name
any node, as an answer of the boot node may be out of date.  The dialer's handshake
message travels with the dial, the three assignments of `realClose` are one step, and so
is the sweep of `Stop` over the peers, from which on the other end's reader, too, may find the
connection closed.  A handshake that fails leaves its connection to the garbage collector; the
model takes the end as gone at once, which the other end cannot tell, as it has closed or
fails for the same reason.  `Take` and `Write` are apart, because the syncer
holds a peer between them; a `Write` on a queue that was closed meanwhile panics
(`WritePanic`), which ends the process like a crash.  A process may be started again.

The boot node keeps one connection per identifier.  A linker connects once in the life
of its node; what it is told changes nothing in `BootNode`.

### FirstSync, Production and Fetch

Time is counted in intervals of a slot, and every sleep may end late.  `Elect`,
`Notify`, `NotifyTimeout` and `Wake` are `committee.update`; `StartInit` to `StopDone` are
the calls of the node, made one after the other as the command line does; `CloseTask`,
`MarkDone` and `PublishDone` are `firstSyncDone` in the order of the code, so that a
miner may start between any two of them.  A worker makes a block in three steps: it
takes the notification, makes the block under `worker.mu` (`Mine`), and comes back from the ledger
(`Inserted`).  The ledger of the repository never lets it come back (run `mining`).  `Inserted` need
not be taken, so that the behaviours include those of the code as it is; they also include
those of a ledger that returns, and the properties hold for both.

`Fetch` follows one block from the request for hashes to its arrival, with both keys of
the retry policy, answers, broadcasts and state messages, and with the loss of every
message.  `FirstRequest` is `syncFirst`, which asks for the head of a peer without the retry policy
(`state.go:237`), once.  `DropBlock` is a pool that loses a block again, as `lost_block` shows it may;
its hash stays among the compounded blocks (`contained`), so that `AddBlock` refuses it ever
after and `HandleBlocks` does not bring it back.

## 3. Runs

| Run | Expect | Instance | Shows |
|---|---|---|---|
| `forks` | pass | `Star`: three branches above one shared block | `CurrentOnDisk`, `DiskLinked`, `ChainsComplete`; the refinement `FollowsOneBranch` |
| `races` | pass | `Race`: two branches of heights 3 and 2; peers also send genesis | `TypeOK`, `SnippetsLinked`, `ChainsLinked`, `RefersReachDisk`, `PanicsOnlyInRaces` |
| `converge` | pass | `Deep`: only the tips of two branches are announced; insertions may fail halfway | `Converges`, `LoopTurns`, `ForkEnds` under fairness |
| `locks` | pass | one account, two callers, no miner | `BodiesApart`, `EveryCallReturns` under fairness |
| `ledger` | pass | two accounts, one of them new, eight account blocks, three snapshot branches, two callers | `LedgerTypeOK`, `AccountsLinked`, `ReceiptsBacked`, `MoneyKept`, `RequestsOpen`, `PointsConfirm`, `PanicsExplained`, `ConfirmedStay` |
| `links` | pass | two nodes that dial each other, two links, a restart; three linkers | `LinksTypeOK`, `PeersRead`, `SeenArePeers`, `ListedOpen`, `BootListed`; `NoHalfOpen`, `StopEnds`, `StoppedAlone`, `BootForgets` under fairness |
| `production` | pass | two members, five intervals, three calls; one peer; one block to fetch | `NodeTypeOK`, `OneBlockPerSlot`, `ProducedVerifies`, `MinerSubscribed`, `SyncDoneOnce`, `SendsApart`; `BlockFetched`, `MinerStops`, `FirstSyncEnds` under fairness |
| `lost_block` | violation | `Two` | a block can be known and nowhere |
| `rollback_check` | violation | `Three` | the check "could be deleted" does fail |
| `deep_fork` | violation | `DeepC` | a hole in the current chain |
| `mining` | violation | one account, the miner | `MiningSnapshotBlock` never returns |
| `receive_twice` | violation | one send, its receipt as first block, a second receipt | the verifier accepts the second receipt |

The five violations are described in `PROJECT.json` under "findings".

Bounds.  `Block` and `MaxHeight` bound the tree: five to seven blocks, heights up to
4.  That is enough for each case of `forky` and `findForkPoint`, for a chain that
refers to a chain, for two switches in a row and for merging snippets from both ends.
`ForkMargin` is 4 in the code and 0 in the runs: the margin only decides how much
longer a branch must be, and 0 lets a switch happen in trees that TLC can
enumerate; with 4 the same runs need branches five blocks longer.
In `races` peers may also send the genesis block, as the answer to a request
for more blocks than there are does: it is the only block on disk that the pool has not
seen, and so the one way into `sameChain` and `cutSnippet` while nothing is mined locally.  `locks` has one
account, because accounts share nothing but the `RWMutex`, and two callers, so that
two of them meet at one `rMu`.

`ledger`: `MaxHeight` is 2 and `MaxVersion` (fork versions) 2.  The blocks are chosen so that
every case of the verifiers and of `getWaitRollbackAccounts` occurs: a first receipt at
height 0, one above it, two second receipts, a fork of the sender's first block that one
snapshot branch confirms and another contradicts, and an account confirmed at two
heights.  Two callers are what two answers to one request need.  Every action occurs; six
panics inside them do not (a hole met by `WaitRollback` and by `RollbackEnd`, a missing request
met by `RollbackBlock`, a gap met by `ModifyRefer` and by `TryInsertPanics`, a missing head met by
`ForkAccountTo`): they need longer chains, and all but the last are in the scope of the
theorems.  `links`: `MaxLinks` 2 is what two nodes that dial each other at once need,
`MaxAgain` 1 one restart, `QueueCap` 1 a full queue; one node writes and stops and the other
crashes; `MaxStarts` 3 gives the boot node a node that comes back twice, or one between
two of another's.  `production`: `MaxTime` 5 is two rounds of two slots and the start of a
third, `MaxCalls` 3 start, stop and start again, `SyncCalls` 2 a start and a stop; the limits
of the retry policy are 10, 2 s, 5 and 3 s in the code and 2, 1, 1 and 2 here, in the same
order of time.

Components that share no state are explored side by side and not in every combination: the
variable `part` of `MCLinks` and `MCProduction` says which one a behaviour is about.  In
`production` synchronisation runs within the first interval, where the committee cannot
notify anybody yet, and production runs in a node without peers.

Scope.  `CurrentOnDisk`, `DiskLinked`, `ChainsComplete`, `ChainsLinked`,
`PanicsOnlyInRaces` and the refinement are stated for `OneForkPoint`: all branches
part at one block, genesis or a block on it, and no insertion fails halfway.  Each
condition is needed, and the proof is what showed how narrow the scope is:

* two branches that part at height 2 meet the defect that `deep_fork` shows;
* an insertion that fails after the block was stored leaves the disk ahead of the
  current chain, which the next one inserts again;
* when branches part at genesis and at height 1 (blocks f2 and z2 on f1, t1 to t4
  beside f1), three chains are enough: `modifyRefer` finds no block to move, and still
  hands the lower chain's referent to the upper one, so that a chain that read f1
  through it now reads t1.  The switch to that chain then stores f2 on t1: the disk is
  g, t1, f2.  An earlier version of these properties allowed such trees, of which the
  runs had only smaller ones.

`TypeOK`, `SnippetsLinked` and `RefersReachDisk` hold for every tree.
`forks`, `races` and `rollback_check` do not check for deadlock, because a panic ends the process;
`mining` does not, because the deadlock it shows is what its property is about; `ledger`,
`receive_twice`, `links` and `production` do not, because nodes stop, blocks run out and
calls are bounded.

Observations that have no run.  `Converges` fails for a branch that leaves at genesis
when only its tip is announced: the request for 20 blocks brings genesis itself,
which `tryInsert` puts below the snippet; its tail height is then -1 and it can never
be attached.  And `PanicsOnlyInRaces` names two panics that do occur.  The current
chain may overtake the chain that `checkFork` chose; `getForkPoint` then returns a nil
key point without an error, and `snapshotFork` converts it.  And `forky` may look at a
current chain that was entirely on disk just when `rollback` has removed its head from
there and not yet put it back into the chain: `sameChain` asks nil for its height.
`Converges` therefore speaks of a process that does not end in a panic.  `PanicsExplained`,
`SyncDoneOnce` and `WritePanic` name further panics that do occur.  While modelling the
other parts we noticed, without a line of the repository that says otherwise:

* `StopMiner` waits for ever once the worker has begun a block, since `MiningSnapshotBlock` does
  not return (`InLedger` in `MinerStops`);
* two requests for a peer's head may be sent at once, one by `syncFirst` and one for a State
  message; `SendsApart` is about the requests that the retry policy lets through;
* a block that the pool has dropped is fetched again and again, as `BlockFetched` says, and
  refused each time;
* `StopMiner` twice, or `node.Stop` after `StopMiner`, panics in `PreStop`; a second
  `StartMiner` replaces the worker's channel, so that `StopMiner` waits for ever for the
  first goroutine (`Stray` in `MinerStops`);
* `DwlDone` after `Stop` subscribes the stopped miner again;
* two nodes that dial each other at once may lose both links, and then dial again only
  when the boot node names the other; `Stop` may wait for a peer that was added after its
  sweep (`Late` in `StopEnds`); the handshake has no timeout;
* when two registrations of one node reach the boot node in the wrong order, the newer
  connection is closed, and the linker never connects again;
* `worker.Start` calls `updateWg.Add` inside the goroutine, so that a `Stop` that comes
  first does not wait for it;
* a committee whose `MemCnt` differs from the number of members would have rounds that
  overlap; every configuration has them equal (`MemberAssumption`).

Fairness.  `SnapshotPool`: `loop()` and `loopCheckFork()` are endless loops, so that
each makes a step when it can (weak fairness); a peer that was asked delivers (weak
fairness per block: the request is repeated in every round until the blocks come);
verification and the work on accounts do not fail for ever (strong fairness of
`InsertSome` and `ForkStart`; the account pools bring the missing blocks).
`LedgerLocks`: a goroutine that can run does, and `sync.Mutex`, which hands itself to a
waiter after 1 ms, passes nobody over for ever (strong fairness of `LockAnnounce` and
`MuLockStep`).
`PeerLink`, `BootNode`: the goroutines that serve a link, and those of `Stop`, go on when
they can (weak fairness); nobody is obliged to dial, write, stop or crash.
`MCProduction`: `syncFirst`, whose tickers keep ticking, the workers and the caller of
the node go on, and blocks that others have arrive (weak fairness; `BlockFetched` is the
reason).  Nothing is assumed of `Inserted`, which the code never reaches.  In `Fetch` the pool's loop keeps asking and time passes (weak fairness); a message
that is sent again and again arrives at last (strong fairness of the handlers), which is
what a network that loses some messages, and not all, provides.  The loss of
messages is never obliged to stop.

Every property of a passing run has a mutant: a faulty version of one definition,
marked "Faulty" in the modules, under which TLC finds the property violated.

## 4. Proofs

Every theorem holds for all values of the constants that satisfy the assumptions of
its module, which TLC evaluates in the runs: `TreeAssumption` (hashes identify blocks,
a height is one more than the predecessor's), `BootAssumption` and `LocksAssumption` (nodes,
accounts and goroutines are not the marks for "none"), `LinkAssumption` (a queue has
room), `MemberAssumption` (a committee has as many members as `MemCnt` says, at least one),
`FetchAssumption` (a finished request waits no shorter than a repeated one, as in the code),
`BodyAssumption` and `LedgerAssumption` (the types of blocks and branches; a branch is indexed
by height) and `MadeAssumption`: what nodes that run this code put into blocks, that is,
heights count up within one account, a receipt names a sent block to its own account, and a
snapshot block names an account once.

### The pool, for every tree (`SnapshotPoolProofs`)

* `TypeCorrect`: `Spec => []TypeOK`.  `TypeOK` is inductive.  The work is in the
  operators (`BCPoolLemmas`): that trimming, merging, storing and rolling back stay
  within heights and blocks.
* `NamesApart`: `Spec => []Bookkeeping`.  `Bookkeeping` is inductive relative to
  `TypeOK`.  It says that the locals of both goroutines point at snippets and chains
  that exist, and that no chain has the name of a snippet.  The exception is the
  genesis block: a peer may send it, it becomes a snippet, and it can never become a
  chain because nothing is found below it.
* `RefersCorrect`: `Spec => []RefersReachDisk`.  Inductive relative to `Bookkeeping`.
  The property is stated without a path: no non-empty set of chains refers only to
  itself.  A new chain has a fresh name (`NamesApart`), so that no old chain refers to
  it (`RefersForked`); a reference that is turned around keeps the property because
  the lower chain's own reference is handed to the upper one (`RefersTurned`).  It is
  what makes `forkedChain.getBlock` and the loop of `currentModifyToChain` terminate.
* `SnippetsCorrect`: `Spec => []SnippetsLinked`.  `LinkedSnippet` is inductive relative to
  `Bookkeeping` only with the fact that a snippet holds no block outside its bounds:
  otherwise a merge could overwrite a block of the run.

### The pool, for trees with one fork point (`PoolBranchProofs`)

`ShapeKept` proves the inductive invariant `PoolShape`, relative to the four results
above and to `TurnShape`, which says what the two references are between their writes
(`Ground`):

* `OnePlace`: a block other than genesis is in one place only, a snippet, the memory of
  one chain or the disk, and then it counts as known;
* `HandFree`: the block that `snapshotFork` has in hand, removed and not yet put where it goes,
  is in none of these places, and known;
* `DiskShape`: the disk is a hash-linked run from genesis to its head;
* `ChainsShape`: the blocks a chain holds are a linked run up to its head; one chain
  (`Base`) stands on the disk's head, or on the block in hand, and refers to the disk; every
  other stands on the block where branches part.  Between the two writes of the last round
  of `modifyRefer` two chains refer to the disk;
* `HandShape`: the block in hand follows the disk's head; if it comes from disk it is above
  the block where branches part, and if it comes from a chain it is that block;
* `ForkShape`: `Base` is the current chain until the last round of `modifyRefer`;
  a rollback goes down to the block where branches part, and after it the disk ends
  there or below until the lock is released; the panics are the two of `PanicsOnlyInRaces`;
* `VisitShape`: `forky` has passed no chain that the snippet it looks at continues.

None of the properties that the runs check is inductive.  `DiskLinked` needs that the
current chain continues the disk; that needs to know what a rollback and the rounds
of `modifyRefer` leave behind, and this in turn that no other chain reads the blocks
that they move, which is what one fork point gives.  From `PoolShape` follow
`ChainsStayLinked`, `CurrentStaysOnDisk`, `DiskStaysLinked`, `ChainsStayComplete` and
`PanicsStayRaces`.  The last two say what is true while a block is in hand: exactly that
block may be missing to a reader, only to the current chain while it comes from disk, and
`forky` panics only on it.

Two arguments replace an induction over data, which the provers do not do.
`GetBlock` follows references recursively; that every chain finds a block is shown by
taking the set of chains that do not, which would refer only to itself against
`RefersReachDisk`.  Statements about every height of a run take the least height where
they fail (`NoDescent`).

`PoolFollows`: within the scope, `SnapshotPool` implements `FollowBranch`.  Its recursive
`Path` is shown to be a fixed point, the least set of blocks that is closed under
predecessors (`PathRound`), and the disk and each chain to be the path of its head
(`PathOfDisk`, `PathOfChain`).  Then each action is one abstract step or none:

| `SnapshotPool` | `FollowBranch` |
|---|---|
| `AddBlock`, the actions of `Gen`, `Fetch`, the other steps of `forky`, `RollbackAddTail`, `RollbackCheck`, `CurrentModify` when it goes on, the steps of `modifyRefer`, a panic | none |
| a snippet is put on top of the current chain, or of the one decided for | `Lengthen` |
| `TryInsert` | `Store` |
| `CheckFork` | `Decide` |
| `ForkStart` | `Undo` |
| `RollbackRemove` | `TakeOff` |
| `ForkGiveUp`, `ForkFailed`, `CurrentModify` when it returns an error | `GiveUp` |
| `ModifyCurrent` | `Change` |

### The ledger (`LedgerProofs`)

The theorems hold for any set of accounts, callers, blocks (forks included) and snapshot
branches.  The inductive invariant is `LedgerInv`, in parts that build on one another:

* `TypeInv` (`LedgerTypeCorrect`): `LedgerTypeOK`, and that what is stored under an account
  was signed by it and lies at its own height, on disk and in every chain of the pool.
* `Effect` is no invariant: it sums up the thirty-odd actions.  A step leaves
  the disk alone, or moves one goroutine on, verifies, writes or announces one block, or
  spoils one account.  `EffectStep` shows it once, and the parts below are proved from it.
* `DiskInv` (`LinkedCorrect`): at most one goroutine is between verification and
  announcement of a block of one account (`Mutex`, which is `rMu`); what it has verified still
  follows the head, and what it has written is the head (`ProcLinked`).  Without that the
  verifier's comparison with the head says nothing about the moment of the write.
* `PointsConfirm` is inductive with these (`PointsCorrect`).  `ConfirmedCorrect` is the action
  property: a removal is above the last point (`hasSnapshotPoint`), and a write is above
  the head of a sound chain.
* `ReceiptInv` (`ReceiptsCorrect`): what `verifyFrom` and `getBySourceBlock` have found stays true
  until the block is written: the sent block is on disk with the opposite amount, and no
  receipt above height 0 has come in between.
* `ReqInv` (`RequestsCorrect`): the state of each entry of the request pool in terms of the
  disk and of the goroutines that have written and not yet announced.
* `PoolInv` (`LinkedCorrect`, second part): no chain of a pool starts above the disk's head, chains
  have no gap above their tail (`Contig`), the current one starts at the head (`AtDisk`), and the
  inserter works on the current chain and its next block, or, between two blocks of its
  walk, on the chain whose tail it has just raised (`InsertsNext`, `Below`); a rollback never
  looks above the head (`RollbackBelow`).  Why it is limited to accounts outside of
  `strayed` is what `ModifyCurrent` shows: the code compares the head with a lookup that
  ignores the bounds of the chains, and `ForkAccountTo` ignores the error of a rollback.
* `PanicsExplained` (`PanicsCorrect`) then follows step by step: a walk down a linked chain meets
  no hole, the current chain has no gap, a request is there when its receipt is announced
  unless the announcement of the send is still under way.  The nil head of
  `getForkPointByChains` is left out of the theorem: a chain that holds no block of its own reads
  its head through references that `LedgerInv` says nothing about.  TLC checks that conjunct.

`MoneyKept` follows from the same invariant by an argument about a sum over a set,
which the library defines by a fold and states no theorem about; it stays with TLC.

### The other components

* `LocksKeepApart` (`LedgerLocksProofs`): `Spec => []BodiesApart`, for any number of
  accounts, callers and goroutines.  Inductive: `LocksInv`.  A goroutine owns every lock of
  its function up to the place it has reached (`StepsOwned`); no reader has come after an
  announced writer (`ReadersAhead`), without which a writer would enter beside it; and a
  goroutine that waits for its read lock is still at that step (`WaitingStays`), so that
  letting it in gives the lock to the right one.
* `BootListedCorrect` (`PeerLinkProofs`): inductive `BootInv`: `BootListed` with the types
  and the fact that a connection which was made belongs to a node (`Owned`).
* `LinksTypeCorrect`, `OneReaderPerEntry`, `SeenPeersListed`, `ListedPeersOpen`
  (`PeerLinkProofs`): inductive `PeerInv`.  Beside `PeersRead` it says
  that links not made yet have no ends and nobody reads a link of others (`Made`), that a
  process that ended has left no reader behind (`DeadGone`), that only `Stop` closes a peer
  which is still read (`ShutStopped`), and that a peer the syncer has seen is one whose
  reader has not announced it closed (`SeenRead`).
* `NodeTypeCorrect`, `SlotsServedOnce`, `BlocksVerify`, `MinerGetsSubscribed`, `SyncEndsOnce`
  (`ProductionProofs`): inductive `ProdInv`.  `SlotInv`: the round in hand is later than the last
  one, the slot in hand is planned in it, and a slot that was notified or served belongs
  to a round that is over; it needs that a slot lies in one round, which is arithmetic
  with `MemberAssumption`.  `SubscribeInv`: the handler of `DwlDone` is registered before the
  event, and after the event the task is marked done.  `DoneInv`: without a timeout
  `firstSyncDone` is called from the end of `syncFirst` only.
* `FetchTypeCorrect`, `RequestsApart` (`FetchProofs`): inductive `AgeKept`: at least as
  much time has passed since the last request through `retry` as the age that the status records, and
  a key without a status has not been asked for within the largest gap that is counted,
  so that a status which was forgotten and made anew keeps two requests apart.

### What is only model-checked

`MoneyKept`, and the missing head in `PanicsExplained`, for the reasons above; liveness, which is beyond the prover: `Converges`, `LoopTurns`, `ForkEnds`, `EveryCallReturns`,
`NoHalfOpen`, `StopEnds`, `StoppedAlone`, `BootForgets`, `BlockFetched`, `MinerStops`,
`FirstSyncEnds`; and the five violations.

## 5. Plan

Done: all modules above; the theorems of section 4.

Left, in this order:

1. `Stop` of the pools, and a snapshot block made locally once `MiningSnapshotBlock`
   returns: `AddDirectBlock` of the snapshot pool beside `loop()`.
2. `MoneyKept` as a theorem, with lemmas about sums over finite sets.

### Not modelled

JSON encoding, logging and hashing (a hash identifies its block); the monitor, whose
statistics nothing reads; the wallet, which maps names; the command line and the
example programs; the websocket library, of which only opening, closing and the order
of messages matter; `RWLock` of `common/lock.go` and `addressRetryPolicy`, which have no
caller; a reload of stored chains, as the store is in memory; the abort of Go's runtime
when two goroutines use one map.
