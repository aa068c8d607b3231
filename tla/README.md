# A TLA+ verification of the node

This directory holds TLA+ models of the node in `src/`, the TLC configurations
that check them on small instances, and proofs that TLAPS checks for every
instance. `PROJECT.json` lists the components, runs, mutants, theorems and
hazards, and maps every definition to the source lines it models.

The node is a fork of Zcash 1.0.4, itself a fork of Bitcoin Core: a C++ daemon
that keeps a tree of blocks, follows the chain with the most work, keeps the set
of unspent coins, a pool of unconfirmed transactions and a wallet, and talks to
its peers and to RPC clients. Paths below are relative to `src/src/`.

The tree is in the middle of a merge and does not compile as it is: braces in
`DisconnectBlock` and `ConnectBlock` do not balance, a call in
`AcceptToMemoryPool` is malformed, and the source of the SQLite index
(`CSqliteWrapper`, `CScript2TxPosDB`) and of `cc/*.h` is missing. The models
follow the code that is there, read with its evident block structure, and leave
the SQLite index out.

## Inventory

| Part | Where | Here |
| --- | --- | --- |
| Block index, best chain, pruning | `main.cpp`, `chain.h` | `BlockTree`, `ChainState` |
| Caches of the coin database | `coins.cpp`, `coins.h`, `txdb.cpp` | `CoinsSpec`, `CoinsCache` |
| Applying and undoing a block | `main.cpp`, `undo.h`, `coins.h` | `BlockUndo` |
| Queue of script checks | `checkqueue.h` | `CheckQueue` |
| Asynchronous RPC operations | `asyncrpcqueue.cpp`, `asyncrpcoperation.cpp` | `AsyncRPCQueue` |
| Task scheduler | `scheduler.cpp` | `Scheduler` |
| Block files, restart after a crash | `main.cpp`, `txdb.cpp`, `init.cpp` | `ChainStore` |
| Memory pool, orphan transactions | `txmempool.cpp`, `main.cpp` | `Mempool` |
| Block download, life of a node | `main.cpp`, `net.cpp` | `BlockDownload` |
| Wallet notes and their witnesses | `wallet/wallet.cpp`, `wallet/rpcdump.cpp` | `NoteWitnesses` |
| Address manager, key pool, wallet encryption, note commitment tree | `addrman.cpp`, `wallet/`, `zcash/` | not modelled |
| Message parsing, scripts, proofs, RPC formatting, GUI, bundled libraries | | not modelled |

How they interact. Message and RPC threads take `cs_main` and bring headers and
blocks into the index (`ChainState`). Which blocks they ask which peer for is the
matter of `BlockDownload`. The index chooses a chain, and each block of it is
connected or disconnected in a cache of its own above `pcoinsTip` (`BlockUndo` for
what that does to the coins, `CoinsCache` for how the caches carry it to the
database). Index and coins reach the disk in separate writes (`ChainStore`).
`ConnectBlock` hands its script checks to the check queue and waits for it
(`CheckQueue`). Every connected or disconnected block changes the memory pool
(`Mempool`) and the wallet's witnesses (`NoteWitnesses`). Long wallet calls run in
the workers of the operation queue (`AsyncRPCQueue`); periodic work runs in the
scheduler (`Scheduler`).

Three modules are compositions: `ChainStore` extends `ChainState` and adds to every
one of its steps what the step leaves to be written; `Mempool` extends `BlockUndo`,
whose commits and undos are the moments at which the pool changes; and `CoinsCache`
is shown to implement `CoinsSpec`.

## The modules

**`BlockTree`, `ChainState`** (core). The header tree is a constant: a block's
parent is fixed by its header. The state is `mapBlockIndex` with each entry's
status bits, `setBlockIndexCandidates`, `mapBlocksUnlinked`, `chainActive`, the
best block of `pcoinsTip`, the pruning flags and, per thread, where it is. All of
it is guarded by `cs_main`, but `ActivateBestChain` gives the lock up between two
rounds. An action is one pass of a loop: a header and block accepted or ignored
(`AcceptBlock`), one block linked (`ReceivedBlockTransactions`), one candidate
tested or dropped (`FindMostWorkChain`), one block disconnected or connected
(`ActivateBestChainStep`), one step of `InvalidateBlock`, `ReconsiderBlock`, and
the pruning of `FlushStateToDisk` at each place where it is called. A block's
verdicts (`ContextualCheckBlock`, `ConnectBlock`) are constants of the block.
Two steps stop the node for want of a pruned block: `Abort`, where `DisconnectTip`
calls `AbortNode`, and `ConnectBlockCrashes`, where `ConnectBlock` reads the block
below the one it connects, ignores whether that succeeded, and uses its first
transaction (`main.cpp:2568`).
Left out: fork warnings, `pindexBestHeader`, notifications, the memory pool,
failures of the disk, and failures that `CorruptionPossible` excuses. One block
is one file, the link queue is a bag, and `invalidateblock` of the genesis block
is excluded.

**`CoinsSpec`, `CoinsCache`**. `CoinsSpec` is what the stack of caches promises:
three states (database, tip, block at work), a block that is committed whole or
dropped, a flush, a crash that falls back to the last flush. `CoinsCache` is
`CCoinsViewCache` twice above `CCoinsViewDB`, with the `DIRTY`, `FRESH` and
`entered` flags of coins, nullifiers and anchors, `ModifyCoins`, `PushAnchor`,
`PopAnchor`, `BatchWrite`, `Flush` and reads at both levels that fill the caches.
A tree is identified by its root, and `Size` orders the roots of the anchors. Any
value may be written, any key read at any time: more behaviours than the callers
have. LevelDB writes a batch completely or not at all.

**`BlockUndo`**. The loops of `ConnectBlock` and `DisconnectBlock` over the
transactions and inputs of a block, one input per step: the BIP30 test,
`HaveInputs`, the maturity of coinbases, `UpdateCoins` with the undo data of each
input, the undo data on disk as it is read back, `ApplyTxInUndo` in reverse
order. Scripts, amounts and signature counts are a verdict that may reject the
block at any transaction. A `CCoins` without outputs is one value, since the code
stores none of them and treats them as equal.

**`CheckQueue`**. The loop of workers and master, both condition variables with
spurious wake-ups, the batch sizes, and `CCheckQueueControl`. A check is its
outcome. `fQuit` is never set by the code.

**`AsyncRPCQueue`**. Adding, the workers, `finishAndWait`, `closeAndWait` with
`cancelAll`, and the collection of results by `z_getoperationresult`. The state of
an operation and the flags `closed_` and `finish_` are atomics that are read and
written without the lock, so their tests and their uses are separate steps. The
several reads of `getStatus` are one; what `z_sendmany` does in `main_impl` is one
step that succeeds or fails. RPC threads are joined before the queue is closed,
so results are collected only while it is open.

**`Scheduler`**. `schedule`, `stop`, `serviceQueue` with its timed wait,
interrupts and tasks that throw. Time is a counter that never goes back.

**`ChainStore`** (extends `ChainState`). `setDirtyBlockIndex`, the stored block
index with its pruning flag, the block files and the best block of the coin
database. `FlushStateToDisk` is up to three atomic writes, in the order of the code:
the index batch, the removal of pruned files, the coin batch. The node may crash
between any two of them and at every step of `ChainState`. A restart is
`LoadBlockIndexDB`, `VerifyDB` and the start-up of `init.cpp`, which ends in the first
`ActivateBestChain` or in a failure. `VerifyDB` disconnects the upper blocks in
memory, as many as its bound on memory allows, and connects them again, so it also
reads the block below the lowest of them. `LoadBlockIndexGuts` does not restore
`nBlockHeight` (`txdb.cpp:290`), so an entry that was read from disk and is written
again is stored without it: `loaded` and `heightless` keep track of these entries. The
height is part of the header, so the next start computes another hash from the
record, which is taken to fail `CheckProofOfWork` (`txdb.cpp:308`). Block data that a stored entry points to has
been synchronised, since the files are before the index is written.

**`Mempool`** (extends `BlockUndo`). `mapTx`, `mapNextTx` and `mapNullifiers`;
`AcceptToMemoryPool` with replacement of conflicting transactions, `removeForBlock`
when a block is connected, and for a disconnected one the resurrection of its
transactions, `removeCoinbaseSpends` and `removeWithAnchor`. The `tx` handler is
modelled one orphan per step, with `mapOrphanTransactions`,
`mapOrphanTransactionsByPrev`, its work and erase queues and the peers it finds
misbehaving. Fees, priorities, scripts and sizes may refuse any transaction.

**`BlockDownload`**. `mapBlocksInFlight`, every peer's list of requests, its best
known, unknown and last common block, and `nQueuedValidatedHeaders`; the start of
header synchronisation with `fSyncStarted` and `nSyncStarted`, the peers that owe an
answer to `getheaders`, the `inv`, `headers` and `block` messages,
`FindNextBlocksToDownload`, timeouts and stalling;
`vNodes`, the message thread's copy of it with its references, and the socket
thread that finalizes a node when nobody holds it. Peers may keep blocks back, send
them corrupt or unasked, and go away. Time is left out: what is in flight may time
out at any moment, and the best header may be recent or not. The headers that a peer
owes fit one message. What `ProcessNewBlock` does to the index is abstracted to which
blocks have data and which are known to fail; `ChainState` has the detail.

**`NoteWitnesses`**. `mapWallet` with its notes, `witnessHeight`, the list of cached
witnesses and `nWitnessCacheSize`; `IncrementNoteWitnesses`,
`DecrementNoteWitnesses`, `AddToWalletIfInvolvingMe` and, as whole handlers,
`importprivkey`, `importwallet` and `z_importkey` with
`ScanForWalletTransactions`. A tree stands for the commitments appended to it, and a
witness for its tree. The asserts of the two functions are states in which the
process has ended.

## The runs

| Run | Instance | What it shows |
| --- | --- | --- |
| `race` | two threads, a fork of six blocks, one block that fails its checks and one that fails to connect, two blocks the operator may invalidate | index, candidates and active chain stay consistent, failure marks have a cause, the best chain is active when everyone is idle, and every handler returns |
| `prune` | one thread, pruning on, a fork of six blocks with reorganisations deeper than `MIN_BLOCKS_TO_KEEP`, one block the operator may invalidate | the node stops for want of a block only in a reorganisation of at least that many blocks; `mapBlocksUnlinked` holds exactly the waiting blocks; a block chosen to be connected can still be read although pruning runs while others are disconnected; until a block is invalidated, the key of an entry never changes inside the candidate set |
| `stranded` | one thread, invalidate and reconsider | **violated**: see Findings |
| `store` | one thread, a fork of four blocks, pruning, invalidate and reconsider, two crashes at any step | the coin database is never ahead of the stored index, what is not saved is dirty, start-up fails only for three named causes, the index stays consistent, and the best chain is active after a restart as before |
| `restart` | the same without pruning | **violated**: see Findings |
| `coins` | a transaction with two values, a nullifier, two roots, two blocks | flags tell the truth, the assertion of `BatchWrite` holds, the tree of the best anchor is readable at every level, the caches implement `CoinsSpec` |
| `pool` | three coinbases that may come again, four transparent and three shielded transactions, height four, four blocks ever connected, two peers, two orphans | at every step the coins, nullifiers and anchors are what the chain leaves; the whole pool can be mined at any time; the orphan maps agree, and no resolvable orphan is lost |
| `peers` | a prompt peer and one that is not, three good blocks and one that fails, one request per peer, a window of one | the requests in flight and the count of synchronising nodes agree with the nodes that exist, the timeout allows for all requests, and the best chain is downloaded at last if it is ever asked for, or only prompt peers are connected, again and again |
| `witnesses` | two transactions with notes for two keys, a cache of three, height six, two scans | every witness is right, mined notes can be spent, the assertions about the cache size hold |
| `check_queue` | two workers and the master, three checks, two rounds | `Wait` returns after exactly its checks with their conjunction, the next control finds the queue idle, no wake-up is lost |
| `async_rpc` | two workers, two operations | nothing is popped from an empty queue, shutdown returns, and operations are settled after it |
| `scheduler` | two threads, two tasks, three points in time | tasks start; threads leave and are no longer counted; a drained queue is empty |

Every property of a passing run has a mutant in `PROJECT.json`: a definition
beside the correct one that changes it as a plausible bug would, under which TLC
finds the property violated.

**Bounds.** Two threads suffice for the races: `cs_main` serialises everything but
the gap between two rounds. Six blocks give two branches of different length with
a failing block on each and a parent that may come after its child.
`MaxSequenceId` and `MaxUnlinked` let every block of the tree arrive and be linked,
and several of them again after pruning or an invalidation; they cut off only
further repetitions. In `store` four blocks give a reorganisation, a pruned
block and an invalidated one; `MaxSequenceId` is 4 and `MaxUnlinked` 2. The first
crash is followed by a life in which blocks arrive and the operator calls as before,
and the second by a start-up only: nothing arrives after the last crash. That is
enough for what an entry loses by being loaded, written and loaded again. Two
values let an entry be created, spent, overwritten and created again between
flushes; two roots let an anchor be entered, popped and entered again. In `pool`
`Maturity` is 2: a coinbase of height 1 can be spent at height 3, and come again at
height 4, alone or in a block with another transaction, and all of it can be undone;
two orphans make a chain and reach the limit, and two peers let one be found
misbehaving while the orphans of the other are tried. In `peers` a window of one block and one
request per peer make both limits bind; every peer may announce the best block, and
the one that is not prompt also sends the header of a block with more work that
fails to connect. A cache of three witnesses is filled and
used up within height six. Three checks with batches of at most two let one thread
take several batches while another sleeps; two rounds show what a block leaves to
the next. `MaxTime` lets one task become due before and one after another.

**Symmetry** is used in `coins`, over the values of coins and over blocks, and in
`pool`, over the peers, which are interchangeable there; neither checks liveness. Deadlock is not checked in
`prune`, `store` and `restart`, where `AbortNode` or a failed start-up may stop the
node, nor in `pool`, `peers` and `witnesses`, which stop at their bounds, when every
connection is used up, or at an assertion.

**Fairness.** `ChainState`: strong fairness of each thread inside a handler, as a
thread that waits for `cs_main` gets it in the end; nobody has to send a block.
`CheckQueue`: the same for the mutex, weak fairness for a thread that holds it or
works, and the master calls `Wait` in the end (also through the destructor).
`AsyncRPCQueue`: threads that wait for `lock_` get it, and `main_impl` returns.
`Scheduler`: time passes, and a timed wait ends after its time however often it is
woken early. Spurious wake-ups have no fairness. `BlockDownload`: the message thread
keeps going round; the socket thread removes and deletes nodes; a peer whose request
stays open is timed out or banned at last, which the code does by the clock. A prompt
peer answers what it was asked for: headers after a `getheaders`, blocks after a
`getdata`. That a peer connects, or that it announces anything, is not assumed, and
nothing at all is of the others. Hence the premise of `BestChainDownloaded`: the code
need not ask a prompt peer for headers. It does not when the peer announces a block
that is in flight from somebody else, nor at the start of synchronisation as long as
another peer, which may say nothing and stay, is the one synchronised with. Dropping
any conjunct of the fairness makes TLC refute the property.

## Findings

- `stranded`: `reconsiderblock` does not undo `invalidateblock` completely. A block
  that arrives before its parent's data and while the parent is marked invalid is
  not entered in `mapBlocksUnlinked`. When the marks are cleared and the parent
  comes, nothing links it, and a chain with more work is not activated although
  all of its data is at hand.
- `restart`: after `invalidateblock`, a periodic flush that writes the block index
  but not yet the coins, and a crash, the coin database is at a block that the index
  marks invalid. `LoadBlockIndexDB` then calls `PruneBlockIndexCandidates` with no
  candidate as good as the tip, and its assertion (`main.cpp:2988`) fails at every
  start. When another candidate exists, the node starts with the invalidated chain
  active, and may extend it, although the RPC help says that `invalidateblock`
  "Permanently marks a block as invalid"; `BestChainAfterRestart` speaks of the time
  before such a start.

## Observations

Met while modelling and reproduced by the models or read off the code; no run is
about them.

- `ConnectBlock` reads the block below the one it connects and does not look at the
  result (`main.cpp:2568`). After a reorganisation of exactly `MIN_BLOCKS_TO_KEEP`
  blocks every block to disconnect is there, while the fork may have been pruned, and
  `vtx[0]` of an empty block is used. `NeededDataKept` and `ConnectDataAtHand` name the
  depth.
- `nBlockHeight` of `CBlockIndex` is not restored at a start (`txdb.cpp:290`). When an
  entry is changed after a restart, by pruning, a failure mark or the arrival of its
  data, it is written without its height. The next start computes the hash of the
  header with height 0, which has no proof of work, and fails (`txdb.cpp:308`).
  `RestartFailsOnly` names it as a cause.
- With pruning, a tip that `invalidateblock` has disconnected and that is received
  again gets a new `nSequenceId` while it is in `setBlockIndexCandidates`, which is
  ordered by it. So does a block that two calls of `invalidateblock` have led
  `FindMostWorkChain` to enter in `mapBlocksUnlinked` twice, when its pruned parent
  comes back. `CandidateKeysFixed` therefore speaks of the time before.
- A block that is stored while its parent is marked invalid and not linked is not
  entered in `mapBlocksUnlinked` (`main.cpp:3261`), so its children that are entered
  there stay when the missing ancestor comes. `CheckBlockIndex` asserts that a block
  all of whose ancestors have data is not in that map (`main.cpp:4412`).
  `UnlinkedExact` states it for usable blocks only.
- A pruned block received again by `submitblock` has no undo data.
- After a restart `mapBlocksUnlinked` also holds pruned blocks, which
  `CheckBlockIndex` rules out.
- When a start finds the coin database on a chain that the index marks invalid and
  does not fail (see `restart` above), `LoadBlockIndexDB` takes the marked tip for the
  measure of `setBlockIndexCandidates`. With blocks 1, 2 and 3 on the genesis block, 1
  invalidated and still the coin database's best block, 4 on 3, and 3 failing to
  connect, the node disconnects 1 to try 4, and ends on the genesis block although 2
  could be connected. When a flush comes in the middle of `invalidateblock`, the best
  block of the coin database may be free of marks and one below it marked.
  `BestChainAfterRestart` therefore speaks of the time before such a start.
- `VerifyDB` may undo one block more than pruning keeps: `init.cpp:1273` allows 288
  blocks to check, which takes the undo data of 289, with `MIN_BLOCKS_TO_KEEP` 288
  (`main.h:171`). `RestartFailsOnly` names the outcome.
- Between two rounds of `ActivateBestChain` the candidate set may hold entries worse
  than the tip, and after `reconsiderblock` a sibling's `BLOCK_FAILED_CHILD` may stay
  without a cause: `CandidatesWhenSettled` and `FailureHasCause` are stated with that
  in mind.
- `FinalizeNode` does not decrement `nQueuedValidatedHeaders` (`main.cpp:330`): the
  timeouts of the remaining peers grow longer, never shorter.
- An orphan with two parents that are accepted in one `tx` handler is tried twice;
  the second time it is known already and goes to `recentRejects`.
- `CTxMemPool::clear` leaves `mapNullifiers` filled.
- `init.cpp` creates the wallet with `new CWallet()`, and its rescan is commented
  out, while `wallet.cpp:1167` relies on one.
- `assert(nWitnessCacheSize > 0)` in `DecrementNoteWitnesses` (marked TODO #1302)
  fails in a fresh wallet whose first event is a disconnected block, and a rescan
  raises `nWitnessCacheSize` without the witnesses of notes that were known.
- `z_getoperationresult` takes the status object first and tests afterwards whether
  the operation has finished. When it ends in between, the operation is removed and
  the caller gets a status without a result, which is lost (`rpcwallet.cpp:3162`; the
  help at 3102 promises it).
- `cancel` tests the state of an operation and sets it afterwards, so an operation
  that a worker has taken in between is marked cancelled and done all the same.
- With several scheduler threads a task may start before its time, when another
  thread has taken the one that was waited for.

## The proofs

All for arbitrary constants that satisfy the named assumptions, which TLC evaluates
on every run: `TreeAssumption` and `AncestorsAssumption` (the headers form a tree,
of any size), `ChainStateAssumption`, `ChainStoreAssumption`, `CoinsAssumption`,
`BlockUndoAssumption`, `MempoolAssumption`, `BlockDownloadAssumption`,
`CheckQueueAssumption` and `SchedulerAssumption` (finitely many threads),
`AsyncRPCQueueAssumption`. None bounds the number of blocks, transactions, nodes,
threads, operations, checks or crashes. `MempoolAssumption` says that every set of
transactions has one that spends from none of the others: an input names the hash of
the transaction it spends from, so that no transactions spend from each other in a
circle, nor back for ever.

| Module | Theorems |
| --- | --- |
| `ChainStateProofs` | `TypeCorrect`, `IndexConsistency`, `ActiveChainConsistency`, `ConnectDataKept`, `PruningKeepsEnough`; without `reconsiderblock`: `FailuresHaveCause` |
| `ChainStateBestProofs` | without pruning and `reconsiderblock`: `CandidatesRight`, `BestChainIsActive`, `UnlinkedRight`, `CandidateKeysStay` |
| `ChainStoreProofs` | `DiskConsistency`, `NothingForgotten`, `RestartRecovers`, `IndexSurvivesRestarts`, `ActiveChainSurvivesRestarts`; without pruning and `reconsiderblock`: `BestChainSurvivesRestarts` |
| `ConnectBlockProofs` | of `CoinsCache`: `Refinement`, `FlagsTheorem`, `FreshTheorem`, `TreesTheorem`, `BestAnchorTheorem`, `TypeCorrect`; of `CheckQueue`: `WaitCorrect`, `ControlCorrect` |
| `BlockUndoProofs` | the lemmas about `BlockUndo` that the next module rests on |
| `MempoolProofs` | `CoinsExactAlways`, `PoolMinableAlways`, `OrphansIndexedAlways`, `OrphansResolvedAlways` |
| `BlockDownloadProofs` | `RequestsConsistentAlways`, `TimeoutLongEnoughAlways` |
| `QueueProofs` | of `AsyncRPCQueue`: `FrontIsThere`, `CloseSettles`, `FinishDoesAll`; of `Scheduler`: `SchedulerSettles` |

**`ChainState`.** The properties are not inductive by themselves: they speak of
states in which `cs_main` is free, while steps inside a critical section pass
through states in which links, marks and queues are half updated. The inductive
invariant is built in layers, each proved with the ones below as hypotheses:

1. `TypeInv`: types, at most one holder of `cs_main`, the index is closed under
   parents, the locals of each thread fit its place in the code (this layer and the
   next five are in `ChainStateProofs`);
2. `LinkInv`: which blocks wait in the link queue or in `mapBlocksUnlinked`, linked
   blocks have linked parents, candidates are linked;
3. `PathInv`: the pruning flag is set only inside one critical section, and the
   path being connected has its data;
4. `ValidInv`: validity levels grow towards the root, and the active chain is
   fully validated and can be undone until pruning starts;
5. `CauseInv`: every failure mark lies below a block that itself failed;
6. `KeptInv`: a block of the active chain whose data is gone is buried
   `MIN_BLOCKS_TO_KEEP` below some block that was connected, which is what
   `PruningKeepsEnough` needs, for the block that `DisconnectTip` undoes and for the
   fork that `ConnectBlock` reads, and so does `ConnectDataKept`: pruning measures from the tip of the day, and a
   reorganisation has lowered the tip since;
7. `BaseInv` (`ChainStateBestProofs`), without pruning and `reconsiderblock`: a block
   is linked at most once, a stored block that is not linked waits for its parent or
   lies on an invalid block, and no block of the active chain is marked but the one
   being invalidated;
8. `BestInv`: the candidates are exact with respect to a *reference block*. The tip
   cannot be the measure, for it goes down and up again inside
   `ActivateBestChainStep`, and stays down when a connect fails. The reference is the
   tip of the last time the set was right, until a better block is connected: every
   usable block at least as good as the reference is a candidate, so that the chosen
   block is the best of all. `BestOrLater` adds that when a usable block beats the
   tip, some thread is still going to look for the best chain.

That a usable block has been linked, which `BestChainIsActive` needs, is an
induction along the chain to the lowest block that is not; `LowestBlock` takes it
from the order of the natural numbers.

The two hypotheses of `ChainStateBestProofs` are needed. With `reconsiderblock`
`BestChainActive` is false: that is the finding `stranded`. With pruning, TLC
refutes `CandidatesWhenSettled` and `BestChainActive` by way of a pruned block that is
received again; `UnlinkedExact` and
`CandidateKeysFixed` hold with pruning as far as TLC goes (run `prune`).

**`ChainStore`** (`ChainStoreProofs`), with pruning, invalidation and reconsideration,
and any number of crashes. The invariant is `StoreInv` beside the first four layers
above (`Memory`), and the two are proved together, since a restart replaces the
index in memory by the stored one. `DirtyInv`: an entry that is not in
`setDirtyBlockIndex` is on disk as it is in memory, but for a `BLOCK_FAILED_CHILD`. So
each write of the index leaves a picture of the whole of it, and the picture
satisfies what the layers say of the index (`StoredInv`). `FlushInv` is the order of
the writes: when files are removed or the coins are written, nothing is dirty.
`CoinsInv` and `FilesInv` carry what the entries of the coin database's chain and the
files were then to every later moment. `HeightInv`: entries without `nBlockHeight` are
on disk only after an earlier start. At a restart, `LoadBlockIndexDB` reads a
picture, and the layers hold again (`RestartTypes`, `RestartLayers`).

`BestChainSurvivesRestarts` takes the other layers across a crash (`SurvivesInv`). They
hold until a start finds the coin database on a chain that the index marks
(`overtaken`), and with them `StoredMarks`, which is what `CauseInv` and `BaseInv` say
of marks and validity, said of the stored entries: a `BLOCK_FAILED_CHILD` lies below a
`BLOCK_FAILED_VALID`, and no block that cannot be connected is stored as fully
validated. After a restart the marks loaded have their causes, everything received
is linked or waits for its parent, and the candidates are those that
`LoadBlockIndexDB` kept with respect to the loaded tip, which is then the reference
block of `BestInv`. The exception is needed, as a start on a marked chain shows (see
Observations).

**`CoinsCache`** (`ConnectBlockProofs`). `Refinement`: `CoinsCache` implements
`CoinsSpec`. The three maps are independent and so are their keys, so the proof
first treats one key in the database, the tip and the view (one lemma per
operation) and lifts the lemmas to the actions. The invariant is `IInv`, the
conjunction of `TypeOK`, `KeysInv` (each key agrees with its flags), `StageInv`
(what holds at each stage of a block) and `OrderInv` (anchors are pushed in the
order of `Size`, which makes the anchor popped to the one below).

**`BlockUndo`** (`BlockUndoProofs`). `CoinsExact` compares the coins with what the
chain leaves. The reference is not a recursion along the chain: `CoinsAt` looks for
the last place at which a transaction was included and for the spends after it, so
that a step changes one place and its proof needs no induction. The invariant is
`BlockInv`. `ViewExact` and `TipExact` say that the block's view and the tip are the
reference at every step of both loops, forwards and backwards. `Recorded` says that
each entry of the undo data is what its input was when it was spent, and `Written`
that what is on disk reads back as that. `Fresh` and `FreshTx` are what the checks of
`ConnectBlock` have established: a transaction that comes again found its earlier
outputs spent, and inputs were unspent when they were met. Without them
`DisconnectBlock` would not be the inverse. The roots and the shielded transactions
of a block are defined by recursive functions; `UpTo` and `Recursion` derive what is
needed of them from the order of the natural numbers.

**`Mempool`** (`MempoolProofs`). `PoolInv` is `PoolMinable` with the
maps exact. It is broken inside `ConnectTip` and `DisconnectTip` and restored at their
end, so the lemmas follow a pool through the calls in the order of the code:
`remove` takes an entry with all of its descendants, which is where the absence of
circles is needed; `removeForBlock` leaves no spender of what the block spent; a
disconnected block takes coins, nullifiers and anchors away, its transactions come
back one by one or take their descendants with them, and `removeWithAnchor` and
`removeCoinbaseSpends` deal with what is left. `OrphanInv` is the agreement of the two
orphan maps. `HandlerInv` is about the inside of a `tx` handler: every orphan that
spends from a transaction already dealt with is settled, that is, about to be erased
or tried, sent by a peer that misbehaved, short of an input, or a child of a
transaction still in the work queue. At the end the queue is empty.

**`BlockDownload`** (`BlockDownloadProofs`). `DownloadInv` says of `mapBlocksInFlight`
and the lists of the nodes that they agree (`Agree`), of `nQueuedValidatedHeaders` that
it is enough (`Enough`), and of the connections (`ConnInv`) that a node whose state
was erased is used by nobody. `SyncInv` says that `nSyncStarted` counts the nodes that
exist and have `fSyncStarted`. `MarkBlockAsReceived` and `MarkBlockAsInFlight` keep
the first two whatever they are called with. The loops over several requests
(`FinalizeNode`, `FetchBlocks`) are recursive functions, followed request by request
with `UpTo`.

**`CheckQueue`, `AsyncRPCQueue`, `Scheduler`.** `CheckQueue`: `nTodo` is the number of
checks in the queue and in all batches, `nTotal` and `nIdle` count threads by their
place in the loop, and the result so far together with the outcomes still held by
threads is the conjunction of what was added. `AsyncRPCQueue`: an operation is in one
place only, the queue, one worker or its end, until the queue is closed; the flags
that a worker tests without the lock are never reset, so that what it found still
holds when it acts; and what `cancelAll` has been through is no longer ready.
`Scheduler`: the count of threads is the number of those inside `serviceQueue`, and
the last thread that leaves after `stop(true)` leaves an empty queue; the others need
not, since a task that is running may schedule another.

**Only model-checked.** Liveness (`HandlersReturn`, `WaitTerminates`,
`ShutdownReturns`, `OperationsEnd`, `TasksStart`, `ThreadsLeave`,
`BestChainDownloaded`), which TLAPS does not reach here. `WitnessesRight`,
`NotesSpendable` and `CacheAssertionsHold` of `NoteWitnesses`: a handler runs over all
blocks, transactions and commitments of a rescan in one step, and what such a
nested loop computes needs induction over data. `BestChainAfterRestart` with pruning
or `reconsiderblock`, and `UnlinkedExact` and `CandidateKeysFixed` with pruning: the
argument of `BestInv` does not hold there.

## What is not modelled

Pure input and output, formats, cryptography, scripts, user interfaces and bundled
libraries; `PROJECT.json` gives the reason for each part. Of the stateful parts:

- the address manager: hashing decides the buckets, and no other part depends on
  which addresses it keeps;
- fee estimation and the choice of transactions for a block: floating-point
  averages and priorities; that the pool can be mined at all is `PoolMinable`;
- the key pool and wallet encryption: single changes of one set under `cs_wallet`;
- the note commitment tree: its contents are hashes, and its users take a tree for
  the sequence of its commitments;
- the SQLite index: its source is missing;
- inside `z_sendmany`: the choice of notes and the chain of joinsplits.

Within the modelled parts, the omissions are named with each module.

## What is left

Proofs for `NoteWitnesses`; `UnlinkedExact`, `CandidateKeysFixed` and
`BestChainAfterRestart` with pruning; the tables of the address manager with the
bucket positions as constants.
