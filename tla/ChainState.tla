----------------------------- MODULE ChainState -----------------------------
(***************************************************************************)
(* The in-memory block index and the active chain of a node                *)
(* (src/src/main.cpp): mapBlockIndex with the status of every entry,       *)
(* setBlockIndexCandidates, mapBlocksUnlinked, chainActive and the best    *)
(* block of pcoinsTip.  Message handlers and RPC calls are threads.  All   *)
(* of this state is guarded by cs_main, but ActivateBestChain gives the    *)
(* lock up between two steps towards the best chain, so two activations,   *)
(* the arrival of blocks and the operator's invalidateblock and            *)
(* reconsiderblock interleave.                                             *)
(*                                                                         *)
(* A thread runs under cs_main when its pc is in Locked.  A step of the    *)
(* model is one pass through a loop of the code (one candidate tested, one *)
(* block linked, disconnected or connected), so every place at which the   *)
(* lock is free, and every place at which FlushStateToDisk may run, is a   *)
(* state of its own.                                                       *)
(*                                                                         *)
(* Left out: the warning state (pindexBestInvalid, pindexBestForkTip),     *)
(* pindexBestHeader, setDirtyBlockIndex and what FlushStateToDisk writes,  *)
(* wallet and UI notifications, the memory pool, and failures of the disk  *)
(* itself.                                                                 *)
(***************************************************************************)
EXTENDS BlockTree

CONSTANTS
    Threads,            \* message handler and RPC threads
    BadBody,            \* blocks that fail ContextualCheckBlock
    BadConnect,         \* blocks that fail ConnectBlock
    InvalidateTargets,  \* blocks the operator may pass to invalidateblock
    ReconsiderTargets,  \* blocks the operator may pass to reconsiderblock
    Addresses,          \* possible placements of CBlockIndex objects in memory
    PruneMode,          \* fPruneMode
    MinBlocksToKeep,    \* MIN_BLOCKS_TO_KEEP
    PruneAfterHeight,   \* Params().PruneAfterHeight()
    MaxSequenceId,      \* bound on nBlockSequenceId
    MaxUnlinked         \* bound on copies of one entry in mapBlocksUnlinked

\* Pointers of distinct objects differ.  nLastBlockWeCanPrune is unsigned and
\* does not wrap because no chain prunes before MIN_BLOCKS_TO_KEEP blocks.
ASSUME ChainStateAssumption ==
    /\ BadBody \subseteq Blocks \ {Genesis} /\ BadConnect \subseteq Blocks \ {Genesis}
    /\ InvalidateTargets \subseteq Blocks \ {Genesis}
    /\ ReconsiderTargets \subseteq Blocks
    /\ Addresses \subseteq [Blocks -> Nat]
    /\ \A a \in Addresses : \A b, c \in Blocks : a[b] = a[c] => b = c
    /\ PruneMode \in BOOLEAN
    /\ MinBlocksToKeep \in Nat /\ PruneAfterHeight \in Nat
    /\ MinBlocksToKeep <= PruneAfterHeight + 1
    /\ MaxSequenceId \in Nat /\ MaxUnlinked \in Nat
    /\ NULL \notin Threads

VARIABLES
    addr,           \* where the CBlockIndex objects lie
    index,          \* mapBlockIndex
    validity,       \* nStatus & BLOCK_VALID_MASK
    haveData,       \* blocks with BLOCK_HAVE_DATA
    haveUndo,       \* blocks with BLOCK_HAVE_UNDO
    failedValid,    \* blocks with BLOCK_FAILED_VALID
    failedChild,    \* blocks with BLOCK_FAILED_CHILD
    processed,      \* blocks with nTx > 0
    linked,         \* blocks with nChainTx > 0
    sequenceId,     \* nSequenceId
    nextSequenceId, \* nBlockSequenceId
    candidates,     \* setBlockIndexCandidates
    unlinked,       \* unlinked[b]: copies of <<pprev of b, b>> in mapBlocksUnlinked
    toLink,         \* the queue of ReceivedBlockTransactions, as a bag
    tip,            \* chainActive.Tip()
    coins,          \* pcoinsTip->GetBestBlock()
    havePruned,     \* fHavePruned
    checkForPruning, \* fCheckForPruning
    pc,             \* where each thread is
    pindex,         \* a thread's pindexMostWork, or the block it invalidates
    oldTip          \* pindexOldTip of the running ActivateBestChainStep

treeVars   == <<addr, index, validity, processed>>
dataVars   == <<haveData, haveUndo, havePruned, checkForPruning>>
failVars   == <<failedValid, failedChild>>
linkVars   == <<linked, sequenceId, nextSequenceId, toLink>>
chainVars  == <<tip, coins>>
threadVars == <<pc, pindex, oldTip>>
vars == <<treeVars, dataVars, failVars, linkVars, candidates, unlinked, chainVars, threadVars>>

BLOCK_VALID_UNKNOWN == 0
BLOCK_VALID_TREE == 2
BLOCK_VALID_TRANSACTIONS == 3
BLOCK_VALID_SCRIPTS == 5

\* Places at which a thread holds cs_main.  At those of FlushPoints it is
\* inside or just before a call of FlushStateToDisk.  A thread that is "crashed"
\* has ended the process, and nobody takes the lock again.
FlushPoints == {"stored", "flushConnect", "flushDisconnect", "flushInvalidate", "flushPeriodic"}
Locked == FlushPoints \cup {"link", "find", "disconnect", "connect", "invalidate", "crashed"}
Labels == Locked \cup {"idle", "activate", "check", "finish", "aborted"}

TypeOK ==
    /\ addr \in Addresses
    /\ index \subseteq Blocks
    /\ validity \in [Blocks -> 0 .. 5]
    /\ haveData \subseteq index /\ haveUndo \subseteq index
    /\ failedValid \subseteq index /\ failedChild \subseteq index
    /\ processed \subseteq index /\ linked \subseteq index
    /\ sequenceId \in [Blocks -> Nat] /\ nextSequenceId \in Nat
    /\ candidates \subseteq index
    /\ unlinked \in [Blocks -> Nat] /\ toLink \in [Blocks -> Nat]
    /\ tip \in index /\ coins \in index
    /\ havePruned \in BOOLEAN /\ checkForPruning \in BOOLEAN
    /\ pc \in [Threads -> Labels]
    /\ pindex \in [Threads -> index \cup {NULL}]
    /\ oldTip \in index \cup {NULL}

\* The node after InitBlockIndex: the genesis block is stored and connected.
Init ==
    /\ addr \in Addresses
    /\ index = {Genesis}
    /\ validity = [b \in Blocks |-> IF b = Genesis THEN BLOCK_VALID_TRANSACTIONS ELSE BLOCK_VALID_UNKNOWN]
    /\ processed = {Genesis} /\ linked = {Genesis}
    /\ haveData = {Genesis} /\ haveUndo = {} /\ havePruned = FALSE /\ checkForPruning = FALSE
    /\ failedValid = {} /\ failedChild = {}
    /\ sequenceId = [b \in Blocks |-> IF b = Genesis THEN 1 ELSE 0] /\ nextSequenceId = 2
    /\ candidates = {Genesis}
    /\ unlinked = [b \in Blocks |-> 0] /\ toLink = [b \in Blocks |-> 0]
    /\ tip = Genesis /\ coins = Genesis
    /\ pc = [t \in Threads |-> "idle"]
    /\ pindex = [t \in Threads |-> NULL] /\ oldTip = NULL

-----------------------------------------------------------------------------
(* Conditions the handlers evaluate and marks they set.  A definition that is
   immediately followed by its correct form, and used nowhere, is a mutant: a
   bug that the properties below must detect. *)

Failed == failedValid \cup failedChild
IsValid(b, upTo) == b \notin Failed /\ validity[b] >= upTo
Active == Ancestors[tip]

\* CBlockIndexWorkComparator: a sorts before b, with nSequenceId given by seq.
Worse(seq, a, b) ==
    \/ Work[a] < Work[b]
    \/ Work[a] = Work[b] /\ seq[a] > seq[b]
    \/ Work[a] = Work[b] /\ seq[a] = seq[b] /\ addr[a] > addr[b]

\* InvalidBlockFound, and the start of InvalidateBlock.
MarkInvalidUnset(b) ==
    /\ UNCHANGED failedValid
    /\ candidates' = candidates \ {b}

MarkInvalid(b) ==
    /\ failedValid' = failedValid \cup {b}
    /\ candidates' = candidates \ {b}

CsMainFree == \A t \in Threads : pc[t] \notin Locked
Goto(t, label) == pc' = [pc EXCEPT ![t] = label]

-----------------------------------------------------------------------------
(* Headers and blocks arrive. *)

\* AcceptBlockHeader returns true: the entry is not marked invalid, or it is
\* new and its parent is known and not marked invalid.
AcceptBlockHeader(b) ==
    IF b \in index THEN b \notin Failed ELSE Parent[b] \in index \ Failed

\* The validity of b once its header is accepted (AddToBlockIndex).
TreeValidity(b) == IF b \in index THEN validity[b] ELSE BLOCK_VALID_TREE

\* One header of a "headers" message.
ProcessHeader(t, b) ==
    /\ pc[t] = "idle" /\ CsMainFree
    /\ b \notin index /\ AcceptBlockHeader(b)
    /\ index' = index \cup {b}
    /\ validity' = [validity EXCEPT ![b] = TreeValidity(b)]
    /\ UNCHANGED <<addr, processed, dataVars, failVars, linkVars, candidates, unlinked, chainVars, threadVars>>

IgnoredUnlessRequested(b, fRequested) ==
    ~fRequested /\ (b \in processed \/ Work[b] <= Work[tip])

\* The early returns of AcceptBlock for a block that need not be stored.
Ignored(b, fRequested) ==
    \/ b \in haveData
    \/ /\ ~fRequested
       /\ \/ b \in processed
          \/ Work[b] <= Work[tip]
          \/ Height[b] > Height[tip] + MinBlocksToKeep

\* ProcessNewBlock on a block that passed CheckBlock and whose header is accepted.
ReceiveBlock(t, b) ==
    /\ pc[t] = "idle" /\ CsMainFree
    /\ AcceptBlockHeader(b)
    /\ index' = index \cup {b}

\* AcceptBlock returns true early; ProcessNewBlock still activates the best chain.
IgnoreBlock(t, b, fRequested) ==
    /\ ReceiveBlock(t, b)
    /\ Ignored(b, fRequested)
    /\ validity' = [validity EXCEPT ![b] = TreeValidity(b)]
    /\ Goto(t, "activate")
    /\ UNCHANGED <<addr, processed, dataVars, failVars, linkVars, candidates, unlinked, chainVars, pindex, oldTip>>

\* AcceptBlock finds the block invalid and returns false.
RejectBlock(t, b, fRequested) ==
    /\ ReceiveBlock(t, b)
    /\ ~Ignored(b, fRequested)
    /\ b \in BadBody
    /\ validity' = [validity EXCEPT ![b] = TreeValidity(b)]
    /\ failedValid' = failedValid \cup {b}
    /\ UNCHANGED <<addr, processed, dataVars, failedChild, linkVars, candidates, unlinked, chainVars, threadVars>>

ParentKnown(b) == b # Genesis => Parent[b] \in index

ParentLinked(b) == b # Genesis => Parent[b] \in linked

\* AcceptBlock writes the block to disk and enters ReceivedBlockTransactions.
\* FindBlockPos asks for pruning when the block starts a new chunk of a file; a
\* block that does not is one after which FindFilesToPrune finds nothing.
StoreBlock(t, b, fRequested) ==
    /\ ReceiveBlock(t, b)
    /\ ~Ignored(b, fRequested)
    /\ b \notin BadBody
    /\ nextSequenceId < MaxSequenceId
    /\ processed' = processed \cup {b}
    /\ linked' = linked \ {b}
    /\ haveData' = haveData \cup {b} /\ checkForPruning' = PruneMode
    /\ validity' = [validity EXCEPT ![b] =
                       IF TreeValidity(b) < BLOCK_VALID_TRANSACTIONS THEN BLOCK_VALID_TRANSACTIONS ELSE @]
    /\ \/ /\ ParentLinked(b)
          /\ toLink' = [toLink EXCEPT ![b] = 1]
          /\ Goto(t, "link")
          /\ UNCHANGED unlinked
       \/ /\ ~ParentLinked(b)
          /\ unlinked' = IF IsValid(Parent[b], BLOCK_VALID_TREE)
                         THEN [unlinked EXCEPT ![b] = @ + 1]
                         ELSE unlinked
          /\ Goto(t, "stored")
          /\ UNCHANGED toLink
    /\ UNCHANGED <<addr, haveUndo, havePruned, failVars, sequenceId, nextSequenceId, candidates, chainVars, pindex, oldTip>>

\* The entries of mapBlocksUnlinked that wait for b are taken out.
EraseNothing(b) == unlinked

EraseUnlinked(b) == [c \in Blocks |-> IF c \in Children(b) THEN 0 ELSE unlinked[c]]

\* One pass of the loop of ReceivedBlockTransactions takes b from the queue.
Link(b) ==
    /\ toLink[b] > 0
    /\ linked' = linked \cup {b}
    /\ sequenceId' = [sequenceId EXCEPT ![b] = nextSequenceId]
    /\ candidates' = IF Worse(sequenceId', b, tip) THEN candidates ELSE candidates \cup {b}
    /\ toLink' = [c \in Blocks |-> (IF c = b THEN toLink[c] - 1 ELSE toLink[c])
                                      + (IF c \in Children(b) THEN unlinked[c] ELSE 0)]
    /\ unlinked' = EraseUnlinked(b)

\* Blocks that wait for the same parent leave the queue in any order.
LinkBlock(t) ==
    /\ pc[t] = "link"
    /\ \E b \in Blocks : Link(b)
    /\ nextSequenceId' = nextSequenceId + 1
    /\ Goto(t, IF \A c \in Blocks : toLink'[c] = 0 THEN "stored" ELSE "link")
    /\ UNCHANGED <<treeVars, dataVars, failVars, chainVars, pindex, oldTip>>

\* AcceptBlock is done and ProcessNewBlock goes on without the lock.
AcceptBlockDone(t) ==
    /\ pc[t] = "stored" /\ ~checkForPruning
    /\ Goto(t, "activate")
    /\ UNCHANGED <<treeVars, dataVars, failVars, linkVars, candidates, unlinked, chainVars, pindex, oldTip>>

-----------------------------------------------------------------------------
(* ActivateBestChain. *)

\* A round of the loop of ActivateBestChain takes cs_main.
BeginRound(t) ==
    /\ pc[t] = "activate" /\ CsMainFree
    /\ Goto(t, "find")
    /\ UNCHANGED <<treeVars, dataVars, failVars, linkVars, candidates, unlinked, chainVars, pindex, oldTip>>

\* The last element of setBlockIndexCandidates, and what FindMostWorkChain
\* meets on the way from it down to the active chain.
BestCandidates == {c \in candidates : \A d \in candidates : ~Worse(sequenceId, c, d)}
PathToActive(b) == Ancestors[b] \ Active
UnusableFailed(b) == PathToActive(b) \cap Failed
Unusable(b) == PathToActive(b) \cap (Failed \cup (Blocks \ haveData))

\* FindMostWorkChain returns NULL or the tip: there is nothing to do.
NothingToActivate(t) ==
    /\ pc[t] = "find"
    /\ candidates = {} \/ tip \in BestCandidates
    /\ Goto(t, "idle")
    /\ pindex' = [pindex EXCEPT ![t] = NULL]
    /\ UNCHANGED <<treeVars, dataVars, failVars, linkVars, candidates, unlinked, chainVars, oldTip>>

\* The candidate best is dropped because of test, and with it all blocks between.
Above(best, test) == {b \in PathToActive(best) : Height[b] > Height[test]}

Drop(best, test) ==
    /\ candidates' = candidates \ (Above(best, test) \cup {test})
    /\ IF test \in Failed
       THEN /\ failedChild' = failedChild \cup Above(best, test)
            /\ UNCHANGED unlinked
       ELSE /\ unlinked' = [b \in Blocks |-> unlinked[b] + (IF b \in Above(best, test) THEN 1 ELSE 0)]
            /\ UNCHANGED failedChild

DropNothing(t) ==
    /\ pc[t] = "find"
    /\ \E best \in BestCandidates : Unusable(best) # {}
    /\ UNCHANGED vars

\* FindMostWorkChain drops a candidate whose chain is invalid or incomplete; the
\* highest offending block decides.
DropCandidate(t) ==
    /\ pc[t] = "find"
    /\ \E best \in BestCandidates : \E test \in Unusable(best) :
          /\ \A b \in Unusable(best) : Height[b] <= Height[test]
          /\ Drop(best, test)
    /\ UNCHANGED <<treeVars, dataVars, failedValid, linkVars, chainVars, threadVars>>

\* FindMostWorkChain returns a better chain and ActivateBestChainStep starts.
ChooseCandidate(t) ==
    /\ pc[t] = "find"
    /\ \E best \in BestCandidates :
          /\ best # tip /\ Unusable(best) = {}
          /\ pindex' = [pindex EXCEPT ![t] = best]
    /\ oldTip' = tip
    /\ Goto(t, "disconnect")
    /\ UNCHANGED <<treeVars, dataVars, failVars, linkVars, candidates, unlinked, chainVars>>

DisconnectUnflushed ==
    /\ tip \in haveData /\ tip \in haveUndo
    /\ UNCHANGED coins

\* DisconnectTip up to its call of FlushStateToDisk: the block and its undo
\* data are read and taken out of pcoinsTip.
DisconnectBlock ==
    /\ tip \in haveData /\ tip \in haveUndo
    /\ coins' = Parent[tip]

\* The tip is disconnected until it is the fork of the active chain and the
\* chain of pindexMostWork.
DisconnectTip(t) ==
    /\ pc[t] = "disconnect" /\ tip \notin Ancestors[pindex[t]]
    /\ DisconnectBlock
    /\ Goto(t, "flushDisconnect")
    /\ UNCHANGED <<treeVars, dataVars, failVars, linkVars, candidates, unlinked, tip, pindex, oldTip>>

\* The rest of DisconnectTip (UpdateTip).
DisconnectTipDone(t) ==
    /\ pc[t] = "flushDisconnect" /\ ~checkForPruning
    /\ tip' = Parent[tip]
    /\ Goto(t, "disconnect")
    /\ UNCHANGED <<treeVars, dataVars, failVars, linkVars, candidates, unlinked, coins, pindex, oldTip>>

ForkReached(t) ==
    /\ pc[t] = "disconnect" /\ tip \in Ancestors[pindex[t]]
    /\ IF tip = pindex[t]
       THEN Goto(t, "check") /\ oldTip' = NULL
       ELSE Goto(t, "connect") /\ UNCHANGED oldTip
    /\ UNCHANGED <<treeVars, dataVars, failVars, linkVars, candidates, unlinked, chainVars, pindex>>

\* The child of the tip on the chain that ends in pindexMostWork.
NextToConnect(t) == Children(tip) \cap Ancestors[pindex[t]]

\* ConnectTip up to its call of FlushStateToDisk: ConnectBlock succeeds, which
\* takes the coinbase of the previous block too, the undo data is written unless
\* it is there from an earlier time, and the result is flushed to pcoinsTip.
\* FindUndoPos may ask for pruning.
ConnectTip(t) ==
    /\ pc[t] = "connect" /\ tip \in haveData
    /\ \E b \in NextToConnect(t) :
          /\ b \in haveData /\ b \notin BadConnect
          /\ haveUndo' = haveUndo \cup {b} /\ checkForPruning' = (PruneMode /\ b \notin haveUndo)
          /\ validity' = [validity EXCEPT ![b] = IF b \in Failed THEN @ ELSE BLOCK_VALID_SCRIPTS]
          /\ coins' = b
    /\ Goto(t, "flushConnect")
    /\ UNCHANGED <<addr, index, processed, haveData, havePruned, failVars, linkVars, candidates, unlinked, tip, pindex, oldTip>>

PruneNoCandidates(newTip) == candidates

PruneBlockIndexCandidates(newTip) == {c \in candidates : ~Worse(sequenceId, c, newTip)}

\* The rest of ConnectTip (UpdateTip), then PruneBlockIndexCandidates.  The lock
\* is given up as soon as the new tip has more work than the old one, or when
\* pindexMostWork is reached.
ConnectTipDone(t) ==
    /\ pc[t] = "flushConnect" /\ ~checkForPruning
    /\ tip' = coins
    /\ candidates' = PruneBlockIndexCandidates(coins)
    /\ IF Work[coins] > Work[oldTip] \/ coins = pindex[t]
       THEN Goto(t, "check") /\ oldTip' = NULL
       ELSE Goto(t, "connect") /\ UNCHANGED oldTip
    /\ UNCHANGED <<treeVars, dataVars, failVars, linkVars, unlinked, coins, pindex>>

\* ConnectBlock fails: InvalidBlockFound, and ActivateBestChainStep ends.
ConnectTipFails(t) ==
    /\ pc[t] = "connect"
    /\ \E b \in NextToConnect(t) :
          /\ b \in haveData /\ b \in BadConnect
          /\ MarkInvalid(b)
    /\ Goto(t, "check") /\ oldTip' = NULL
    /\ UNCHANGED <<treeVars, dataVars, failedChild, linkVars, unlinked, chainVars, pindex>>

\* ConnectBlock reads the previous block for the fee of its coinbase.  It does not
\* look at the result: when the previous block was pruned, vtx[0] is taken of an
\* empty block, and the process ends.  (A block that fails an earlier check is
\* rejected all the same: ConnectTipFails.)
ConnectBlockCrashes(t) ==
    /\ pc[t] = "connect" /\ tip \notin haveData
    /\ NextToConnect(t) \cap haveData # {}
    /\ Goto(t, "crashed") /\ oldTip' = NULL
    /\ UNCHANGED <<treeVars, dataVars, failVars, linkVars, candidates, unlinked, chainVars, pindex>>

\* DisconnectTip cannot read a block that was pruned: AbortNode shuts the node
\* down.  (ConnectTip has the same error path for the block it connects;
\* ConnectDataAtHand says that no behaviour takes it.)
Abort(t) ==
    /\ pc[t] = "disconnect" /\ tip \notin Ancestors[pindex[t]] /\ tip \notin haveData
    /\ Goto(t, "aborted") /\ oldTip' = NULL
    /\ UNCHANGED <<treeVars, dataVars, failVars, linkVars, candidates, unlinked, chainVars, pindex>>

\* The block is there but its undo data is not: ActivateBestChain returns false.
DisconnectTipFails(t) ==
    /\ pc[t] = "disconnect" /\ tip \notin Ancestors[pindex[t]]
    /\ tip \in haveData \ haveUndo
    /\ Goto(t, "idle") /\ oldTip' = NULL
    /\ pindex' = [pindex EXCEPT ![t] = NULL]
    /\ UNCHANGED <<treeVars, dataVars, failVars, linkVars, candidates, unlinked, chainVars>>

EndRoundEarly(t) ==
    /\ pc[t] = "check"
    /\ Goto(t, "finish")
    /\ UNCHANGED <<treeVars, dataVars, failVars, linkVars, candidates, unlinked, chainVars, pindex, oldTip>>

\* The condition of the loop of ActivateBestChain, read without cs_main.
EndRound(t) ==
    /\ pc[t] = "check"
    /\ Goto(t, IF pindex[t] = tip THEN "finish" ELSE "activate")
    /\ UNCHANGED <<treeVars, dataVars, failVars, linkVars, candidates, unlinked, chainVars, pindex, oldTip>>

\* FlushStateToDisk(FLUSH_STATE_PERIODIC) at the end of ActivateBestChain.
BeginPeriodicFlush(t) ==
    /\ pc[t] = "finish" /\ CsMainFree
    /\ Goto(t, "flushPeriodic")
    /\ UNCHANGED <<treeVars, dataVars, failVars, linkVars, candidates, unlinked, chainVars, pindex, oldTip>>

ActivateBestChainDone(t) ==
    /\ pc[t] = "flushPeriodic" /\ ~checkForPruning
    /\ Goto(t, "idle")
    /\ pindex' = [pindex EXCEPT ![t] = NULL]
    /\ UNCHANGED <<treeVars, dataVars, failVars, linkVars, candidates, unlinked, chainVars, oldTip>>

-----------------------------------------------------------------------------
(* invalidateblock and reconsiderblock. *)

\* InvalidateBlock up to its first loop.
Invalidate(t, b) ==
    /\ pc[t] = "idle" /\ CsMainFree
    /\ b \in index
    /\ \A c \in Blocks : unlinked[c] < MaxUnlinked
    /\ MarkInvalid(b)
    /\ pindex' = [pindex EXCEPT ![t] = b]
    /\ Goto(t, "invalidate")
    /\ UNCHANGED <<treeVars, dataVars, failedChild, linkVars, unlinked, chainVars, oldTip>>

\* A pass of that loop: the tip is marked and disconnected.
MarkTip ==
    /\ failedChild' = failedChild \cup {tip}
    /\ candidates' = candidates \ {tip}

InvalidateTip(t) ==
    /\ pc[t] = "invalidate" /\ pindex[t] \in Active
    /\ MarkTip
    /\ DisconnectBlock
    /\ Goto(t, "flushInvalidate")
    /\ UNCHANGED <<treeVars, dataVars, failedValid, linkVars, unlinked, tip, pindex, oldTip>>

\* DisconnectTip fails.  Without block data AbortNode is called; without undo data
\* InvalidateBlock returns false, which the RPC takes no notice of.
InvalidateTipFails(t) ==
    /\ pc[t] = "invalidate" /\ pindex[t] \in Active
    /\ MarkTip
    /\ \/ tip \notin haveData /\ Goto(t, "aborted") /\ UNCHANGED pindex
       \/ tip \in haveData \ haveUndo /\ Goto(t, "activate") /\ pindex' = [pindex EXCEPT ![t] = NULL]
    /\ UNCHANGED <<treeVars, dataVars, failedValid, linkVars, unlinked, chainVars, oldTip>>

InvalidateTipDone(t) ==
    /\ pc[t] = "flushInvalidate" /\ ~checkForPruning
    /\ tip' = Parent[tip]
    /\ Goto(t, "invalidate")
    /\ UNCHANGED <<treeVars, dataVars, failVars, linkVars, candidates, unlinked, coins, pindex, oldTip>>

\* The rest of InvalidateBlock; the RPC goes on to ActivateBestChain.
InvalidateDone(t) ==
    /\ pc[t] = "invalidate" /\ pindex[t] \notin Active
    /\ candidates' = candidates \cup
           {b \in index : IsValid(b, BLOCK_VALID_TRANSACTIONS) /\ b \in linked /\ ~Worse(sequenceId, b, tip)}
    /\ pindex' = [pindex EXCEPT ![t] = NULL]
    /\ Goto(t, "activate")
    /\ UNCHANGED <<treeVars, dataVars, failVars, linkVars, unlinked, chainVars, oldTip>>

\* The cleared blocks that go back into setBlockIndexCandidates.
Restored(cleared) ==
    {d \in cleared : validity[d] >= BLOCK_VALID_TRANSACTIONS /\ d \in linked /\ Worse(sequenceId, tip, d)}

\* ReconsiderBlock, after which the RPC goes on to ActivateBestChain.
Reconsider(t, b) ==
    /\ pc[t] = "idle" /\ CsMainFree
    /\ b \in index
    /\ LET cleared == {d \in index \cap Descendants(b) : ~IsValid(d, BLOCK_VALID_TRANSACTIONS)}
           above == Ancestors[b] \cap Failed IN
          /\ failedValid' = failedValid \ (cleared \cup above)
          /\ failedChild' = failedChild \ (cleared \cup above)
          /\ candidates' = candidates \cup Restored(cleared)
    /\ Goto(t, "activate")
    /\ UNCHANGED <<treeVars, dataVars, linkVars, unlinked, chainVars, pindex, oldTip>>

-----------------------------------------------------------------------------
(* FindFilesToPrune and PruneOneBlockFile, when FlushStateToDisk calls them.
   A block file holds one block here, so that any choice of old enough
   blocks may go at once. *)

\* Counting back from the best header instead of the tip.
PrunableFromBestHeader == {b \in haveData : \E c \in index : Height[b] <= Height[c] - MinBlocksToKeep}

Prunable == {b \in haveData : Height[b] <= Height[tip] - MinBlocksToKeep}

Prune(t, files) ==
    /\ pc[t] \in FlushPoints /\ checkForPruning
    /\ files \subseteq Prunable
    /\ Height[tip] <= PruneAfterHeight => files = {}
    /\ checkForPruning' = FALSE
    /\ haveData' = haveData \ files
    /\ haveUndo' = haveUndo \ files
    /\ havePruned' = (havePruned \/ files # {})
    /\ unlinked' = [b \in Blocks |-> IF b \in files THEN 0 ELSE unlinked[b]]
    /\ UNCHANGED <<treeVars, failVars, linkVars, candidates, chainVars, threadVars>>

-----------------------------------------------------------------------------

Receive(t) ==
    \/ \E b \in Blocks : ProcessHeader(t, b)
    \/ \E b \in Blocks, fRequested \in BOOLEAN :
          IgnoreBlock(t, b, fRequested) \/ RejectBlock(t, b, fRequested) \/ StoreBlock(t, b, fRequested)

Operator(t) ==
    \/ \E b \in InvalidateTargets : Invalidate(t, b)
    \/ \E b \in ReconsiderTargets : Reconsider(t, b)

\* The steps of a thread that is inside a handler.
Continue(t) ==
    \/ LinkBlock(t) \/ AcceptBlockDone(t)
    \/ BeginRound(t) \/ NothingToActivate(t) \/ DropCandidate(t) \/ ChooseCandidate(t)
    \/ DisconnectTip(t) \/ DisconnectTipDone(t) \/ ForkReached(t)
    \/ ConnectTip(t) \/ ConnectTipDone(t) \/ ConnectTipFails(t) \/ ConnectBlockCrashes(t)
    \/ Abort(t) \/ DisconnectTipFails(t)
    \/ EndRound(t) \/ BeginPeriodicFlush(t) \/ ActivateBestChainDone(t)
    \/ InvalidateTip(t) \/ InvalidateTipFails(t) \/ InvalidateTipDone(t) \/ InvalidateDone(t)

Next ==
    \E t \in Threads :
        \/ Receive(t) \/ Operator(t) \/ Continue(t)
        \/ \E files \in SUBSET Blocks : Prune(t, files)

Spec == Init /\ [][Next]_vars

\* A thread that runs a handler goes on, and one that waits for cs_main gets it
\* in the end.
Fairness == \A t \in Threads : SF_vars(Continue(t))

FairSpec == Spec /\ Fairness

-----------------------------------------------------------------------------
(* Properties.  CheckBlockIndex may run whenever cs_main is free: a "headers"
   message that brings nothing new ends in it. *)

\* CheckBlockIndex: nChainTx is only set when all ancestors were received,
\* HAVE_DATA is nTx > 0 until pruning starts, undo data never outlives block
\* data, and TREE and SCRIPTS validity hold for all ancestors.
IndexConsistent ==
    CsMainFree =>
        /\ haveData \subseteq processed
        /\ ~havePruned => processed \subseteq haveData
        /\ haveUndo \subseteq haveData
        /\ \A b \in index :
              /\ b \in linked => Ancestors[b] \subseteq processed
              /\ b \notin linked => sequenceId[b] = 0
              /\ validity[b] >= BLOCK_VALID_TRANSACTIONS <=> b \in processed
              /\ \A a \in Ancestors[b] \ {Genesis} :
                    /\ validity[a] >= BLOCK_VALID_TREE
                    /\ validity[b] = BLOCK_VALID_SCRIPTS => validity[a] = BLOCK_VALID_SCRIPTS

\* CheckBlockIndex: BLOCK_FAILED_* is only set below a block that itself failed.
FailureHasCause ==
    CsMainFree => \A b \in Failed : Ancestors[b] \cap failedValid # {}

\* chainActive agrees with pcoinsTip except inside ConnectTip and DisconnectTip
\* (ConnectBlock and DisconnectBlock assert it on entry), and with the index:
\* its blocks were received and fully validated, and until pruning starts each
\* of them can be undone.
ActiveChainConsistent ==
    /\ (\A t \in Threads : pc[t] \notin {"flushConnect", "flushDisconnect", "flushInvalidate"}) => coins = tip
    /\ CsMainFree =>
          /\ Active \subseteq linked
          /\ \A b \in Active \ {Genesis} :
                /\ validity[b] = BLOCK_VALID_SCRIPTS
                /\ b \in haveUndo \/ havePruned

\* A block that can be switched to now.
Usable(b) == b \in index /\ Ancestors[b] \cap failedValid = {} /\ Ancestors[b] \subseteq haveData

\* CheckBlockIndex: setBlockIndexCandidates holds every usable block that sorts
\* no worse than the tip, the tip itself, and no block that sorts worse or
\* has an ancestor that never arrived.
CandidatesExact ==
    \A b \in index :
        IF ~Worse(sequenceId, b, tip) /\ Ancestors[b] \subseteq processed
        THEN Usable(b) \/ b = tip => b \in candidates
        ELSE b \notin candidates

\* That holds, except while some thread is between two rounds of ActivateBestChain
\* or was stopped in one by AbortNode.
BetweenRounds(t) == pc[t] \in {"check", "activate", "aborted"} /\ pindex[t] # NULL

CandidatesWhenSettled ==
    CsMainFree /\ (\A t \in Threads : ~BetweenRounds(t)) => CandidatesExact

\* CheckBlockIndex: a stored block waits in mapBlocksUnlinked when an ancestor
\* never arrived and none is invalid, and only stored blocks wait there, none of
\* which is usable (a block stored on an invalid block that waits is not put there,
\* and its children may then stay there for good).  A block that could be the best
\* but for a pruned ancestor waits there too, or is still a candidate; "the best"
\* compares it with every block connected so far, for the tip itself may be lower
\* after a reorganisation that failed.
UnlinkedExact ==
    CsMainFree =>
        \A b \in index \ {Genesis} :
            /\ b \in haveData /\ b \notin linked /\ Ancestors[b] \cap failedValid = {} => unlinked[b] > 0
            /\ b \notin haveData => unlinked[b] = 0
            /\ Usable(b) => unlinked[b] = 0
            /\ /\ b \in haveData /\ b \in linked /\ ~(Ancestors[b] \subseteq haveData)
               /\ \A c \in index : validity[c] = BLOCK_VALID_SCRIPTS => ~Worse(sequenceId, b, c)
               /\ b \notin candidates
               /\ Ancestors[b] \cap failedValid = {}
               => unlinked[b] > 0

Quiet == \A t \in Threads : pc[t] = "idle"

\* When every handler has returned, no block that can be switched to sorts better
\* than the tip, linked or not and whatever marks were left on it: reconsiderblock
\* "can be used to undo the effects of invalidateblock".
BestChainActive ==
    Quiet => \A b \in index : Usable(b) => ~Worse(sequenceId, tip, b)

\* A block that lies MIN_BLOCKS_TO_KEEP or more below one that was connected.
Buried(a) ==
    \E b \in index : a \in Ancestors[b] /\ validity[b] = BLOCK_VALID_SCRIPTS
                     /\ Height[a] <= Height[b] - MinBlocksToKeep

\* FindMostWorkChain looks at BLOCK_HAVE_DATA once, before the first block is
\* disconnected, and FlushStateToDisk may prune on the way: ConnectTip still
\* never meets a block it cannot read.  The block below, which ConnectBlock reads
\* as well and FindMostWorkChain does not look at, is missing only where the
\* reorganisation has gone down by MIN_BLOCKS_TO_KEEP.
ConnectDataAtHand ==
    \A t \in Threads : pc[t] = "connect" =>
        /\ NextToConnect(t) # {} /\ NextToConnect(t) \subseteq haveData
        /\ tip \in haveData \/ Buried(tip)

Stopped == {"aborted", "crashed"}

\* A reorganisation, or an invalidateblock, that disconnects fewer than
\* MIN_BLOCKS_TO_KEEP blocks always finds what it reads: a step that stops the node
\* for want of a pruned block, by AbortNode or by the crash of ConnectBlock, has come
\* that far down from a block that was once connected.  (At exactly that depth the
\* blocks to disconnect are there, and the fork below them may be gone.)
NeededDataKept == [][\A t \in Threads : pc[t] \notin Stopped /\ pc'[t] \in Stopped => Buried(tip)]_vars

\* ActivateBestChain, InvalidateBlock and the link loop end, or stop the node.
HandlersReturn == \A t \in Threads : pc[t] # "idle" ~> pc[t] \in {"idle"} \cup Stopped

\* setBlockIndexCandidates is a std::set ordered by nSequenceId: as long as no
\* block is invalid, no step changes the nSequenceId of a block while it is in the
\* set.  After invalidateblock one may: a pruned block that has become the tip again
\* is received a second time, or a block is linked that is twice in
\* mapBlocksUnlinked.
CandidateKeysFixed == [][failedValid = {} => \A b \in candidates : sequenceId'[b] = sequenceId[b]]_vars

=============================================================================
