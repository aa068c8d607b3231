----------------------------- MODULE ChainStore -----------------------------
(***************************************************************************)
(* What survives a crash: the block index database, the coin database and  *)
(* the block files that FlushStateToDisk (src/src/main.cpp) writes, below  *)
(* the block index and the active chain of module ChainState, and what     *)
(* LoadBlockIndexDB, VerifyDB and the start-up code (src/src/init.cpp)     *)
(* make of them.                                                           *)
(*                                                                         *)
(* A flush is up to three writes, each atomic: the batch of dirty index    *)
(* entries (the block files are synchronised just before it), the removal  *)
(* of pruned files, and the batch of the coin database.  The node may      *)
(* crash between any two of them, and at every step of ChainState.  As in  *)
(* ChainState a file holds one block.  The thread that flushes holds       *)
(* cs_main; what others do without the lock touches nothing that is        *)
(* written, so their steps wait here until the flush is over.              *)
(*                                                                         *)
(* CDiskBlockIndex writes nBlockHeight, which is part of the header and of *)
(* its hash, and LoadBlockIndexGuts does not restore it: an entry that was *)
(* read from disk and is written again is stored with another hash.        *)
(* Blocks other than the genesis block have a non-zero nBlockHeight, as    *)
(* CreateNewBlock gives them, and the wrong hash does not meet the target. *)
(***************************************************************************)
EXTENDS ChainState, Sequences

CONSTANTS
    CheckBlocks,    \* -checkblocks
    MaxCrashes      \* bound on the number of crashes; nothing arrives after the last

\* CDiskBlockIndex
Entries ==
    [validity : 0 .. 5, haveData : BOOLEAN, haveUndo : BOOLEAN,
     failedValid : BOOLEAN, failedChild : BOOLEAN, nTx : BOOLEAN]

ASSUME ChainStoreAssumption == CheckBlocks \in Nat \ {0} /\ MaxCrashes \in Nat /\ NULL \notin Entries

VARIABLES
    dirty,      \* setDirtyBlockIndex
    stored,     \* the block index database
    loaded,     \* entries in memory that have lost their nBlockHeight
    heightless, \* entries of the database that were written without it
    prunedFlag, \* its flag "prunedblockfiles"
    files,      \* blocks whose file is on disk
    coinsDb,    \* the best block of the coin database
    flush,      \* the writes FlushStateToDisk still has to do, in order
    doomed,     \* setFilesToPrune
    node,       \* "init" until StartNode, "up", or "dead" if start-up fails
    crashes,
    overtaken   \* history: some start found the coins on a chain marked invalid

diskVars == <<stored, heightless, prunedFlag, files, coinsDb>>
lifeVars == <<loaded, node, crashes, overtaken>>
storeVars == <<dirty, diskVars, flush, doomed, lifeVars>>
allVars == <<vars, storeVars>>

\* What CDiskBlockIndex keeps of the entry of b, nBlockHeight apart.
Record(b) ==
    [validity |-> validity[b], haveData |-> b \in haveData, haveUndo |-> b \in haveUndo,
     failedValid |-> b \in failedValid, failedChild |-> b \in failedChild, nTx |-> b \in processed]

\* InitBlockIndex ends with FlushStateToDisk(FLUSH_STATE_ALWAYS).
StoreInit ==
    /\ Init
    /\ dirty = {} /\ stored = [b \in Blocks |-> IF b = Genesis THEN Record(b) ELSE NULL]
    /\ loaded = {} /\ heightless = {}
    /\ prunedFlag = FALSE /\ files = {Genesis} /\ coinsDb = Genesis
    /\ flush = <<>> /\ doomed = {} /\ node = "up" /\ crashes = 0 /\ overtaken = FALSE

-----------------------------------------------------------------------------
(* The handlers, and the index entries they put into setDirtyBlockIndex *)

Dirty(bs) ==
    /\ dirty' = dirty \cup bs
    /\ UNCHANGED <<diskVars, flush, doomed, lifeVars>>

Store(t, b, fRequested) ==
    /\ StoreBlock(t, b, fRequested)
    /\ dirty' = dirty \cup {b} /\ files' = files \cup {b}
    /\ UNCHANGED <<stored, heightless, prunedFlag, coinsDb, flush, doomed, lifeVars>>

ReceiveDirty(t) ==
    \E b \in Blocks :
        \/ ProcessHeader(t, b) /\ Dirty({b})
        \/ \E fRequested \in BOOLEAN :
              \/ IgnoreBlock(t, b, fRequested) /\ Dirty({b} \ index)
              \/ RejectBlock(t, b, fRequested) /\ Dirty({b})
              \/ Store(t, b, fRequested)

UnsavedCleared(b) == {}    \* mutant

\* The entries whose marks ReconsiderBlock clears
Cleared(b) ==
    {d \in index \cap Descendants(b) : ~IsValid(d, BLOCK_VALID_TRANSACTIONS)} \cup (Ancestors[b] \cap Failed)

OperatorDirty(t) ==
    \/ \E b \in InvalidateTargets : Invalidate(t, b) /\ Dirty({b})
    \/ \E b \in ReconsiderTargets : Reconsider(t, b) /\ Dirty(Cleared(b))

UnsavedConnected == {}    \* mutant

\* ConnectBlock: the entry changes unless the block was connected before.
Connected == {b \in {coins'} : b \notin haveUndo \/ ~IsValid(b, BLOCK_VALID_SCRIPTS)}

\* The other steps leave the entries alone, but for the BLOCK_FAILED_CHILD of
\* FindMostWorkChain, which is not saved.
ContinueDirty(t) ==
    \/ ConnectTip(t) /\ Dirty(Connected)
    \/ ConnectTipFails(t) /\ Dirty(NextToConnect(t))
    \/ (InvalidateTip(t) \/ InvalidateTipFails(t)) /\ Dirty({tip})
    \/ /\ \/ LinkBlock(t) \/ AcceptBlockDone(t)
          \/ BeginRound(t) \/ NothingToActivate(t) \/ DropCandidate(t) \/ ChooseCandidate(t)
          \/ DisconnectTip(t) \/ DisconnectTipDone(t) \/ ForkReached(t)
          \/ ConnectTipDone(t) \/ ConnectBlockCrashes(t) \/ Abort(t) \/ DisconnectTipFails(t)
          \/ EndRound(t) \/ BeginPeriodicFlush(t) \/ ActivateBestChainDone(t)
          \/ InvalidateTipDone(t) \/ InvalidateDone(t)
       /\ Dirty({})

-----------------------------------------------------------------------------
(* FlushStateToDisk *)

\* mutant: the coins before the index
CoinsFirst == <<"coins", "index">>

FullFlush == <<"index", "coins">>

PruneFlush == <<"index", "unlink", "coins">>

\* Files are found that can be pruned: everything is flushed before they go.
PruneAndFlush(t, bs) ==
    /\ Prune(t, bs)
    /\ dirty' = dirty \cup bs
    /\ doomed' = bs
    /\ flush' = IF bs # {} THEN PruneFlush ELSE <<>>
    /\ prunedFlag' = havePruned'
    /\ UNCHANGED <<stored, heightless, files, coinsDb, lifeVars>>

\* The cache is too large, or it was long ago that it was flushed, or a call
\* outside the handlers asks for it.  At the end of ActivateBestChain the index
\* alone may be written.
BeginFlush ==
    /\ ~checkForPruning
    /\ \/ \E t \in Threads : pc[t] \in FlushPoints \ {"stored"} /\ flush' = FullFlush
       \/ \E t \in Threads : pc[t] = "flushPeriodic" /\ flush' = <<"index">>
       \/ CsMainFree /\ flush' = FullFlush
    /\ UNCHANGED <<vars, dirty, diskVars, doomed, lifeVars>>

WriteIndex ==
    /\ Head(flush) = "index"
    /\ stored' = [b \in Blocks |-> IF b \in dirty THEN Record(b) ELSE stored[b]]
    /\ heightless' = (heightless \ dirty) \cup (dirty \cap loaded)
    /\ dirty' = {}
    /\ UNCHANGED <<files, doomed, coinsDb>>

UnlinkPrunedFiles ==
    /\ Head(flush) = "unlink"
    /\ files' = files \ doomed /\ doomed' = {}
    /\ UNCHANGED <<dirty, stored, heightless, coinsDb>>

WriteCoins ==
    /\ Head(flush) = "coins"
    /\ coinsDb' = coins
    /\ UNCHANGED <<dirty, stored, heightless, files, doomed>>

FlushStep ==
    /\ flush # <<>>
    /\ WriteIndex \/ UnlinkPrunedFiles \/ WriteCoins
    /\ flush' = Tail(flush)
    /\ UNCHANGED <<vars, prunedFlag, lifeVars>>

-----------------------------------------------------------------------------
(* A crash, or a shutdown after a flush, and the next start *)

StoredWith(field) == {b \in Blocks : stored[b] # NULL /\ stored[b][field]}

Unmarked(b) == ~stored[b].failedValid /\ ~stored[b].failedChild
ChainUnmarked(b) == \A a \in Ancestors[b] : Unmarked(a)

\* mutant: every entry with data is taken for linked
LinkedIfStored(received) == received

\* LoadBlockIndexDB: nChainTx is set where all ancestors were received at some
\* point.
LinkedAgain(received) == {b \in received : Ancestors[b] \subseteq received}

\* LoadBlockIndexDB fills these and looks for the block files.
LoadBlockIndexDB ==
    /\ loaded' = {b \in Blocks \ {Genesis} : stored[b] # NULL}
    /\ addr' \in Addresses
    /\ index' = {b \in Blocks : stored[b] # NULL}
    /\ validity' = [b \in Blocks |-> IF stored[b] = NULL THEN BLOCK_VALID_UNKNOWN ELSE stored[b].validity]
    /\ haveData' = StoredWith("haveData") /\ haveUndo' = StoredWith("haveUndo")
    /\ failedValid' = StoredWith("failedValid") /\ failedChild' = StoredWith("failedChild")
    /\ processed' = StoredWith("nTx") /\ linked' = LinkedAgain(processed')
    /\ sequenceId' = [b \in Blocks |-> 0] /\ nextSequenceId' = 1
    /\ unlinked' = [b \in Blocks |-> IF b \in processed' \ linked' /\ Parent[b] \notin linked' THEN 1 ELSE 0]
    /\ toLink' = [b \in Blocks |-> 0]
    /\ tip' = coinsDb /\ coins' = coinsDb
    /\ havePruned' = prunedFlag
    /\ candidates' = {b \in linked' : /\ b \notin failedValid' \cup failedChild'
                                      /\ validity'[b] >= BLOCK_VALID_TRANSACTIONS
                                      /\ ~Worse(sequenceId, b, tip)'}

\* The blocks VerifyDB reads.  It disconnects the upper ones in memory, as many as
\* the caches have room for, and connects them again.
Verified(b) ==
    {a \in Ancestors[b] \ {Genesis} : Height[a] >= Height[b] - CheckBlocks}

\* The hash of an entry fails CheckProofOfWork, a block file is missing, the assertion
\* of PruneBlockIndexCandidates fails, or VerifyDB cannot read a block or undo data,
\* or its ConnectBlock the block below.
StartUpFails(undone) ==
    \/ heightless # {}
    \/ ~(haveData' \subseteq files)
    \/ candidates' = {}
    \/ ~(Verified(tip') \subseteq haveData')
    \/ ~(undone \subseteq haveUndo')
    \/ ~({Parent[a] : a \in undone} \subseteq haveData')

\* ConnectBlock enters a block in setDirtyBlockIndex that is marked invalid.
VerifyDB(low) ==
    LET undone == {a \in Verified(tip') : Height[a] > low} IN
        /\ node' = IF StartUpFails(undone) THEN "dead" ELSE "init"
        /\ dirty' = undone \cap Failed'

\* mutant: the best chain is not looked for
BeginIdle(t) ==
    /\ checkForPruning' = FALSE
    /\ pc' = [u \in Threads |-> "idle"]

\* Start-up goes on to PruneAndFlush, if pruning is on, and ActivateBestChain,
\* which are the last steps of AcceptBlock and ProcessNewBlock too.
BeginActivation(t) ==
    /\ checkForPruning' = PruneMode
    /\ pc' = [u \in Threads |-> IF u = t THEN "stored" ELSE "idle"]

Restart(t) ==
    /\ crashes < MaxCrashes /\ node # "dead"
    /\ crashes' = crashes + 1
    /\ overtaken' = (overtaken \/ ~ChainUnmarked(coinsDb))
    /\ LoadBlockIndexDB
    /\ \E a \in Ancestors[coinsDb] : VerifyDB(Height[a])
    /\ BeginActivation(t)
    /\ pindex' = [u \in Threads |-> NULL] /\ oldTip' = NULL
    /\ flush' = <<>> /\ doomed' = {}
    /\ UNCHANGED diskVars

StartNode ==
    /\ node = "init" /\ \A t \in Threads : pc[t] = "idle"
    /\ node' = "up"
    /\ UNCHANGED <<vars, dirty, diskVars, flush, doomed, loaded, crashes, overtaken>>

-----------------------------------------------------------------------------

StoreNext ==
    \/ /\ flush = <<>> /\ node # "dead"
       /\ \/ \E t \in Threads :
                \/ node = "up" /\ crashes < MaxCrashes /\ (ReceiveDirty(t) \/ OperatorDirty(t))
                \/ ContinueDirty(t)
                \/ \E bs \in SUBSET Blocks : PruneAndFlush(t, bs)
          \/ BeginFlush
          \/ StartNode
    \/ FlushStep
    \/ \E t \in Threads : Restart(t)

StoreSpec == StoreInit /\ [][StoreNext]_allVars

-----------------------------------------------------------------------------
(* Properties *)

\* "This can only be done if the blocks / block index write was also done": the
\* best block of the coin database is always in the stored index, which has all
\* its ancestors received, fully validated and, as long as nothing was pruned,
\* with undo data.  And a block with BLOCK_HAVE_DATA in the stored index has its
\* file, so that the presence check of LoadBlockIndexDB passes wherever the node
\* crashed.
DiskBehindIndex ==
    /\ \A a \in Ancestors[coinsDb] \ {Genesis} :
          /\ stored[a] # NULL
          /\ stored[a].nTx /\ stored[a].validity = BLOCK_VALID_SCRIPTS
          /\ stored[a].haveUndo \/ prunedFlag
    /\ StoredWith("haveData") \subseteq files

\* An entry that differs from the stored one is in setDirtyBlockIndex and so in
\* the next write, except that BLOCK_FAILED_CHILD may be missing on disk, and that
\* an entry read from disk has no nBlockHeight.
UnsavedAreDirty ==
    node # "dead" =>
        \A b \in index \ dirty :
            /\ stored[b] # NULL
            /\ stored[b].failedChild => b \in failedChild
            /\ Record(b) = [stored[b] EXCEPT !.failedChild = b \in failedChild]

\* Start-up fails only if the coin database is at a block that the index, written
\* later, marks invalid; if a block was pruned that VerifyDB undoes, or the one below
\* it; or if the node was started before, and an entry that it had read from disk was
\* written again.  So without invalidateblock and without pruning the first restart
\* always succeeds, wherever the node crashed, and a later one unless an old entry has
\* been changed since the first.
RestartFailsOnly ==
    node = "dead" =>
        \/ ~Unmarked(coinsDb)
        \/ /\ prunedFlag
           /\ \E a \in Verified(coinsDb) : ~stored[a].haveUndo \/ ~stored[Parent[a]].haveData
        \/ crashes > 1 /\ heightless # {}

\* When every handler has returned, after a restart as before it, no linked block
\* whose chain can be read and is free of marks down to the active chain sorts
\* better than the tip, and the active chain is free of marks, unless
\* invalidateblock could not disconnect it for want of pruned data.  This ends
\* with a start that finds the coin database on a chain that the index, written
\* later or while invalidateblock was at work, marks invalid: that chain is active
\* again, and LoadBlockIndexDB takes its tip for the measure of
\* setBlockIndexCandidates.
BestChainAfterRestart ==
    Quiet /\ node # "dead" /\ ~overtaken =>
        IF Active \cap Failed = {}
        THEN \A b \in linked : Unusable(b) = {} => ~Worse(sequenceId, tip, b)
        ELSE havePruned

\* PruneBlockIndexCandidates: "Either the current tip or a successor of it we're
\* working towards is left in setBlockIndexCandidates", also when it is called
\* by LoadBlockIndexDB.
TipOrSuccessorLeft == node = "dead" => candidates # {}

=============================================================================
