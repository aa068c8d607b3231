-------------------------- MODULE ChainStoreProofs --------------------------
(***************************************************************************)
(* Wherever the node crashes, what it left on disk can be loaded, and the  *)
(* layers of ChainStateProofs up to ValidInv hold again, with and without  *)
(* pruning.  An index entry that is not in setDirtyBlockIndex agrees with  *)
(* the stored one, so that each write of the index leaves a picture of the *)
(* whole index in memory on disk, and that picture satisfies what the      *)
(* layers say of the index.  The coins are written only after such a       *)
(* picture, with cs_main held.                                             *)
(*                                                                         *)
(* The last part carries BaseInv and BestInv across a crash, for a node    *)
(* that does not prune: the marks in the stored index have a cause there   *)
(* too, so that a start on a chain without marks finds every block that is *)
(* better than its tip.                                                    *)
(***************************************************************************)
EXTENDS ChainStore, ChainStateBestProofs

USE DEF TreeAssumption, AncestorsAssumption, ChainStateAssumption
USE DEF vars, treeVars, dataVars, failVars, linkVars, chainVars, threadVars, diskVars, lifeVars

-----------------------------------------------------------------------------
(* What is on disk. *)

StoredIndex == {b \in Blocks : stored[b] # NULL}

\* The stored entry of b agrees with the one in memory, but for BLOCK_FAILED_CHILD.
Saved(b) ==
    /\ stored[b] # NULL
    /\ stored[b].validity = validity[b]
    /\ stored[b].haveData <=> b \in haveData
    /\ stored[b].haveUndo <=> b \in haveUndo
    /\ stored[b].failedValid <=> b \in failedValid
    /\ stored[b].nTx <=> b \in processed
    /\ stored[b].failedChild => b \in failedChild

DirtyInv ==
    /\ stored \in [Blocks -> Entries \cup {NULL}]
    /\ dirty \subseteq index /\ StoredIndex \subseteq index
    /\ \A b \in index \ dirty : Saved(b)

\* What DataInv and IndexValid say of the index, said of the stored one.
StoredInv ==
    /\ Genesis \in StoredIndex /\ stored[Genesis].nTx
    /\ \A b \in StoredIndex :
          /\ Ancestors[b] \subseteq StoredIndex
          /\ stored[b].haveData => stored[b].nTx
          /\ stored[b].haveUndo => stored[b].haveData
          /\ stored[b].nTx => stored[b].haveData \/ prunedFlag
          /\ stored[b].validity >= BLOCK_VALID_TREE
          /\ stored[b].validity >= BLOCK_VALID_TRANSACTIONS <=> stored[b].nTx
          /\ stored[b].validity = BLOCK_VALID_SCRIPTS =>
                \A a \in Ancestors[b] \ {Genesis} : stored[a].validity = BLOCK_VALID_SCRIPTS

\* The chain of the coin database was connected, and its entries in memory say so.
CoinsInv ==
    /\ coinsDb \in Blocks /\ Genesis \in processed
    /\ \A a \in Ancestors[coinsDb] \ {Genesis} :
          /\ a \in index /\ a \in processed /\ validity[a] = BLOCK_VALID_SCRIPTS
          /\ a \in haveUndo \/ havePruned

\* The same of the stored entries, and there is a file for each that has data.
FilesInv == DiskBehindIndex /\ haveData \subseteq files

\* What is left of a flush.  The index is written before files are removed and
\* before the coins are.
FlushInv ==
    /\ flush \in {<<>>, <<"index">>, FullFlush, PruneFlush, Tail(PruneFlush), Tail(FullFlush)}
    /\ flush \in {Tail(PruneFlush), Tail(FullFlush)} => dirty = {}
    /\ doomed # {} => flush \in {PruneFlush, Tail(PruneFlush)}
    /\ doomed \cap haveData = {}
    /\ prunedFlag = havePruned
    /\ node = "dead" => flush = <<>>

\* nBlockHeight is lost only after a first restart.
HeightInv ==
    /\ crashes \in Nat
    /\ crashes = 0 => loaded = {} /\ heightless = {}

StoreInv == DirtyInv /\ StoredInv /\ CoinsInv /\ FilesInv /\ FlushInv /\ HeightInv /\ RestartFailsOnly

Memory == TypeInv /\ LinkInv /\ PathInv /\ ValidInv

-----------------------------------------------------------------------------
(* What a step of a handler does to the index entries. *)

\* Only the entries bs change, but for a BLOCK_FAILED_CHILD, and they get dirty.
Changes(bs) ==
    /\ index \subseteq index' /\ bs \subseteq index' /\ dirty' = dirty \cup bs
    /\ \A b \in index' \ bs :
          /\ b \in index /\ validity'[b] = validity[b]
          /\ b \in haveData' <=> b \in haveData
          /\ b \in haveUndo' <=> b \in haveUndo
          /\ b \in failedValid' <=> b \in failedValid
          /\ b \in processed' <=> b \in processed
          /\ b \in failedChild => b \in failedChild'

\* A step of a handler that does not prune.
Plain(t) == ReceiveDirty(t) \/ OperatorDirty(t) \/ ContinueDirty(t)

\* The steps of StoreNext.
LEMMA StoreKinds ==
    ASSUME StoreNext
    PROVE  \/ flush = <<>> /\ node # "dead" /\ \E t \in Threads : Plain(t)
           \/ flush = <<>> /\ node # "dead" /\ \E t \in Threads, bs \in SUBSET Blocks : PruneAndFlush(t, bs)
           \/ flush = <<>> /\ node # "dead" /\ (BeginFlush \/ StartNode)
           \/ FlushStep
           \/ \E t \in Threads : Restart(t)
BY Zenon DEF StoreNext, Plain

\* Every step but a restart is one of module ChainState, or leaves its state alone.
LEMMA StepsOfChainState ==
    ASSUME StoreNext
    PROVE  [Next]_vars \/ \E t \in Threads : Restart(t)
<1>1. ASSUME NEW t \in Threads, ReceiveDirty(t) PROVE Receive(t)
  BY Zenon, <1>1 DEF ReceiveDirty, Store, Receive
<1>2. ASSUME NEW t \in Threads, OperatorDirty(t) PROVE Operator(t)
  BY Zenon, <1>2 DEF OperatorDirty, Operator
<1>3. ASSUME NEW t \in Threads, ContinueDirty(t) PROVE Continue(t)
  BY Zenon, <1>3 DEF ContinueDirty, Continue
<1>4. ASSUME NEW t \in Threads, NEW bs \in SUBSET Blocks, PruneAndFlush(t, bs) PROVE Next
  BY Zenon, <1>4 DEF PruneAndFlush, Next
<1>5. ASSUME BeginFlush \/ StartNode \/ FlushStep PROVE UNCHANGED vars
  BY Zenon, <1>5 DEF BeginFlush, StartNode, FlushStep
<1> QED BY Zenon, StoreKinds, <1>1, <1>2, <1>3, <1>4, <1>5 DEF Plain, Next

\* AcceptBlockHeader, AcceptBlock and ReceivedBlockTransactions mark the entry of the
\* block as dirty.
LEMMA ReceiveChanges ==
    ASSUME TypeInv, NEW t \in Threads, ReceiveDirty(t)
    PROVE  \E bs : Changes(bs)
<1>1. validity \in [Blocks -> 0 .. 5] /\ index \subseteq Blocks
  BY Zenon DEF TypeInv, TypeOK
<1>2. PICK b \in Blocks :
         \/ ProcessHeader(t, b) /\ Dirty({b})
         \/ \E fRequested \in BOOLEAN :
               \/ IgnoreBlock(t, b, fRequested) /\ Dirty({b} \ index)
               \/ RejectBlock(t, b, fRequested) /\ Dirty({b})
               \/ Store(t, b, fRequested)
  BY Zenon DEF ReceiveDirty
<1>3. CASE ProcessHeader(t, b) /\ Dirty({b})
  <2>1. /\ index' = index \cup {b} /\ validity' = [validity EXCEPT ![b] = TreeValidity(b)]
        /\ UNCHANGED <<haveData, haveUndo, failedValid, processed, failedChild>> /\ dirty' = dirty \cup {b}
    BY Zenon, <1>3 DEF ProcessHeader, Dirty
  <2>2. Changes({b})
    BY Zenon, <1>1, <2>1 DEF Changes
  <2> QED BY Zenon, <2>2
<1>4. ASSUME NEW fRequested \in BOOLEAN, IgnoreBlock(t, b, fRequested) /\ Dirty({b} \ index)
      PROVE  \E bs : Changes(bs)
  <2>1. /\ index' = index \cup {b} /\ validity' = [validity EXCEPT ![b] = TreeValidity(b)]
        /\ UNCHANGED <<haveData, haveUndo, failedValid, processed, failedChild>> /\ dirty' = dirty \cup ({b} \ index)
    BY Zenon, <1>4 DEF IgnoreBlock, ReceiveBlock, Dirty
  <2>2. \A c \in index : validity'[c] = validity[c]
    BY Zenon, <1>1, <2>1 DEF TreeValidity
  <2>3. Changes({b} \ index)
    BY Zenon, <2>1, <2>2 DEF Changes
  <2> QED BY Zenon, <2>3
<1>5. ASSUME NEW fRequested \in BOOLEAN, RejectBlock(t, b, fRequested) /\ Dirty({b})
      PROVE  \E bs : Changes(bs)
  <2>1. /\ index' = index \cup {b} /\ validity' = [validity EXCEPT ![b] = TreeValidity(b)]
        /\ failedValid' = failedValid \cup {b}
        /\ UNCHANGED <<haveData, haveUndo, processed, failedChild>> /\ dirty' = dirty \cup {b}
    BY Zenon, <1>5 DEF RejectBlock, ReceiveBlock, Dirty
  <2>2. Changes({b})
    BY Zenon, <1>1, <2>1 DEF Changes
  <2> QED BY Zenon, <2>2
<1>6. ASSUME NEW fRequested \in BOOLEAN, Store(t, b, fRequested)
      PROVE  \E bs : Changes(bs)
  <2>1. /\ index' = index \cup {b} /\ \E v : validity' = [validity EXCEPT ![b] = v]
        /\ processed' = processed \cup {b} /\ haveData' = haveData \cup {b}
        /\ UNCHANGED <<haveUndo, failedValid, failedChild>> /\ dirty' = dirty \cup {b}
    BY Zenon, <1>6 DEF Store, StoreBlock, ReceiveBlock
  <2>2. Changes({b})
    BY Zenon, <1>1, <2>1 DEF Changes
  <2> QED BY Zenon, <2>2
<1> QED BY Zenon, <1>2, <1>3, <1>4, <1>5, <1>6

\* InvalidateBlock and ReconsiderBlock mark every entry dirty whose marks they change.
LEMMA OperatorChanges ==
    ASSUME TypeInv, NEW t \in Threads, OperatorDirty(t)
    PROVE  \E bs : Changes(bs)
<1>1. CASE \E b \in InvalidateTargets : Invalidate(t, b) /\ Dirty({b})
  <2>1. PICK b \in InvalidateTargets : Invalidate(t, b) /\ Dirty({b})
    BY Zenon, <1>1
  <2>2. /\ UNCHANGED <<index, validity, haveData, haveUndo, processed, failedChild>> /\ dirty' = dirty \cup {b}
        /\ failedValid' = failedValid \cup {b} /\ b \in index
    BY Zenon, <2>1 DEF Invalidate, MarkInvalid, Dirty
  <2>3. Changes({b})
    BY Zenon, <2>2 DEF Changes
  <2> QED BY Zenon, <2>3
<1>2. CASE \E b \in ReconsiderTargets : Reconsider(t, b) /\ Dirty(Cleared(b))
  <2>1. PICK b \in ReconsiderTargets : Reconsider(t, b) /\ Dirty(Cleared(b))
    BY Zenon, <1>2
  <2>2. /\ UNCHANGED <<index, validity, haveData, haveUndo, processed>> /\ dirty' = dirty \cup Cleared(b)
        /\ failedValid' = failedValid \ Cleared(b) /\ failedChild' = failedChild \ Cleared(b)
    BY Zenon, <2>1 DEF Reconsider, Cleared, Dirty
  <2>3. Cleared(b) \subseteq index
    <3>1. failedValid \subseteq index /\ failedChild \subseteq index
      BY Zenon DEF TypeInv, TypeOK
    <3> QED BY Zenon, <3>1 DEF Cleared, Failed
  <2>4. Changes(Cleared(b))
    BY Zenon, <2>2, <2>3 DEF Changes
  <2> QED BY Zenon, <2>4
<1> QED BY Zenon, <1>1, <1>2 DEF OperatorDirty

\* Of the other steps ConnectBlock, InvalidBlockFound and InvalidateBlock change
\* entries, and FindMostWorkChain sets BLOCK_FAILED_CHILD without saying so.
LEMMA ContinueChanges ==
    ASSUME TypeInv, NEW t \in Threads, ContinueDirty(t)
    PROVE  \E bs : Changes(bs)
<1>1. validity \in [Blocks -> 0 .. 5] /\ index \subseteq Blocks /\ tip \in index
  BY Zenon DEF TypeInv, TypeOK
<1>2. CASE ConnectTip(t) /\ Dirty(Connected)
  <2>1. PICK b \in NextToConnect(t) :
           /\ coins' = b /\ haveUndo' = haveUndo \cup {b}
           /\ validity' = [validity EXCEPT ![b] = IF b \in Failed THEN validity[b] ELSE 5]
    BY Zenon, <1>2 DEF ConnectTip, BLOCK_VALID_SCRIPTS
  <2>2. UNCHANGED <<index, haveData, failedValid, processed, failedChild>> /\ dirty' = dirty \cup Connected
    BY Zenon, <1>2 DEF ConnectTip, Dirty
  <2>3. b \in Blocks /\ b \in index
    <3>1. pindex[t] \in index /\ Ancestors[pindex[t]] \subseteq index
      BY Zenon, <1>2 DEF ConnectTip, TypeInv, Locals, Activating, IndexClosed
    <3> QED BY Zenon, <1>1, <3>1 DEF NextToConnect
  <2>4. b \notin Connected => b \in haveUndo /\ validity'[b] = validity[b]
    <3>1. b \notin Connected => b \in haveUndo /\ b \notin Failed /\ validity[b] >= 5
      BY Zenon, <2>1 DEF Connected, IsValid, BLOCK_VALID_SCRIPTS
    <3>2. validity[b] >= 5 => validity[b] = 5
      BY <1>1, <2>3
    <3> QED BY Zenon, <1>1, <2>1, <2>3, <3>1, <3>2
  <2>5. \A c \in index \ {b} : validity'[c] = validity[c] /\ (c \in haveUndo' <=> c \in haveUndo)
    BY Zenon, <1>1, <2>1
  <2>6. Connected \subseteq {b}
    BY Zenon, <2>1 DEF Connected
  <2>7. Changes(Connected)
    BY Zenon, <2>1, <2>2, <2>3, <2>4, <2>5, <2>6 DEF Changes
  <2> QED BY Zenon, <2>7
<1>3. CASE ConnectTipFails(t) /\ Dirty(NextToConnect(t))
  <2>1. PICK b \in NextToConnect(t) : failedValid' = failedValid \cup {b}
    BY Zenon, <1>3 DEF ConnectTipFails, MarkInvalid
  <2>2. /\ UNCHANGED <<index, validity, haveData, haveUndo, processed, failedChild>>
        /\ dirty' = dirty \cup NextToConnect(t)
    BY Zenon, <1>3 DEF ConnectTipFails, Dirty
  <2>3. NextToConnect(t) \subseteq index
    <3>1. pindex[t] \in index /\ Ancestors[pindex[t]] \subseteq index
      BY Zenon, <1>3 DEF ConnectTipFails, TypeInv, Locals, Activating, IndexClosed
    <3> QED BY Zenon, <3>1 DEF NextToConnect
  <2>4. Changes(NextToConnect(t))
    BY Zenon, <2>1, <2>2, <2>3 DEF Changes
  <2> QED BY Zenon, <2>4
<1>4. CASE (InvalidateTip(t) \/ InvalidateTipFails(t)) /\ Dirty({tip})
  <2>1. /\ UNCHANGED <<index, validity, haveData, haveUndo, processed, failedValid>> /\ dirty' = dirty \cup {tip}
        /\ failedChild' = failedChild \cup {tip}
    BY Zenon, <1>4 DEF InvalidateTip, InvalidateTipFails, MarkTip, Dirty
  <2>2. Changes({tip})
    BY Zenon, <1>1, <2>1 DEF Changes
  <2> QED BY Zenon, <2>2
<1>5. ASSUME UNCHANGED <<index, validity, haveData, haveUndo, processed, failedValid>>,
             failedChild \subseteq failedChild', Dirty({})
      PROVE  \E bs : Changes(bs)
  <2>1. Changes({})
    BY Zenon, <1>5 DEF Changes, Dirty
  <2> QED BY Zenon, <2>1
<1>6. CASE DropCandidate(t) /\ Dirty({})
  <2>1. failedChild \subseteq failedChild'
    BY Zenon, <1>6 DEF DropCandidate, Drop
  <2> QED BY Zenon, <1>5, <1>6, <2>1 DEF DropCandidate
<1>7. CASE /\ \/ LinkBlock(t) \/ AcceptBlockDone(t)
              \/ BeginRound(t) \/ NothingToActivate(t) \/ ChooseCandidate(t)
              \/ DisconnectTip(t) \/ DisconnectTipDone(t) \/ ForkReached(t)
           /\ Dirty({})
  <2>1. UNCHANGED <<index, validity, haveData, haveUndo, processed, failedValid>> /\ failedChild \subseteq failedChild'
    BY Zenon, <1>7 DEF LinkBlock, AcceptBlockDone, BeginRound, NothingToActivate, ChooseCandidate, DisconnectTip,
       DisconnectTipDone, ForkReached
  <2> QED BY Zenon, <1>5, <1>7, <2>1
<1>8. CASE /\ \/ ConnectTipDone(t) \/ Abort(t) \/ ConnectBlockCrashes(t) \/ DisconnectTipFails(t)
              \/ EndRound(t) \/ BeginPeriodicFlush(t) \/ ActivateBestChainDone(t)
              \/ InvalidateTipDone(t) \/ InvalidateDone(t)
           /\ Dirty({})
  <2>1. UNCHANGED <<index, validity, haveData, haveUndo, processed, failedValid>> /\ failedChild \subseteq failedChild'
    BY Zenon, <1>8 DEF ConnectTipDone, Abort, ConnectBlockCrashes, DisconnectTipFails, EndRound, BeginPeriodicFlush,
       ActivateBestChainDone, InvalidateTipDone, InvalidateDone
  <2> QED BY Zenon, <1>5, <1>8, <2>1
<1> QED BY Zenon, <1>2, <1>3, <1>4, <1>6, <1>7, <1>8 DEF ContinueDirty

\* PruneOneBlockFile marks the entries whose data goes as dirty.
LEMMA PruneChanges ==
    ASSUME TypeInv, NEW t \in Threads, NEW bs \in SUBSET Blocks, PruneAndFlush(t, bs)
    PROVE  Changes(bs)
<1>1. /\ UNCHANGED <<index, validity, processed, failedValid, failedChild>>
      /\ haveData' = haveData \ bs /\ haveUndo' = haveUndo \ bs /\ dirty' = dirty \cup bs /\ bs \subseteq haveData
  BY Zenon DEF PruneAndFlush, Prune, Prunable
<1>2. haveData \subseteq index
  BY Zenon DEF TypeInv, TypeOK
<1> QED BY Zenon, <1>1, <1>2 DEF Changes

\* What is on disk does not change before FlushStateToDisk writes, but for the file
\* to which AcceptBlock appends the block.
LEMMA PlainKeeps ==
    ASSUME NEW t \in Threads, Plain(t)
    PROVE  /\ UNCHANGED <<stored, heightless, prunedFlag, coinsDb, flush, doomed, lifeVars>>
           /\ havePruned' = havePruned /\ files \subseteq files' /\ haveData' \subseteq haveData \cup files'
           /\ haveData' # haveData => \E b \in Blocks : haveData' = haveData \cup {b}
<1> DEFINE Keeps == /\ UNCHANGED <<stored, heightless, prunedFlag, coinsDb, flush, doomed, lifeVars>>
                    /\ havePruned' = havePruned /\ files \subseteq files' /\ haveData' \subseteq haveData \cup files'
                    /\ haveData' # haveData => \E b \in Blocks : haveData' = haveData \cup {b}
<1>1. ASSUME NEW b \in Blocks, NEW fRequested \in BOOLEAN, Store(t, b, fRequested)
      PROVE  Keeps
  <2>1. /\ UNCHANGED <<stored, heightless, prunedFlag, coinsDb, flush, doomed, lifeVars>>
        /\ files' = files \cup {b} /\ haveData' = haveData \cup {b}
    BY Zenon, <1>1 DEF Store, StoreBlock
  <2>2. havePruned' = havePruned
    BY <1>1 DEF Store, StoreBlock
  <2> QED BY <2>1, <2>2
<1>2. ASSUME NEW bs, Dirty(bs), UNCHANGED <<haveData, havePruned>>
      PROVE  Keeps
  BY <1>2 DEF Dirty
<1>3. ASSUME NEW b \in Blocks, NEW fRequested \in BOOLEAN,
             ProcessHeader(t, b) \/ IgnoreBlock(t, b, fRequested) \/ RejectBlock(t, b, fRequested)
      PROVE  UNCHANGED <<haveData, havePruned>>
  BY Zenon, <1>3 DEF ProcessHeader, IgnoreBlock, RejectBlock
<1>4. ASSUME NEW b \in Blocks, Invalidate(t, b) \/ Reconsider(t, b)
      PROVE  UNCHANGED <<haveData, havePruned>>
  BY Zenon, <1>4 DEF Invalidate, Reconsider
<1>5. ASSUME \/ LinkBlock(t) \/ AcceptBlockDone(t) \/ BeginRound(t) \/ NothingToActivate(t) \/ DropCandidate(t)
             \/ ChooseCandidate(t) \/ DisconnectTip(t) \/ DisconnectTipDone(t) \/ ForkReached(t)
      PROVE  UNCHANGED <<haveData, havePruned>>
  BY Zenon, <1>5 DEF LinkBlock, AcceptBlockDone, BeginRound, NothingToActivate, DropCandidate, ChooseCandidate,
     DisconnectTip, DisconnectTipDone, ForkReached
<1>6. ASSUME \/ ConnectTip(t) \/ ConnectTipDone(t) \/ ConnectTipFails(t) \/ Abort(t)
             \/ ConnectBlockCrashes(t) \/ DisconnectTipFails(t)
             \/ EndRound(t) \/ BeginPeriodicFlush(t) \/ ActivateBestChainDone(t)
             \/ InvalidateTip(t) \/ InvalidateTipFails(t) \/ InvalidateTipDone(t) \/ InvalidateDone(t)
      PROVE  UNCHANGED <<haveData, havePruned>>
  BY Zenon, <1>6 DEF ConnectTip, ConnectTipDone, ConnectTipFails, Abort, ConnectBlockCrashes,
     DisconnectTipFails, EndRound,
     BeginPeriodicFlush, ActivateBestChainDone, InvalidateTip, InvalidateTipFails, InvalidateTipDone, InvalidateDone
<1>7. Keeps
  <2> HIDE DEF Keeps
  <2>1. CASE ReceiveDirty(t)
    BY Zenon, <1>1, <1>2, <1>3, <2>1 DEF ReceiveDirty
  <2>2. CASE OperatorDirty(t)
    BY Zenon, <1>2, <1>4, <2>2, ChainStateAssumption DEF OperatorDirty
  <2>3. CASE ContinueDirty(t)
    BY Zenon, <1>2, <1>5, <1>6, <2>3 DEF ContinueDirty
  <2> QED BY Zenon, <2>1, <2>2, <2>3 DEF Plain
<1> QED BY <1>7

-----------------------------------------------------------------------------
(* The layers between two starts of the node. *)

\* A step that marks as dirty what it changes leaves the other entries saved.
LEMMA ChangesKeepSaved ==
    ASSUME DirtyInv, NEW bs, Changes(bs), stored' = stored
    PROVE  DirtyInv'
<1>1. dirty' \subseteq index' /\ StoredIndex' \subseteq index'
  BY Zenon DEF DirtyInv, StoredIndex, Changes
<1>2. ASSUME NEW b \in index' \ dirty'
      PROVE  Saved(b)'
  <2>1. b \in index \ dirty /\ b \in index' \ bs
    BY Zenon DEF Changes
  <2>2. Saved(b)
    BY Zenon, <2>1 DEF DirtyInv
  <2> QED BY Zenon, <2>1, <2>2 DEF Saved, Changes
<1> QED BY Zenon, <1>1, <1>2 DEF DirtyInv

\* A record is not the absence of one, and its fields are what the entry says.
LEMMA RecordFields ==
    ASSUME TypeInv, NEW b \in Blocks
    PROVE  /\ Record(b) \in Entries /\ Record(b) # NULL
           /\ Record(b).validity = validity[b]
           /\ Record(b).haveData <=> b \in haveData
           /\ Record(b).haveUndo <=> b \in haveUndo
           /\ Record(b).failedValid <=> b \in failedValid
           /\ Record(b).failedChild <=> b \in failedChild
           /\ Record(b).nTx <=> b \in processed
<1>1. validity[b] \in 0 .. 5
  BY DEF TypeInv, TypeOK
<1>2. Record(b) \in Entries
  <2>1. /\ (b \in haveData) \in BOOLEAN /\ (b \in haveUndo) \in BOOLEAN /\ (b \in failedValid) \in BOOLEAN
        /\ (b \in failedChild) \in BOOLEAN /\ (b \in processed) \in BOOLEAN
    OBVIOUS
  <2> QED BY Zenon, <1>1, <2>1 DEF Record, Entries
<1>3. Record(b) # NULL
  BY Zenon, <1>2, ChainStoreAssumption
<1>4. /\ Record(b).validity = validity[b]
      /\ Record(b).haveData = (b \in haveData)
      /\ Record(b).haveUndo = (b \in haveUndo)
      /\ Record(b).failedValid = (b \in failedValid)
      /\ Record(b).failedChild = (b \in failedChild)
      /\ Record(b).nTx = (b \in processed)
  BY Zenon DEF Record
<1> QED BY Zenon, <1>2, <1>3, <1>4

\* WriteBatchSync leaves a picture of the whole index on disk.
LEMMA PictureTaken ==
    ASSUME TypeInv, DirtyInv, WriteIndex, UNCHANGED vars
    PROVE  /\ stored' \in [Blocks -> Entries \cup {NULL}] /\ dirty' = {}
           /\ StoredIndex' = index
           /\ \A b \in index : Saved(b)'
<1>1. /\ stored' = [b \in Blocks |-> IF b \in dirty THEN Record(b) ELSE stored[b]] /\ dirty' = {}
      /\ UNCHANGED <<validity, haveData, haveUndo, failedValid, failedChild, processed, index>>
  BY Zenon DEF WriteIndex
<1>2. index \subseteq Blocks /\ stored \in [Blocks -> Entries \cup {NULL}] /\ dirty \subseteq index
  BY Zenon DEF TypeInv, TypeOK, DirtyInv
<1>3. ASSUME NEW b \in index
      PROVE  Saved(b)'
  <2>1. CASE b \in dirty
    <3>1. stored'[b] = Record(b)
      BY Zenon, <1>1, <1>2, <2>1
    <3> QED BY Zenon, <1>1, <1>2, <3>1, RecordFields DEF Saved
  <2>2. CASE b \notin dirty
    <3>1. stored'[b] = stored[b] /\ Saved(b)
      BY Zenon, <1>1, <1>2, <2>2 DEF DirtyInv
    <3> QED BY Zenon, <1>1, <3>1 DEF Saved
  <2> QED BY Zenon, <2>1, <2>2
<1>4. stored' \in [Blocks -> Entries \cup {NULL}]
  <2>1. \A b \in Blocks : (IF b \in dirty THEN Record(b) ELSE stored[b]) \in Entries \cup {NULL}
    BY Zenon, <1>2, RecordFields
  <2> HIDE DEF Entries
  <2> QED BY <1>1, <2>1
<1>5. \A b \in Blocks : stored'[b] # NULL <=> b \in index
  <2>1. \A b \in Blocks \ index : stored'[b] = stored[b] /\ stored[b] = NULL
    BY Zenon, <1>1, <1>2 DEF DirtyInv, StoredIndex
  <2> QED BY Zenon, <1>2, <1>3, <2>1 DEF Saved
<1>6. StoredIndex' = index
  BY <1>2, <1>5 DEF StoredIndex
<1> QED BY Zenon, <1>1, <1>3, <1>4, <1>6

\* The picture satisfies what the layers say of the index.
LEMMA PictureRight ==
    ASSUME Memory, CoinsInv, prunedFlag' <=> havePruned, UNCHANGED vars,
           StoredIndex' = index, \A b \in index : Saved(b)'
    PROVE  StoredInv'
<1>1. Genesis \in index /\ \A b \in index : Ancestors[b] \subseteq index
  BY Zenon DEF Memory, TypeInv, IndexClosed
<1>2. UNCHANGED <<validity, haveData, haveUndo, processed>>
  BY Zenon
<1>3. ASSUME NEW b \in index
      PROVE  /\ stored'[b].validity = validity[b]
             /\ stored'[b].haveData <=> b \in haveData
             /\ stored'[b].haveUndo <=> b \in haveUndo
             /\ stored'[b].nTx <=> b \in processed
  BY Zenon, <1>2 DEF Saved
<1>4. ASSUME NEW b \in index
      PROVE  /\ stored'[b].haveData => stored'[b].nTx
             /\ stored'[b].haveUndo => stored'[b].haveData
             /\ stored'[b].nTx => stored'[b].haveData \/ prunedFlag'
  BY Zenon, <1>3 DEF Memory, LinkInv, DataInv
<1>5. ASSUME NEW b \in index
      PROVE  /\ stored'[b].validity >= BLOCK_VALID_TREE
             /\ stored'[b].validity >= BLOCK_VALID_TRANSACTIONS <=> stored'[b].nTx
             /\ stored'[b].validity = BLOCK_VALID_SCRIPTS =>
                   \A a \in Ancestors[b] \ {Genesis} : stored'[a].validity = BLOCK_VALID_SCRIPTS
  BY ZenonT(60), <1>1, <1>3 DEF Memory, ValidInv, IndexValid
<1>6. stored'[Genesis].nTx
  BY Zenon, <1>1, <1>3 DEF CoinsInv
<1> QED BY Zenon, <1>1, <1>4, <1>5, <1>6 DEF StoredInv

\* The chain below pcoinsTip is fully validated and, as long as nothing was pruned,
\* can be disconnected.
LEMMA CoinsChain ==
    ASSUME Memory, NEW a \in Ancestors[coins] \ {Genesis}
    PROVE  /\ a \in index /\ a \in processed /\ validity[a] = BLOCK_VALID_SCRIPTS
           /\ a \in haveUndo \/ havePruned
<1>1. coins \in Blocks /\ coins \in index /\ tip \in Blocks /\ pc \in [Threads -> Labels]
  BY Zenon DEF Memory, TypeInv, TypeOK
<1>2. a \in index
  BY Zenon, <1>1 DEF Memory, TypeInv, IndexClosed
<1>3. coins # Genesis
  BY Zenon, AncestorsAssumption
<1>4. validity[a] = BLOCK_VALID_SCRIPTS
  BY Zenon, <1>1, <1>3 DEF Memory, ValidInv, TipValid, IndexValid
<1>5. a \in processed
  <2>1. validity[a] >= BLOCK_VALID_TRANSACTIONS
    BY <1>4 DEF BLOCK_VALID_SCRIPTS, BLOCK_VALID_TRANSACTIONS
  <2> QED BY Zenon, <1>2, <2>1 DEF Memory, ValidInv, IndexValid
<1>6. Ancestors[coins] \subseteq Active \cup {coins}
  <2>1. CASE coins = tip
    BY Zenon, <2>1 DEF Active
  <2>2. CASE \E t \in Threads : pc[t] \in {"flushDisconnect", "flushInvalidate"}
    <3>1. tip # Genesis /\ coins = Parent[tip]
      BY Zenon, <2>2 DEF Memory, TypeInv, Locals
    <3> QED BY Zenon, <1>1, <3>1, AncestorsBasic DEF Active
  <2>3. CASE \E t \in Threads : pc[t] = "flushConnect"
    <3>1. Parent[coins] = tip
      BY Zenon, <2>3 DEF Memory, TypeInv, Locals, NextToConnect, Children
    <3> QED BY Zenon, <1>1, <1>3, <3>1, AncestorsBasic DEF Active
  <2> QED BY Zenon, <2>1, <2>2, <2>3 DEF Memory, TypeInv, CoinsAgree
<1>7. a \in haveUndo \/ havePruned
  BY Zenon, <1>6 DEF Memory, ValidInv, UndoKept
<1> QED BY Zenon, <1>2, <1>4, <1>5, <1>7

\* What is left of a flush after each write, and what is written next.
LEMMA FlushShapes ==
    /\ Tail(FullFlush) = <<"coins">> /\ Tail(PruneFlush) = <<"unlink", "coins">>
    /\ Tail(<<"index">>) = <<>> /\ Tail(<<"unlink", "coins">>) = <<"coins">> /\ Tail(<<"coins">>) = <<>>
    /\ Head(FullFlush) = "index" /\ Head(PruneFlush) = "index" /\ Head(<<"index">>) = "index"
    /\ Head(<<"unlink", "coins">>) = "unlink" /\ Head(<<"coins">>) = "coins"
    /\ <<>> \notin {<<"index">>, FullFlush, PruneFlush, <<"unlink", "coins">>, <<"coins">>}
    /\ <<"index">> \notin {PruneFlush, <<"unlink", "coins">>, <<"coins">>}
    /\ FullFlush \notin {PruneFlush, <<"unlink", "coins">>, <<"coins">>}
    /\ PruneFlush \notin {<<"unlink", "coins">>, <<"coins">>}
    /\ <<"unlink", "coins">> # <<"coins">>
BY DEF FullFlush, PruneFlush

\* A step of a handler that does not prune preserves StoreInv.
LEMMA PlainStep ==
    ASSUME Memory, StoreInv, Next, flush = <<>>, node # "dead", NEW t \in Threads, Plain(t)
    PROVE  StoreInv'
<1>1. /\ stored' = stored /\ prunedFlag' = prunedFlag /\ coinsDb' = coinsDb /\ flush' = flush /\ doomed' = doomed
      /\ node' = node /\ files \subseteq files' /\ haveData' \subseteq haveData \cup files'
      /\ havePruned' = havePruned /\ loaded' = loaded /\ heightless' = heightless /\ crashes' = crashes
  BY Zenon, PlainKeeps
<1>2. DirtyInv'
  <2>1. \E bs : Changes(bs)
    BY Zenon, ReceiveChanges, OperatorChanges, ContinueChanges DEF Memory, Plain
  <2> QED BY Zenon, <1>1, <2>1, ChangesKeepSaved DEF StoreInv
<1>3. StoredInv'
  BY Zenon, <1>1 DEF StoreInv, StoredInv, StoredIndex
<1>4. CoinsInv'
  <2>1. Genesis \in index
    BY Zenon DEF Memory, TypeInv, IndexClosed
  <2> QED BY Zenon, <1>1, <2>1, EntryStays DEF StoreInv, CoinsInv, Memory
<1>5. FilesInv'
  <2>1. DiskBehindIndex'
    BY Zenon, <1>1 DEF StoreInv, FilesInv, DiskBehindIndex, StoredWith
  <2> QED BY Zenon, <1>1, <2>1 DEF StoreInv, FilesInv
<1>6. FlushInv'
  <2>1. doomed = {}
    BY Zenon, FlushShapes DEF StoreInv, FlushInv
  <2>2. prunedFlag' = havePruned'
    BY <1>1 DEF StoreInv, FlushInv
  <2>3. /\ flush' \in {<<>>, <<"index">>, FullFlush, PruneFlush, Tail(PruneFlush), Tail(FullFlush)}
        /\ flush' \notin {Tail(PruneFlush), Tail(FullFlush)}
    BY Zenon, <1>1, FlushShapes
  <2> QED BY Zenon, <1>1, <2>1, <2>2, <2>3 DEF FlushInv, FullFlush, PruneFlush
<1>7. RestartFailsOnly'
  BY Zenon, <1>1 DEF RestartFailsOnly
<1>8. HeightInv'
  BY Zenon, <1>1 DEF StoreInv, HeightInv
<1> QED BY Zenon, <1>2, <1>3, <1>4, <1>5, <1>6, <1>7, <1>8 DEF StoreInv

\* So does one that prunes.
LEMMA PruneStep ==
    ASSUME Memory, StoreInv, Next, flush = <<>>, node # "dead",
           NEW t \in Threads, NEW bs \in SUBSET Blocks, PruneAndFlush(t, bs)
    PROVE  StoreInv'
<1>1. /\ stored' = stored /\ coinsDb' = coinsDb /\ doomed' = bs
      /\ node' = node /\ files' = files /\ haveData' = haveData \ bs
      /\ flush' = IF bs # {} THEN PruneFlush ELSE <<>>
      /\ loaded' = loaded /\ heightless' = heightless /\ crashes' = crashes
  BY Zenon DEF PruneAndFlush, Prune
<1>p. prunedFlag' = havePruned' /\ (prunedFlag => prunedFlag')
  BY Zenon DEF PruneAndFlush, Prune, StoreInv, FlushInv
<1>2. DirtyInv'
  BY Zenon, <1>1, PruneChanges, ChangesKeepSaved DEF StoreInv, Memory
<1>3. StoredInv'
  BY Zenon, <1>1, <1>p DEF StoreInv, StoredInv, StoredIndex
<1>4. CoinsInv'
  <2>1. Genesis \in index
    BY Zenon DEF Memory, TypeInv, IndexClosed
  <2> QED BY Zenon, <1>1, <2>1, EntryStays DEF StoreInv, CoinsInv, Memory
<1>5. FilesInv'
  <2>1. DiskBehindIndex'
    BY Zenon, <1>1, <1>p DEF StoreInv, FilesInv, DiskBehindIndex, StoredWith
  <2> QED BY Zenon, <1>1, <2>1 DEF StoreInv, FilesInv
<1>6. FlushInv'
  BY <1>1, <1>p DEF StoreInv, FlushInv, PruneFlush, FullFlush
<1>7. RestartFailsOnly'
  BY Zenon, <1>1 DEF RestartFailsOnly
<1>8. HeightInv'
  BY Zenon, <1>1 DEF StoreInv, HeightInv
<1> QED BY Zenon, <1>2, <1>3, <1>4, <1>5, <1>6, <1>7, <1>8 DEF StoreInv

\* Nothing is written when a flush begins or the node goes on to StartNode.
LEMMA BeginStep ==
    ASSUME Memory, StoreInv, flush = <<>>, node # "dead", BeginFlush \/ StartNode
    PROVE  StoreInv'
<1>1. /\ UNCHANGED <<vars, dirty, diskVars, doomed, loaded, crashes>> /\ node' # "dead"
      /\ flush' \in {<<>>, <<"index">>, FullFlush}
  BY Zenon DEF BeginFlush, StartNode
<1>2. DirtyInv'
  BY Zenon, <1>1 DEF StoreInv, DirtyInv, StoredIndex, Saved
<1>3. StoredInv'
  BY Zenon, <1>1 DEF StoreInv, StoredInv, StoredIndex
<1>4. CoinsInv'
  BY Zenon, <1>1 DEF StoreInv, CoinsInv
<1>5. FilesInv'
  <2>1. DiskBehindIndex'
    BY Zenon, <1>1 DEF StoreInv, FilesInv, DiskBehindIndex, StoredWith
  <2> QED BY Zenon, <1>1, <2>1 DEF StoreInv, FilesInv
<1>6. FlushInv'
  <2>1. doomed = {}
    BY Zenon, FlushShapes DEF StoreInv, FlushInv
  <2> QED BY <1>1, <2>1 DEF StoreInv, FlushInv, FullFlush, PruneFlush
<1>7. RestartFailsOnly'
  BY Zenon, <1>1 DEF RestartFailsOnly
<1>8. HeightInv'
  BY Zenon, <1>1 DEF StoreInv, HeightInv
<1> QED BY Zenon, <1>2, <1>3, <1>4, <1>5, <1>6, <1>7, <1>8 DEF StoreInv

\* The presence of data in a stored entry.
LEMMA StoredData == ASSUME NEW b \in Blocks PROVE b \in StoredWith("haveData") <=> stored[b] # NULL /\ stored[b].haveData
BY DEF StoredWith

\* When nothing is dirty the stored index is a picture of the one in memory.
LEMMA NothingDirty ==
    ASSUME TypeInv, DirtyInv, dirty = {}
    PROVE  /\ \A b \in index : Saved(b)
           /\ StoredWith("haveData") \subseteq haveData
<1>1. \A b \in index : Saved(b)
  BY Zenon DEF DirtyInv
<1>2. ASSUME NEW b \in StoredWith("haveData") PROVE b \in haveData
  <2>1. b \in Blocks /\ stored[b] # NULL /\ stored[b].haveData
    BY Zenon, StoredData DEF StoredWith
  <2>2. b \in index
    BY Zenon, <2>1 DEF DirtyInv, StoredIndex
  <2> QED BY Zenon, <1>1, <2>1, <2>2 DEF Saved
<1> QED BY Zenon, <1>1, <1>2

\* Each of the three writes of FlushStateToDisk preserves StoreInv.
LEMMA FlushStepKeeps ==
    ASSUME Memory, StoreInv, FlushStep
    PROVE  StoreInv'
<1>1. /\ UNCHANGED <<vars, prunedFlag, lifeVars>> /\ flush # <<>> /\ flush' = Tail(flush)
      /\ WriteIndex \/ UnlinkPrunedFiles \/ WriteCoins
  BY Zenon DEF FlushStep
<1>same. UNCHANGED <<index, validity, haveData, haveUndo, failedValid, failedChild, processed, havePruned>>
  BY Zenon, <1>1
<1>2. node' # "dead"
  BY Zenon, <1>1 DEF StoreInv, FlushInv
<1>3. RestartFailsOnly'
  BY Zenon, <1>2 DEF RestartFailsOnly
<1>4. prunedFlag' = havePruned' /\ (prunedFlag' <=> havePruned) /\ (prunedFlag <=> havePruned)
  BY <1>1, <1>same DEF StoreInv, FlushInv
<1>h. HeightInv'
  <2>1. heightless' \subseteq heightless \cup loaded
    BY Zenon, <1>1 DEF WriteIndex, UnlinkPrunedFiles, WriteCoins
  <2> QED BY Zenon, <1>1, <2>1 DEF StoreInv, HeightInv
<1>5. CASE WriteIndex
  <2>1. UNCHANGED <<files, doomed, coinsDb>> /\ Head(flush) = "index"
    BY Zenon, <1>5 DEF WriteIndex
  <2>2. /\ stored' \in [Blocks -> Entries \cup {NULL}] /\ dirty' = {} /\ StoredIndex' = index
        /\ \A b \in index : Saved(b)'
    BY Zenon, <1>1, <1>5, PictureTaken DEF StoreInv, Memory
  <2>3. DirtyInv'
    BY Zenon, <1>same, <2>2 DEF DirtyInv
  <2>4. StoredInv'
    BY Zenon, <1>1, <1>4, <2>2, PictureRight DEF StoreInv
  <2>5. CoinsInv'
    BY Zenon, <1>same, <2>1 DEF StoreInv, CoinsInv
  <2>6. FilesInv'
    <3>1. ASSUME NEW a \in Ancestors[coinsDb] \ {Genesis}
          PROVE  /\ stored'[a] # NULL /\ stored'[a].nTx /\ stored'[a].validity = BLOCK_VALID_SCRIPTS
                 /\ stored'[a].haveUndo \/ prunedFlag'
      <4>1. /\ a \in index /\ a \in processed /\ validity[a] = BLOCK_VALID_SCRIPTS
            /\ a \in haveUndo \/ havePruned
        BY Zenon, <3>1 DEF StoreInv, CoinsInv
      <4> QED BY Zenon, <1>same, <1>4, <2>2, <4>1 DEF Saved
    <3>2. ASSUME NEW b \in StoredWith("haveData")' PROVE b \in files'
      <4>1. b \in Blocks /\ stored'[b] # NULL /\ stored'[b].haveData
        BY <3>2 DEF StoredWith
      <4>2. b \in index
        BY Zenon, <2>2, <4>1 DEF StoredIndex
      <4>3. b \in haveData
        BY Zenon, <1>same, <2>2, <4>1, <4>2 DEF Saved
      <4> QED BY Zenon, <2>1, <4>3 DEF StoreInv, FilesInv
    <3> QED BY Zenon, <1>same, <2>1, <3>1, <3>2 DEF StoreInv, FilesInv, DiskBehindIndex
  <2>7. FlushInv'
    <3>1. flush \in {<<"index">>, FullFlush, PruneFlush}
      BY Zenon, <1>1, <2>1, FlushShapes DEF StoreInv, FlushInv
    <3>2. flush' \in {<<>>, Tail(FullFlush), Tail(PruneFlush)}
      BY Zenon, <1>1, <3>1, FlushShapes
    <3>3. doomed # {} => flush' = Tail(PruneFlush)
      BY Zenon, <1>1, <3>1, FlushShapes DEF StoreInv, FlushInv
    <3> QED BY Zenon, <1>same, <1>2, <1>4, <2>1, <2>2, <3>2, <3>3 DEF StoreInv, FlushInv
  <2> QED BY Zenon, <1>3, <1>h, <2>3, <2>4, <2>5, <2>6, <2>7 DEF StoreInv
<1>6. CASE UnlinkPrunedFiles
  <2>1. UNCHANGED <<dirty, stored, coinsDb>> /\ Head(flush) = "unlink" /\ files' = files \ doomed /\ doomed' = {}
    BY Zenon, <1>6 DEF UnlinkPrunedFiles
  <2>2. flush = Tail(PruneFlush) /\ flush' = Tail(FullFlush)
    BY Zenon, <1>1, <2>1, FlushShapes DEF StoreInv, FlushInv
  <2>3. DirtyInv'
    BY Zenon, <1>same, <2>1 DEF StoreInv, DirtyInv, StoredIndex, Saved
  <2>4. StoredInv'
    BY ZenonT(60), <1>1, <2>1 DEF StoreInv, StoredInv, StoredIndex
  <2>5. CoinsInv'
    BY Zenon, <1>same, <2>1 DEF StoreInv, CoinsInv
  <2>6. FilesInv'
    <3>1. haveData \subseteq files \ doomed
      BY Zenon DEF StoreInv, FilesInv, FlushInv
    <3>2. StoredWith("haveData") \subseteq haveData
      BY Zenon, <2>2, NothingDirty DEF StoreInv, FlushInv, Memory
    <3>3. StoredWith("haveData")' = StoredWith("haveData")
      BY ZenonT(60), <2>1 DEF StoredWith
    <3>4. \A a \in Ancestors[coinsDb'] \ {Genesis} :
             /\ stored'[a] # NULL
             /\ stored'[a].nTx /\ stored'[a].validity = BLOCK_VALID_SCRIPTS
             /\ stored'[a].haveUndo \/ prunedFlag'
      BY Zenon, <1>1, <2>1 DEF StoreInv, FilesInv, DiskBehindIndex
    <3> QED BY Zenon, <1>same, <2>1, <3>1, <3>2, <3>3, <3>4 DEF FilesInv, DiskBehindIndex
  <2>7. FlushInv'
    BY Zenon, <1>same, <1>2, <1>4, <2>1, <2>2 DEF StoreInv, FlushInv
  <2> QED BY Zenon, <1>3, <1>h, <2>3, <2>4, <2>5, <2>6, <2>7 DEF StoreInv
<1>7. CASE WriteCoins
  <2>1. UNCHANGED <<dirty, stored, files, doomed>> /\ Head(flush) = "coins" /\ coinsDb' = coins
    BY Zenon, <1>7 DEF WriteCoins
  <2>2. flush = Tail(FullFlush) /\ flush' = <<>>
    BY Zenon, <1>1, <2>1, FlushShapes DEF StoreInv, FlushInv
  <2>3. DirtyInv'
    BY Zenon, <1>same, <2>1 DEF StoreInv, DirtyInv, StoredIndex, Saved
  <2>4. StoredInv'
    BY Zenon, <1>1, <2>1 DEF StoreInv, StoredInv, StoredIndex
  <2>5. CoinsInv'
    <3>1. coins \in Blocks
      BY Zenon DEF Memory, TypeInv, TypeOK
    <3>2. \A a \in Ancestors[coins] \ {Genesis} :
             /\ a \in index' /\ a \in processed' /\ validity'[a] = BLOCK_VALID_SCRIPTS
             /\ a \in haveUndo' \/ havePruned'
      BY Zenon, <1>same, CoinsChain
    <3>3. Genesis \in processed'
      BY Zenon, <1>same DEF StoreInv, CoinsInv
    <3> QED BY Zenon, <2>1, <3>1, <3>2, <3>3 DEF CoinsInv
  <2>6. FilesInv'
    <3>1. \A b \in index : Saved(b)
      BY Zenon, <2>2, NothingDirty DEF StoreInv, FlushInv, Memory
    <3>2. \A a \in Ancestors[coins] \ {Genesis} :
             /\ stored[a] # NULL
             /\ stored[a].nTx /\ stored[a].validity = BLOCK_VALID_SCRIPTS
             /\ stored[a].haveUndo \/ prunedFlag
      BY Zenon, <1>4, <3>1, CoinsChain DEF Saved
    <3>3. StoredWith("haveData")' = StoredWith("haveData")
      BY <2>1 DEF StoredWith
    <3>4. \A a \in Ancestors[coinsDb'] \ {Genesis} :
             /\ stored'[a] # NULL
             /\ stored'[a].nTx /\ stored'[a].validity = BLOCK_VALID_SCRIPTS
             /\ stored'[a].haveUndo \/ prunedFlag'
      BY Zenon, <1>1, <2>1, <3>2
    <3> QED BY Zenon, <1>same, <2>1, <3>3, <3>4 DEF StoreInv, FilesInv, DiskBehindIndex
  <2>7. FlushInv'
    <3>1. doomed = {}
      BY Zenon, <2>2, FlushShapes DEF StoreInv, FlushInv
    <3>2. flush' \notin {Tail(PruneFlush), Tail(FullFlush)}
      BY Zenon, <2>2, FlushShapes
    <3> QED BY Zenon, <1>same, <1>2, <1>4, <2>1, <2>2, <3>1, <3>2 DEF FlushInv
  <2> QED BY Zenon, <1>3, <1>h, <2>3, <2>4, <2>5, <2>6, <2>7 DEF StoreInv
<1> QED BY Zenon, <1>1, <1>5, <1>6, <1>7

-----------------------------------------------------------------------------
(* The next start of the node. *)

\* LoadBlockIndexDB brings back every stored entry as it was written.
LEMMA Loaded ==
    ASSUME StoreInv, NEW t \in Threads, Restart(t)
    PROVE  /\ index' = StoredIndex
           /\ \A b \in Blocks :
                 /\ validity'[b] = IF stored[b] = NULL THEN BLOCK_VALID_UNKNOWN ELSE stored[b].validity
                 /\ b \in haveData' <=> stored[b] # NULL /\ stored[b].haveData
                 /\ b \in haveUndo' <=> stored[b] # NULL /\ stored[b].haveUndo
                 /\ b \in failedValid' <=> stored[b] # NULL /\ stored[b].failedValid
                 /\ b \in failedChild' <=> stored[b] # NULL /\ stored[b].failedChild
                 /\ b \in processed' <=> stored[b] # NULL /\ stored[b].nTx
           /\ haveData' \cup haveUndo' \cup failedValid' \cup failedChild' \cup processed' \subseteq StoredIndex
           /\ linked' = {b \in processed' : Ancestors[b] \subseteq processed'}
           /\ stored' = stored /\ prunedFlag' = prunedFlag /\ files' = files /\ coinsDb' = coinsDb
           /\ dirty' \subseteq StoredIndex /\ flush' = <<>> /\ doomed' = {}
<1>1. LoadBlockIndexDB
  BY Zenon DEF Restart
<1>2. index' = StoredIndex /\ linked' = {b \in processed' : Ancestors[b] \subseteq processed'}
  BY Zenon, <1>1 DEF LoadBlockIndexDB, StoredIndex, LinkedAgain
<1>3. /\ validity' = [b \in Blocks |-> IF stored[b] = NULL THEN BLOCK_VALID_UNKNOWN ELSE stored[b].validity]
      /\ haveData' = StoredWith("haveData") /\ haveUndo' = StoredWith("haveUndo")
      /\ failedValid' = StoredWith("failedValid") /\ failedChild' = StoredWith("failedChild")
      /\ processed' = StoredWith("nTx")
  BY Zenon, <1>1 DEF LoadBlockIndexDB
<1>4. ASSUME NEW b \in Blocks
      PROVE  /\ b \in haveData' <=> stored[b] # NULL /\ stored[b].haveData
             /\ b \in haveUndo' <=> stored[b] # NULL /\ stored[b].haveUndo
             /\ b \in failedValid' <=> stored[b] # NULL /\ stored[b].failedValid
             /\ b \in failedChild' <=> stored[b] # NULL /\ stored[b].failedChild
             /\ b \in processed' <=> stored[b] # NULL /\ stored[b].nTx
  BY Zenon, <1>3 DEF StoredWith
<1>5. \A b \in Blocks : validity'[b] = IF stored[b] = NULL THEN BLOCK_VALID_UNKNOWN ELSE stored[b].validity
  BY Zenon, <1>3
<1>6. haveData' \cup haveUndo' \cup failedValid' \cup failedChild' \cup processed' \subseteq StoredIndex
  BY Zenon, <1>3 DEF StoredWith, StoredIndex
<1>7. /\ stored' = stored /\ prunedFlag' = prunedFlag /\ files' = files /\ coinsDb' = coinsDb
      /\ flush' = <<>> /\ doomed' = {}
  BY DEF Restart
<1>8. dirty' \subseteq StoredIndex
  BY Zenon, <1>6 DEF Restart, VerifyDB, Failed
<1> QED BY Zenon, <1>2, <1>4, <1>5, <1>6, <1>7, <1>8

\* The chain of the coin database was received completely, so the tip that is set
\* from it is linked.
LEMMA TipLoaded ==
    ASSUME StoreInv, NEW t \in Threads, Restart(t)
    PROVE  /\ tip' = coinsDb /\ coins' = coinsDb /\ coinsDb \in Blocks
           /\ Ancestors[coinsDb] \subseteq processed' /\ coinsDb \in linked' /\ Genesis \in processed'
           /\ \A a \in Ancestors[coinsDb] \ {Genesis} :
                 validity'[a] = BLOCK_VALID_SCRIPTS /\ (a \in haveUndo' \/ prunedFlag)
<1>1. tip' = coinsDb /\ coins' = coinsDb
  BY Zenon DEF Restart, LoadBlockIndexDB
<1>2. coinsDb \in Blocks /\ Ancestors[coinsDb] \subseteq Blocks /\ coinsDb \in Ancestors[coinsDb]
  BY Zenon, AncestorsBasic DEF StoreInv, CoinsInv
<1>3. Genesis \in processed'
  BY Zenon, Loaded DEF StoreInv, StoredInv, StoredIndex
<1>4. ASSUME NEW a \in Ancestors[coinsDb] \ {Genesis}
      PROVE  a \in processed' /\ validity'[a] = BLOCK_VALID_SCRIPTS /\ (a \in haveUndo' \/ prunedFlag)
  <2>1. /\ a \in Blocks /\ stored[a] # NULL /\ stored[a].nTx /\ stored[a].validity = BLOCK_VALID_SCRIPTS
        /\ stored[a].haveUndo \/ prunedFlag
    BY Zenon, <1>2 DEF StoreInv, FilesInv, DiskBehindIndex
  <2> QED BY Zenon, <2>1, Loaded
<1>5. Ancestors[coinsDb] \subseteq processed'
  BY Zenon, <1>3, <1>4
<1>6. coinsDb \in linked'
  BY Zenon, <1>2, <1>5, Loaded
<1> QED BY Zenon, <1>1, <1>2, <1>3, <1>4, <1>5, <1>6

\* A start of the node establishes the layer of types and locals: one thread goes on
\* with the last steps of start-up, which hold cs_main.
LEMMA RestartTypes ==
    ASSUME StoreInv, havePruned \in BOOLEAN, NEW t \in Threads, Restart(t)
    PROVE  TypeInv'
<1>1. LoadBlockIndexDB /\ pc' = [u \in Threads |-> IF u = t THEN "stored" ELSE "idle"] /\ checkForPruning' = PruneMode
  BY Zenon DEF Restart, BeginActivation
<1>2. pindex' = [u \in Threads |-> NULL] /\ oldTip' = NULL
  BY Zenon DEF Restart
<1>3. index' \subseteq Blocks /\ stored \in [Blocks -> Entries \cup {NULL}]
  BY Zenon, Loaded DEF StoredIndex, StoreInv, DirtyInv
<1>4. validity' \in [Blocks -> 0 .. 5]
  <2>1. \A b \in Blocks : stored[b] # NULL => stored[b].validity \in 0 .. 5
    <3>1. \A e \in Entries : e.validity \in 0 .. 5
      BY DEF Entries
    <3> QED BY Zenon, <1>3, <3>1
  <2>2. validity' = [b \in Blocks |-> IF stored[b] = NULL THEN BLOCK_VALID_UNKNOWN ELSE stored[b].validity]
    BY Zenon, <1>1 DEF LoadBlockIndexDB
  <2> QED BY <2>1, <2>2 DEF BLOCK_VALID_UNKNOWN
<1>5. /\ haveData' \subseteq index' /\ haveUndo' \subseteq index' /\ failedValid' \subseteq index'
      /\ failedChild' \subseteq index' /\ processed' \subseteq index' /\ linked' \subseteq index'
  BY Zenon, Loaded
<1>6. candidates' \subseteq index' /\ addr' \in Addresses
  BY Zenon, <1>1, <1>5 DEF LoadBlockIndexDB
<1>7. /\ sequenceId' \in [Blocks -> Nat] /\ nextSequenceId' \in Nat
      /\ unlinked' \in [Blocks -> Nat] /\ toLink' \in [Blocks -> Nat]
  BY Zenon, <1>1 DEF LoadBlockIndexDB
<1>8. tip' \in index' /\ coins' \in index'
  BY Zenon, <1>5, TipLoaded
<1>9. havePruned' \in BOOLEAN /\ checkForPruning' \in BOOLEAN
  <2>1. havePruned' = havePruned
    BY Zenon, <1>1 DEF LoadBlockIndexDB, StoreInv, FlushInv
  <2> QED BY ZenonT(60), <1>1, <2>1, ChainStateAssumption
<1>10. /\ pc' \in [Threads -> Labels] /\ pindex' \in [Threads -> index' \cup {NULL}] /\ oldTip' \in index' \cup {NULL}
  BY <1>1, <1>2 DEF Labels, Locked, FlushPoints
<1>11. TypeOK'
  BY Zenon, <1>3, <1>4, <1>5, <1>6, <1>7, <1>8, <1>9, <1>10 DEF TypeOK
<1>12. Queued'
  <2>1. \A b \in Blocks \ index' : b \notin processed'
    BY Zenon, <1>5
  <2> QED BY Zenon, <1>1, <2>1 DEF LoadBlockIndexDB, Queued
<1>13. IndexClosed'
  BY Zenon, Loaded DEF StoreInv, StoredInv, IndexClosed
<1>14. OneHolder'
  BY Zenon, <1>1 DEF OneHolder, Locked, FlushPoints
<1>15. CoinsAgree'
  BY Zenon, TipLoaded DEF CoinsAgree
<1>16. ASSUME NEW u \in Threads PROVE Locals(u)'
  BY Zenon, <1>1 DEF Locals, Activating, Invalidating
<1> QED BY Zenon, <1>11, <1>12, <1>13, <1>14, <1>15, <1>16 DEF TypeInv

\* It establishes the other layers: nChainTx is set where all ancestors were received,
\* and the levels of the stored entries fit together because they were written
\* together.
LEMMA RestartLayers ==
    ASSUME StoreInv, NEW t \in Threads, Restart(t)
    PROVE  LinkInv' /\ PathInv' /\ ValidInv'
<1>1. LoadBlockIndexDB /\ pc' = [u \in Threads |-> IF u = t THEN "stored" ELSE "idle"]
  BY Zenon DEF Restart, BeginActivation
<1>2. havePruned' <=> prunedFlag
  BY ZenonT(60), <1>1 DEF LoadBlockIndexDB
<1>3. \A b \in Blocks : toLink'[b] = 0 /\ ~(toLink'[b] > 0)
  <2>1. toLink' = [b \in Blocks |-> 0]
    BY Zenon, <1>1 DEF LoadBlockIndexDB
  <2> QED BY <2>1
<1>4. index' = StoredIndex /\ index' \subseteq Blocks
  BY Zenon, Loaded DEF StoredIndex
<1>5. DataInv'
  <2>1. haveData' \subseteq processed' /\ haveUndo' \subseteq haveData' /\ linked' \subseteq processed'
    BY Zenon, <1>4, Loaded DEF StoreInv, StoredInv, StoredIndex
  <2>2. havePruned' \/ processed' \subseteq haveData'
    BY Zenon, <1>2, <1>4, Loaded DEF StoreInv, StoredInv, StoredIndex
  <2> QED BY Zenon, <2>1, <2>2 DEF DataInv
<1>6. QueueInv'
  <2>1. \A b \in Blocks : unlinked'[b] > 0 => b \in processed'
    <3>1. unlinked' = [b \in Blocks |-> IF b \in processed' \ linked' /\ Parent[b] \notin linked' THEN 1 ELSE 0]
      BY Zenon, <1>1 DEF LoadBlockIndexDB
    <3> QED BY <3>1
  <2> QED BY Zenon, <1>3, <2>1 DEF QueueInv, Waits
<1>7. LinkedInv'
  <2>1. ASSUME NEW b \in linked', NEW a \in Ancestors[b] PROVE a \in linked'
    <3>1. b \in Blocks /\ a \in Blocks /\ Ancestors[b] \subseteq processed'
      BY Zenon, <1>4, Loaded, AncestorsBasic
    <3>2. Ancestors[a] \subseteq Ancestors[b]
      BY Zenon, <3>1, AncestorsAssumption
    <3> QED BY Zenon, <3>1, <3>2, Loaded
  <2>2. \A b \in Blocks : sequenceId'[b] = 0
    BY Zenon, <1>1 DEF LoadBlockIndexDB
  <2> QED BY Zenon, <2>1, <2>2 DEF LinkedInv
<1>8. ChoiceInv'
  <2>1. candidates' \subseteq linked'
    BY Zenon, <1>1 DEF LoadBlockIndexDB
  <2>2. \A u \in Threads : pc'[u] \notin Activating
    BY Zenon, <1>1 DEF Activating
  <2> QED BY Zenon, <2>1, <2>2, TipLoaded DEF ChoiceInv
<1>9. PathInv'
  <2>1. pc'[t] = "stored" /\ \A u \in Threads : pc'[u] \notin Activating
    BY Zenon, <1>1 DEF Activating
  <2> QED BY Zenon, <2>1 DEF PathInv, PruneFlag, PathUsable
<1>10. ValidInv'
  <2>1. \A b \in index' : b \in Blocks /\ validity'[b] = stored[b].validity /\ (b \in processed' <=> stored[b].nTx)
    BY Zenon, <1>4, Loaded DEF StoredIndex
  <2>2. IndexValid'
    BY Zenon, <1>4, <2>1 DEF StoreInv, StoredInv, IndexValid
  <2>3. TipValid'
    BY Zenon, TipLoaded, AncestorsBasic DEF TipValid
  <2>4. UndoKept'
    BY Zenon, <1>2, TipLoaded, AncestorsBasic DEF UndoKept, Active
  <2> QED BY Zenon, <2>2, <2>3, <2>4 DEF ValidInv
<1> QED BY Zenon, <1>5, <1>6, <1>7, <1>8, <1>9, <1>10 DEF LinkInv

\* It leaves the disk as it is, and fails only for the reasons named.
LEMMA RestartStore ==
    ASSUME StoreInv, NEW t \in Threads, Restart(t)
    PROVE  StoreInv'
<1>1. /\ index' = StoredIndex /\ stored' = stored /\ files' = files /\ coinsDb' = coinsDb
      /\ dirty' \subseteq StoredIndex /\ flush' = <<>> /\ doomed' = {}
  BY Zenon, Loaded
<1>2. prunedFlag' = prunedFlag /\ havePruned' = prunedFlag
  BY Zenon DEF Restart, LoadBlockIndexDB
<1>3. DirtyInv'
  <2>1. ASSUME NEW b \in index' PROVE Saved(b)'
    <3>1. b \in Blocks /\ stored[b] # NULL
      BY Zenon, <1>1 DEF StoredIndex
    <3> QED BY Zenon, <1>1, <3>1, Loaded DEF Saved
  <2>2. StoredIndex' = StoredIndex
    BY ZenonT(60), <1>1 DEF StoredIndex
  <2> QED BY Zenon, <1>1, <2>1, <2>2 DEF StoreInv, DirtyInv
<1>4. StoredInv'
  BY Zenon, <1>1, <1>2 DEF StoreInv, StoredInv, StoredIndex
<1>5. CoinsInv'
  <2>1. \A a \in Ancestors[coinsDb] \ {Genesis} : a \in haveUndo' \/ havePruned'
    <3>1. prunedFlag => havePruned'
      BY <1>2
    <3> QED BY Zenon, <3>1, TipLoaded
  <2>2. processed' \subseteq index'
    BY Zenon, Loaded
  <2> QED BY Zenon, <1>1, <2>1, <2>2, TipLoaded DEF CoinsInv
<1>6. FilesInv'
  <2>1. DiskBehindIndex'
    BY Zenon, <1>1, <1>2 DEF StoreInv, FilesInv, DiskBehindIndex, StoredWith
  <2>2. haveData' = StoredWith("haveData")
    BY Zenon DEF Restart, LoadBlockIndexDB
  <2> QED BY Zenon, <1>1, <2>1, <2>2 DEF StoreInv, FilesInv, DiskBehindIndex
<1>7. FlushInv'
  <2>1. prunedFlag' = havePruned'
    BY <1>2
  <2>2. flush' \notin {Tail(PruneFlush), Tail(FullFlush)}
    BY Zenon, <1>1, FlushShapes
  <2> QED BY Zenon, <1>1, <2>1, <2>2 DEF FlushInv
<1>9. HeightInv' /\ (heightless # {} => crashes' > 1 /\ heightless' # {})
  <2>1. crashes' = crashes + 1 /\ heightless' = heightless
    BY Zenon DEF Restart
  <2>2. crashes \in Nat /\ (heightless # {} => crashes # 0)
    BY Zenon DEF StoreInv, HeightInv
  <2>3. crashes' \in Nat /\ crashes' # 0 /\ (crashes # 0 => crashes' > 1)
    BY <2>1, <2>2
  <2> QED BY Zenon, <2>1, <2>2, <2>3 DEF HeightInv
<1>8. RestartFailsOnly'
  <2> SUFFICES ASSUME node' = "dead", Unmarked(coinsDb), heightless = {}
               PROVE  /\ prunedFlag
                      /\ \E a \in Verified(coinsDb) : ~stored[a].haveUndo \/ ~stored[Parent[a]].haveData
    <3>1. heightless # {} => crashes' > 1 /\ heightless' # {}
      BY <1>9
    <3> QED BY Zenon, <1>1, <1>2, <3>1 DEF RestartFailsOnly, Unmarked, Verified
  <2>1. PICK undone \in SUBSET Verified(coinsDb) : StartUpFails(undone)
    <3>1. PICK low : VerifyDB(low)
      BY Zenon DEF Restart
    <3>2. StartUpFails({a \in Verified(tip') : Height[a] > low})
      BY Zenon, <3>1 DEF VerifyDB
    <3> QED BY Zenon, <3>2, TipLoaded
  <2>2. haveData' \subseteq files
    BY Zenon, <1>1, <1>6 DEF FilesInv
  <2>3. coinsDb \in candidates'
    <3>1. coinsDb \in linked' /\ coinsDb \in Blocks /\ tip' = coinsDb /\ coinsDb \in processed'
      BY Zenon, TipLoaded, Loaded
    <3>2. coinsDb \notin failedValid' \cup failedChild'
      BY Zenon, <3>1, Loaded DEF Unmarked
    <3>3. validity'[coinsDb] >= BLOCK_VALID_TRANSACTIONS
      BY Zenon, <3>1, Loaded DEF StoreInv, StoredInv, StoredIndex
    <3>4. /\ candidates' = {b \in linked' : /\ b \notin failedValid' \cup failedChild'
                                            /\ validity'[b] >= BLOCK_VALID_TRANSACTIONS
                                            /\ ~Worse(sequenceId, b, tip)'}
          /\ addr' \in Addresses /\ sequenceId' = [b \in Blocks |-> 0]
      BY Zenon DEF Restart, LoadBlockIndexDB
    <3>5. \A b \in Blocks : b = tip' => ~Worse(sequenceId, b, tip)'
      BY <3>4, TreeAssumption, ChainStateAssumption DEF Worse
    <3> QED BY Zenon, <3>1, <3>2, <3>3, <3>4, <3>5
  <2>4. ~(Verified(coinsDb) \subseteq haveData') \/ ~(undone \subseteq haveUndo') \/ \E a \in undone : Parent[a] \notin haveData'
    BY Zenon, <2>1, <2>2, <2>3, TipLoaded DEF StartUpFails
  <2>5. PICK a \in Verified(coinsDb) : a \notin haveUndo' \/ Parent[a] \notin haveData'
    <3>1. haveUndo' \subseteq haveData'
      BY Zenon, RestartLayers DEF LinkInv, DataInv
    <3> QED BY Zenon, <2>4, <3>1
  <2>6. a \in Ancestors[coinsDb] \ {Genesis} /\ a \in Blocks /\ Parent[a] \in Ancestors[coinsDb] /\ Parent[a] \in Blocks
    <3>1. a \in Ancestors[coinsDb] \ {Genesis} /\ a \in Blocks
      BY Zenon, TipLoaded, AncestorsBasic DEF Verified
    <3>2. Ancestors[a] \subseteq Ancestors[coinsDb] /\ Parent[a] \in Ancestors[a]
      BY Zenon, <3>1, TipLoaded, AncestorsBasic, AncestorsAssumption
    <3> QED BY Zenon, <3>1, <3>2, TipLoaded, AncestorsBasic
  <2>7. stored[a] # NULL /\ stored[Parent[a]] # NULL
    BY Zenon, <2>6, TipLoaded, Loaded
  <2>8. ~stored[a].haveUndo \/ ~stored[Parent[a]].haveData
    BY Zenon, <2>5, <2>6, <2>7, Loaded
  <2>9. prunedFlag
    <3>1. a \notin haveUndo' => prunedFlag
      BY Zenon, <2>6, TipLoaded
    <3>2. Parent[a] \notin haveData' => prunedFlag
      BY Zenon, <2>6, <2>7, TipLoaded, Loaded DEF StoreInv, StoredInv, StoredIndex
    <3> QED BY Zenon, <2>5, <3>1, <3>2
  <2> QED BY Zenon, <2>8, <2>9
<1> QED BY Zenon, <1>3, <1>4, <1>5, <1>6, <1>7, <1>8, <1>9 DEF StoreInv

-----------------------------------------------------------------------------
(* Every state *)

\* InitBlockIndex has written the genesis block, and nothing else is known.
LEMMA StoreInvInit == StoreInit => Memory /\ StoreInv
<1> SUFFICES ASSUME StoreInit PROVE Memory /\ StoreInv
  OBVIOUS
<1>1. Memory
  BY Zenon, TypeInvInit, LinkInvInit, PathInvInit, ValidInvInit DEF StoreInit, Memory
<1>2. /\ dirty = {} /\ stored = [b \in Blocks |-> IF b = Genesis THEN Record(b) ELSE NULL]
      /\ files = {Genesis} /\ coinsDb = Genesis /\ flush = <<>> /\ doomed = {} /\ node = "up"
  BY Zenon DEF StoreInit
<1>3. prunedFlag = FALSE /\ havePruned = FALSE
  BY Zenon DEF StoreInit, Init
<1>4. index = {Genesis} /\ processed = {Genesis} /\ haveData = {Genesis} /\ haveUndo = {} /\ validity[Genesis] = 3
  BY TreeAssumption DEF StoreInit, Init, BLOCK_VALID_TRANSACTIONS
<1>5. Genesis \in Blocks /\ Ancestors[Genesis] = {Genesis}
  BY TreeAssumption, AncestorsAssumption
<1>6. stored[Genesis] = Record(Genesis) /\ \A b \in Blocks \ {Genesis} : stored[b] = NULL
  BY Zenon, <1>2, <1>5
<1>7. TypeInv
  BY Zenon, <1>1 DEF Memory
<1>8. Saved(Genesis)
  BY Zenon, <1>5, <1>6, <1>7, RecordFields DEF Saved
<1>9. StoredIndex = {Genesis}
  BY <1>5, <1>6, <1>8 DEF StoredIndex, Saved
<1>10. DirtyInv
  <2>1. \A b \in Blocks : Record(b) \in Entries
    BY Zenon, <1>7, RecordFields
  <2>2. stored \in [Blocks -> Entries \cup {NULL}]
    BY <1>2, <2>1
  <2> QED BY Zenon, <1>2, <1>4, <1>8, <1>9, <2>2 DEF DirtyInv
<1>11. /\ stored[Genesis].nTx /\ stored[Genesis].haveData /\ ~stored[Genesis].haveUndo /\ stored[Genesis].validity = 3
  BY Zenon, <1>4, <1>8 DEF Saved
<1>12. StoredInv
  <2>1. 3 >= BLOCK_VALID_TREE /\ 3 >= BLOCK_VALID_TRANSACTIONS /\ 3 # BLOCK_VALID_SCRIPTS
    BY DEF BLOCK_VALID_TREE, BLOCK_VALID_TRANSACTIONS, BLOCK_VALID_SCRIPTS
  <2> QED BY Zenon, <1>5, <1>9, <1>11, <2>1 DEF StoredInv
<1>13. CoinsInv
  BY Zenon, <1>2, <1>4, <1>5 DEF CoinsInv
<1>14. FilesInv
  BY Zenon, <1>2, <1>4, <1>5, <1>6 DEF FilesInv, DiskBehindIndex, StoredWith
<1>15. FlushInv
  <2>1. flush = <<>> /\ flush # Tail(PruneFlush) /\ flush # Tail(FullFlush)
    BY Zenon, <1>2, FlushShapes
  <2>2. prunedFlag = havePruned
    BY Zenon, <1>3
  <2> QED BY Zenon, <1>2, <2>1, <2>2 DEF FlushInv
<1>16. RestartFailsOnly
  BY Zenon, <1>2 DEF RestartFailsOnly
<1>17. HeightInv
  BY DEF StoreInit, HeightInv
<1> QED BY Zenon, <1>1, <1>10, <1>12, <1>13, <1>14, <1>15, <1>16, <1>17 DEF StoreInv

\* Every step keeps the layers: the steps of the handlers as without a store, and a
\* restart because what it loads is a picture of an earlier index.
LEMMA MemoryStep == Memory /\ StoreInv /\ [StoreNext]_allVars => Memory'
<1> SUFFICES ASSUME Memory, StoreInv, [StoreNext]_allVars PROVE Memory'
  OBVIOUS
<1>1. CASE [Next]_vars
  BY Zenon, <1>1, TypeInvStep, LinkInvStep, PathInvStep, ValidInvStep DEF Memory
<1>2. ASSUME NEW t \in Threads, Restart(t) PROVE Memory'
  <2>1. havePruned \in BOOLEAN
    BY Zenon DEF Memory, TypeInv, TypeOK
  <2> QED BY Zenon, <1>2, <2>1, RestartTypes, RestartLayers DEF Memory
<1>3. CASE UNCHANGED allVars
  BY Zenon, <1>1, <1>3 DEF allVars
<1> QED BY Zenon, <1>1, <1>2, <1>3, StepsOfChainState

\* Every step keeps what is on disk loadable.
LEMMA StoreInvStep == Memory /\ StoreInv /\ [StoreNext]_allVars => StoreInv'
<1> SUFFICES ASSUME Memory, StoreInv, [StoreNext]_allVars PROVE StoreInv'
  OBVIOUS
<1>1. ASSUME flush = <<>>, node # "dead", NEW t \in Threads, Plain(t) PROVE StoreInv'
  <2>1. ReceiveDirty(t) => Receive(t)
    BY Zenon DEF ReceiveDirty, Store, Receive
  <2>2. OperatorDirty(t) => Operator(t)
    BY Zenon DEF OperatorDirty, Operator
  <2>3. ContinueDirty(t) => Continue(t)
    BY Zenon DEF ContinueDirty, Continue
  <2>4. Next
    BY Zenon, <1>1, <2>1, <2>2, <2>3 DEF Plain, Next
  <2> QED BY Zenon, <1>1, <2>4, PlainStep
<1>2. ASSUME flush = <<>>, node # "dead", NEW t \in Threads, NEW bs \in SUBSET Blocks, PruneAndFlush(t, bs)
      PROVE  StoreInv'
  <2>1. Next
    BY ZenonT(60), <1>2 DEF PruneAndFlush, Next
  <2> QED BY Zenon, <1>2, <2>1, PruneStep
<1>3. CASE UNCHANGED allVars
  BY Zenon, <1>3 DEF allVars, storeVars, StoreInv, DirtyInv, StoredIndex, Saved, StoredInv, CoinsInv, FilesInv,
     DiskBehindIndex, StoredWith, FlushInv, HeightInv, RestartFailsOnly, Unmarked, Verified
<1> QED BY Zenon, <1>1, <1>2, <1>3, StoreKinds, BeginStep, FlushStepKeeps, RestartStore

\* The layers of the index in memory and the invariant of the store hold in every state.
LEMMA StoreLayers == StoreSpec => [](Memory /\ StoreInv)
<1>1. Memory /\ StoreInv /\ [StoreNext]_allVars => (Memory /\ StoreInv)'
  BY Zenon, MemoryStep, StoreInvStep
<1> QED BY <1>1, StoreInvInit, PTL DEF StoreSpec

-----------------------------------------------------------------------------
(* The theorems *)

\* FlushStateToDisk writes the index before it removes files and before it writes the
\* coins: wherever the node crashes, the stored index has every block of the chain of the
\* coin database, received and fully validated, and a file for every block it has data of.
THEOREM DiskConsistency == StoreSpec => []DiskBehindIndex
<1>1. StoreInv => DiskBehindIndex
  BY Zenon DEF StoreInv, FilesInv
<1> QED BY <1>1, StoreLayers, PTL

\* No handler forgets setDirtyBlockIndex: an entry that is not in it is on disk as it is in
\* memory, but for a BLOCK_FAILED_CHILD and for nBlockHeight.
THEOREM NothingForgotten == StoreSpec => []UnsavedAreDirty
<1>1. Memory /\ StoreInv => UnsavedAreDirty
  <2> SUFFICES ASSUME Memory, StoreInv, NEW b \in index \ dirty
               PROVE  /\ stored[b] # NULL
                      /\ stored[b].failedChild => b \in failedChild
                      /\ Record(b) = [stored[b] EXCEPT !.failedChild = b \in failedChild]
    BY Zenon DEF UnsavedAreDirty
  <2>1. Saved(b) /\ b \in Blocks
    BY Zenon DEF StoreInv, DirtyInv, Memory, TypeInv, TypeOK
  <2>2. stored[b] \in Entries
    BY Zenon, <2>1 DEF StoreInv, DirtyInv, Saved
  <2>3. Record(b) = [stored[b] EXCEPT !.failedChild = b \in failedChild]
    BY SMTT(30), <2>1, <2>2 DEF Record, Saved, Entries
  <2> QED BY Zenon, <2>1, <2>3 DEF Saved
<1> QED BY <1>1, StoreLayers, PTL

\* LoadBlockIndexDB and VerifyDB refuse what a crash left only if the coin database is at a
\* block marked invalid, if VerifyDB needs a block that was pruned, or its ConnectBlock
\* the pruned block below, or if the index has an entry that an earlier start had read and
\* that was then written again, without its nBlockHeight.
THEOREM RestartRecovers == StoreSpec => []RestartFailsOnly
<1>1. StoreInv => RestartFailsOnly
  BY Zenon DEF StoreInv
<1> QED BY <1>1, StoreLayers, PTL

\* IndexConsistent, the part of CheckBlockIndex about received, linked and validated
\* blocks, holds also after any number of crashes and restarts, with pruning,
\* invalidateblock and reconsiderblock.
THEOREM IndexSurvivesRestarts == StoreSpec => []IndexConsistent
<1>1. Memory => IndexConsistent
  BY Zenon, LayersIndex DEF Memory
<1> QED BY <1>1, StoreLayers, PTL

\* The asserts of ConnectBlock and DisconnectBlock hold also after any number of crashes
\* and restarts: pcoinsTip, read from the coin database, belongs to the tip of chainActive,
\* whose blocks are fully validated and can be disconnected until pruning starts.
THEOREM ActiveChainSurvivesRestarts == StoreSpec => []ActiveChainConsistent
<1>1. Memory => ActiveChainConsistent
  BY Zenon, LayersActive DEF Memory
<1> QED BY <1>1, StoreLayers, PTL

-----------------------------------------------------------------------------
(* The best chain after a crash. *)

\* What CauseInv and NeverValidated say of the index, said of the stored one.
StoredMarks ==
    \A b \in StoredIndex :
        /\ stored[b].failedChild => \E a \in Ancestors[b] : stored[a].failedValid
        /\ b \in BadConnect => stored[b].validity # BLOCK_VALID_SCRIPTS

\* As long as every start found the coins on a chain without marks.
SurvivesInv == ~overtaken => StoredMarks /\ (node # "dead" => CauseInv /\ BaseInv /\ BestInv)

\* The picture that a write of the index leaves has the marks of the one in memory.
LEMMA MarksWritten ==
    ASSUME Memory, DirtyInv, WriteIndex, UNCHANGED vars, CauseInv, NeverValidated
    PROVE  StoredMarks'
<1>1. StoredIndex' = index /\ \A b \in index : Saved(b)'
  BY Zenon, PictureTaken DEF Memory
<1>2. UNCHANGED <<validity, failedValid, failedChild>>
  BY Zenon
<1>3. index \subseteq Blocks /\ \A b \in index : Ancestors[b] \subseteq index
  BY Zenon DEF Memory, TypeInv, TypeOK, IndexClosed
<1>4. ASSUME NEW b \in index
      PROVE  /\ stored'[b].validity = validity[b]
             /\ stored'[b].failedValid <=> b \in failedValid
             /\ stored'[b].failedChild => b \in failedChild
  BY Zenon, <1>1, <1>2 DEF Saved
<1>5. ASSUME NEW b \in index, stored'[b].failedChild
      PROVE  \E a \in Ancestors[b] : stored'[a].failedValid
  <2>1. b \in Failed
    BY Zenon, <1>4, <1>5 DEF Failed
  <2>2. PICK a \in Ancestors[b] : a \in failedValid
    BY Zenon, <2>1 DEF CauseInv, MarkCaused
  <2> QED BY Zenon, <1>3, <1>4, <2>2
<1>6. \A b \in index \cap BadConnect : stored'[b].validity # BLOCK_VALID_SCRIPTS
  BY Zenon, <1>4 DEF NeverValidated
<1> QED BY Zenon, <1>1, <1>5, <1>6 DEF StoredMarks

\* A start that finds the coins on a chain without marks makes that chain's tip the
\* measure of setBlockIndexCandidates, as it is after a block was connected, and goes on
\* to ActivateBestChain.
LEMMA RestartBest ==
    ASSUME PruneMode = FALSE, StoreInv, StoredMarks, ~havePruned, Memory', NEW t \in Threads, Restart(t),
           ChainUnmarked(coinsDb)
    PROVE  CauseInv' /\ BaseInv' /\ BestInv'
<1>1. LoadBlockIndexDB /\ pc' = [u \in Threads |-> IF u = t THEN "stored" ELSE "idle"] /\ ~checkForPruning'
  BY DEF Restart, BeginActivation
<1>2. \A u \in Threads : pc'[u] \in {"stored", "idle"}
  BY Zenon, <1>1
<1>3. \A u \in Threads : pc'[u] \notin Activating /\ pc'[u] \notin Invalidating /\ pc'[u] # "check"
  BY Zenon, <1>2 DEF Activating, Invalidating
<1>4. index' = StoredIndex /\ index' \subseteq Blocks
  BY Zenon, Loaded DEF StoredIndex
<1>5. MarkCaused'
  <2>1. ASSUME NEW b \in failedChild' PROVE Ancestors[b] \cap failedValid' # {}
    <3>1. b \in StoredIndex /\ stored[b].failedChild /\ Ancestors[b] \subseteq StoredIndex
      BY Zenon, <1>4, Loaded DEF StoreInv, StoredInv
    <3>2. PICK a \in Ancestors[b] : stored[a].failedValid
      BY Zenon, <3>1 DEF StoredMarks
    <3>3. a \in failedValid'
      BY Zenon, <1>4, <3>1, <3>2, Loaded DEF StoredIndex
    <3> QED BY Zenon, <3>2, <3>3
  <2>2. ASSUME NEW b \in failedValid' PROVE Ancestors[b] \cap failedValid' # {}
    <3>1. b \in Ancestors[b]
      BY Zenon, <1>4, Loaded, AncestorsBasic
    <3> QED BY Zenon, <2>2, <3>1
  <2> QED BY Zenon, <2>1, <2>2 DEF MarkCaused, Failed
<1>6. CauseInv'
  BY Zenon, <1>3, <1>5 DEF CauseInv, TargetMarked
<1>7. tip' = coinsDb /\ coins' = coinsDb /\ coinsDb \in Blocks /\ coinsDb \in linked' /\ Genesis \in linked'
  <2>1. Ancestors[Genesis] = {Genesis}
    BY AncestorsAssumption
  <2> QED BY Zenon, <2>1, TipLoaded, Loaded
<1>8. Ancestors[coinsDb] \cap failedValid' = {}
  <2>1. Ancestors[coinsDb] \subseteq Blocks
    BY Zenon, <1>7, AncestorsBasic
  <2> QED BY Zenon, <2>1, Loaded DEF ChainUnmarked, Unmarked
<1>9. LinkedOnce'
  <2>1. ~havePruned'
    BY Zenon, <1>1 DEF LoadBlockIndexDB, StoreInv, FlushInv
  <2>2. candidates' \subseteq linked'
    BY Zenon, <1>1 DEF LoadBlockIndexDB
  <2>3. /\ toLink' = [b \in Blocks |-> 0]
        /\ unlinked' = [b \in Blocks |-> IF b \in processed' \ linked' /\ Parent[b] \notin linked' THEN 1 ELSE 0]
    BY Zenon, <1>1 DEF LoadBlockIndexDB
  <2>4. \A b \in Blocks : /\ toLink'[b] + unlinked'[b] <= 1
                          /\ b \in linked' => toLink'[b] = 0 /\ unlinked'[b] = 0
    BY <2>3
  <2> QED BY Zenon, <1>1, <1>7, <2>1, <2>2, <2>4 DEF LinkedOnce
<1>10. WaitsForParent'
  <2> SUFFICES ASSUME NEW b \in processed' \ linked' PROVE unlinked'[b] > 0 /\ Parent[b] \notin linked'
    BY Zenon DEF WaitsForParent
  <2>1. b \in Blocks /\ b # Genesis
    BY Zenon, <1>4, <1>7, Loaded
  <2>2. Parent[b] \notin linked'
    <3>1. Ancestors[b] = Ancestors[Parent[b]] \cup {b}
      BY Zenon, <2>1, AncestorsBasic
    <3>2. ~(Ancestors[b] \subseteq processed')
      BY Zenon, Loaded
    <3>3. Parent[b] \in linked' => Ancestors[Parent[b]] \subseteq processed'
      BY Zenon, Loaded
    <3> QED BY Zenon, <3>1, <3>2, <3>3
  <2>3. unlinked'[b] = 1
    BY Zenon, <1>1, <2>1, <2>2 DEF LoadBlockIndexDB
  <2> QED BY <2>2, <2>3
<1>11. NeverValidated'
  <2> SUFFICES ASSUME NEW b \in BadConnect PROVE validity'[b] # BLOCK_VALID_SCRIPTS
    BY Zenon DEF NeverValidated
  <2>1. b \in Blocks
    BY Zenon, ChainStateAssumption
  <2>2. CASE stored[b] = NULL
    <3>1. BLOCK_VALID_UNKNOWN # BLOCK_VALID_SCRIPTS
      BY DEF BLOCK_VALID_UNKNOWN, BLOCK_VALID_SCRIPTS
    <3> QED BY Zenon, <2>1, <2>2, <3>1, Loaded
  <2>3. CASE stored[b] # NULL
    BY Zenon, <2>1, <2>3, Loaded DEF StoredMarks, StoredIndex
  <2> QED BY Zenon, <2>2, <2>3
<1>12. ActiveUnmarked' /\ CheckHasBlock'
  BY Zenon, <1>3, <1>7, <1>8 DEF ActiveUnmarked, Active, CheckHasBlock
<1>13. BaseInv'
  BY Zenon, <1>9, <1>10, <1>11, <1>12 DEF BaseInv
<1>14. addr' \in Addresses /\ sequenceId' \in [Blocks -> Nat]
  BY Zenon DEF Memory, TypeInv, TypeOK
<1>15. \A c \in candidates' : ~Worse(sequenceId, c, tip)'
  BY Zenon, <1>1 DEF LoadBlockIndexDB
<1>16. Reference(tip)'
  <2>1. Good(tip)' /\ (tip' = Genesis \/ validity'[tip'] = BLOCK_VALID_SCRIPTS)
    BY Zenon, <1>7, <1>8, TipLoaded, AncestorsBasic DEF Good
  <2>2. ~Worse(sequenceId, tip, tip)'
    <3>1. Work \in [Blocks -> Nat] /\ addr' \in [Blocks -> Nat]
      BY Zenon, <1>14, ChainStateAssumption, TreeAssumption
    <3>2. Work[coinsDb] \in Nat /\ sequenceId'[coinsDb] \in Nat /\ addr'[coinsDb] \in Nat
      BY Zenon, <1>7, <1>14, <3>1
    <3> QED BY <1>7, <3>2 DEF Worse
  <2>3. ASSUME NEW b \in Blocks, Good(b)', ~Worse(sequenceId, b, tip)'
        PROVE  b \in candidates'
    <3>1. b \in linked' /\ Ancestors[b] \cap failedValid' = {} /\ b \in Ancestors[b]
      BY Zenon, <2>3, AncestorsBasic DEF Good
    <3>2. b \notin failedValid' \cup failedChild'
      BY Zenon, <1>5, <3>1 DEF MarkCaused, Failed
    <3>3. validity'[b] >= BLOCK_VALID_TRANSACTIONS
      BY Zenon, <1>4, <3>1, Loaded DEF Memory, ValidInv, IndexValid
    <3> QED BY Zenon, <1>1, <2>3, <3>1, <3>2, <3>3 DEF LoadBlockIndexDB
  <2> QED BY Zenon, <2>1, <2>2, <2>3 DEF Reference
<1>17. CandidatesInv' /\ ChosenBest' /\ Settled'
  BY Zenon, <1>3, <1>7, <1>15, <1>16 DEF CandidatesInv, ChosenBest, Settled
<1>18. BestOrLater'
  <2>1. pc'[t] = "stored"
    BY Zenon, <1>1
  <2> QED BY Zenon, <2>1 DEF BestOrLater, WillActivate
<1> QED BY Zenon, <1>6, <1>13, <1>17, <1>18 DEF BestInv

\* A step of a handler, on a node that runs, preserves it.
LEMMA SurvivesHandlers ==
    ASSUME PruneMode = FALSE, ReconsiderTargets = {}, Memory, SurvivesInv, [Next]_vars,
           UNCHANGED <<stored, overtaken>>, node # "dead"
    PROVE  SurvivesInv'
<1> SUFFICES ASSUME ~overtaken' PROVE StoredMarks' /\ CauseInv' /\ BaseInv' /\ BestInv'
  BY Zenon DEF SurvivesInv
<1>1. StoredMarks /\ CauseInv /\ BaseInv /\ BestInv
  BY Zenon DEF SurvivesInv
<1>2. Known
  BY Zenon, <1>1 DEF Known, Memory
<1>3. StoredMarks'
  <2>1. StoredIndex' = StoredIndex
    BY Zenon DEF StoredIndex
  <2> QED BY Zenon, <1>1, <2>1 DEF StoredMarks
<1>4. CauseInv'
  BY Zenon, <1>1, CauseInvStep DEF Memory
<1>5. BaseInv'
  BY Zenon, <1>1, BaseInvStep DEF Memory
<1>6. BestInv'
  BY Zenon, <1>1, <1>2, BestInvStep
<1> QED BY Zenon, <1>3, <1>4, <1>5, <1>6

\* So does each write of FlushStateToDisk.
LEMMA SurvivesFlush ==
    ASSUME PruneMode = FALSE, ReconsiderTargets = {}, Memory, StoreInv, SurvivesInv, FlushStep
    PROVE  SurvivesInv'
<1>1. UNCHANGED vars /\ UNCHANGED <<node, overtaken>> /\ flush # <<>> /\ (WriteIndex \/ UNCHANGED stored)
  BY Zenon DEF FlushStep, UnlinkPrunedFiles, WriteCoins
<1>2. node # "dead"
  BY Zenon, <1>1 DEF StoreInv, FlushInv
<1>3. CASE UNCHANGED stored
  BY Zenon, <1>1, <1>2, <1>3, SurvivesHandlers
<1>4. CASE WriteIndex
  <2> SUFFICES ASSUME ~overtaken' PROVE StoredMarks' /\ CauseInv' /\ BaseInv' /\ BestInv'
    BY Zenon DEF SurvivesInv
  <2>1. CauseInv /\ BaseInv /\ BestInv
    BY Zenon, <1>1, <1>2 DEF SurvivesInv
  <2>2. StoredMarks'
    BY Zenon, <1>1, <1>4, <2>1, MarksWritten DEF StoreInv, BaseInv
  <2>3. Known /\ [Next]_vars
    BY Zenon, <1>1, <2>1 DEF Known, Memory
  <2>4. CauseInv' /\ BaseInv'
    BY Zenon, <2>1, <2>3, CauseInvStep, BaseInvStep DEF Memory
  <2>5. BestInv'
    BY Zenon, <2>1, <2>3, BestInvStep
  <2> QED BY Zenon, <2>2, <2>4, <2>5
<1> QED BY Zenon, <1>1, <1>3, <1>4

\* So does a crash with the start that follows, whatever was written before it.
LEMMA SurvivesRestart ==
    ASSUME PruneMode = FALSE, StoreInv, SurvivesInv, Memory', NEW t \in Threads, Restart(t)
    PROVE  SurvivesInv'
<1> SUFFICES ASSUME ~overtaken' PROVE StoredMarks' /\ CauseInv' /\ BaseInv' /\ BestInv'
  BY Zenon DEF SurvivesInv
<1>1. ~overtaken /\ ChainUnmarked(coinsDb) /\ node # "dead" /\ stored' = stored
  BY Zenon DEF Restart
<1>2. StoredMarks /\ ~havePruned
  BY Zenon, <1>1 DEF SurvivesInv, BaseInv, LinkedOnce
<1>3. StoredMarks'
  <2>1. StoredIndex' = StoredIndex
    BY Zenon, <1>1 DEF StoredIndex
  <2> QED BY Zenon, <1>1, <1>2, <2>1 DEF StoredMarks
<1> QED BY Zenon, <1>1, <1>2, <1>3, RestartBest

\* SurvivesInv holds when the node first starts.
LEMMA SurvivesInit == StoreInit => SurvivesInv
<1> SUFFICES ASSUME StoreInit PROVE StoredMarks /\ CauseInv /\ BaseInv /\ BestInv
  BY Zenon DEF SurvivesInv
<1>1. Init
  BY Zenon DEF StoreInit
<1>2. CauseInv /\ BaseInv /\ BestInv
  BY Zenon, <1>1, CauseInvInit, BaseInvInit, BestInvInit
<1>3. StoredIndex \subseteq index /\ \A b \in index : Saved(b)
  BY Zenon, StoreInvInit DEF StoreInv, DirtyInv, StoreInit
<1>4. failedChild = {} /\ index = {Genesis}
  BY Zenon, <1>1 DEF Init
<1>5. Genesis \notin BadConnect
  BY Zenon, ChainStateAssumption
<1>6. ~stored[Genesis].failedChild
  BY Zenon, <1>3, <1>4 DEF Saved
<1> QED BY Zenon, <1>2, <1>3, <1>4, <1>5, <1>6 DEF StoredMarks

\* All layers together, with the disk and crashes, on a node that neither prunes nor
\* reconsiders.
LEMMA AllSurvive ==
    ASSUME PruneMode = FALSE, ReconsiderTargets = {}
    PROVE  StoreSpec => [](Memory /\ StoreInv /\ SurvivesInv)
<1>1. ASSUME Memory, StoreInv, SurvivesInv, [StoreNext]_allVars
      PROVE  SurvivesInv'
  <2>1. CASE UNCHANGED allVars
    <3>1. UNCHANGED vars /\ UNCHANGED <<stored, overtaken, node>>
      BY Zenon, <2>1 DEF allVars, storeVars
    <3>2. CASE node # "dead"
      BY Zenon, <1>1, <3>1, <3>2, SurvivesHandlers
    <3>3. CASE node = "dead"
      <4>1. StoredIndex' = StoredIndex
        BY Zenon, <3>1 DEF StoredIndex
      <4> QED BY Zenon, <1>1, <3>1, <3>3, <4>1 DEF SurvivesInv, StoredMarks
    <3> QED BY Zenon, <3>2, <3>3
  <2>2. CASE FlushStep
    BY Zenon, <1>1, <2>2, SurvivesFlush
  <2>3. ASSUME NEW t \in Threads, Restart(t) PROVE SurvivesInv'
    <3>1. Memory'
      BY Zenon, <1>1, MemoryStep
    <3> QED BY Zenon, <1>1, <2>3, <3>1, SurvivesRestart
  <2>4. ASSUME StoreNext, node # "dead", UNCHANGED <<stored, overtaken>> PROVE SurvivesInv'
    BY Zenon, <1>1, <2>3, <2>4, StepsOfChainState, SurvivesHandlers
  <2>5. ASSUME NEW t \in Threads, Plain(t), StoreNext, node # "dead" PROVE SurvivesInv'
    BY Zenon, <2>4, <2>5, PlainKeeps
  <2>6. ASSUME NEW t \in Threads, NEW bs \in SUBSET Blocks, PruneAndFlush(t, bs), StoreNext, node # "dead"
        PROVE  SurvivesInv'
    BY Zenon, <2>4, <2>6 DEF PruneAndFlush
  <2>7. ASSUME BeginFlush \/ StartNode, StoreNext, node # "dead" PROVE SurvivesInv'
    BY Zenon, <2>4, <2>7 DEF BeginFlush, StartNode
  <2> QED BY Zenon, <1>1, <2>1, <2>2, <2>3, <2>5, <2>6, <2>7, StoreKinds
<1>2. Memory /\ StoreInv /\ [StoreNext]_allVars => Memory' /\ StoreInv'
  BY Zenon, MemoryStep, StoreInvStep
<1>3. StoreInit => Memory /\ StoreInv /\ SurvivesInv
  BY Zenon, StoreInvInit, SurvivesInit
<1> QED BY <1>1, <1>2, <1>3, PTL DEF StoreSpec

\* When every handler has returned, the tip is the best linked block whose chain is free
\* of marks, however often the node crashed and wherever in FlushStateToDisk it did, as
\* long as every start found the coin database on a chain that the index does not mark.
THEOREM BestChainSurvivesRestarts ==
    ASSUME PruneMode = FALSE, ReconsiderTargets = {}
    PROVE  StoreSpec => []BestChainAfterRestart
<1>1. ASSUME Memory, SurvivesInv, Quiet, node # "dead", ~overtaken
      PROVE  /\ Active \cap Failed = {}
             /\ \A b \in linked : Unusable(b) = {} => ~Worse(sequenceId, tip, b)
  <2>1. CauseInv /\ BaseInv /\ BestInv
    BY Zenon, <1>1 DEF SurvivesInv
  <2>2. \A t \in Threads : ~WillActivate(t) /\ pc[t] \notin Invalidating
    BY Zenon, <1>1 DEF Quiet, WillActivate, Activating, Invalidating
  <2>3. Active \cap failedValid = {}
    BY Zenon, <2>1, <2>2 DEF BaseInv, ActiveUnmarked
  <2>4. tip \in Blocks /\ linked \subseteq Blocks
    BY Zenon, <1>1 DEF Memory, TypeInv, TypeOK
  <2>5. Active \cap Failed = {}
    <3>1. \A a \in Active : Ancestors[a] \subseteq Active
      BY Zenon, <2>4, AncestorsAssumption DEF Active
    <3> QED BY Zenon, <2>1, <2>3, <3>1 DEF CauseInv, MarkCaused
  <2>6. TipBest
    BY Zenon, <2>1, <2>2 DEF BestInv, BestOrLater
  <2>7. ASSUME NEW b \in linked, Unusable(b) = {}
        PROVE  Good(b)
    BY Zenon, <2>3, <2>7 DEF Good, Unusable, PathToActive, Failed
  <2> QED BY Zenon, <2>4, <2>5, <2>6, <2>7 DEF TipBest
<1>2. Memory /\ SurvivesInv => BestChainAfterRestart
  BY Zenon, <1>1 DEF BestChainAfterRestart
<1> QED BY <1>2, AllSurvive, PTL

=============================================================================
