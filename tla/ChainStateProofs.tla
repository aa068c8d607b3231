-------------------------- MODULE ChainStateProofs --------------------------
(***************************************************************************)
(* Proofs about ChainState for every block tree, every number of threads   *)
(* and every value of the other constants.  The invariant is proved in     *)
(* layers, each from the ones before it:                                   *)
(*   TypeInv   types, one holder of cs_main, what a thread's locals say    *)
(*             about tip and coins inside ActivateBestChainStep and        *)
(*             InvalidateBlock;                                            *)
(*   LinkInv   mapBlocksUnlinked, nChainTx and setBlockIndexCandidates;    *)
(*   PathInv   the chain that is being activated stays usable;             *)
(*   ValidInv  BLOCK_VALID_* and undo data along chains;                   *)
(*   CauseInv  BLOCK_FAILED_* marks, when reconsiderblock is not used;     *)
(*   KeptInv   what pruning has left of the active chain.                  *)
(***************************************************************************)
EXTENDS ChainState, TLAPS

Activating == {"disconnect", "flushDisconnect", "connect", "flushConnect"}
Invalidating == {"invalidate", "flushInvalidate"}

IndexClosed == Genesis \in index /\ \A b \in index : Ancestors[b] \subseteq index

OneHolder == \A s, t \in Threads : pc[s] \in Locked /\ pc[t] \in Locked => s = t

Locals(t) ==
    /\ pc[t] \in Activating => pindex[t] \in index /\ oldTip \in index
    /\ pc[t] \in Invalidating => pindex[t] \in index \ {Genesis}
    /\ pc[t] = "flushDisconnect" => tip \notin Ancestors[pindex[t]]
    /\ pc[t] \in {"flushDisconnect", "flushInvalidate"} => tip # Genesis /\ coins = Parent[tip]
    /\ pc[t] = "connect" => tip \in Ancestors[pindex[t]] \ {pindex[t]}
    /\ pc[t] = "flushConnect" => tip \in Ancestors[pindex[t]] /\ coins \in NextToConnect(t)

CoinsAgree ==
    (\A t \in Threads : pc[t] \notin {"flushConnect", "flushDisconnect", "flushInvalidate"}) => coins = tip

\* What waits in mapBlocksUnlinked or in the queue has an index entry.
Queued == \A b \in Blocks \ index : toLink[b] = 0 /\ unlinked[b] = 0

TypeInv == TypeOK /\ Queued /\ IndexClosed /\ OneHolder /\ CoinsAgree /\ \A t \in Threads : Locals(t)

\* A block is in the queue of ReceivedBlockTransactions only inside that function.
Waits(b) == toLink[b] > 0

DataInv ==
    /\ haveData \subseteq processed /\ haveUndo \subseteq haveData
    /\ havePruned \/ processed \subseteq haveData
    /\ linked \subseteq processed

QueueInv ==
    \A b \in Blocks :
        /\ Waits(b) => b \in processed /\ ParentLinked(b) /\ \E t \in Threads : pc[t] = "link"
        /\ unlinked[b] > 0 => b \in processed

LinkedInv ==
    /\ \A b \in linked : \A a \in Ancestors[b] : a \in linked \/ Waits(a)
    /\ \A b \in Blocks \ linked : sequenceId[b] = 0 \/ Waits(b)

ChoiceInv ==
    /\ \A b \in candidates \cup {tip, coins} : b \in linked \/ Waits(b)
    /\ \A t \in Threads : pc[t] \in Activating => pindex[t] \in linked

LinkInv == DataInv /\ QueueInv /\ LinkedInv /\ ChoiceInv

PruneFlag == checkForPruning => \E t \in Threads : pc[t] \in {"link", "stored", "flushConnect"}
PathUsable == \A t \in Threads : pc[t] \in Activating => Unusable(pindex[t]) = {}

PathInv == PruneFlag /\ PathUsable

IndexValid ==
    \A b \in index :
        /\ validity[b] >= BLOCK_VALID_TREE
        /\ validity[b] >= BLOCK_VALID_TRANSACTIONS <=> b \in processed
        /\ validity[b] = BLOCK_VALID_SCRIPTS =>
               \A a \in Ancestors[b] \ {Genesis} : validity[a] = BLOCK_VALID_SCRIPTS

TipValid == \A b \in {tip, coins} \ {Genesis} : validity[b] = BLOCK_VALID_SCRIPTS

UndoKept == havePruned \/ \A b \in (Active \cup {coins}) \ {Genesis} : b \in haveUndo

ValidInv == IndexValid /\ TipValid /\ UndoKept

MarkCaused == \A b \in Failed : Ancestors[b] \cap failedValid # {}
TargetMarked == \A t \in Threads : pc[t] \in Invalidating => pindex[t] \in failedValid

CauseInv == MarkCaused /\ TargetMarked

-----------------------------------------------------------------------------
(* The block tree. *)

\* An entry of mapBlocksUnlinked that was erased is not there.
LEMMA ZeroNotPositive == ~(0 > 0)
OBVIOUS

\* A block above the tip is not among those that FindFilesToPrune may remove, which are buried below it.
LEMMA NotBuried ==
    \A h, top, keep \in Nat : h > top => ~(h <= top - keep)
OBVIOUS

\* What is not at or below a height is above it, and what is above it is not below it.
LEMMA HeightOrder ==
    \A h, k \in Nat : /\ ~(h <= k) => h > k
                      /\ h > k => k <= h
OBVIOUS

USE DEF TreeAssumption, AncestorsAssumption, ChainStateAssumption

\* A block, its parent and the genesis block are among its ancestors.
LEMMA AncestorsBasic ==
    ASSUME NEW b \in Blocks
    PROVE  /\ Ancestors[b] \subseteq Blocks
           /\ b \in Ancestors[b] /\ Genesis \in Ancestors[b]
           /\ b # Genesis => /\ Parent[b] \in Blocks /\ Parent[b] \in Ancestors[b]
                             /\ Ancestors[b] = Ancestors[Parent[b]] \cup {b}
<1>1. Ancestors[b] \subseteq Blocks
  BY AncestorsAssumption
<1>2. b \in Ancestors[b]
  BY AncestorsAssumption
<1>3. Genesis \in Ancestors[b]
  BY <1>2, AncestorsAssumption
<1>4. ASSUME b # Genesis
      PROVE  Parent[b] \in Blocks /\ Parent[b] \in Ancestors[b] /\ Ancestors[b] = Ancestors[Parent[b]] \cup {b}
  <2>1. Parent[b] \in Blocks /\ Ancestors[b] = Ancestors[Parent[b]] \cup {b}
    BY <1>4, TreeAssumption, AncestorsAssumption
  <2>2. Parent[b] \in Ancestors[Parent[b]]
    BY <2>1, AncestorsAssumption
  <2> QED BY <2>1, <2>2
<1> QED BY <1>1, <1>2, <1>3, <1>4

\* Of two blocks on one chain the lower one is an ancestor of the other.
LEMMA LowerIsAncestor ==
    ASSUME NEW b \in Blocks, NEW a \in Ancestors[b], NEW c \in Ancestors[b], Height[a] <= Height[c]
    PROVE  a \in Ancestors[c]
<1>1. CASE a \in Ancestors[c]
  BY <1>1
<1>2. CASE c \in Ancestors[a]
  <2>1. a \in Blocks /\ c \in Blocks /\ Height[a] \in Nat /\ Height[c] \in Nat
    BY TreeAssumption, AncestorsBasic
  <2>2. Height[c] <= Height[a] /\ (Height[c] = Height[a] => c = a)
    BY <1>2, <2>1, AncestorsAssumption
  <2>3. c = a
    BY <2>1, <2>2
  <2> QED BY <2>1, <2>3, AncestorsBasic
<1> QED BY <1>1, <1>2, AncestorsAssumption

-----------------------------------------------------------------------------
(* Types, the lock and the threads' locals. *)

\* The state after InitBlockIndex satisfies the first layer.
LEMMA TypeInvInit == Init => TypeInv
<1> SUFFICES ASSUME Init PROVE TypeInv
  OBVIOUS
<1>1. TypeOK
  <2>1. addr \in Addresses /\ havePruned \in BOOLEAN /\ checkForPruning \in BOOLEAN
    BY Zenon DEF Init
  <2>2. /\ validity \in [Blocks -> 0 .. 5]
        /\ sequenceId \in [Blocks -> Nat] /\ nextSequenceId \in Nat
        /\ unlinked \in [Blocks -> Nat] /\ toLink \in [Blocks -> Nat]
    BY DEF Init, BLOCK_VALID_TRANSACTIONS, BLOCK_VALID_UNKNOWN
  <2>3. pc \in [Threads -> Labels] /\ pindex \in [Threads -> index \cup {NULL}] /\ oldTip \in index \cup {NULL}
    BY DEF Init, Labels
  <2>4. /\ index \subseteq Blocks /\ tip \in index /\ coins \in index
        /\ haveData \subseteq index /\ haveUndo \subseteq index
        /\ failedValid \subseteq index /\ failedChild \subseteq index
        /\ processed \subseteq index /\ linked \subseteq index
        /\ candidates \subseteq index
    BY TreeAssumption DEF Init
  <2> QED BY <2>1, <2>2, <2>3, <2>4 DEF TypeOK
<1>2. IndexClosed
  BY AncestorsAssumption DEF Init, IndexClosed
<1>3. Queued /\ OneHolder /\ CoinsAgree /\ \A t \in Threads : Locals(t)
  BY DEF Init, Queued, OneHolder, CoinsAgree, Locals, Locked, FlushPoints, Activating, Invalidating
<1> QED BY <1>1, <1>2, <1>3 DEF TypeInv

USE DEF vars, treeVars, dataVars, failVars, linkVars, chainVars, threadVars

\* pprev of the tip is in mapBlockIndex.
LEMMA ParentIndexed ==
    ASSUME TypeInv, tip # Genesis
    PROVE  Parent[tip] \in index
<1>1. tip \in index /\ tip \in Blocks /\ Ancestors[tip] \subseteq index
  BY DEF TypeInv, TypeOK, IndexClosed
<1> QED BY <1>1, AncestorsBasic

\* DisconnectTip is not called on the genesis block.
LEMMA TipToDisconnect ==
    ASSUME TypeInv, NEW t \in Threads,
           \/ DisconnectTip(t) \/ DisconnectTipDone(t) \/ InvalidateTip(t) \/ InvalidateTipDone(t)
    PROVE  tip # Genesis /\ Parent[tip] \in index
<1>1. CASE DisconnectTip(t)
  <2>1. pindex[t] \in Blocks
    BY <1>1 DEF DisconnectTip, TypeInv, TypeOK, Locals, Activating
  <2>2. Genesis \in Ancestors[pindex[t]]
    BY <2>1, AncestorsBasic
  <2> QED BY <1>1, <2>2, ParentIndexed DEF DisconnectTip
<1>2. CASE InvalidateTip(t)
  <2>1. pindex[t] # Genesis /\ pindex[t] \in Ancestors[tip]
    BY Zenon, <1>2 DEF InvalidateTip, Active, TypeInv, Locals, Invalidating
  <2> QED BY <2>1, ParentIndexed, AncestorsAssumption
<1>3. CASE DisconnectTipDone(t) \/ InvalidateTipDone(t)
  BY ZenonT(60), <1>3, ParentIndexed DEF DisconnectTipDone, InvalidateTipDone, TypeInv, Locals
<1> QED BY <1>1, <1>2, <1>3

\* Every step of a handler preserves the types.
LEMMA TypeOKStep == TypeInv /\ [Next]_vars => TypeOK'
<1> SUFFICES ASSUME TypeInv, [Next]_vars PROVE TypeOK'
  OBVIOUS
<1>ty. TypeOK
  BY DEF TypeInv
<1>1. ASSUME NEW t \in Threads, NEW b \in Blocks, NEW fRequested \in BOOLEAN,
             ProcessHeader(t, b) \/ RejectBlock(t, b, fRequested)
      PROVE  TypeOK'
  BY <1>1, <1>ty DEF ProcessHeader, RejectBlock, ReceiveBlock, TreeValidity, BLOCK_VALID_TREE, TypeOK
<1>2. ASSUME NEW t \in Threads, NEW b \in Blocks, NEW fRequested \in BOOLEAN, IgnoreBlock(t, b, fRequested)
      PROVE  TypeOK'
  BY <1>2, <1>ty DEF IgnoreBlock, ReceiveBlock, TreeValidity, BLOCK_VALID_TREE, Goto, Labels, TypeOK
<1>3. ASSUME NEW t \in Threads, NEW b \in Blocks, NEW fRequested \in BOOLEAN, StoreBlock(t, b, fRequested)
      PROVE  TypeOK'
  <2>1. pc' \in [Threads -> Labels]
    BY <1>3, <1>ty DEF StoreBlock, Goto, Labels, Locked, FlushPoints, TypeOK
  <2>2. toLink' \in [Blocks -> Nat] /\ unlinked' \in [Blocks -> Nat]
    BY <1>3, <1>ty DEF StoreBlock, TypeOK
  <2>3. validity' \in [Blocks -> 0 .. 5] /\ checkForPruning' \in BOOLEAN
    BY <1>3, <1>ty, ChainStateAssumption DEF StoreBlock, BLOCK_VALID_TRANSACTIONS, TypeOK
  <2> QED BY Zenon, <1>3, <1>ty, <2>1, <2>2, <2>3 DEF StoreBlock, ReceiveBlock, TypeOK
<1>4. ASSUME NEW t \in Threads, LinkBlock(t)
      PROVE  TypeOK'
  <2>1. PICK b \in Blocks : Link(b)
    BY <1>4 DEF LinkBlock
  <2>2. b \in index
    BY <2>1 DEF Link, TypeInv, Queued
  <2>3. toLink' \in [Blocks -> Nat] /\ unlinked' \in [Blocks -> Nat]
    BY <2>1, <1>ty DEF Link, EraseUnlinked, TypeOK
  <2>4. sequenceId' \in [Blocks -> Nat] /\ nextSequenceId' \in Nat
    BY <1>4, <2>1, <1>ty DEF LinkBlock, Link, TypeOK
  <2>5. pc' \in [Threads -> Labels]
    BY <1>4, <1>ty DEF LinkBlock, Goto, Labels, Locked, FlushPoints, TypeOK
  <2>6. linked' \subseteq index /\ candidates' \subseteq index
    BY Zenon, <2>1, <2>2, <1>ty DEF Link, TypeOK
  <2> QED BY Zenon, <1>4, <1>ty, <2>3, <2>4, <2>5, <2>6 DEF LinkBlock, TypeOK
<1>5. ASSUME NEW t \in Threads, DropCandidate(t)
      PROVE  TypeOK'
  <2>1. PICK best \in BestCandidates : \E test \in Unusable(best) : Drop(best, test)
    BY <1>5 DEF DropCandidate
  <2>2. PICK test \in Unusable(best) : Drop(best, test)
    BY <2>1
  <2>3. candidates' \subseteq candidates
    BY Zenon, <2>2 DEF Drop
  <2>4. failedChild' \subseteq index
    BY <2>2, <1>ty DEF Drop, Above, BestCandidates, PathToActive, TypeInv, IndexClosed, TypeOK
  <2>5. unlinked' \in [Blocks -> Nat]
    BY <2>2, <1>ty DEF Drop, TypeOK
  <2> QED BY <1>5, <1>ty, <2>3, <2>4, <2>5 DEF DropCandidate, TypeOK
<1>6. ASSUME NEW t \in Threads, DisconnectTip(t) \/ DisconnectTipDone(t) \/ InvalidateTip(t) \/ InvalidateTipDone(t)
      PROVE  TypeOK'
  <2>1. Parent[tip] \in index
    BY Zenon, <1>6, TipToDisconnect
  <2>2. CASE DisconnectTip(t) \/ DisconnectTipDone(t)
    BY ZenonT(60), <2>1, <2>2, <1>ty
       DEF DisconnectTip, DisconnectTipDone, DisconnectBlock, Goto, Labels, Locked, FlushPoints, TypeOK
  <2>3. CASE InvalidateTip(t) \/ InvalidateTipDone(t)
    BY ZenonT(60), <2>1, <2>3, <1>ty
       DEF InvalidateTip, InvalidateTipDone, MarkTip, DisconnectBlock, Goto, Labels, Locked, FlushPoints, TypeOK
  <2> QED BY <1>6, <2>2, <2>3
<1>7. ASSUME NEW t \in Threads, ConnectTip(t)
      PROVE  TypeOK'
  <2>1. PICK b \in NextToConnect(t) :
            /\ b \in haveData /\ haveUndo' = haveUndo \cup {b} /\ coins' = b
            /\ checkForPruning' = (PruneMode /\ b \notin haveUndo)
            /\ validity' = [validity EXCEPT ![b] = IF b \in Failed THEN validity[b] ELSE BLOCK_VALID_SCRIPTS]
    BY Zenon, <1>7 DEF ConnectTip
  <2>2. haveUndo' \subseteq index /\ coins' \in index /\ checkForPruning' \in BOOLEAN
    BY <2>1, <1>ty DEF TypeOK
  <2>3. validity' \in [Blocks -> 0 .. 5]
    <3>1. validity \in [Blocks -> 0 .. 5] /\ b \in Blocks
      BY Zenon, <1>ty DEF NextToConnect, Children, TypeOK
    <3>2. BLOCK_VALID_SCRIPTS \in 0 .. 5
      BY DEF BLOCK_VALID_SCRIPTS
    <3>3. (IF b \in Failed THEN validity[b] ELSE BLOCK_VALID_SCRIPTS) \in 0 .. 5
      BY ZenonT(60), <3>1, <3>2
    <3> QED BY Zenon, <2>1, <3>1, <3>3
  <2> QED BY <1>7, <1>ty, <2>2, <2>3 DEF ConnectTip, Goto, Labels, Locked, FlushPoints, TypeOK
<1>8. ASSUME NEW t \in Threads, ConnectTipDone(t) \/ ForkReached(t) \/ ChooseCandidate(t)
      PROVE  TypeOK'
  BY ZenonT(60), <1>8, <1>ty DEF ConnectTipDone, PruneBlockIndexCandidates, ForkReached, ChooseCandidate, BestCandidates,
     Goto, Labels, Locked, TypeOK
<1>9. ASSUME NEW t \in Threads, ConnectTipFails(t)
      PROVE  TypeOK'
  BY Zenon, <1>9, <1>ty DEF ConnectTipFails, MarkInvalid, Goto, Labels, TypeOK
<1>10. ASSUME NEW t \in Threads, AcceptBlockDone(t) \/ BeginRound(t) \/ NothingToActivate(t) \/ EndRound(t)
      PROVE  TypeOK'
  BY Zenon, <1>10, <1>ty DEF AcceptBlockDone, BeginRound, NothingToActivate, EndRound, Goto, Labels, Locked, TypeOK
<1>11. ASSUME NEW t \in Threads,
             Abort(t) \/ ConnectBlockCrashes(t) \/ DisconnectTipFails(t) \/ BeginPeriodicFlush(t)
             \/ ActivateBestChainDone(t)
      PROVE  TypeOK'
  BY ZenonT(60), <1>11, <1>ty DEF Abort, ConnectBlockCrashes, DisconnectTipFails, BeginPeriodicFlush,
     ActivateBestChainDone, Goto, Labels,
     Locked, FlushPoints, TypeOK
<1>12. ASSUME NEW t \in Threads, InvalidateTipFails(t) \/ InvalidateDone(t)
      PROVE  TypeOK'
  BY ZenonT(60), <1>12, <1>ty DEF InvalidateTipFails, MarkTip, InvalidateDone, Goto, Labels, TypeOK
<1>13. ASSUME NEW t \in Threads, NEW b \in Blocks, Invalidate(t, b) \/ Reconsider(t, b)
      PROVE  TypeOK'
  <2>1. failedValid' \subseteq index /\ failedChild' \subseteq index /\ candidates' \subseteq index
    BY <1>13, <1>ty DEF Invalidate, MarkInvalid, Reconsider, Restored, TypeOK
  <2> QED BY ZenonT(60), <1>13, <1>ty, <2>1 DEF Invalidate, Reconsider, Goto, Labels, Locked, TypeOK
<1>14. ASSUME NEW t \in Threads, NEW bs \in SUBSET Blocks, Prune(t, bs)
      PROVE  TypeOK'
  BY Zenon, <1>14, <1>ty DEF Prune, TypeOK
<1>15. CASE UNCHANGED vars
  BY <1>15, <1>ty DEF TypeOK
<1> QED BY <1>1, <1>2, <1>3, <1>4, <1>5, <1>6, <1>7, <1>8, <1>9, <1>10, <1>11, <1>12, <1>13, <1>14, <1>15,
           ChainStateAssumption
        DEF Next, Receive, Operator, Continue

\* A known or accepted header can be added to mapBlockIndex.
LEMMA IndexGrows ==
    ASSUME TypeInv, NEW b \in Blocks, AcceptBlockHeader(b), index' = index \cup {b}
    PROVE  IndexClosed'
<1>1. CASE b \in index
  BY <1>1 DEF TypeInv, IndexClosed
<1>2. CASE b \notin index
  <2>1. b # Genesis /\ Parent[b] \in index
    BY <1>2 DEF AcceptBlockHeader, TypeInv, IndexClosed
  <2>2. Ancestors[b] = Ancestors[Parent[b]] \cup {b}
    BY <2>1, AncestorsBasic
  <2> QED BY <2>1, <2>2 DEF TypeInv, IndexClosed
<1> QED BY <1>1, <1>2

\* When the holder of cs_main, or a thread that finds it free, moves, no other
\* thread is inside a critical section.
LEMMA HolderMoves ==
    ASSUME TypeInv, NEW t \in Threads, NEW l \in Labels, CsMainFree \/ pc[t] \in Locked,
           pc' = [pc EXCEPT ![t] = l]
    PROVE  OneHolder' /\ pc'[t] = l /\ \A u \in Threads \ {t} : pc[u] \notin Locked /\ pc'[u] \notin Locked
<1>1. pc \in [Threads -> Labels]
  BY DEF TypeInv, TypeOK
<1>2. \A u \in Threads \ {t} : pc[u] \notin Locked
  BY DEF TypeInv, OneHolder, CsMainFree
<1> QED BY <1>1, <1>2 DEF OneHolder

\* Locals say something only about the thread that is inside.
LEMMA LocalsOfHolder ==
    ASSUME NEW t \in Threads, \A u \in Threads \ {t} : pc'[u] \notin Locked, Locals(t)'
    PROVE  \A u \in Threads : Locals(u)'
BY DEF Locals, Locked, FlushPoints, Activating, Invalidating

\* A step that ends outside ActivateBestChainStep and InvalidateBlock and moves
\* neither chainActive nor pcoinsTip.
LEMMA StaysOutside ==
    ASSUME TypeInv, NEW t \in Threads, NEW l \in Labels \ (Activating \cup Invalidating),
           CsMainFree \/ pc[t] \in Locked,
           pc[t] \notin {"flushConnect", "flushDisconnect", "flushInvalidate"},
           pc' = [pc EXCEPT ![t] = l], UNCHANGED <<tip, coins>>
    PROVE  OneHolder' /\ CoinsAgree' /\ \A u \in Threads : Locals(u)'
<1>1. OneHolder' /\ pc'[t] = l /\ \A u \in Threads \ {t} : pc[u] \notin Locked /\ pc'[u] \notin Locked
  BY Zenon, HolderMoves
<1>2. Locals(t)'
  BY <1>1 DEF Locals, Activating, Invalidating
<1>3. CoinsAgree'
  <2>1. coins = tip
    BY <1>1 DEF TypeInv, CoinsAgree, Locked, FlushPoints
  <2> QED BY <2>1 DEF CoinsAgree
<1> QED BY <1>1, <1>2, <1>3, LocalsOfHolder

\* Every step of a handler preserves the discipline of cs_main and what the
\* locals of its holder say.
LEMMA HolderStep == TypeInv /\ [Next]_vars => Queued' /\ IndexClosed' /\ OneHolder' /\ CoinsAgree' /\ \A u \in Threads : Locals(u)'
<1> DEFINE Goal == Queued' /\ IndexClosed' /\ OneHolder' /\ CoinsAgree' /\ \A u \in Threads : Locals(u)'
<1> SUFFICES ASSUME TypeInv, [Next]_vars PROVE Goal
  OBVIOUS
<1>pc. pc \in [Threads -> Labels] /\ pindex \in [Threads -> index \cup {NULL}]
  BY ZenonT(60) DEF TypeInv, TypeOK
<1>same. ASSUME UNCHANGED <<index, toLink, unlinked>> PROVE Queued' /\ IndexClosed'
  BY Zenon, <1>same DEF TypeInv, Queued, IndexClosed
<1>1. ASSUME NEW t \in Threads, NEW b \in Blocks, NEW fRequested \in BOOLEAN,
             ProcessHeader(t, b) \/ RejectBlock(t, b, fRequested) \/ IgnoreBlock(t, b, fRequested)
      PROVE  Goal
  <2>1. AcceptBlockHeader(b) /\ index' = index \cup {b} /\ UNCHANGED <<toLink, unlinked, tip, coins>>
    BY ZenonT(60), <1>1 DEF ProcessHeader, RejectBlock, IgnoreBlock, ReceiveBlock
  <2>2. \E l \in {"idle", "activate"} : CsMainFree /\ pc[t] = "idle" /\ pc' = [pc EXCEPT ![t] = l]
    BY <1>1, <1>pc DEF ProcessHeader, RejectBlock, IgnoreBlock, ReceiveBlock, Goto
  <2>3. OneHolder' /\ CoinsAgree' /\ \A u \in Threads : Locals(u)'
    BY ZenonT(60), <2>1, <2>2, StaysOutside DEF Labels, Activating, Invalidating
  <2>4. Queued'
    BY Zenon, <2>1 DEF TypeInv, Queued
  <2> QED BY Zenon, <2>1, <2>3, <2>4, IndexGrows
<1>2. ASSUME NEW t \in Threads, NEW b \in Blocks, NEW fRequested \in BOOLEAN, StoreBlock(t, b, fRequested)
      PROVE  Goal
  <2>1. /\ AcceptBlockHeader(b) /\ index' = index \cup {b} /\ UNCHANGED <<tip, coins>>
        /\ CsMainFree /\ pc[t] = "idle"
    BY <1>2 DEF StoreBlock, ReceiveBlock
  <2>2. \E l \in {"link", "stored"} : pc' = [pc EXCEPT ![t] = l]
    BY <1>2 DEF StoreBlock, Goto
  <2>3. OneHolder' /\ CoinsAgree' /\ \A u \in Threads : Locals(u)'
    BY Zenon, <2>1, <2>2, StaysOutside DEF Labels, Locked, FlushPoints, Activating, Invalidating
  <2>4. \A c \in Blocks \ {b} : toLink'[c] = toLink[c] /\ unlinked'[c] = unlinked[c]
    BY <1>2 DEF StoreBlock, TypeInv, TypeOK
  <2>5. Queued'
    BY ZenonT(60), <2>1, <2>4 DEF TypeInv, Queued
  <2> QED BY Zenon, <2>1, <2>3, <2>5, IndexGrows
<1>3. ASSUME NEW t \in Threads, LinkBlock(t)
      PROVE  Goal
  <2>1. pc[t] = "link" /\ UNCHANGED <<index, tip, coins>>
    BY <1>3 DEF LinkBlock
  <2>2. \E l \in {"link", "stored"} : pc' = [pc EXCEPT ![t] = l]
    BY Zenon, <1>3 DEF LinkBlock, Goto
  <2>3. OneHolder' /\ CoinsAgree' /\ \A u \in Threads : Locals(u)'
    BY Zenon, <2>1, <2>2, StaysOutside DEF Labels, Locked, FlushPoints, Activating, Invalidating
  <2>4. PICK b \in Blocks : Link(b)
    BY <1>3 DEF LinkBlock
  <2>5. b \in index
    BY <2>4 DEF Link, TypeInv, Queued
  <2>6. Queued'
    BY <2>1, <2>4, <2>5 DEF Link, EraseUnlinked, TypeInv, TypeOK, Queued
  <2> QED BY Zenon, <2>1, <2>3, <2>6 DEF TypeInv, IndexClosed
<1>4. ASSUME NEW t \in Threads, DropCandidate(t)
      PROVE  Goal
  <2>1. UNCHANGED <<index, toLink, tip, coins, pc, pindex, oldTip>>
    BY Zenon, <1>4 DEF DropCandidate
  <2>2. PICK best \in BestCandidates : \E test \in Unusable(best) : Drop(best, test)
    BY <1>4 DEF DropCandidate
  <2>3. PICK test \in Unusable(best) : Drop(best, test)
    BY <2>2
  <2>4. Above(best, test) \subseteq index
    BY Zenon DEF Above, BestCandidates, PathToActive, TypeInv, TypeOK, IndexClosed
  <2>5. \A c \in Blocks \ index : unlinked'[c] = unlinked[c]
    BY SMTT(60), <2>3, <2>4 DEF Drop, TypeInv, TypeOK
  <2>6. Queued' /\ IndexClosed'
    BY Zenon, <2>1, <2>5 DEF TypeInv, Queued, IndexClosed
  <2> QED BY Zenon, <2>1, <2>6 DEF TypeInv, OneHolder, CoinsAgree, Locals, NextToConnect
<1>5. ASSUME NEW t \in Threads, NEW bs \in SUBSET Blocks, Prune(t, bs)
      PROVE  Goal
  <2>1. /\ UNCHANGED <<index, toLink, tip, coins, pc, pindex, oldTip>>
        /\ unlinked' = [b \in Blocks |-> IF b \in bs THEN 0 ELSE unlinked[b]]
    BY Zenon, <1>5 DEF Prune
  <2>2. Queued' /\ IndexClosed'
    BY <2>1 DEF TypeInv, Queued, IndexClosed
  <2> QED BY <2>1, <2>2 DEF TypeInv, OneHolder, CoinsAgree, Locals, NextToConnect
<1>6. ASSUME NEW t \in Threads,
             AcceptBlockDone(t) \/ BeginRound(t) \/ NothingToActivate(t) \/ ConnectTipFails(t) \/ Abort(t)
             \/ ConnectBlockCrashes(t)
      PROVE  Goal
  <2>1. UNCHANGED <<index, toLink, unlinked, tip, coins>>
    BY Zenon, <1>6 DEF AcceptBlockDone, BeginRound, NothingToActivate, ConnectTipFails, Abort, ConnectBlockCrashes
  <2>2. /\ \E l \in {"activate", "find", "idle", "check", "aborted", "crashed"} : pc' = [pc EXCEPT ![t] = l]
        /\ CsMainFree \/ pc[t] \in Locked
        /\ pc[t] \in {"stored", "activate", "find", "connect", "disconnect"}
    BY <1>6 DEF AcceptBlockDone, BeginRound, NothingToActivate, ConnectTipFails, Abort, ConnectBlockCrashes,
       Goto, Locked,
       FlushPoints
  <2>3. OneHolder' /\ CoinsAgree' /\ \A u \in Threads : Locals(u)'
    BY ZenonT(60), <2>1, <2>2, StaysOutside DEF Labels, Locked, Activating, Invalidating
  <2> QED BY Zenon, <2>1, <2>3, <1>same
<1>7. ASSUME NEW t \in Threads,
             \/ DisconnectTipFails(t) \/ BeginPeriodicFlush(t) \/ ActivateBestChainDone(t)
             \/ InvalidateTipFails(t) \/ InvalidateDone(t)
      PROVE  Goal
  <2>1. UNCHANGED <<index, toLink, unlinked, tip, coins>>
    BY Zenon, <1>7 DEF DisconnectTipFails, BeginPeriodicFlush, ActivateBestChainDone, InvalidateTipFails,
       InvalidateDone
  <2>2. /\ \E l \in {"activate", "flushPeriodic", "idle", "aborted", "crashed"} : pc' = [pc EXCEPT ![t] = l]
        /\ CsMainFree \/ pc[t] \in Locked
        /\ pc[t] \in {"disconnect", "finish", "flushPeriodic", "invalidate"}
    BY Zenon, <1>7 DEF DisconnectTipFails, BeginPeriodicFlush, ActivateBestChainDone, InvalidateTipFails,
       InvalidateDone, Goto, Locked, FlushPoints
  <2>3. OneHolder' /\ CoinsAgree' /\ \A u \in Threads : Locals(u)'
    BY Zenon, <2>1, <2>2, StaysOutside DEF Labels, Locked, FlushPoints, Activating, Invalidating
  <2> QED BY <2>1, <2>3, <1>same
<1>8. ASSUME NEW t \in Threads, NEW b \in Blocks, Reconsider(t, b)
      PROVE  Goal
  <2>1. UNCHANGED <<index, toLink, unlinked, tip, coins>> /\ CsMainFree /\ pc[t] = "idle"
    BY Zenon, <1>8 DEF Reconsider
  <2>2. pc' = [pc EXCEPT ![t] = "activate"]
    BY Zenon, <1>8 DEF Reconsider, Goto
  <2>3. OneHolder' /\ CoinsAgree' /\ \A u \in Threads : Locals(u)'
    BY Zenon, <2>1, <2>2, StaysOutside DEF Labels, Activating, Invalidating
  <2> QED BY <2>1, <2>3, <1>same
<1>9. ASSUME NEW t \in Threads, EndRound(t)
      PROVE  Goal
  <2>1. UNCHANGED <<index, toLink, unlinked, tip, coins, pindex, oldTip>>
    BY Zenon, <1>9 DEF EndRound
  <2>2. \A u \in Threads : pc'[u] = pc[u] \/ (pc[u] \notin Locked /\ pc'[u] \notin Locked)
    BY Zenon, <1>9, <1>pc DEF EndRound, Goto, Locked, FlushPoints
  <2>3. OneHolder' /\ CoinsAgree'
    BY Zenon, <2>1, <2>2 DEF TypeInv, OneHolder, CoinsAgree, Locked, FlushPoints
  <2>4. \A u \in Threads : Locals(u)'
    BY ZenonT(60), <2>1, <2>2 DEF TypeInv, Locals, NextToConnect, Locked, FlushPoints, Activating, Invalidating
  <2> QED BY Zenon, <2>1, <2>3, <2>4, <1>same
<1>10. ASSUME NEW t \in Threads, NEW b \in InvalidateTargets, Invalidate(t, b)
      PROVE  Goal
  <2>1. UNCHANGED <<index, toLink, unlinked, tip, coins>> /\ CsMainFree /\ pindex'[t] \in index \ {Genesis}
    BY <1>10, <1>pc, ChainStateAssumption DEF Invalidate
  <2>2. pc' = [pc EXCEPT ![t] = "invalidate"]
    BY <1>10 DEF Invalidate, Goto
  <2>3. OneHolder' /\ pc'[t] = "invalidate" /\ \A u \in Threads \ {t} : pc[u] \notin Locked /\ pc'[u] \notin Locked
    BY ZenonT(60), <2>1, <2>2, HolderMoves DEF Labels, Locked
  <2>4. CoinsAgree'
    BY ZenonT(60), <2>1 DEF TypeInv, CoinsAgree, CsMainFree, Locked, FlushPoints
  <2>5. Locals(t)'
    BY ZenonT(60), <2>1, <2>3 DEF Locals, Activating, Invalidating
  <2> QED BY Zenon, <2>1, <2>3, <2>4, <2>5, LocalsOfHolder, <1>same
<1>11. ASSUME NEW t \in Threads, ChooseCandidate(t)
      PROVE  Goal
  <2>1. /\ UNCHANGED <<index, toLink, unlinked, tip, coins>> /\ pc[t] = "find"
        /\ pindex'[t] \in index /\ oldTip' \in index
    BY ZenonT(60), <1>11, <1>pc DEF ChooseCandidate, BestCandidates, TypeInv, TypeOK
  <2>2. pc' = [pc EXCEPT ![t] = "disconnect"]
    BY <1>11 DEF ChooseCandidate, Goto
  <2>3. OneHolder' /\ pc'[t] = "disconnect" /\ \A u \in Threads \ {t} : pc[u] \notin Locked /\ pc'[u] \notin Locked
    BY Zenon, <2>1, <2>2, HolderMoves DEF Labels, Locked
  <2>4. CoinsAgree'
    BY ZenonT(60), <2>1, <2>3 DEF TypeInv, CoinsAgree, Locked, FlushPoints
  <2>5. Locals(t)'
    BY Zenon, <2>1, <2>3 DEF Locals, Activating, Invalidating
  <2> QED BY ZenonT(60), <2>1, <2>3, <2>4, <2>5, LocalsOfHolder, <1>same
<1>12. ASSUME NEW t \in Threads, ForkReached(t)
      PROVE  Goal
  <2>1. /\ UNCHANGED <<index, toLink, unlinked, tip, coins, pindex>> /\ pc[t] = "disconnect"
        /\ tip \in Ancestors[pindex[t]] /\ pindex[t] \in index /\ oldTip \in index
    BY Zenon, <1>12 DEF ForkReached, TypeInv, Locals, Activating
  <2>2. CASE tip = pindex[t]
    <3>1. pc' = [pc EXCEPT ![t] = "check"]
      BY <1>12, <2>2 DEF ForkReached, Goto
    <3>2. OneHolder' /\ CoinsAgree' /\ \A u \in Threads : Locals(u)'
      BY Zenon, <2>1, <3>1, StaysOutside DEF Labels, Locked, Activating, Invalidating
    <3> QED BY ZenonT(60), <2>1, <3>2, <1>same
  <2>3. CASE tip # pindex[t]
    <3>1. pc' = [pc EXCEPT ![t] = "connect"] /\ oldTip' = oldTip
      BY <1>12, <2>3 DEF ForkReached, Goto
    <3>2. OneHolder' /\ pc'[t] = "connect" /\ \A u \in Threads \ {t} : pc[u] \notin Locked /\ pc'[u] \notin Locked
      BY Zenon, <2>1, <3>1, HolderMoves DEF Labels, Locked
    <3>3. CoinsAgree'
      BY Zenon, <2>1, <3>2 DEF TypeInv, CoinsAgree, Locked, FlushPoints
    <3>4. Locals(t)'
      BY Zenon, <2>1, <2>3, <3>1, <3>2 DEF Locals, Activating, Invalidating
    <3> QED BY ZenonT(60), <2>1, <3>2, <3>3, <3>4, LocalsOfHolder, <1>same
  <2> QED BY Zenon, <2>2, <2>3
<1>13. ASSUME NEW t \in Threads, ConnectTip(t)
      PROVE  Goal
  <2>1. /\ UNCHANGED <<index, toLink, unlinked, tip, pindex, oldTip>> /\ pc[t] = "connect"
        /\ tip \in Ancestors[pindex[t]] /\ pindex[t] \in index /\ oldTip \in index
        /\ coins' \in NextToConnect(t)
    BY <1>13 DEF ConnectTip, TypeInv, Locals, Activating
  <2>2. pc' = [pc EXCEPT ![t] = "flushConnect"]
    BY <1>13 DEF ConnectTip, Goto
  <2>3. /\ OneHolder' /\ pc'[t] = "flushConnect"
        /\ \A u \in Threads \ {t} : pc[u] \notin Locked /\ pc'[u] \notin Locked
    BY Zenon, <2>1, <2>2, HolderMoves DEF Labels, Locked, FlushPoints
  <2>4. CoinsAgree'
    BY SMTT(60), <2>3 DEF CoinsAgree
  <2>5. Locals(t)'
    BY ZenonT(60), <2>1, <2>3 DEF Locals, NextToConnect, Activating, Invalidating
  <2> QED BY Zenon, <2>1, <2>3, <2>4, <2>5, LocalsOfHolder, <1>same
<1>14. ASSUME NEW t \in Threads, ConnectTipDone(t)
      PROVE  Goal
  <2>1. /\ UNCHANGED <<index, toLink, unlinked, coins, pindex>> /\ pc[t] = "flushConnect" /\ tip' = coins
        /\ pindex[t] \in index /\ oldTip \in index /\ coins \in Ancestors[pindex[t]]
    BY ZenonT(60), <1>14 DEF ConnectTipDone, TypeInv, Locals, Activating, NextToConnect
  <2>2. CASE Work[coins] > Work[oldTip] \/ coins = pindex[t]
    <3>1. pc' = [pc EXCEPT ![t] = "check"]
      BY Zenon, <1>14, <2>2 DEF ConnectTipDone, Goto
    <3>2. OneHolder' /\ pc'[t] = "check" /\ \A u \in Threads \ {t} : pc[u] \notin Locked /\ pc'[u] \notin Locked
      BY ZenonT(60), <2>1, <3>1, HolderMoves DEF Labels, Locked, FlushPoints
    <3>3. CoinsAgree' /\ Locals(t)'
      BY ZenonT(60), <2>1, <3>2 DEF CoinsAgree, Locals, Activating, Invalidating
    <3> QED BY Zenon, <2>1, <3>2, <3>3, LocalsOfHolder, <1>same
  <2>3. CASE ~(Work[coins] > Work[oldTip] \/ coins = pindex[t])
    <3>1. pc' = [pc EXCEPT ![t] = "connect"] /\ oldTip' = oldTip
      BY Zenon, <1>14, <2>3 DEF ConnectTipDone, Goto
    <3>2. OneHolder' /\ pc'[t] = "connect" /\ \A u \in Threads \ {t} : pc[u] \notin Locked /\ pc'[u] \notin Locked
      BY ZenonT(60), <2>1, <3>1, HolderMoves DEF Labels, Locked, FlushPoints
    <3>3. CoinsAgree' /\ Locals(t)'
      BY Zenon, <2>1, <2>3, <3>1, <3>2 DEF CoinsAgree, Locals, Activating, Invalidating
    <3> QED BY Zenon, <2>1, <3>2, <3>3, LocalsOfHolder, <1>same
  <2> QED BY ZenonT(60), <2>2, <2>3
<1>15. ASSUME NEW t \in Threads, DisconnectTip(t) \/ InvalidateTip(t)
      PROVE  Goal
  <2>1. /\ UNCHANGED <<index, toLink, unlinked, tip, pindex, oldTip>> /\ coins' = Parent[tip] /\ tip # Genesis
        /\ pc[t] \in {"disconnect", "invalidate"}
    BY Zenon, <1>15, TipToDisconnect DEF DisconnectTip, InvalidateTip, DisconnectBlock
  <2>2. \E l \in {"flushDisconnect", "flushInvalidate"} : pc' = [pc EXCEPT ![t] = l]
    BY Zenon, <1>15 DEF DisconnectTip, InvalidateTip, Goto
  <2>3. OneHolder' /\ \A u \in Threads \ {t} : pc[u] \notin Locked /\ pc'[u] \notin Locked
    BY Zenon, <2>1, <2>2, HolderMoves DEF Labels, Locked, FlushPoints
  <2>4. CoinsAgree'
    BY <2>2, <1>pc DEF CoinsAgree
  <2>5. Locals(t)'
    <3>1. CASE DisconnectTip(t)
      BY ZenonT(60), <2>1, <3>1, <1>pc DEF DisconnectTip, Goto, TypeInv, Locals, Activating, Invalidating
    <3>2. CASE InvalidateTip(t)
      BY Zenon, <2>1, <3>2, <1>pc DEF InvalidateTip, Goto, TypeInv, Locals, Activating, Invalidating
    <3> QED BY <1>15, <3>1, <3>2
  <2> QED BY Zenon, <2>1, <2>3, <2>4, <2>5, LocalsOfHolder, <1>same
<1>16. ASSUME NEW t \in Threads, DisconnectTipDone(t) \/ InvalidateTipDone(t)
      PROVE  Goal
  <2>1. /\ UNCHANGED <<index, toLink, unlinked, coins, pindex, oldTip>> /\ tip' = coins
        /\ pc[t] \in {"flushDisconnect", "flushInvalidate"}
    <3>1. /\ UNCHANGED <<index, toLink, unlinked, coins, pindex, oldTip>> /\ tip' = Parent[tip]
          /\ pc[t] = "flushDisconnect" \/ pc[t] = "flushInvalidate"
      BY Zenon, <1>16 DEF DisconnectTipDone, InvalidateTipDone, treeVars, linkVars
    <3>2. coins = Parent[tip]
      BY Zenon, <3>1 DEF TypeInv, Locals
    <3> QED BY Zenon, <3>1, <3>2
  <2>2. \E l \in {"disconnect", "invalidate"} : pc' = [pc EXCEPT ![t] = l]
    BY Zenon, <1>16 DEF DisconnectTipDone, InvalidateTipDone, Goto
  <2>3. OneHolder' /\ \A u \in Threads \ {t} : pc[u] \notin Locked /\ pc'[u] \notin Locked
    BY Zenon, <2>1, <2>2, HolderMoves DEF Labels, Locked, FlushPoints
  <2>4. CoinsAgree'
    BY Zenon, <2>1 DEF CoinsAgree
  <2>5. Locals(t)'
    BY Zenon, <1>16, <2>1, <1>pc DEF DisconnectTipDone, InvalidateTipDone, Goto, TypeInv, Locals, Activating,
       Invalidating
  <2> QED BY ZenonT(60), <2>1, <2>3, <2>4, <2>5, LocalsOfHolder, <1>same
<1>17. CASE UNCHANGED vars
  BY ZenonT(60), <1>17, <1>same DEF TypeInv, OneHolder, CoinsAgree, Locals, NextToConnect
<1> QED BY Zenon, <1>1, <1>2, <1>3, <1>4, <1>5, <1>6, <1>7, <1>8, <1>9, <1>10, <1>11, <1>12, <1>13, <1>14, <1>15,
           <1>16, <1>17, ChainStateAssumption
        DEF Next, Receive, Operator, Continue

\* Every step of a handler preserves the first layer.
LEMMA TypeInvStep == TypeInv /\ [Next]_vars => TypeInv'
BY TypeOKStep, HolderStep DEF TypeInv

\* Every state of the block index is well typed, at most one thread is past
\* LOCK(cs_main), and chainActive and pcoinsTip stay in the block index.
THEOREM TypeCorrect == Spec => []TypeOK
<1>1. Spec => []TypeInv
  BY TypeInvInit, TypeInvStep, PTL DEF Spec
<1>2. TypeInv => TypeOK
  BY ZenonT(60) DEF TypeInv
<1> QED BY <1>1, <1>2, PTL

-----------------------------------------------------------------------------
(* Links, data and candidates. *)

\* The state after InitBlockIndex satisfies the layer of links.
LEMMA LinkInvInit == Init => LinkInv
BY TreeAssumption, AncestorsAssumption DEF Init, LinkInv, DataInv, QueueInv, LinkedInv, ChoiceInv, Waits,
   Activating

\* The queue of ReceivedBlockTransactions is empty outside that function.
LEMMA NothingWaits ==
    ASSUME TypeInv, QueueInv, CsMainFree \/ \E t \in Threads : pc[t] \in Locked \ {"link"}
    PROVE  \A b \in Blocks : toLink[b] = 0 /\ ~Waits(b)
<1> SUFFICES ASSUME NEW b \in Blocks PROVE toLink[b] = 0 /\ ~Waits(b)
  BY Zenon
<1>1. ~Waits(b)
  <2> SUFFICES ASSUME Waits(b) PROVE FALSE
    OBVIOUS
  <2>1. PICK s \in Threads : pc[s] = "link"
    BY DEF QueueInv
  <2> QED BY <2>1 DEF TypeInv, OneHolder, CsMainFree, Locked
<1>2. toLink[b] \in Nat
  BY DEF TypeInv, TypeOK
<1>3. toLink[b] = 0
  BY <1>1, <1>2 DEF Waits
<1> QED BY <1>1, <1>3

\* pprev of a block is another block.
LEMMA ParentDiffers ==
    ASSUME NEW b \in Blocks \ {Genesis}
    PROVE  Parent[b] # b
<1>1. Height[b] = Height[Parent[b]] + 1 /\ Height[b] \in Nat
  BY TreeAssumption
<1> QED BY <1>1

\* A step that leaves links, data and queues alone, taken by a thread that is not
\* in the loop of ReceivedBlockTransactions.
LEMMA LinksUntouched ==
    ASSUME TypeInv, LinkInv, NEW t \in Threads, pc[t] # "link",
           \A u \in Threads : u # t => pc'[u] = pc[u],
           UNCHANGED <<processed, haveData, haveUndo, havePruned, linked, sequenceId, toLink, unlinked>>
    PROVE  DataInv' /\ QueueInv' /\ LinkedInv'
<1>1. DataInv' /\ LinkedInv'
  BY ZenonT(60) DEF LinkInv, DataInv, LinkedInv, Waits
<1>2. QueueInv'
  BY DEF LinkInv, QueueInv, Waits, ParentLinked
<1> QED BY ZenonT(60), <1>1, <1>2

\* What enters setBlockIndexCandidates, or becomes the tip, is linked.
LEMMA ChoiceKept ==
    ASSUME TypeInv, LinkInv, UNCHANGED <<linked, toLink>>,
           candidates' \subseteq candidates \cup linked,
           {tip', coins'} \subseteq {tip, coins} \cup linked,
           \A u \in Threads : pc'[u] \in Activating =>
               pindex'[u] \in linked \/ (pc[u] \in Activating /\ pindex'[u] = pindex[u])
    PROVE  ChoiceInv'
BY DEF LinkInv, ChoiceInv, Waits

\* Inside ActivateBestChainStep and InvalidateBlock the parent of the tip is linked.
LEMMA ParentOfTipLinked ==
    ASSUME TypeInv, LinkInv, NEW t \in Threads, pc[t] \in Locked \ {"link"}, tip # Genesis
    PROVE  Parent[tip] \in linked
<1>1. \A b \in Blocks : ~Waits(b)
  BY Zenon, NothingWaits DEF LinkInv
<1>2. tip \in Blocks
  BY ZenonT(60) DEF TypeInv, TypeOK
<1>3. tip \in linked
  BY <1>1, <1>2 DEF LinkInv, ChoiceInv
<1>4. Parent[tip] \in Ancestors[tip] /\ Parent[tip] \in Blocks
  BY Zenon, <1>2, AncestorsBasic
<1> QED BY <1>1, <1>3, <1>4 DEF LinkInv, LinkedInv

\* Every step of a handler preserves the layer of links.
LEMMA LinkInvStep == TypeInv /\ LinkInv /\ [Next]_vars => LinkInv'
<1> SUFFICES ASSUME TypeInv, LinkInv, [Next]_vars PROVE LinkInv'
  OBVIOUS
<1>pc. pc \in [Threads -> Labels]
  BY DEF TypeInv, TypeOK
<1>pi. pindex \in [Threads -> index \cup {NULL}]
  BY DEF TypeInv, TypeOK
<1>1. ASSUME NEW t \in Threads, NEW b \in Blocks, NEW fRequested \in BOOLEAN, StoreBlock(t, b, fRequested)
      PROVE  LinkInv'
  <2>1. DataInv'
    BY Zenon, <1>1 DEF StoreBlock, LinkInv, DataInv
  <2>2. \A c \in Blocks : toLink[c] = 0 /\ ~Waits(c)
    BY <1>1, NothingWaits DEF StoreBlock, ReceiveBlock, LinkInv
  <2>3. CASE ParentLinked(b)
    <3>1. /\ toLink' = [toLink EXCEPT ![b] = 1] /\ unlinked' = unlinked /\ pc' = [pc EXCEPT ![t] = "link"]
          /\ processed' = processed \cup {b} /\ linked' = linked \ {b}
          /\ UNCHANGED <<sequenceId, candidates, tip, coins, pindex>>
      BY <1>1, <2>3 DEF StoreBlock, Goto
    <3>2. \A c \in Blocks : Waits(c)' <=> c = b
      <4>1. toLink \in [Blocks -> Nat]
        BY Zenon DEF TypeInv, TypeOK
      <4>2. \A c \in Blocks : toLink'[c] = IF c = b THEN 1 ELSE 0
        BY Zenon, <2>2, <3>1, <4>1
      <4> QED BY <4>2 DEF Waits
    <3>3. ParentLinked(b)'
      BY <2>3, <3>1, ParentDiffers DEF ParentLinked
    <3>4. QueueInv'
      BY Zenon, <3>1, <3>2, <3>3, <1>pc DEF LinkInv, QueueInv
    <3>5. LinkedInv'
      <4>1. linked' = linked \ {b} /\ sequenceId' = sequenceId
        BY Zenon, <1>1 DEF StoreBlock
      <4>2. ASSUME NEW c \in linked, NEW a \in Ancestors[c]
            PROVE  a \in linked' \/ Waits(a)'
        <5>1. c \in Blocks /\ a \in Blocks
          BY Zenon, <4>2, AncestorsBasic DEF TypeInv, TypeOK
        <5>2. a \in linked
          BY Zenon, <2>2, <4>2, <5>1 DEF LinkInv, LinkedInv
        <5> QED BY Zenon, <3>2, <4>1, <5>1, <5>2
      <4>3. ASSUME NEW c \in Blocks, c \notin linked'
            PROVE  sequenceId'[c] = 0 \/ Waits(c)'
        <5>1. c # b => sequenceId[c] = 0
          BY Zenon, <2>2, <4>1, <4>3 DEF LinkInv, LinkedInv
        <5> QED BY Zenon, <3>2, <4>1, <5>1
      <4> QED BY Zenon, <4>1, <4>2, <4>3 DEF LinkedInv
    <3>6. \A c \in Blocks : c \in linked \/ Waits(c) => c \in linked' \/ Waits(c)'
      BY <2>2, <3>1, <3>2
    <3>7. \A u \in Threads : pc[u] \notin Activating
      BY Zenon, <1>1 DEF StoreBlock, ReceiveBlock, CsMainFree, Locked, FlushPoints, Activating
    <3>8. ChoiceInv'
      <4>1. \A u \in Threads : pc'[u] \notin Activating
        BY Zenon, <3>1, <3>7, <1>pc DEF Activating
      <4>2. \A c \in candidates \cup {tip, coins} : c \in Blocks /\ (c \in linked \/ Waits(c))
        BY Zenon DEF LinkInv, ChoiceInv, TypeInv, TypeOK
      <4>3. candidates' = candidates /\ tip' = tip /\ coins' = coins
        BY Zenon, <1>1 DEF StoreBlock, chainVars
      <4>4. \A c \in candidates' \cup {tip', coins'} : c \in linked' \/ Waits(c)'
        BY Zenon, <3>6, <4>2, <4>3
      <4> QED BY Zenon, <4>1, <4>4 DEF ChoiceInv
    <3> QED BY Zenon, <2>1, <3>4, <3>5, <3>8 DEF LinkInv
  <2>4. CASE ~ParentLinked(b)
    <3>1. b \notin linked
      BY ZenonT(60), <2>2, <2>4, AncestorsBasic DEF LinkInv, LinkedInv, ParentLinked
    <3>2. /\ toLink' = toLink /\ (unlinked' = unlinked \/ unlinked' = [unlinked EXCEPT ![b] = unlinked[b] + 1])
          /\ pc' = [pc EXCEPT ![t] = "stored"]
          /\ processed' = processed \cup {b} /\ linked' = linked
          /\ UNCHANGED <<sequenceId, candidates, tip, coins, pindex>>
      BY <1>1, <2>4, <3>1 DEF StoreBlock, Goto
    <3>3. \A c \in Blocks : ~Waits(c)'
      BY ZenonT(60), <2>2, <3>2 DEF Waits
    <3>4. QueueInv'
      BY ZenonT(60), <3>2, <3>3 DEF LinkInv, QueueInv, TypeInv, TypeOK
    <3>5. LinkedInv'
      BY Zenon, <3>2 DEF LinkInv, LinkedInv, Waits
    <3>6. ChoiceInv'
      BY <3>2, <1>pc, ChoiceKept DEF Activating
    <3> QED BY ZenonT(60), <2>1, <3>4, <3>5, <3>6 DEF LinkInv
  <2> QED BY <2>3, <2>4
<1>2. ASSUME NEW t \in Threads, LinkBlock(t)
      PROVE  LinkInv'
  <2>1. PICK b \in Blocks : Link(b)
    BY <1>2 DEF LinkBlock
  <2>2. UNCHANGED <<processed, haveData, haveUndo, havePruned, tip, coins, pindex>>
    BY Zenon, <1>2 DEF LinkBlock
  <2>3. linked' = linked \cup {b} /\ Waits(b)
    BY Zenon, <2>1 DEF Link, Waits
  <2>4. DataInv'
    BY Zenon, <2>2, <2>3 DEF LinkInv, DataInv, QueueInv
  <2>5. \A a \in Blocks : a \in linked \/ Waits(a) => a \in linked' \/ Waits(a)'
    BY <2>1 DEF Link, Waits, TypeInv, TypeOK
  <2>6. QueueInv'
    <3>1. ASSUME NEW c \in Blocks, Waits(c)'
          PROVE  c \in processed /\ ParentLinked(c)'
      <4>1. CASE Waits(c)
        BY ZenonT(60), <2>3, <4>1 DEF LinkInv, QueueInv, ParentLinked
      <4>2. CASE c \in Children(b) /\ unlinked[c] > 0
        BY ZenonT(60), <2>3, <4>2 DEF LinkInv, QueueInv, Children, ParentLinked
      <4> QED BY <2>1, <3>1, <4>1, <4>2 DEF Link, Waits, TypeInv, TypeOK
    <3>2. ASSUME NEW c \in Blocks, Waits(c)'
          PROVE  pc'[t] = "link"
      BY <1>2, <3>2, <1>pc DEF LinkBlock, Goto, Waits
    <3>3. ASSUME NEW c \in Blocks, unlinked'[c] > 0
          PROVE  c \in processed
      <4>1. unlinked' = [d \in Blocks |-> IF d \in Children(b) THEN 0 ELSE unlinked[d]]
        BY Zenon, <2>1 DEF Link, EraseUnlinked
      <4>2. unlinked'[c] = 0 \/ unlinked'[c] = unlinked[c]
        BY Zenon, <3>3, <4>1
      <4>3. unlinked[c] > 0
        BY Zenon, <3>3, <4>2, ZeroNotPositive
      <4> QED BY Zenon, <3>3, <4>3 DEF LinkInv, QueueInv
    <3> QED BY ZenonT(60), <2>2, <3>1, <3>2, <3>3 DEF QueueInv
  <2>7. LinkedInv'
    <3>1. ASSUME NEW c \in linked', NEW a \in Ancestors[c]
          PROVE  a \in linked' \/ Waits(a)'
      <4>1. CASE c \in linked
        BY Zenon, <2>5, <4>1, AncestorsBasic DEF LinkInv, LinkedInv, TypeInv, TypeOK
      <4>2. CASE c = b /\ a # b
        <5>1. b # Genesis
          BY ZenonT(60), <4>2, AncestorsAssumption
        <5>2. Parent[b] \in linked /\ a \in Ancestors[Parent[b]]
          <6>1. Parent[b] \in linked
            BY Zenon, <2>3, <5>1 DEF LinkInv, QueueInv, ParentLinked
          <6>2. Ancestors[b] = Ancestors[Parent[b]] \cup {b}
            BY Zenon, <2>3, <5>1, AncestorsBasic
          <6> QED BY Zenon, <4>2, <3>1, <6>1, <6>2
        <5> QED BY Zenon, <2>5, <5>1, <5>2, AncestorsBasic DEF LinkInv, LinkedInv
      <4>3. CASE c = b /\ a = b
        BY ZenonT(60), <4>3, <3>1
      <4> QED BY Zenon, <2>3, <4>1, <4>2, <4>3
    <3>2. ASSUME NEW c \in Blocks \ linked'
          PROVE  sequenceId'[c] = 0 \/ Waits(c)'
      <4>1. c # b /\ c \notin linked
        BY Zenon, <2>3, <3>2
      <4>2. sequenceId'[c] = sequenceId[c]
        BY Zenon, <2>1, <4>1 DEF Link, TypeInv, TypeOK
      <4> QED BY <2>5, <4>1, <4>2 DEF LinkInv, LinkedInv
    <3> QED BY Zenon, <3>1, <3>2 DEF LinkedInv
  <2>8. ChoiceInv'
    <3>1. candidates' \subseteq candidates \cup {b}
      BY Zenon, <2>1 DEF Link
    <3>2. \A u \in Threads : pc'[u] \in Activating => pc[u] \in Activating
      BY ZenonT(60), <1>2, <1>pc DEF LinkBlock, Goto, Activating
    <3>3. candidates \subseteq Blocks /\ tip \in Blocks /\ coins \in Blocks
      BY SMTT(60) DEF TypeInv, TypeOK
    <3> QED BY ZenonT(60), <2>2, <2>3, <2>5, <3>1, <3>2, <3>3 DEF LinkInv, ChoiceInv
  <2> QED BY ZenonT(60), <2>4, <2>6, <2>7, <2>8 DEF LinkInv
<1>3. ASSUME NEW t \in Threads, DropCandidate(t)
      PROVE  LinkInv'
  <2>1. PICK best \in BestCandidates : \E test \in Unusable(best) :
            (\A b \in Unusable(best) : Height[b] <= Height[test]) /\ Drop(best, test)
    BY <1>3 DEF DropCandidate
  <2>2. PICK test \in Unusable(best) :
            (\A b \in Unusable(best) : Height[b] <= Height[test]) /\ Drop(best, test)
    BY ZenonT(60), <2>1
  <2>3. best \in Blocks /\ test \in Blocks
    BY Zenon, AncestorsBasic DEF BestCandidates, Unusable, PathToActive, TypeInv, TypeOK
  <2>4. ASSUME NEW b \in Above(best, test)
        PROVE  b \in processed
    <3>1. b \in Blocks /\ Height[b] > Height[test]
      BY <2>3, AncestorsBasic DEF Above, PathToActive
    <3>2. Height[b] \in Nat /\ Height[test] \in Nat
      BY ZenonT(60), <2>3, <3>1, TreeAssumption
    <3>3. b \notin Unusable(best)
      BY <2>2, <3>1, <3>2
    <3> QED BY ZenonT(60), <3>1, <3>3 DEF Above, Unusable, LinkInv, DataInv
  <2>5. ASSUME NEW b \in Blocks, unlinked'[b] > 0
        PROVE  b \in processed
    <3>1. unlinked[b] \in Nat
      BY DEF TypeInv, TypeOK
    <3>2. CASE b \in Above(best, test)
      BY ZenonT(60), <2>4, <3>2
    <3>3. CASE b \notin Above(best, test)
      <4>1. unlinked'[b] = unlinked[b] \/ unlinked'[b] = unlinked[b] + 0
        BY Zenon, <2>2, <3>3 DEF Drop
      <4>2. unlinked'[b] = unlinked[b]
        BY <3>1, <4>1
      <4> QED BY Zenon, <2>5, <4>2 DEF LinkInv, QueueInv
    <3> QED BY ZenonT(60), <3>2, <3>3
  <2>6. candidates' \subseteq candidates
    BY Zenon, <2>2 DEF Drop
  <2>7. UNCHANGED <<processed, haveData, haveUndo, havePruned, linked, sequenceId, toLink, tip, coins, pc, pindex>>
    BY Zenon, <1>3 DEF DropCandidate
  <2>8. QueueInv'
    BY Zenon, <2>5, <2>7 DEF LinkInv, QueueInv, Waits, ParentLinked
  <2> QED BY Zenon, <2>6, <2>7, <2>8 DEF LinkInv, DataInv, LinkedInv, ChoiceInv, Waits
<1>4. ASSUME NEW t \in Threads, NEW bs \in SUBSET Blocks, Prune(t, bs)
      PROVE  LinkInv'
  <2>1. /\ haveData' = haveData \ bs /\ haveUndo' = haveUndo \ bs
        /\ havePruned' = (havePruned \/ bs # {})
        /\ unlinked' = [b \in Blocks |-> IF b \in bs THEN 0 ELSE unlinked[b]]
        /\ UNCHANGED <<processed, linked, sequenceId, toLink, candidates, tip, coins, pc, pindex>>
    BY <1>4 DEF Prune
  <2>2. DataInv'
    BY ZenonT(60), <2>1 DEF LinkInv, DataInv
  <2>3. QueueInv'
    <3>1. \A b \in Blocks : unlinked'[b] > 0 => unlinked[b] > 0
      <4>1. TAKE b \in Blocks
      <4>2. unlinked'[b] = IF b \in bs THEN 0 ELSE unlinked[b]
        BY Zenon, <2>1
      <4> QED BY SMT, <4>2
    <3> QED BY Zenon, <2>1, <3>1 DEF LinkInv, QueueInv, Waits, ParentLinked
  <2> QED BY Zenon, <2>1, <2>2, <2>3 DEF LinkInv, LinkedInv, ChoiceInv, Waits
<1>5. ASSUME NEW t \in Threads, ConnectTip(t)
      PROVE  LinkInv'
  <2>1. /\ haveUndo' \subseteq haveUndo \cup haveData /\ coins' \in Ancestors[pindex[t]]
        /\ pc' = [pc EXCEPT ![t] = "flushConnect"]
        /\ UNCHANGED <<processed, haveData, havePruned, linked, sequenceId, toLink, unlinked, candidates, tip, pindex>>
    BY SMTT(60), <1>5 DEF ConnectTip, NextToConnect, Goto
  <2>2. DataInv' /\ LinkedInv'
    BY Zenon, <2>1 DEF LinkInv, DataInv, LinkedInv, Waits
  <2>3. QueueInv'
    BY ZenonT(60), <1>5, <2>1, <1>pc DEF ConnectTip, LinkInv, QueueInv, Waits, ParentLinked
  <2>4. coins' \in linked
    <3>1. \A b \in Blocks : ~Waits(b)
      BY Zenon, <1>5, NothingWaits DEF ConnectTip, Locked, LinkInv
    <3>2. pindex[t] \in linked /\ linked \subseteq Blocks
      BY ZenonT(60), <1>5 DEF ConnectTip, LinkInv, ChoiceInv, Activating, TypeInv, TypeOK
    <3> QED BY Zenon, <2>1, <3>1, <3>2, AncestorsBasic DEF LinkInv, LinkedInv
  <2>5. ChoiceInv'
    BY SMTT(60), <1>5, <2>1, <2>4, <1>pc, ChoiceKept DEF ConnectTip, Activating
  <2> QED BY ZenonT(60), <2>2, <2>3, <2>5 DEF LinkInv
<1>6. ASSUME NEW t \in Threads, NEW b \in Blocks, NEW fRequested \in BOOLEAN,
             ProcessHeader(t, b) \/ IgnoreBlock(t, b, fRequested) \/ RejectBlock(t, b, fRequested)
      PROVE  LinkInv'
  <2>1. pc[t] # "link" /\ \A u \in Threads : u # t => pc'[u] = pc[u]
    BY Zenon, <1>6, <1>pc DEF ProcessHeader, IgnoreBlock, RejectBlock, ReceiveBlock, Goto
  <2>2. UNCHANGED <<processed, haveData, haveUndo, havePruned, linked, sequenceId, toLink, unlinked,
                    candidates, tip, coins, pindex>>
    BY ZenonT(60), <1>6 DEF ProcessHeader, IgnoreBlock, RejectBlock
  <2>3. \A u \in Threads : pc'[u] \in Activating => pc[u] \in Activating
    <3>1. pc' = pc \/ pc' = [pc EXCEPT ![t] = "activate"]
      BY Zenon, <1>6 DEF ProcessHeader, IgnoreBlock, RejectBlock, Goto, threadVars
    <3>2. "activate" \notin Activating
      BY Zenon DEF Activating
    <3> QED BY Zenon, <1>pc, <3>1, <3>2
  <2> QED BY ZenonT(60), <2>1, <2>2, <2>3, LinksUntouched, ChoiceKept DEF LinkInv
<1>7. ASSUME NEW t \in Threads, NEW b \in Blocks, Invalidate(t, b) \/ Reconsider(t, b)
      PROVE  LinkInv'
  <2>1. pc[t] # "link" /\ \A u \in Threads : u # t => pc'[u] = pc[u]
    <3>1. \E l \in {"invalidate", "activate"} : pc[t] = "idle" /\ pc' = [pc EXCEPT ![t] = l]
      BY ZenonT(60), <1>7 DEF Invalidate, Reconsider, Goto
    <3> QED BY Zenon, <3>1, <1>pc
  <2>2. UNCHANGED <<processed, haveData, haveUndo, havePruned, linked, sequenceId, toLink, unlinked, tip, coins>>
    BY ZenonT(60), <1>7 DEF Invalidate, Reconsider
  <2>3. candidates' \subseteq candidates \cup linked
    BY ZenonT(60), <1>7 DEF Invalidate, MarkInvalid, Reconsider, Restored
  <2>4. \A u \in Threads : pc'[u] \in Activating => pc[u] \in Activating /\ pindex'[u] = pindex[u]
    BY Zenon, <1>7, <1>pc, <1>pi DEF Invalidate, Reconsider, Goto, Activating
  <2> QED BY ZenonT(60), <2>1, <2>2, <2>3, <2>4, LinksUntouched, ChoiceKept DEF LinkInv
<1>8. ASSUME NEW t \in Threads, ChooseCandidate(t)
      PROVE  LinkInv'
  <2>1. \A b \in Blocks : ~Waits(b)
    BY <1>8, NothingWaits DEF ChooseCandidate, Locked, LinkInv
  <2>2. PICK best \in candidates : pindex' = [pindex EXCEPT ![t] = best]
    BY Zenon, <1>8 DEF ChooseCandidate, BestCandidates
  <2>3. best \in linked
    BY Zenon, <2>1, <2>2 DEF LinkInv, ChoiceInv, TypeInv, TypeOK
  <2>4. pc[t] # "link" /\ pc' = [pc EXCEPT ![t] = "disconnect"]
    BY Zenon, <1>8 DEF ChooseCandidate, Goto
  <2>5. UNCHANGED <<processed, haveData, haveUndo, havePruned, linked, sequenceId, toLink, unlinked,
                    candidates, tip, coins>>
    BY Zenon, <1>8 DEF ChooseCandidate
  <2>6. DataInv' /\ QueueInv' /\ LinkedInv'
    BY Zenon, <2>4, <2>5, <1>pc, LinksUntouched
  <2>7. ChoiceInv'
    BY Zenon, <2>2, <2>3, <2>4, <2>5, <1>pc, <1>pi, ChoiceKept
  <2> QED BY <2>6, <2>7 DEF LinkInv
<1>9. ASSUME NEW t \in Threads, AcceptBlockDone(t) \/ BeginRound(t) \/ NothingToActivate(t) \/ ForkReached(t)
      PROVE  LinkInv'
  <2>1. pc[t] # "link" /\ \A u \in Threads : u # t => pc'[u] = pc[u]
    BY Zenon, <1>9, <1>pc DEF AcceptBlockDone, BeginRound, NothingToActivate, ForkReached, Goto
  <2>2. UNCHANGED <<processed, haveData, haveUndo, havePruned, linked, sequenceId, toLink, unlinked, tip, coins>>
    BY Zenon, <1>9 DEF AcceptBlockDone, BeginRound, NothingToActivate, ForkReached
  <2>3. candidates' \subseteq candidates \cup linked
    BY ZenonT(60), <1>9 DEF AcceptBlockDone, BeginRound, NothingToActivate, ForkReached
  <2>4. \A u \in Threads : pc'[u] \in Activating => pc[u] \in Activating /\ pindex'[u] = pindex[u]
    BY Zenon, <1>9, <1>pc, <1>pi DEF AcceptBlockDone, BeginRound, NothingToActivate, ForkReached, Goto, Activating
  <2> QED BY Zenon, <2>1, <2>2, <2>3, <2>4, LinksUntouched, ChoiceKept DEF LinkInv
<1>10. ASSUME NEW t \in Threads, ConnectTipFails(t) \/ Abort(t) \/ ConnectBlockCrashes(t)
              \/ DisconnectTipFails(t) \/ EndRound(t)
      PROVE  LinkInv'
  <2>1. pc[t] # "link" /\ \A u \in Threads : u # t => pc'[u] = pc[u]
    BY Zenon, <1>10, <1>pc DEF ConnectTipFails, Abort, ConnectBlockCrashes, DisconnectTipFails, EndRound, Goto
  <2>2. UNCHANGED <<processed, haveData, haveUndo, havePruned, linked, sequenceId, toLink, unlinked, tip, coins>>
    BY Zenon, <1>10 DEF ConnectTipFails, Abort, ConnectBlockCrashes, DisconnectTipFails, EndRound
  <2>3. candidates' \subseteq candidates \cup linked
    BY Zenon, <1>10 DEF ConnectTipFails, Abort, ConnectBlockCrashes, DisconnectTipFails, EndRound, MarkInvalid
  <2>4. \A u \in Threads : pc'[u] \in Activating => pc[u] \in Activating /\ pindex'[u] = pindex[u]
    BY ZenonT(60), <1>10, <1>pc, <1>pi DEF ConnectTipFails, Abort, ConnectBlockCrashes, DisconnectTipFails,
       EndRound, Goto, Activating
  <2> QED BY ZenonT(60), <2>1, <2>2, <2>3, <2>4, LinksUntouched, ChoiceKept DEF LinkInv
<1>11. ASSUME NEW t \in Threads, BeginPeriodicFlush(t) \/ ActivateBestChainDone(t) \/ InvalidateTipFails(t) \/ InvalidateDone(t)
      PROVE  LinkInv'
  <2>1. pc[t] # "link" /\ \A u \in Threads : u # t => pc'[u] = pc[u]
    BY Zenon, <1>11, <1>pc DEF BeginPeriodicFlush, ActivateBestChainDone, InvalidateTipFails, InvalidateDone, Goto
  <2>2. UNCHANGED <<processed, haveData, haveUndo, havePruned, linked, sequenceId, toLink, unlinked, tip, coins>>
    BY Zenon, <1>11 DEF BeginPeriodicFlush, ActivateBestChainDone, InvalidateTipFails, InvalidateDone
  <2>3. candidates' \subseteq candidates \cup linked
    BY ZenonT(60), <1>11 DEF BeginPeriodicFlush, ActivateBestChainDone, InvalidateTipFails, InvalidateDone, MarkTip
  <2>4. \A u \in Threads : pc'[u] \in Activating => pc[u] \in Activating /\ pindex'[u] = pindex[u]
    BY Zenon, <1>11, <1>pc, <1>pi DEF BeginPeriodicFlush, ActivateBestChainDone, InvalidateTipFails, InvalidateDone,
       Goto, Activating
  <2> QED BY Zenon, <2>1, <2>2, <2>3, <2>4, LinksUntouched, ChoiceKept DEF LinkInv
<1>12. ASSUME NEW t \in Threads,
             \/ DisconnectTip(t) \/ DisconnectTipDone(t) \/ ConnectTipDone(t)
             \/ InvalidateTip(t) \/ InvalidateTipDone(t)
      PROVE  LinkInv'
  <2>1. pc[t] \in Locked \ {"link"} /\ \A u \in Threads : u # t => pc'[u] = pc[u]
    BY ZenonT(60), <1>12, <1>pc DEF DisconnectTip, DisconnectTipDone, ConnectTipDone, InvalidateTip, InvalidateTipDone,
       Goto, Locked, FlushPoints
  <2>2. UNCHANGED <<processed, haveData, haveUndo, havePruned, linked, sequenceId, toLink, unlinked, pindex>>
    BY ZenonT(60), <1>12 DEF DisconnectTip, DisconnectTipDone, ConnectTipDone, InvalidateTip, InvalidateTipDone
  <2>3. candidates' \subseteq candidates
    BY ZenonT(60), <1>12 DEF DisconnectTip, DisconnectTipDone, ConnectTipDone, InvalidateTip, InvalidateTipDone,
       PruneBlockIndexCandidates, MarkTip
  <2>4. \A u \in Threads : pc'[u] \in Activating => pc[u] \in Activating
    BY Zenon, <1>12, <1>pc DEF DisconnectTip, DisconnectTipDone, ConnectTipDone, InvalidateTip, InvalidateTipDone,
       Goto, Activating
  <2>5. {tip', coins'} \subseteq {tip, coins} \cup linked
    <3>1. CASE DisconnectTip(t) \/ InvalidateTip(t) \/ DisconnectTipDone(t) \/ InvalidateTipDone(t)
      <4>1. tip # Genesis
        <5>1. CASE DisconnectTip(t)
          <6>1. pc[t] = "disconnect" /\ tip \notin Ancestors[pindex[t]]
            BY Zenon, <5>1 DEF DisconnectTip
          <6>2. pindex[t] \in index
            BY Zenon, <6>1 DEF TypeInv, Locals, Activating
          <6>3. pindex[t] \in Blocks
            BY Zenon, <6>2 DEF TypeInv, TypeOK
          <6> QED BY Zenon, <6>1, <6>3, AncestorsBasic
        <5>2. CASE InvalidateTip(t)
          BY ZenonT(60), <5>2, AncestorsAssumption DEF InvalidateTip, TypeInv, Locals, Invalidating, Active
        <5>3. CASE DisconnectTipDone(t) \/ InvalidateTipDone(t)
          BY Zenon, <5>3 DEF DisconnectTipDone, InvalidateTipDone, TypeInv, Locals
        <5> QED BY Zenon, <3>1, <5>1, <5>2, <5>3
      <4>2. Parent[tip] \in linked
        BY Zenon, <2>1, <4>1, ParentOfTipLinked
      <4> QED BY Zenon, <3>1, <4>2 DEF DisconnectTip, DisconnectTipDone, InvalidateTip, InvalidateTipDone,
         DisconnectBlock
    <3>2. CASE ConnectTipDone(t)
      <4>1. tip' = coins /\ coins' = coins
        BY Zenon, <3>2 DEF ConnectTipDone
      <4> QED BY Zenon, <4>1
    <3> QED BY ZenonT(60), <1>12, <3>1, <3>2
  <2> QED BY ZenonT(60), <2>1, <2>2, <2>3, <2>4, <2>5, LinksUntouched, ChoiceKept DEF LinkInv
<1>13. CASE UNCHANGED vars
  BY Zenon, <1>13 DEF vars, treeVars, dataVars, linkVars, chainVars, threadVars, LinkInv, DataInv, QueueInv,
     LinkedInv, ChoiceInv, Waits, ParentLinked
<1> QED BY Zenon, <1>1, <1>2, <1>3, <1>4, <1>5, <1>6, <1>7, <1>8, <1>9, <1>10, <1>11, <1>12, <1>13,
   ChainStateAssumption DEF Next, Receive, Operator, Continue

-----------------------------------------------------------------------------
(* The chain that is being activated. *)

\* Nothing is being activated after InitBlockIndex.
LEMMA PathInvInit == Init => PathInv
BY DEF Init, PathInv, PruneFlag, PathUsable, Activating

\* The blocks still to be connected are higher than the tip.
LEMMA PathAboveTip ==
    ASSUME TypeInv, NEW b \in Blocks, tip \in Ancestors[b], NEW a \in PathToActive(b)
    PROVE  Height[a] > Height[tip]
<1>1. a \in Ancestors[b] /\ a \in Blocks /\ a \notin Ancestors[tip] /\ tip \in Blocks
  BY Zenon, AncestorsBasic DEF PathToActive, Active, TypeInv, TypeOK
<1>2. Height[a] \in Nat /\ Height[tip] \in Nat
  BY <1>1, TreeAssumption
<1>3. ~(Height[a] <= Height[tip])
  BY <1>1, LowerIsAncestor
<1> QED BY Zenon, HeightOrder, <1>2, <1>3

\* fCheckForPruning is set only between the write of a block or of its undo data
\* and the next FlushStateToDisk, inside one critical section of cs_main.
LEMMA FlagCleared ==
    ASSUME TypeInv, PruneFlag, NEW t \in Threads,
           CsMainFree \/ pc[t] \in Locked \ {"link", "stored", "flushConnect"}
    PROVE  ~checkForPruning
<1> SUFFICES ASSUME checkForPruning PROVE FALSE
  OBVIOUS
<1>1. PICK s \in Threads : pc[s] \in {"link", "stored", "flushConnect"}
  BY DEF PruneFlag
<1> QED BY <1>1 DEF TypeInv, OneHolder, CsMainFree, Locked, FlushPoints

\* A step of the holder of cs_main that ends outside ActivateBestChainStep leaves
\* nobody inside.
LEMMA NobodyActivates ==
    ASSUME TypeInv, NEW t \in Threads, CsMainFree \/ pc[t] \in Locked,
           NEW l \in Labels \ Activating, pc' = [pc EXCEPT ![t] = l]
    PROVE  PathUsable'
BY ZenonT(60) DEF TypeInv, TypeOK, OneHolder, CsMainFree, Locked, FlushPoints, Activating, PathUsable

\* Every step of a handler leaves the chain that is being activated usable.
LEMMA PathInvStep == TypeInv /\ PathInv /\ [Next]_vars => PathInv'
<1> SUFFICES ASSUME TypeInv, PathInv, [Next]_vars PROVE PathInv'
  OBVIOUS
<1> USE DEF PathInv
<1>1. ASSUME NEW t \in Threads, NEW b \in Blocks, NEW fRequested \in BOOLEAN,
             ProcessHeader(t, b) \/ RejectBlock(t, b, fRequested)
      PROVE  PathInv'
  BY <1>1, FlagCleared DEF ProcessHeader, RejectBlock, ReceiveBlock, CsMainFree, Locked, FlushPoints,
     Activating, PruneFlag, PathUsable
<1>2. ASSUME NEW t \in Threads, NEW b \in Blocks, NEW fRequested \in BOOLEAN,
             IgnoreBlock(t, b, fRequested) \/ Invalidate(t, b) \/ Reconsider(t, b)
      PROVE  PathInv'
  <2>1. CsMainFree /\ checkForPruning' = checkForPruning
    BY ZenonT(60), <1>2 DEF IgnoreBlock, ReceiveBlock, Invalidate, Reconsider
  <2>2. \E l \in {"activate", "invalidate"} : pc' = [pc EXCEPT ![t] = l]
    BY Zenon, <1>2 DEF IgnoreBlock, Invalidate, Reconsider, Goto
  <2> QED BY ZenonT(60), <2>1, <2>2, FlagCleared, NobodyActivates DEF PruneFlag, Labels, Locked, Activating
<1>3. ASSUME NEW t \in Threads, NEW b \in Blocks, NEW fRequested \in BOOLEAN, StoreBlock(t, b, fRequested)
      PROVE  PathInv'
  <2>1. \E l \in {"link", "stored"} : pc' = [pc EXCEPT ![t] = l]
    BY <1>3 DEF StoreBlock, Goto
  <2>2. PruneFlag'
    BY <2>1 DEF PruneFlag, TypeInv, TypeOK
  <2> QED BY Zenon, <1>3, <2>1, <2>2, NobodyActivates DEF StoreBlock, ReceiveBlock, Labels, Locked, FlushPoints,
     Activating
<1>4. ASSUME NEW t \in Threads, LinkBlock(t)
      PROVE  PathInv'
  <2>1. \E l \in {"link", "stored"} : pc' = [pc EXCEPT ![t] = l]
    BY Zenon, <1>4 DEF LinkBlock, Goto
  <2>2. PruneFlag'
    BY <2>1 DEF PruneFlag, TypeInv, TypeOK
  <2> QED BY Zenon, <1>4, <2>1, <2>2, NobodyActivates DEF LinkBlock, Labels, Locked, FlushPoints, Activating
<1>5. ASSUME NEW t \in Threads, AcceptBlockDone(t)
      PROVE  PathInv'
  <2>1. PruneFlag'
    BY <1>5 DEF AcceptBlockDone, PruneFlag
  <2> QED BY Zenon, <1>5, <2>1, NobodyActivates DEF AcceptBlockDone, Goto, Labels, Locked, FlushPoints, Activating
<1>6. ASSUME NEW t \in Threads,
             \/ BeginRound(t) \/ NothingToActivate(t) \/ ConnectTipFails(t) \/ Abort(t)
             \/ ConnectBlockCrashes(t) \/ DisconnectTipFails(t)
             \/ BeginPeriodicFlush(t) \/ ActivateBestChainDone(t)
             \/ InvalidateTip(t) \/ InvalidateTipFails(t) \/ InvalidateTipDone(t) \/ InvalidateDone(t)
      PROVE  PathInv'
  <2>1. /\ CsMainFree \/ pc[t] \in Locked \ {"link", "stored", "flushConnect"}
        /\ checkForPruning' = checkForPruning
    BY Zenon, <1>6 DEF BeginRound, NothingToActivate, ConnectTipFails, Abort, ConnectBlockCrashes,
       DisconnectTipFails, BeginPeriodicFlush,
                ActivateBestChainDone, InvalidateTip, InvalidateTipFails, InvalidateTipDone, InvalidateDone,
                Locked, FlushPoints
  <2>2. \E l \in Labels \ Activating : pc' = [pc EXCEPT ![t] = l]
    BY Zenon, <1>6 DEF BeginRound, NothingToActivate, ConnectTipFails, Abort, ConnectBlockCrashes,
       DisconnectTipFails, BeginPeriodicFlush,
                ActivateBestChainDone, InvalidateTip, InvalidateTipFails, InvalidateTipDone, InvalidateDone, Goto,
                Labels, Locked, FlushPoints, Activating
  <2>3. ~checkForPruning
    BY SMTT(30), <2>1, FlagCleared
  <2> QED BY ZenonT(60), <2>1, <2>2, <2>3, NobodyActivates DEF PruneFlag
<1>7. ASSUME NEW t \in Threads, DropCandidate(t)
      PROVE  PathInv'
  <2>1. \A u \in Threads : pc[u] \notin Activating
    BY <1>7 DEF DropCandidate, TypeInv, OneHolder, Locked, FlushPoints, Activating
  <2> QED BY <1>7, <2>1 DEF DropCandidate, PruneFlag, PathUsable
<1>8. ASSUME NEW t \in Threads, ChooseCandidate(t) \/ DisconnectTip(t) \/ ForkReached(t)
      PROVE  PathInv'
  <2>1. ~checkForPruning'
    BY Zenon, <1>8, FlagCleared DEF ChooseCandidate, DisconnectTip, ForkReached, Locked
  <2>2. UNCHANGED <<tip, failedValid, failedChild, haveData>>
    BY Zenon, <1>8 DEF ChooseCandidate, DisconnectTip, ForkReached
  <2>3. Unusable(pindex'[t]) = {}
    BY Zenon, <1>8 DEF ChooseCandidate, DisconnectTip, ForkReached, PathUsable, Activating, TypeInv, TypeOK
  <2>4. \A u \in Threads : pc'[u] \in Activating => u = t
    BY Zenon, <1>8 DEF ChooseCandidate, DisconnectTip, ForkReached, Goto, TypeInv, TypeOK, OneHolder, Locked,
       FlushPoints, Activating
  <2> QED BY ZenonT(60), <2>1, <2>2, <2>3, <2>4 DEF PruneFlag, PathUsable, Unusable, PathToActive, Active, Failed
<1>9. ASSUME NEW t \in Threads, ConnectTip(t)
      PROVE  PathInv'
  <2>1. pc' = [pc EXCEPT ![t] = "flushConnect"] /\ UNCHANGED <<tip, failedValid, failedChild, haveData, pindex>>
    BY <1>9 DEF ConnectTip, Goto
  <2>2. PruneFlag'
    BY Zenon, <2>1 DEF PruneFlag, TypeInv, TypeOK
  <2>3. PathUsable'
    BY ZenonT(60), <1>9, <2>1 DEF ConnectTip, PathUsable, Unusable, PathToActive, Active, Failed, Activating, TypeInv,
       TypeOK
  <2> QED BY <2>2, <2>3
<1>10. ASSUME NEW t \in Threads, EndRound(t)
      PROVE  PathInv'
  <2>1. \A u \in Threads : pc'[u] \in Locked => pc'[u] = pc[u]
    BY <1>10 DEF EndRound, Goto, TypeInv, TypeOK, Locked, FlushPoints
  <2>2. PruneFlag'
    BY Zenon, <1>10 DEF EndRound, Goto, PruneFlag, TypeInv, TypeOK
  <2>3. PathUsable'
    BY Zenon, <1>10, <2>1 DEF EndRound, PathUsable, Unusable, PathToActive, Active, Failed, Activating, Locked,
       FlushPoints
  <2> QED BY <2>2, <2>3
<1>11. ASSUME NEW t \in Threads, DisconnectTipDone(t)
      PROVE  PathInv'
  <2>1. PruneFlag'
    BY Zenon, <1>11 DEF DisconnectTipDone, Goto, CsMainFree, TypeInv, TypeOK, OneHolder, Locked, FlushPoints,
       PruneFlag
  <2>2. PathUsable'
    <3>1. tip \in Blocks /\ tip # Genesis /\ tip \notin Ancestors[pindex[t]]
      BY Zenon, <1>11 DEF DisconnectTipDone, TypeInv, TypeOK, Locals
    <3>2. Ancestors[tip] = Ancestors[Parent[tip]] \cup {tip}
      BY Zenon, <3>1, AncestorsBasic
    <3>3. Unusable(pindex[t])' = {}
      BY Zenon, <1>11, <3>1, <3>2 DEF DisconnectTipDone, Activating, PathUsable, Unusable, PathToActive, Active,
         Failed
    <3> QED BY ZenonT(60), <1>11, <3>3 DEF DisconnectTipDone, Goto, TypeInv, TypeOK, OneHolder, Locked, FlushPoints,
       Activating, PathUsable
  <2> QED BY Zenon, <2>1, <2>2
<1>12. ASSUME NEW t \in Threads, ConnectTipDone(t)
      PROVE  PathInv'
  <2>1. PruneFlag'
    BY Zenon, <1>12 DEF ConnectTipDone, PruneBlockIndexCandidates, Goto, CsMainFree, TypeInv, TypeOK, OneHolder,
       Locked, FlushPoints, PruneFlag
  <2>2. PathUsable'
    <3>1. coins \in Blocks /\ coins # Genesis /\ Parent[coins] = tip
      BY Zenon, <1>12 DEF ConnectTipDone, TypeInv, TypeOK, Locals, NextToConnect, Children
    <3>2. Ancestors[tip] \subseteq Ancestors[coins]
      BY Zenon, <3>1, AncestorsBasic
    <3>3. Unusable(pindex[t])' = {}
      BY Zenon, <1>12, <3>2 DEF ConnectTipDone, Activating, PathUsable, Unusable, PathToActive, Active, Failed
    <3> QED BY Zenon, <1>12, <3>3 DEF ConnectTipDone, Goto, TypeInv, TypeOK, OneHolder, Locked, FlushPoints,
       Activating, PathUsable
  <2> QED BY Zenon, <2>1, <2>2
<1>13. ASSUME NEW t \in Threads, NEW bs \in SUBSET Blocks, Prune(t, bs)
      PROVE  PathInv'
  <2>1. PruneFlag'
    BY Zenon, <1>13 DEF Prune, Prunable, CsMainFree, TypeInv, TypeOK, OneHolder, Locked, FlushPoints, PruneFlag
  <2>2. PathUsable'
    <3> SUFFICES ASSUME NEW u \in Threads, pc[u] \in Activating
                 PROVE  Unusable(pindex[u])' = {}
      BY Zenon, <1>13 DEF Prune, PathUsable
    <3>1. pc[u] = "flushConnect"
      <4>1. PICK s \in Threads : pc[s] \in {"link", "stored", "flushConnect"}
        BY Zenon, <1>13 DEF Prune, PruneFlag
      <4> QED BY <4>1 DEF TypeInv, OneHolder, Locked, FlushPoints, Activating
    <3>2. pindex[u] \in Blocks /\ tip \in Ancestors[pindex[u]] /\ tip \in Blocks
      BY Zenon, <3>1 DEF TypeInv, TypeOK, Locals, Activating
    <3>3. ASSUME NEW a \in PathToActive(pindex[u])
          PROVE  a \notin bs
      <4>1. Height[a] > Height[tip]
        BY Zenon, <3>2, PathAboveTip
      <4>2. a \in Blocks /\ Height[a] \in Nat /\ Height[tip] \in Nat
        BY Zenon, <3>2, AncestorsBasic, TreeAssumption DEF PathToActive
      <4>3. a \in bs => Height[a] <= Height[tip] - MinBlocksToKeep
        BY Zenon, <1>13 DEF Prune, Prunable
      <4>4. MinBlocksToKeep \in Nat
        BY Zenon, ChainStateAssumption
      <4> QED BY Zenon, NotBuried, <4>1, <4>2, <4>3, <4>4
    <3>4. Unusable(pindex[u]) = {}
      BY Zenon DEF PathUsable
    <3> QED BY ZenonT(60), <1>13, <3>3, <3>4 DEF Prune, Unusable, PathToActive, Active, Failed
  <2> QED BY Zenon, <2>1, <2>2
<1>14. CASE UNCHANGED vars
  BY <1>14 DEF PruneFlag, PathUsable, Active, Unusable, PathToActive, Failed
<1> QED BY Zenon, <1>1, <1>2, <1>3, <1>4, <1>5, <1>6, <1>7, <1>8, <1>9, <1>10, <1>11, <1>12, <1>13, <1>14,
   ChainStateAssumption DEF Next, Receive, Operator, Continue

-----------------------------------------------------------------------------
(* Validity and undo data. *)

\* The state after InitBlockIndex satisfies the layer of validity levels.
LEMMA ValidInvInit == Init => ValidInv
<1> SUFFICES ASSUME Init PROVE ValidInv
  OBVIOUS
<1>1. index = {Genesis} /\ validity[Genesis] = 3 /\ processed = {Genesis} /\ Ancestors[Genesis] = {Genesis}
  BY TreeAssumption, AncestorsAssumption DEF Init, BLOCK_VALID_TRANSACTIONS
<1>2. IndexValid
  BY <1>1 DEF IndexValid, BLOCK_VALID_TREE, BLOCK_VALID_TRANSACTIONS, BLOCK_VALID_SCRIPTS
<1>3. TipValid /\ UndoKept
  BY Zenon, <1>1 DEF Init, TipValid, UndoKept, Active
<1> QED BY <1>2, <1>3 DEF ValidInv

\* The parent of a fully validated tip is fully validated and can be undone.
LEMMA ParentOfTip ==
    ASSUME TypeInv, ValidInv, tip # Genesis
    PROVE  /\ Parent[tip] \in Active /\ Ancestors[Parent[tip]] \subseteq Active
           /\ Parent[tip] # Genesis => validity[Parent[tip]] = BLOCK_VALID_SCRIPTS
<1>1. tip \in Blocks /\ tip \in index
  BY Zenon DEF TypeInv, TypeOK
<1>2. Parent[tip] \in Ancestors[tip] /\ Ancestors[Parent[tip]] \subseteq Ancestors[tip]
  BY <1>1, AncestorsBasic
<1>3. validity[tip] = BLOCK_VALID_SCRIPTS
  BY DEF ValidInv, TipValid
<1> QED BY <1>1, <1>2, <1>3 DEF ValidInv, IndexValid, Active

\* The block that ConnectTip connects bears no mark and is on disk.
LEMMA NextUsable ==
    ASSUME TypeInv, PathInv, NEW t \in Threads, pc[t] \in {"connect", "flushConnect"}, NEW b \in NextToConnect(t)
    PROVE  b \notin Failed /\ b \in haveData
<1>1. b \in Blocks /\ b # Genesis /\ Parent[b] = tip /\ b \in Ancestors[pindex[t]]
  BY DEF NextToConnect, Children
<1>2. Height[b] = Height[tip] + 1 /\ Height[tip] \in Nat /\ tip \in Blocks
  BY Zenon, <1>1, TreeAssumption DEF TypeInv, TypeOK
<1>3. b \notin Ancestors[tip]
  <2>1. \A a \in Ancestors[tip] : Height[a] <= Height[tip]
    BY Zenon, <1>2, AncestorsAssumption
  <2>2. ~(Height[b] <= Height[tip])
    BY <1>2
  <2> QED BY Zenon, <2>1, <2>2
<1> QED BY <1>1, <1>3 DEF PathInv, PathUsable, Unusable, PathToActive, Active, Activating

\* Every step of a handler preserves the layer of validity levels.
LEMMA ValidInvStep == TypeInv /\ LinkInv /\ PathInv /\ ValidInv /\ [Next]_vars => ValidInv'
<1> SUFFICES ASSUME TypeInv, LinkInv, PathInv, ValidInv, [Next]_vars PROVE ValidInv'
  OBVIOUS
<1> USE DEF ValidInv, BLOCK_VALID_TREE, BLOCK_VALID_TRANSACTIONS, BLOCK_VALID_SCRIPTS
<1>ty. /\ validity \in [Blocks -> 0 .. 5] /\ index \subseteq Blocks /\ processed \subseteq index
       /\ tip \in index /\ coins \in index
  BY DEF TypeInv, TypeOK
<1>index. ASSUME UNCHANGED <<index, validity, processed>> PROVE IndexValid'
  BY <1>index DEF IndexValid
<1>same. ASSUME UNCHANGED <<index, validity, processed, tip, coins, haveUndo, havePruned>> PROVE ValidInv'
  BY Zenon, <1>same, <1>index DEF TipValid, UndoKept, Active
<1>1. ASSUME NEW t \in Threads, NEW b \in Blocks, Invalidate(t, b) \/ Reconsider(t, b)
      PROVE  ValidInv'
  BY Zenon, <1>1, <1>same DEF Invalidate, Reconsider
<1>2. ASSUME NEW t \in Threads,
             \/ LinkBlock(t) \/ AcceptBlockDone(t) \/ BeginRound(t) \/ NothingToActivate(t) \/ DropCandidate(t)
             \/ ChooseCandidate(t) \/ ForkReached(t) \/ ConnectTipFails(t)
      PROVE  ValidInv'
  <2>1. UNCHANGED <<index, validity, processed, tip, coins, haveUndo, havePruned>>
    BY Zenon, <1>2 DEF LinkBlock, AcceptBlockDone, BeginRound, NothingToActivate, DropCandidate, ChooseCandidate,
       ForkReached, ConnectTipFails
  <2> QED BY Zenon, <2>1, <1>same
<1>3. ASSUME NEW t \in Threads,
             \/ Abort(t) \/ ConnectBlockCrashes(t) \/ DisconnectTipFails(t) \/ EndRound(t) \/ BeginPeriodicFlush(t)
             \/ ActivateBestChainDone(t) \/ InvalidateTipFails(t) \/ InvalidateDone(t)
      PROVE  ValidInv'
  <2>1. UNCHANGED <<index, validity, processed, tip, coins, haveUndo, havePruned>>
    BY Zenon, <1>3 DEF Abort, ConnectBlockCrashes, DisconnectTipFails, EndRound, BeginPeriodicFlush,
       ActivateBestChainDone,
       InvalidateTipFails, InvalidateDone
  <2> QED BY Zenon, <2>1, <1>same
<1>4. ASSUME NEW t \in Threads, DisconnectTip(t) \/ InvalidateTip(t)
      PROVE  ValidInv'
  <2>1. /\ UNCHANGED <<index, validity, processed, tip, haveUndo, havePruned>> /\ coins' = Parent[tip]
        /\ tip # Genesis
    BY Zenon, <1>4, TipToDisconnect DEF DisconnectTip, InvalidateTip, DisconnectBlock
  <2>2. TipValid' /\ UndoKept'
    BY ZenonT(60), <2>1, ParentOfTip DEF TipValid, UndoKept, Active
  <2> QED BY <2>1, <2>2, <1>index
<1>5. ASSUME NEW t \in Threads, DisconnectTipDone(t) \/ InvalidateTipDone(t)
      PROVE  ValidInv'
  <2>1. /\ UNCHANGED <<index, validity, processed, coins, haveUndo, havePruned>> /\ tip' = Parent[tip]
        /\ tip # Genesis
    BY Zenon, <1>5, TipToDisconnect DEF DisconnectTipDone, InvalidateTipDone
  <2>2. TipValid'
    BY Zenon, <2>1, ParentOfTip DEF TipValid
  <2>3. UndoKept'
    BY Zenon, <2>1, ParentOfTip DEF UndoKept, Active
  <2> QED BY Zenon, <2>1, <2>2, <2>3, <1>index
<1>6. ASSUME NEW t \in Threads, ConnectTip(t)
      PROVE  ValidInv'
  <2>1. PICK b \in NextToConnect(t) :
            /\ b \in haveData /\ coins' = b /\ haveUndo' = haveUndo \cup {b}
            /\ validity' = [validity EXCEPT ![b] = IF b \in Failed THEN validity[b] ELSE BLOCK_VALID_SCRIPTS]
    BY Zenon, <1>6 DEF ConnectTip
  <2>2. b \in Blocks /\ b # Genesis /\ Parent[b] = tip /\ b \in processed
    BY Zenon, <2>1 DEF NextToConnect, Children, LinkInv, DataInv
  <2>3. Ancestors[b] = Ancestors[tip] \cup {b}
    BY Zenon, <2>2, AncestorsBasic
  <2>4. \A a \in Ancestors[tip] \ {Genesis} : validity[a] = 5
    BY Zenon, <1>ty, AncestorsAssumption DEF TipValid, IndexValid
  <2>5. b \notin Failed
    BY Zenon, <1>6, <2>1, NextUsable DEF ConnectTip
  <2>6. validity' = [validity EXCEPT ![b] = 5] /\ UNCHANGED <<index, processed, tip, havePruned>>
    BY ZenonT(60), <1>6, <2>1, <2>5 DEF ConnectTip
  <2>7. IndexValid'
    <3>1. validity'[b] = 5 /\ \A c \in index \ {b} : validity'[c] = validity[c]
      BY Zenon, <2>2, <2>6, <1>ty
    <3>2. 5 >= 2 /\ 5 >= 3
      OBVIOUS
    <3>3. \A c \in Blocks : validity[c] = 5 => validity'[c] = 5
      BY Zenon, <2>6, <1>ty
    <3>4. \A c \in index : validity'[c] >= 2 /\ (validity'[c] >= 3 <=> c \in processed)
      BY Zenon, <2>2, <3>1, <3>2 DEF IndexValid
    <3>5. ASSUME NEW c \in index, validity'[c] = 5, NEW a \in Ancestors[c] \ {Genesis}
          PROVE  validity'[a] = 5
      <4>1. a \in Blocks
        BY Zenon, <1>ty, AncestorsBasic
      <4>2. CASE c = b
        BY Zenon, <2>3, <2>4, <3>1, <3>3, <4>1, <4>2
      <4>3. CASE c # b
        BY Zenon, <3>1, <3>3, <3>5, <4>1, <4>3 DEF IndexValid
      <4> QED BY Zenon, <4>2, <4>3
    <3> QED BY Zenon, <2>6, <3>4, <3>5 DEF IndexValid
  <2>8. TipValid'
    BY <2>1, <2>2, <2>6, <1>ty DEF TipValid
  <2>9. UndoKept'
    BY <2>1, <2>6 DEF UndoKept, Active
  <2> QED BY <2>7, <2>8, <2>9
<1>7. ASSUME NEW t \in Threads, ConnectTipDone(t)
      PROVE  ValidInv'
  <2>1. coins \in Blocks /\ coins # Genesis /\ Parent[coins] = tip
    BY Zenon, <1>7 DEF ConnectTipDone, TypeInv, TypeOK, Locals, NextToConnect, Children
  <2>2. Ancestors[coins] = Ancestors[tip] \cup {coins}
    BY Zenon, <2>1, AncestorsBasic
  <2>3. UNCHANGED <<index, validity, processed, coins, haveUndo, havePruned>> /\ tip' = coins
    BY Zenon, <1>7 DEF ConnectTipDone
  <2>4. TipValid' /\ UndoKept'
    BY Zenon, <2>2, <2>3 DEF TipValid, UndoKept, Active
  <2> QED BY Zenon, <2>3, <2>4, <1>index
<1>8. ASSUME NEW t \in Threads, NEW bs \in SUBSET Blocks, Prune(t, bs)
      PROVE  ValidInv'
  <2>1. UNCHANGED <<index, validity, processed, tip, coins>>
    BY Zenon, <1>8 DEF Prune
  <2>2. CASE bs = {}
    <3>1. haveUndo' = haveUndo /\ UndoKept
      BY <1>8, <2>2 DEF Prune
    <3>2. havePruned => havePruned'
      BY Zenon, <1>8 DEF Prune
    <3> QED BY ZenonT(60), <2>1, <3>1, <3>2, <1>index DEF TipValid, UndoKept, Active
  <2>3. CASE bs # {}
    <3>1. havePruned'
      BY Zenon, <1>8, <2>3 DEF Prune
    <3> QED BY <2>1, <3>1, <1>index DEF TipValid, UndoKept
  <2> QED BY <2>2, <2>3
<1>9. ASSUME NEW t \in Threads, NEW b \in Blocks, NEW fRequested \in BOOLEAN,
             ProcessHeader(t, b) \/ IgnoreBlock(t, b, fRequested) \/ RejectBlock(t, b, fRequested)
      PROVE  ValidInv'
  <2>1. /\ AcceptBlockHeader(b) /\ index' = index \cup {b} /\ validity' = [validity EXCEPT ![b] = TreeValidity(b)]
        /\ UNCHANGED <<processed, tip, coins, haveUndo, havePruned>>
    BY Zenon, <1>9 DEF ProcessHeader, IgnoreBlock, RejectBlock, ReceiveBlock
  <2>2. CASE b \in index
    <3>1. UNCHANGED <<index, validity>>
      BY <2>1, <2>2, <1>ty DEF TreeValidity
    <3> QED BY <2>1, <3>1, <1>same
  <2>3. CASE b \notin index
    <3>1. \A a \in index : Ancestors[a] \subseteq index
      BY Zenon DEF TypeInv, IndexClosed
    <3>2. validity' = [validity EXCEPT ![b] = 2]
      BY Zenon, <2>1, <2>3 DEF TreeValidity
    <3>3. IndexValid'
      <4>1. validity'[b] = 2 /\ \A c \in index : c # b /\ validity'[c] = validity[c]
        BY Zenon, <2>3, <3>2, <1>ty
      <4>2. 2 >= 2 /\ ~(2 >= 3) /\ 2 # 5
        OBVIOUS
      <4>3. ASSUME NEW c \in index'
            PROVE  /\ validity'[c] >= 2
                   /\ validity'[c] >= 3 <=> c \in processed'
                   /\ validity'[c] = 5 => \A a \in Ancestors[c] \ {Genesis} : validity'[a] = 5
        <5>1. CASE c = b
          BY Zenon, <2>1, <2>3, <4>1, <4>2, <5>1, <1>ty
        <5>2. CASE c \in index
          BY Zenon, <2>1, <3>1, <4>1, <5>2 DEF IndexValid
        <5> QED BY Zenon, <2>1, <5>1, <5>2
      <4> QED BY Zenon, <4>3 DEF IndexValid
    <3>4. TipValid' /\ UndoKept'
      BY Zenon, <2>1, <2>3, <3>2, <1>ty DEF TipValid, UndoKept, Active
    <3> QED BY SMTT(60), <3>3, <3>4
  <2> QED BY Zenon, <2>2, <2>3
<1>10. ASSUME NEW t \in Threads, NEW b \in Blocks, NEW fRequested \in BOOLEAN, StoreBlock(t, b, fRequested)
      PROVE  ValidInv'
  <2>1. /\ index' = index \cup {b} /\ processed' = processed \cup {b}
        /\ validity' = [validity EXCEPT ![b] = IF TreeValidity(b) < 3 THEN 3 ELSE validity[b]]
        /\ UNCHANGED <<tip, coins, haveUndo, havePruned>>
    BY <1>10 DEF StoreBlock, ReceiveBlock
  <2>2. \A a \in index : Ancestors[a] \subseteq index
    BY Zenon DEF TypeInv, IndexClosed
  <2>3. \A a \in Blocks \ {b} : validity'[a] = validity[a]
    BY Zenon, <2>1, <1>ty
  <2>4. /\ validity'[b] >= 3 /\ validity'[b] \in 0 .. 5
        /\ b \in index => validity'[b] >= validity[b] /\ (validity[b] = 5 <=> validity'[b] = 5)
        /\ b \notin index => validity'[b] = 3
    BY SMTT(60), <2>1, <1>ty DEF TreeValidity
  <2>5. IndexValid'
    <3>1. ASSUME NEW c \in index'
          PROVE  validity'[c] >= 2 /\ (validity'[c] >= 3 <=> c \in processed')
      <4>1. CASE c = b
        <5>1. validity'[b] >= 2
          BY <2>4
        <5> QED BY Zenon, <2>1, <2>4, <4>1, <5>1
      <4>2. CASE c # b
        <5>1. c \in index /\ validity'[c] = validity[c] /\ (c \in processed' <=> c \in processed)
          BY Zenon, <2>1, <2>3, <3>1, <4>2, <1>ty
        <5> QED BY Zenon, <5>1 DEF IndexValid
      <4> QED BY Zenon, <4>1, <4>2
    <3>2. ASSUME NEW c \in index', validity'[c] = 5, NEW a \in Ancestors[c] \ {Genesis}
          PROVE  validity'[a] = 5
      <4>1. c \in index /\ validity[c] = 5
        <5>1. CASE c = b
          <6>1. b \in index
            BY <2>4, <3>2, <5>1
          <6> QED BY Zenon, <2>4, <3>2, <5>1, <6>1
        <5>2. CASE c # b
          BY Zenon, <2>1, <2>3, <3>2, <5>2, <1>ty
        <5> QED BY Zenon, <5>1, <5>2
      <4>2. a \in index /\ validity[a] = 5
        BY Zenon, <2>2, <3>2, <4>1 DEF IndexValid
      <4> QED BY Zenon, <2>3, <2>4, <4>2, <1>ty
    <3> QED BY Zenon, <3>1, <3>2 DEF IndexValid
  <2>6. TipValid'
    BY SMTT(60), <2>1, <2>3, <2>4, <1>ty DEF TipValid
  <2>7. UndoKept'
    BY Zenon, <2>1 DEF UndoKept, Active
  <2> QED BY Zenon, <2>5, <2>6, <2>7
<1>11. CASE UNCHANGED vars
  BY ZenonT(60), <1>11, <1>same
<1> QED BY Zenon, <1>1, <1>2, <1>3, <1>4, <1>5, <1>6, <1>7, <1>8, <1>9, <1>10, <1>11, ChainStateAssumption
        DEF Next, Receive, Operator, Continue

-----------------------------------------------------------------------------
(* Failure marks. *)

\* Nothing is marked invalid after InitBlockIndex.
LEMMA CauseInvInit == Init => CauseInv
BY DEF Init, CauseInv, MarkCaused, TargetMarked, Failed, Invalidating

\* Setting BLOCK_FAILED_VALID on a block gives every mark a cause.
LEMMA MarkOne ==
    ASSUME MarkCaused, NEW b \in Blocks, failedValid' = failedValid \cup {b}, failedChild' = failedChild
    PROVE  MarkCaused'
<1>1. b \in Ancestors[b]
  BY Zenon, AncestorsBasic
<1> QED BY <1>1 DEF MarkCaused, Failed

\* Without reconsiderblock, every step of a handler leaves each mark a cause.
LEMMA CauseInvStep == ReconsiderTargets = {} /\ TypeInv /\ CauseInv /\ [Next]_vars => CauseInv'
<1> SUFFICES ASSUME ReconsiderTargets = {}, TypeInv, CauseInv, [Next]_vars PROVE CauseInv'
  OBVIOUS
<1> USE DEF CauseInv
<1>1. ASSUME NEW t \in Threads, NEW b \in Blocks, NEW fRequested \in BOOLEAN, IgnoreBlock(t, b, fRequested)
      PROVE  CauseInv'
  <2>1. MarkCaused'
    BY Zenon, <1>1, AncestorsBasic DEF IgnoreBlock, ReceiveBlock, AcceptBlockHeader, TreeValidity, BLOCK_VALID_TREE,
       Goto, TypeInv, TypeOK, MarkCaused, TargetMarked, Failed
  <2>2. TargetMarked'
    <3>1. pc' = [pc EXCEPT ![t] = "activate"] /\ pindex' = pindex /\ failedValid' = failedValid
      BY ZenonT(60), <1>1 DEF IgnoreBlock, Goto
    <3> QED BY <3>1 DEF TypeInv, TypeOK, Invalidating, TargetMarked
  <2> QED BY Zenon, <2>1, <2>2
<1>2. ASSUME NEW t \in Threads, NEW b \in Blocks, NEW fRequested \in BOOLEAN, StoreBlock(t, b, fRequested)
      PROVE  CauseInv'
  <2>1. MarkCaused'
    BY Zenon, <1>2, AncestorsBasic DEF StoreBlock, ReceiveBlock, AcceptBlockHeader, TreeValidity, BLOCK_VALID_TREE,
       BLOCK_VALID_TRANSACTIONS, Goto, TypeInv, TypeOK, MarkCaused, TargetMarked, Failed
  <2>2. TargetMarked'
    <3>1. /\ pc' = [pc EXCEPT ![t] = "stored"] \/ pc' = [pc EXCEPT ![t] = "link"]
          /\ pindex' = pindex /\ failedValid' = failedValid
      BY <1>2 DEF StoreBlock, Goto
    <3>2. pc \in [Threads -> Labels]
      BY Zenon DEF TypeInv, TypeOK
    <3> QED BY Zenon, <3>1, <3>2 DEF Invalidating, TargetMarked
  <2> QED BY Zenon, <2>1, <2>2
<1>3. ASSUME NEW t \in Threads, NEW b \in InvalidateTargets, Invalidate(t, b)
      PROVE  CauseInv'
  <2>1. MarkCaused'
    BY ZenonT(60), <1>3, MarkOne, ChainStateAssumption DEF Invalidate, MarkInvalid
  <2>2. TargetMarked'
    BY <1>3 DEF Invalidate, MarkInvalid, Goto, TypeInv, TypeOK, OneHolder, Locked, FlushPoints, Invalidating,
       TargetMarked
  <2> QED BY Zenon, <2>1, <2>2
<1>4. ASSUME NEW t \in Threads, NEW b \in ReconsiderTargets, Reconsider(t, b)
      PROVE  CauseInv'
  <2>1. MarkCaused'
    BY ZenonT(60), <1>4, AncestorsBasic DEF Reconsider, Restored, Descendants, Goto, TypeInv, TypeOK, MarkCaused,
       TargetMarked, Failed
  <2>2. TargetMarked'
    BY Zenon, <1>4 DEF Reconsider, Restored, Descendants, Goto, TypeInv, TypeOK, OneHolder, Locked, FlushPoints,
       Invalidating, TargetMarked
  <2> QED BY Zenon, <2>1, <2>2
<1>5. ASSUME NEW t \in Threads, LinkBlock(t)
      PROVE  CauseInv'
  <2>1. MarkCaused'
    BY Zenon, <1>5, AncestorsBasic DEF LinkBlock, Link, EraseUnlinked, Goto, TypeInv, TypeOK, MarkCaused,
       TargetMarked, Failed
  <2>2. TargetMarked'
    <3>1. /\ pc' = [pc EXCEPT ![t] = "stored"] \/ pc' = [pc EXCEPT ![t] = "link"]
          /\ pindex' = pindex /\ failedValid' = failedValid
      BY Zenon, <1>5 DEF LinkBlock, Goto
    <3> QED BY <3>1 DEF TypeInv, TypeOK, Invalidating, TargetMarked
  <2> QED BY ZenonT(60), <2>1, <2>2
<1>6. ASSUME NEW t \in Threads, DropCandidate(t)
      PROVE  CauseInv'
  <2>1. MarkCaused'
    <3>1. PICK best \in BestCandidates : \E test \in Unusable(best) : Drop(best, test)
      BY <1>6 DEF DropCandidate
    <3>2. PICK test \in Unusable(best) : Drop(best, test)
      BY Zenon, <3>1
    <3>3. best \in Blocks /\ test \in Blocks /\ test \in Ancestors[best]
      BY Zenon, AncestorsBasic DEF BestCandidates, Unusable, PathToActive, TypeInv, TypeOK
    <3>4. ASSUME NEW b \in Above(best, test), test \in Failed
          PROVE  Ancestors[b] \cap failedValid # {}
      <4>1. b \in Ancestors[best] /\ b \in Blocks /\ Height[b] > Height[test]
        BY <3>3, AncestorsBasic DEF Above, PathToActive
      <4>2. Height[b] \in Nat /\ Height[test] \in Nat
        BY <3>3, <4>1, TreeAssumption
      <4>3. test \in Ancestors[b]
        <5>1. Height[test] <= Height[b]
          BY Zenon, HeightOrder, <4>1, <4>2
        <5> QED BY Zenon, <3>3, <4>1, <5>1, LowerIsAncestor
      <4>4. Ancestors[test] \subseteq Ancestors[b]
        BY <4>1, <4>3, AncestorsAssumption
      <4> QED BY ZenonT(60), <3>4, <4>4 DEF MarkCaused
    <3>5. failedValid' = failedValid
      BY <1>6 DEF DropCandidate
    <3>6. failedChild' = failedChild \/ (test \in Failed /\ failedChild' = failedChild \cup Above(best, test))
      BY Zenon, <3>2 DEF Drop
    <3> QED BY Zenon, <3>4, <3>5, <3>6 DEF MarkCaused, Failed
  <2>2. TargetMarked'
    BY ZenonT(60), <1>6 DEF DropCandidate, PathToActive, Unusable, TypeInv, TypeOK, OneHolder, Locked, FlushPoints,
       Invalidating, TargetMarked
  <2> QED BY Zenon, <2>1, <2>2
<1>7. ASSUME NEW t \in Threads, ConnectTip(t)
      PROVE  CauseInv'
  <2>1. MarkCaused'
    BY Zenon, <1>7 DEF ConnectTip, MarkCaused, Failed
  <2>2. TargetMarked'
    <3>1. pc' = [pc EXCEPT ![t] = "flushConnect"] /\ pindex' = pindex /\ failedValid' = failedValid
      BY Zenon, <1>7 DEF ConnectTip, Goto
    <3>2. pc \in [Threads -> Labels]
      BY Zenon DEF TypeInv, TypeOK
    <3> QED BY Zenon, <3>1, <3>2 DEF Invalidating, TargetMarked
  <2> QED BY Zenon, <2>1, <2>2
<1>8. ASSUME NEW t \in Threads, InvalidateTip(t)
      PROVE  CauseInv'
  <2>1. MarkCaused'
    <3>1. failedValid' = failedValid /\ failedChild' = failedChild \cup {tip}
      BY Zenon, <1>8 DEF InvalidateTip, MarkTip
    <3>2. pindex[t] \in Ancestors[tip] \cap failedValid
      BY Zenon, <1>8 DEF InvalidateTip, Active, TargetMarked, Invalidating
    <3> QED BY ZenonT(60), <3>1, <3>2 DEF MarkCaused, Failed
  <2>2. TargetMarked'
    BY Zenon, <1>8 DEF InvalidateTip, MarkTip, DisconnectBlock, Goto, Active, TypeInv, TypeOK, OneHolder, Locked,
       FlushPoints, Invalidating, TargetMarked
  <2> QED BY Zenon, <2>1, <2>2
<1>9. ASSUME NEW t \in Threads, InvalidateTipFails(t)
      PROVE  CauseInv'
  <2>1. MarkCaused'
    <3>1. failedValid' = failedValid /\ failedChild' = failedChild \cup {tip}
      BY <1>9 DEF InvalidateTipFails, MarkTip
    <3>2. pindex[t] \in Ancestors[tip] \cap failedValid
      BY Zenon, <1>9 DEF InvalidateTipFails, Active, TargetMarked, Invalidating
    <3> QED BY Zenon, <3>1, <3>2 DEF MarkCaused, Failed
  <2>2. TargetMarked'
    BY <1>9 DEF InvalidateTipFails, MarkTip, Goto, TypeInv, TypeOK, OneHolder, Locked, FlushPoints,
       Invalidating, TargetMarked
  <2> QED BY Zenon, <2>1, <2>2
<1>10. ASSUME NEW t \in Threads, NEW bs \in SUBSET Blocks, Prune(t, bs)
      PROVE  CauseInv'
  <2>1. MarkCaused'
    BY Zenon, <1>10, AncestorsBasic DEF Prune, Prunable, TypeInv, TypeOK, MarkCaused, TargetMarked, Failed
  <2>2. TargetMarked'
    BY Zenon, <1>10 DEF Prune, Prunable, TypeInv, TypeOK, OneHolder, Locked, FlushPoints, Invalidating, TargetMarked
  <2> QED BY Zenon, <2>1, <2>2
<1>11. ASSUME NEW t \in Threads, NEW b \in Blocks, ProcessHeader(t, b)
      PROVE  CauseInv'
  <2>1. MarkCaused'
    BY ZenonT(60), <1>11, AncestorsBasic DEF ProcessHeader, AcceptBlockHeader, TreeValidity, BLOCK_VALID_TREE, TypeInv,
       TypeOK, MarkCaused, TargetMarked, Failed
  <2>2. TargetMarked'
    BY Zenon, <1>11 DEF ProcessHeader, AcceptBlockHeader, TreeValidity, BLOCK_VALID_TREE, TypeInv, TypeOK,
       OneHolder, Locked, FlushPoints, Invalidating, TargetMarked
  <2> QED BY Zenon, <2>1, <2>2
<1>12. ASSUME NEW t \in Threads, NEW b \in Blocks, NEW fRequested \in BOOLEAN, RejectBlock(t, b, fRequested)
      PROVE  CauseInv'
  <2>1. MarkCaused'
    BY ZenonT(60), <1>12, MarkOne, ChainStateAssumption DEF RejectBlock
  <2>2. TargetMarked'
    BY Zenon, <1>12 DEF RejectBlock, ReceiveBlock, AcceptBlockHeader, TreeValidity, BLOCK_VALID_TREE, TypeInv,
       TypeOK, OneHolder, Locked, FlushPoints, Invalidating, TargetMarked
  <2> QED BY Zenon, <2>1, <2>2
<1>13. ASSUME NEW t \in Threads,
             \/ AcceptBlockDone(t) \/ BeginRound(t) \/ NothingToActivate(t) \/ ChooseCandidate(t)
             \/ DisconnectTip(t) \/ DisconnectTipDone(t) \/ ForkReached(t) \/ ConnectTipDone(t)
             \/ ConnectTipFails(t) \/ Abort(t) \/ ConnectBlockCrashes(t) \/ DisconnectTipFails(t) \/ EndRound(t)
             \/ BeginPeriodicFlush(t) \/ ActivateBestChainDone(t) \/ InvalidateTipDone(t)
             \/ InvalidateDone(t)
      PROVE  CauseInv'
  <2>1. MarkCaused'
    BY Zenon, <1>13, AncestorsBasic, MarkOne DEF AcceptBlockDone, Goto, TypeInv, TypeOK, MarkCaused, TargetMarked,
       Failed, BeginRound, NothingToActivate, ChooseCandidate, BestCandidates, DisconnectTip,
       DisconnectBlock, DisconnectTipDone, ForkReached, ConnectTipDone, PruneBlockIndexCandidates,
       ConnectTipFails, MarkInvalid, NextToConnect, Children, Abort, ConnectBlockCrashes, DisconnectTipFails,
       EndRound,
       BeginPeriodicFlush, ActivateBestChainDone, InvalidateTipDone, InvalidateDone
  <2>2. TargetMarked'
    BY ZenonT(60), <1>13 DEF AcceptBlockDone, Goto, TypeInv, TypeOK, OneHolder, Locked, FlushPoints, Invalidating,
       TargetMarked, BeginRound, NothingToActivate, ChooseCandidate, BestCandidates, DisconnectTip,
       DisconnectBlock, DisconnectTipDone, ForkReached, ConnectTipDone, PruneBlockIndexCandidates,
       ConnectTipFails, NextToConnect, Children, MarkInvalid, Abort, ConnectBlockCrashes, DisconnectTipFails,
       EndRound,
       BeginPeriodicFlush, ActivateBestChainDone, InvalidateTipDone, InvalidateDone
  <2> QED BY Zenon, <2>1, <2>2
<1>14. CASE UNCHANGED vars
  BY Zenon, <1>14 DEF MarkCaused, TargetMarked, Active, Unusable, PathToActive, Failed
<1> QED BY Zenon, <1>1, <1>2, <1>3, <1>4, <1>5, <1>6, <1>7, <1>8, <1>9, <1>10, <1>11, <1>12, <1>13, <1>14
   DEF Next, Receive, Operator, Continue

-----------------------------------------------------------------------------
(* Pruning. *)

\* Of the active chain only blocks MIN_BLOCKS_TO_KEEP below a block that was once
\* connected are pruned.
KeptInv == \A a \in Active : a \in haveData \/ Buried(a)

\* An index entry is never taken out, what is received and fully validated stays so,
\* and undo data goes only when pruning takes it.
LEMMA EntryStays ==
    ASSUME TypeInv, Next, NEW b \in index
    PROVE  /\ b \in index'
           /\ b \in processed => b \in processed'
           /\ validity[b] = BLOCK_VALID_SCRIPTS => validity'[b] = BLOCK_VALID_SCRIPTS
           /\ b \in haveUndo \/ havePruned => b \in haveUndo' \/ havePruned'
<1> DEFINE Stays == /\ b \in index'
                    /\ b \in processed => b \in processed'
                    /\ validity[b] = 5 => validity'[b] = 5
                    /\ b \in haveUndo \/ havePruned => b \in haveUndo' \/ havePruned'
<1> SUFFICES Stays
  BY Zenon DEF BLOCK_VALID_SCRIPTS
<1>1. validity \in [Blocks -> 0 .. 5] /\ b \in Blocks
  BY Zenon DEF TypeInv, TypeOK
<1>2. PICK t \in Threads : \/ Receive(t) \/ Operator(t) \/ Continue(t)
                           \/ \E bs \in SUBSET Blocks : Prune(t, bs)
  BY Zenon DEF Next
<1>3. ASSUME NEW c \in Blocks, NEW fRequested \in BOOLEAN,
             \/ ProcessHeader(t, c) \/ IgnoreBlock(t, c, fRequested) \/ RejectBlock(t, c, fRequested)
      PROVE  Stays
  <2>1. /\ index' = index \cup {c} /\ validity' = [validity EXCEPT ![c] = TreeValidity(c)]
        /\ UNCHANGED <<processed, haveUndo, havePruned>>
    BY Zenon, <1>3 DEF ProcessHeader, IgnoreBlock, RejectBlock, ReceiveBlock
  <2> QED BY <1>1, <2>1 DEF TreeValidity
<1>4. ASSUME NEW c \in Blocks, NEW fRequested \in BOOLEAN, StoreBlock(t, c, fRequested)
      PROVE  Stays
  <2>1. /\ index' = index \cup {c} /\ processed' = processed \cup {c} /\ UNCHANGED <<haveUndo, havePruned>>
        /\ validity' = [validity EXCEPT ![c] = IF TreeValidity(c) < 3 THEN 3 ELSE validity[c]]
    BY Zenon, <1>4 DEF StoreBlock, ReceiveBlock, BLOCK_VALID_TRANSACTIONS
  <2> QED BY <1>1, <2>1 DEF TreeValidity
<1>5. CASE ConnectTip(t)
  <2>1. PICK c \in NextToConnect(t) :
           /\ validity' = [validity EXCEPT ![c] = IF c \in Failed THEN validity[c] ELSE 5]
           /\ haveUndo' = haveUndo \cup {c}
    BY Zenon, <1>5 DEF ConnectTip, BLOCK_VALID_SCRIPTS
  <2>2. UNCHANGED <<index, processed, havePruned>>
    BY Zenon, <1>5 DEF ConnectTip
  <2>3. validity[b] = 5 => validity'[b] = 5
    BY Zenon, <1>1, <2>1
  <2>4. b \in haveUndo \/ havePruned => b \in haveUndo' \/ havePruned'
    BY <2>1, <2>2
  <2> QED BY Zenon, <2>2, <2>3, <2>4
<1>6. ASSUME NEW bs \in SUBSET Blocks, Prune(t, bs)
      PROVE  Stays
  <2>1. UNCHANGED <<index, validity, processed>>
    BY Zenon, <1>6 DEF Prune
  <2>2. b \in haveUndo \/ havePruned => b \in haveUndo' \/ havePruned'
    BY Zenon, <1>6 DEF Prune
  <2> QED BY Zenon, <2>1, <2>2
<1>7. ASSUME UNCHANGED <<index, validity, processed, haveUndo, havePruned>>
      PROVE  Stays
  BY <1>7
<1>8. CASE \/ Operator(t)
           \/ LinkBlock(t) \/ AcceptBlockDone(t) \/ BeginRound(t) \/ NothingToActivate(t) \/ DropCandidate(t)
           \/ ChooseCandidate(t) \/ DisconnectTip(t) \/ DisconnectTipDone(t) \/ ForkReached(t)
  <2>1. UNCHANGED <<index, validity, processed, haveUndo, havePruned>>
    BY Zenon, <1>8 DEF Operator, Invalidate, Reconsider, LinkBlock, AcceptBlockDone, BeginRound, NothingToActivate,
       DropCandidate, ChooseCandidate, DisconnectTip, DisconnectTipDone, ForkReached
  <2> QED BY Zenon, <1>7, <2>1
<1>9. CASE \/ ConnectTipDone(t) \/ ConnectTipFails(t) \/ Abort(t) \/ ConnectBlockCrashes(t)
           \/ DisconnectTipFails(t) \/ EndRound(t)
           \/ BeginPeriodicFlush(t) \/ ActivateBestChainDone(t) \/ InvalidateTip(t) \/ InvalidateTipFails(t)
           \/ InvalidateTipDone(t) \/ InvalidateDone(t)
  <2>1. UNCHANGED <<index, validity, processed, haveUndo, havePruned>>
    BY Zenon, <1>9 DEF ConnectTipDone, ConnectTipFails, Abort, ConnectBlockCrashes, DisconnectTipFails,
       EndRound, BeginPeriodicFlush,
       ActivateBestChainDone, InvalidateTip, InvalidateTipFails, InvalidateTipDone, InvalidateDone
  <2> QED BY Zenon, <1>7, <2>1
<1> QED BY Zenon, <1>2, <1>3, <1>4, <1>5, <1>6, <1>8, <1>9 DEF Receive, Continue

\* What is buried stays buried.
LEMMA StaysBuried ==
    ASSUME TypeInv, Next, NEW a \in Blocks, Buried(a)
    PROVE  Buried(a)'
BY Zenon, EntryStays DEF Buried

\* Nothing is pruned after InitBlockIndex.
LEMMA KeptInvInit == Init => KeptInv
BY AncestorsAssumption, TreeAssumption DEF Init, KeptInv, Active

\* Every step of a handler keeps the data of the active chain down to that depth.
LEMMA KeptInvStep == TypeInv /\ LinkInv /\ PathInv /\ ValidInv /\ KeptInv /\ [Next]_vars => KeptInv'
<1> SUFFICES ASSUME TypeInv, PathInv, ValidInv, KeptInv, [Next]_vars PROVE KeptInv'
  OBVIOUS
<1>1. tip \in Blocks /\ tip \in index /\ Active \subseteq Blocks
  BY Zenon, AncestorsBasic DEF TypeInv, TypeOK, Active
<1>2. CASE UNCHANGED vars
  BY Zenon, <1>2 DEF KeptInv, Active, Buried
<1>3. CASE Next
  <2>1. PICK t \in Threads : \/ Receive(t) \/ Operator(t) \/ Continue(t)
                             \/ \E bs \in SUBSET Blocks : Prune(t, bs)
    BY Zenon, <1>3 DEF Next
  <2>2. \A a \in Active : a \in haveData \/ Buried(a)'
    BY Zenon, <1>1, <1>3, StaysBuried DEF KeptInv
  <2>3. ASSUME Ancestors[tip'] \subseteq Active, haveData \subseteq haveData'
        PROVE  KeptInv'
    BY Zenon, <2>2, <2>3 DEF KeptInv, Active
  <2>4. CASE ConnectTipDone(t)
    <3>1. tip' = coins /\ haveData' = haveData
      BY Zenon, <2>4 DEF ConnectTipDone
    <3>2. coins \in NextToConnect(t) /\ pc[t] = "flushConnect"
      BY Zenon, <2>4 DEF ConnectTipDone, TypeInv, Locals
    <3>3. coins \in Blocks /\ coins # Genesis /\ Parent[coins] = tip
      BY Zenon, <3>2 DEF NextToConnect, Children
    <3>4. Ancestors[coins] = Ancestors[tip] \cup {coins}
      BY Zenon, <3>3, AncestorsBasic
    <3>5. coins \in haveData
      BY Zenon, <3>2, NextUsable
    <3> QED BY Zenon, <2>2, <3>1, <3>4, <3>5 DEF KeptInv, Active
  <2>5. CASE DisconnectTipDone(t) \/ InvalidateTipDone(t)
    <3>1. tip' = Parent[tip] /\ haveData' = haveData /\ tip # Genesis
      BY Zenon, <2>5, TipToDisconnect DEF DisconnectTipDone, InvalidateTipDone
    <3>2. Ancestors[Parent[tip]] \subseteq Active
      BY Zenon, <3>1, ParentOfTip
    <3> QED BY Zenon, <2>3, <3>1, <3>2
  <2>6. ASSUME NEW bs \in SUBSET Blocks, Prune(t, bs)
        PROVE  KeptInv'
    <3>1. tip' = tip /\ index' = index /\ validity' = validity /\ haveData' = haveData \ bs
      BY Zenon, <2>6 DEF Prune
    <3>2. ASSUME NEW a \in Active, a \in bs
          PROVE  Buried(a)'
      <4>1. Height[a] <= Height[tip] - MinBlocksToKeep /\ ~(Height[tip] <= PruneAfterHeight)
        BY ZenonT(60), <2>6, <3>2 DEF Prune, Prunable
      <4>2. tip # Genesis
        BY <4>1, TreeAssumption, ChainStateAssumption
      <4>3. validity[tip] = BLOCK_VALID_SCRIPTS
        BY Zenon, <4>2 DEF ValidInv, TipValid
      <4> QED BY Zenon, <1>1, <3>1, <3>2, <4>1, <4>3 DEF Buried, Active
    <3> QED BY Zenon, <2>2, <3>1, <3>2 DEF KeptInv, Active
  <2>7. ASSUME tip' = tip, haveData \subseteq haveData'
        PROVE  KeptInv'
    BY Zenon, <2>3, <2>7 DEF Active
  <2>8. CASE Receive(t) \/ Operator(t)
    <3>1. tip' = tip /\ haveData \subseteq haveData'
      BY Zenon, <2>8 DEF Receive, Operator, ProcessHeader, IgnoreBlock, RejectBlock, StoreBlock, Invalidate,
         Reconsider
    <3> QED BY Zenon, <2>7, <3>1
  <2>9. CASE \/ LinkBlock(t) \/ AcceptBlockDone(t) \/ BeginRound(t) \/ NothingToActivate(t) \/ DropCandidate(t)
             \/ ChooseCandidate(t) \/ DisconnectTip(t) \/ ForkReached(t) \/ ConnectTip(t) \/ ConnectTipFails(t)
    <3>1. tip' = tip /\ haveData' = haveData
      BY Zenon, <2>9 DEF LinkBlock, AcceptBlockDone, BeginRound, NothingToActivate, DropCandidate, ChooseCandidate,
         DisconnectTip, ForkReached, ConnectTip, ConnectTipFails
    <3> QED BY Zenon, <2>7, <3>1
  <2>10. CASE \/ Abort(t) \/ ConnectBlockCrashes(t) \/ DisconnectTipFails(t) \/ EndRound(t) \/ BeginPeriodicFlush(t)
              \/ ActivateBestChainDone(t) \/ InvalidateTip(t) \/ InvalidateTipFails(t) \/ InvalidateDone(t)
    <3>1. tip' = tip /\ haveData' = haveData
      BY Zenon, <2>10 DEF Abort, ConnectBlockCrashes, DisconnectTipFails, EndRound, BeginPeriodicFlush,
         ActivateBestChainDone,
         InvalidateTip, InvalidateTipFails, InvalidateDone
    <3> QED BY Zenon, <2>7, <3>1
  <2> QED BY Zenon, <2>1, <2>4, <2>5, <2>6, <2>8, <2>9, <2>10 DEF Continue
<1> QED BY Zenon, <1>2, <1>3

-----------------------------------------------------------------------------
(* What the layers together say of the specification. *)

\* The layers hold in every reachable state.
LEMMA Layers == Spec => [](TypeInv /\ LinkInv /\ PathInv /\ ValidInv)
BY TypeInvInit, TypeInvStep, LinkInvInit, LinkInvStep, PathInvInit, PathInvStep, ValidInvInit, ValidInvStep,
   PTL DEF Spec

\* The layers make the index pass CheckBlockIndex.
LEMMA LayersIndex == TypeInv /\ LinkInv /\ PathInv /\ ValidInv => IndexConsistent
<1> SUFFICES ASSUME TypeInv, LinkInv, ValidInv, CsMainFree PROVE IndexConsistent
  BY DEF IndexConsistent
<1>1. \A b \in Blocks : ~Waits(b)
  BY Zenon, NothingWaits DEF LinkInv
<1>2. haveData \subseteq processed /\ (~havePruned => processed \subseteq haveData) /\ haveUndo \subseteq haveData
  BY Zenon DEF LinkInv, DataInv
<1>3. ASSUME NEW b \in index
      PROVE  /\ b \in linked => Ancestors[b] \subseteq processed
             /\ b \notin linked => sequenceId[b] = 0
  BY ZenonT(60), <1>1, AncestorsBasic DEF LinkInv, DataInv, LinkedInv, TypeInv, TypeOK
<1>4. ASSUME NEW b \in index
      PROVE  /\ validity[b] >= BLOCK_VALID_TRANSACTIONS <=> b \in processed
             /\ \A a \in Ancestors[b] \ {Genesis} :
                   /\ validity[a] >= BLOCK_VALID_TREE
                   /\ validity[b] = BLOCK_VALID_SCRIPTS => validity[a] = BLOCK_VALID_SCRIPTS
  BY DEF ValidInv, IndexValid, TypeInv, IndexClosed
<1> QED BY <1>2, <1>3, <1>4 DEF IndexConsistent

\* Whatever the handlers do in whatever order, a thread that acquires cs_main
\* finds the block index as CheckBlockIndex asserts it: data and undo data only
\* of received blocks, links only above received blocks, BLOCK_VALID_* levels
\* that do not rise along a chain.
THEOREM IndexConsistency == Spec => []IndexConsistent
BY LayersIndex, Layers, PTL

\* The layers make chainActive and pcoinsTip pass the asserts of ConnectBlock and
\* DisconnectBlock.
LEMMA LayersActive == TypeInv /\ LinkInv /\ PathInv /\ ValidInv => ActiveChainConsistent
<1> SUFFICES ASSUME TypeInv, LinkInv, ValidInv PROVE ActiveChainConsistent
  OBVIOUS
<1>1. tip \in Blocks /\ tip \in index /\ Active \subseteq Blocks /\ tip \in Active
  BY Zenon, AncestorsBasic DEF TypeInv, TypeOK, Active
<1>2. ASSUME CsMainFree PROVE Active \subseteq linked
  BY <1>1, <1>2, NothingWaits DEF LinkInv, LinkedInv, ChoiceInv, Active
<1>3. ASSUME NEW b \in Active \ {Genesis} PROVE validity[b] = BLOCK_VALID_SCRIPTS
  <2>1. tip # Genesis
    BY <1>3, AncestorsAssumption DEF Active
  <2> QED BY <1>1, <1>3, <2>1 DEF ValidInv, TipValid, IndexValid, Active
<1>4. ASSUME NEW b \in Active \ {Genesis} PROVE b \in haveUndo \/ havePruned
  BY ZenonT(60), <1>4 DEF ValidInv, UndoKept
<1> QED BY <1>2, <1>3, <1>4 DEF ActiveChainConsistent, TypeInv, CoinsAgree

\* The asserts on entry of ConnectBlock and DisconnectBlock hold: pcoinsTip
\* belongs to the tip of chainActive.  Whenever cs_main is free, chainActive
\* consists of received and fully validated blocks that, until pruning
\* starts, can all be disconnected again.
THEOREM ActiveChainConsistency == Spec => []ActiveChainConsistent
BY LayersActive, Layers, PTL

\* When ActivateBestChainStep calls ConnectTip there is a next block towards
\* pindexMostWork and its data is on disk, at any pruning depth: the path was
\* usable when FindMostWorkChain chose it, and pruning spares what is above
\* the tip.  The block below it, which ConnectBlock reads too, is there unless it
\* lies MIN_BLOCKS_TO_KEEP below a block that was connected.
THEOREM ConnectDataKept == Spec => []ConnectDataAtHand
<1>1. TypeInv /\ LinkInv /\ PathInv /\ ValidInv /\ KeptInv => ConnectDataAtHand
  <2> SUFFICES ASSUME TypeInv, PathInv, KeptInv, NEW t \in Threads, pc[t] = "connect"
               PROVE  /\ NextToConnect(t) # {} /\ NextToConnect(t) \subseteq haveData
                      /\ tip \in haveData \/ Buried(tip)
    BY ZenonT(60) DEF ConnectDataAtHand
  <2>1. pindex[t] \in Blocks /\ tip \in Ancestors[pindex[t]] \ {pindex[t]}
    BY ZenonT(60) DEF TypeInv, TypeOK, Locals, Activating
  <2>2. PICK c \in Ancestors[pindex[t]] \ {Genesis} : Parent[c] = tip
    BY ZenonT(60), <2>1, AncestorsAssumption
  <2>3. c \in NextToConnect(t)
    BY <2>1, <2>2, AncestorsBasic DEF NextToConnect, Children
  <2>4. tip \in haveData \/ Buried(tip)
    BY Zenon, AncestorsBasic DEF KeptInv, Active, TypeInv, TypeOK
  <2> QED BY Zenon, <2>3, <2>4, NextUsable
<1>2. Spec => []KeptInv
  BY Layers, KeptInvInit, KeptInvStep, PTL DEF Spec
<1> QED BY <1>1, <1>2, Layers, PTL

\* As long as reconsiderblock is not called, BLOCK_FAILED_* is set only on a
\* block that failed, was named to invalidateblock, or has such an ancestor.
THEOREM FailuresHaveCause ==
    ASSUME ReconsiderTargets = {}
    PROVE  Spec => []FailureHasCause
<1>1. CauseInv => FailureHasCause
  BY Zenon DEF CauseInv, MarkCaused, FailureHasCause
<1>2. TypeInv /\ CauseInv /\ [Next]_vars => CauseInv'
  BY CauseInvStep
<1> QED BY <1>1, <1>2, TypeInvInit, TypeInvStep, CauseInvInit, PTL DEF Spec

\* A step that stops the node because DisconnectTip cannot read a pruned block, or
\* because ConnectBlock cannot read the one below, has come MIN_BLOCKS_TO_KEEP or more
\* blocks down from a block that was once connected, whatever the tree, the number of
\* threads and the blocks that were pruned.
THEOREM PruningKeepsEnough == Spec => NeededDataKept
<1>1. ASSUME TypeInv, KeptInv, Next, NEW t \in Threads, pc[t] \notin Stopped, pc'[t] \in Stopped
      PROVE  Buried(tip)
  <2>1. PICK u \in Threads : \/ Receive(u) \/ Operator(u) \/ Continue(u)
                             \/ \E bs \in SUBSET Blocks : Prune(u, bs)
    BY Zenon, <1>1 DEF Next
  <2>2. pc \in [Threads -> Labels] /\ tip \in Active
    BY Zenon, <1>1, AncestorsBasic DEF TypeInv, TypeOK, Active
  <2>3. \A l : pc' = [pc EXCEPT ![u] = l] => l \in Stopped
    BY Zenon, <1>1, <2>2
  <2>4. CASE Abort(u) \/ ConnectBlockCrashes(u) \/ InvalidateTipFails(u)
    <3>1. tip \notin haveData
      BY Zenon, <2>3, <2>4 DEF Abort, ConnectBlockCrashes, InvalidateTipFails, Goto, Stopped
    <3> QED BY Zenon, <1>1, <2>2, <3>1 DEF KeptInv
  <2>5. ASSUME UNCHANGED pc PROVE FALSE
    BY Zenon, <1>1, <2>5
  <2>6. ~Receive(u) /\ ~Operator(u)
    <3>1. \A l : l \in {"link", "stored", "activate", "invalidate"} => pc' # [pc EXCEPT ![u] = l]
      BY Zenon, <2>3 DEF Stopped
    <3>2. \A b \in Blocks : ~ProcessHeader(u, b) /\ ~Invalidate(u, b) /\ ~Reconsider(u, b)
      BY Zenon, <2>5, <3>1 DEF ProcessHeader, Invalidate, Reconsider, Goto, threadVars
    <3>3. \A b \in Blocks, f \in BOOLEAN : ~IgnoreBlock(u, b, f) /\ ~RejectBlock(u, b, f) /\ ~StoreBlock(u, b, f)
      BY Zenon, <2>5, <3>1 DEF IgnoreBlock, RejectBlock, StoreBlock, Goto, threadVars
    <3> QED BY Zenon, <3>2, <3>3, ChainStateAssumption DEF Receive, Operator
  <2>7. /\ ~LinkBlock(u) /\ ~AcceptBlockDone(u) /\ ~BeginRound(u) /\ ~NothingToActivate(u) /\ ~DropCandidate(u)
        /\ ~ChooseCandidate(u) /\ ~DisconnectTip(u) /\ ~DisconnectTipDone(u) /\ ~ForkReached(u)
    BY Zenon, <2>3, <2>5 DEF LinkBlock, AcceptBlockDone, BeginRound, NothingToActivate, DropCandidate,
       ChooseCandidate, DisconnectTip, DisconnectTipDone, ForkReached, Goto, Stopped
  <2>8. /\ ~ConnectTip(u) /\ ~ConnectTipDone(u) /\ ~ConnectTipFails(u) /\ ~DisconnectTipFails(u) /\ ~EndRound(u)
        /\ ~BeginPeriodicFlush(u) /\ ~ActivateBestChainDone(u) /\ ~InvalidateTip(u) /\ ~InvalidateTipDone(u)
        /\ ~InvalidateDone(u) /\ \A bs : ~Prune(u, bs)
    BY Zenon, <2>3, <2>5 DEF ConnectTip, ConnectTipDone, ConnectTipFails, DisconnectTipFails, EndRound,
       BeginPeriodicFlush, ActivateBestChainDone, InvalidateTip, InvalidateTipDone, InvalidateDone, Prune, Goto,
       Stopped
  <2> QED BY Zenon, <2>1, <2>4, <2>6, <2>7, <2>8 DEF Continue
<1>2. /\ TypeInv /\ KeptInv /\ [Next]_vars
      => [\A t \in Threads : pc[t] \notin Stopped /\ pc'[t] \in Stopped => Buried(tip)]_vars
  BY Zenon, <1>1
<1>3. Spec => [][Next]_vars
  BY PTL DEF Spec
<1>4. Spec => []KeptInv
  BY Layers, KeptInvInit, KeptInvStep, PTL DEF Spec
<1> HIDE DEF vars
<1> QED BY <1>2, <1>3, <1>4, Layers, PTL DEF NeededDataKept

=============================================================================
