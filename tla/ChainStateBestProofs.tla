------------------------ MODULE ChainStateBestProofs ------------------------
(***************************************************************************)
(* setBlockIndexCandidates is exact whenever ActivateBestChain is between  *)
(* two calls, and the best chain is active when every handler has          *)
(* returned: for every block tree and any number of threads, on a node     *)
(* that does not prune and on which reconsiderblock is not used.           *)
(*                                                                         *)
(* BaseInv says how blocks are linked and marked on such a node.  BestInv  *)
(* is about the candidates.  Nothing says that they are measured by the    *)
(* tip while it moves down and up again inside ActivateBestChainStep.      *)
(* They are measured by a reference block instead: the tip of the last     *)
(* time the set was right, until a better block is connected.              *)
(***************************************************************************)
EXTENDS ChainStateProofs, WellFoundedInduction

USE DEF TreeAssumption, AncestorsAssumption, ChainStateAssumption
USE DEF vars, treeVars, dataVars, failVars, linkVars, chainVars, threadVars

-----------------------------------------------------------------------------
(* A node that does not prune. *)

\* A block that FindMostWorkChain may return.
Good(b) == b \in linked /\ Ancestors[b] \cap failedValid = {}

\* Without pruning a block is linked at most once, and what is in
\* setBlockIndexCandidates or on the active chain has been linked.
LinkedOnce ==
    /\ ~havePruned /\ ~checkForPruning
    /\ Genesis \in linked /\ tip \in linked /\ coins \in linked /\ candidates \subseteq linked
    /\ \A b \in Blocks : /\ toLink[b] + unlinked[b] <= 1
                         /\ b \in linked => toLink[b] = 0 /\ unlinked[b] = 0

\* A stored block that is neither linked nor about to be waits for its parent.
WaitsForParent ==
    \A b \in processed \ linked :
        Waits(b) \/ Ancestors[b] \cap failedValid # {} \/ (unlinked[b] > 0 /\ Parent[b] \notin linked)

\* No block that fails ConnectBlock has been connected.
NeverValidated == \A b \in BadConnect : validity[b] # BLOCK_VALID_SCRIPTS

\* Of the active chain only the block that is being invalidated is marked.
ActiveUnmarked == \A a \in Active \cap failedValid : \E t \in Threads : pc[t] \in Invalidating /\ pindex[t] = a

CheckHasBlock == \A t \in Threads : pc[t] = "check" => pindex[t] # NULL

BaseInv == LinkedOnce /\ WaitsForParent /\ NeverValidated /\ ActiveUnmarked /\ CheckHasBlock

-----------------------------------------------------------------------------
(* The order of setBlockIndexCandidates, and ancestors. *)

\* CBlockIndexWorkComparator is a strict total order.
LEMMA WorseOrder ==
    ASSUME addr \in Addresses, NEW seq \in [Blocks -> Nat], NEW a \in Blocks, NEW b \in Blocks, NEW c \in Blocks
    PROVE  /\ ~Worse(seq, a, a)
           /\ Worse(seq, a, b) => ~Worse(seq, b, a)
           /\ ~Worse(seq, a, b) /\ ~Worse(seq, b, a) => a = b
           /\ ~Worse(seq, a, b) /\ ~Worse(seq, b, c) => ~Worse(seq, a, c)
<1>1. /\ Work[a] \in Nat /\ Work[b] \in Nat /\ Work[c] \in Nat
      /\ seq[a] \in Nat /\ seq[b] \in Nat /\ seq[c] \in Nat
      /\ addr[a] \in Nat /\ addr[b] \in Nat /\ addr[c] \in Nat
      /\ addr[a] = addr[b] => a = b
  <2>1. addr \in [Blocks -> Nat] /\ Work \in [Blocks -> Nat]
    BY Zenon, ChainStateAssumption, TreeAssumption
  <2>2. addr[a] = addr[b] => a = b
    BY Zenon, ChainStateAssumption
  <2> QED BY Zenon, <2>1, <2>2
<1> QED BY <1>1 DEF Worse

\* A block sorts after its parent.
LEMMA ParentWorse ==
    ASSUME NEW b \in Blocks \ {Genesis}, NEW seq
    PROVE  ~Worse(seq, b, Parent[b])
<1>1. Work[b] > Work[Parent[b]] /\ Work[b] \in Nat /\ Work[Parent[b]] \in Nat
  BY Zenon, TreeAssumption
<1> QED BY <1>1 DEF Worse

\* The ancestors of a linked block have been received, and outside
\* ReceivedBlockTransactions they are linked.
LEMMA AncestorsLinked ==
    ASSUME TypeInv, LinkInv, NEW b \in linked
    PROVE  /\ b \in Blocks /\ Ancestors[b] \subseteq processed
           /\ (CsMainFree \/ \E t \in Threads : pc[t] \in Locked \ {"link"}) => Ancestors[b] \subseteq linked
<1>1. b \in Blocks /\ Ancestors[b] \subseteq Blocks
  BY Zenon, AncestorsBasic DEF TypeInv, TypeOK
<1>2. \A a \in Ancestors[b] : a \in linked \/ Waits(a)
  BY Zenon DEF LinkInv, LinkedInv
<1>3. Ancestors[b] \subseteq processed
  BY Zenon, <1>1, <1>2 DEF LinkInv, DataInv, QueueInv
<1>4. ASSUME CsMainFree \/ \E t \in Threads : pc[t] \in Locked \ {"link"}
      PROVE  Ancestors[b] \subseteq linked
  <2>1. \A a \in Blocks : ~Waits(a)
    BY Zenon, <1>4, NothingWaits DEF LinkInv
  <2> QED BY Zenon, <1>1, <1>2, <2>1
<1> QED BY Zenon, <1>1, <1>3, <1>4

\* When a thread is past LOCK(cs_main), no other one is.
LEMMA OthersOutside ==
    ASSUME TypeInv, NEW t \in Threads, CsMainFree \/ pc[t] \in Locked
    PROVE  \A u \in Threads \ {t} : pc[u] \notin Locked /\ pc[u] \notin Activating /\ pc[u] \notin Invalidating
<1>1. \A u \in Threads \ {t} : pc[u] \notin Locked
  BY Zenon DEF TypeInv, OneHolder, CsMainFree
<1> QED BY Zenon, <1>1 DEF Activating, Invalidating, Locked, FlushPoints

\* Without pruning, DisconnectTip reads the block and its undo data, ConnectBlock
\* the previous block, and nothing is pruned.
LEMMA NothingFails ==
    ASSUME TypeInv, LinkInv, ValidInv, LinkedOnce, NEW t \in Threads
    PROVE  /\ ~Abort(t) /\ ~ConnectBlockCrashes(t) /\ ~DisconnectTipFails(t) /\ ~InvalidateTipFails(t)
           /\ \A bs \in SUBSET Blocks : ~Prune(t, bs)
<1>1. tip \in Blocks /\ tip \in Active
  BY Zenon, AncestorsBasic DEF TypeInv, TypeOK, Active
<1>2. tip \in haveData /\ (tip # Genesis => tip \in haveUndo)
  BY Zenon, <1>1 DEF ValidInv, UndoKept, LinkedOnce, LinkInv, DataInv
<1>3. pc[t] = "disconnect" /\ tip \notin Ancestors[pindex[t]] => tip # Genesis
  <2>1. pc[t] = "disconnect" => pindex[t] \in Blocks
    BY Zenon DEF TypeInv, TypeOK, Locals, Activating
  <2> QED BY Zenon, <2>1, AncestorsBasic
<1>4. pc[t] = "invalidate" /\ pindex[t] \in Active => tip # Genesis
  <2>1. pc[t] = "invalidate" => pindex[t] # Genesis
    BY Zenon DEF TypeInv, Locals, Invalidating
  <2>2. Ancestors[Genesis] = {Genesis}
    BY AncestorsAssumption
  <2> QED BY Zenon, <2>1, <2>2 DEF Active
<1>5. ~Abort(t) /\ ~ConnectBlockCrashes(t) /\ ~DisconnectTipFails(t)
  BY Zenon, <1>2, <1>3 DEF Abort, ConnectBlockCrashes, DisconnectTipFails
<1>6. ~InvalidateTipFails(t)
  BY Zenon, <1>2, <1>4 DEF InvalidateTipFails
<1>7. \A bs \in SUBSET Blocks : ~Prune(t, bs)
  BY Zenon DEF Prune, LinkedOnce
<1> QED BY Zenon, <1>5, <1>6, <1>7

\* Without pruning, FindMostWorkChain drops only blocks that descend from one
\* that failed.
LEMMA DroppedBad ==
    ASSUME TypeInv, LinkInv, CauseInv, LinkedOnce, NEW t \in Threads, DropCandidate(t)
    PROVE  /\ UNCHANGED <<unlinked, failedValid>> /\ candidates' \subseteq candidates
           /\ \A c \in candidates : c \in candidates' \/ ~Good(c)
<1>1. PICK best \in BestCandidates : \E test \in Unusable(best) :
          (\A b \in Unusable(best) : Height[b] <= Height[test]) /\ Drop(best, test)
  BY DEF DropCandidate
<1>2. PICK test \in Unusable(best) :
          (\A b \in Unusable(best) : Height[b] <= Height[test]) /\ Drop(best, test)
  BY ZenonT(60), <1>1
<1>3. best \in linked /\ pc[t] = "find"
  BY Zenon, <1>1 DEF BestCandidates, LinkedOnce, DropCandidate
<1>4. best \in Blocks /\ Ancestors[best] \subseteq processed
  BY Zenon, <1>3, AncestorsLinked
<1>5. processed \subseteq haveData
  BY Zenon DEF LinkInv, DataInv, LinkedOnce
<1>6. test \in Ancestors[best] /\ test \in Blocks /\ test \in Failed
  BY Zenon, <1>2, <1>4, <1>5, AncestorsBasic DEF Unusable, PathToActive
<1>7. /\ candidates' = candidates \ (Above(best, test) \cup {test})
      /\ unlinked' = unlinked /\ failedValid' = failedValid
  BY Zenon, <1>2, <1>6 DEF Drop, DropCandidate
<1>8. Ancestors[test] \cap failedValid # {}
  BY Zenon, <1>6 DEF CauseInv, MarkCaused
<1>9. ASSUME NEW c \in Above(best, test) \cup {test}
      PROVE  Ancestors[c] \cap failedValid # {}
  <2>1. CASE c = test
    BY Zenon, <1>8, <2>1
  <2>2. CASE c # test
    <3>1. c \in Ancestors[best] /\ Height[c] > Height[test]
      BY Zenon, <1>9, <2>2 DEF Above, PathToActive
    <3>2. c \in Blocks /\ Height[test] \in Nat /\ Height[c] \in Nat
      BY Zenon, <1>4, <1>6, <3>1, AncestorsBasic, TreeAssumption
    <3>3. Height[test] <= Height[c]
      BY <3>1, <3>2
    <3>4. test \in Ancestors[c]
      BY Zenon, <1>4, <1>6, <3>1, <3>3, LowerIsAncestor
    <3>5. Ancestors[test] \subseteq Ancestors[c]
      BY Zenon, <3>2, <3>4, AncestorsAssumption
    <3> QED BY Zenon, <1>8, <3>5
  <2> QED BY Zenon, <2>1, <2>2
<1> QED BY Zenon, <1>7, <1>9 DEF Good

-----------------------------------------------------------------------------
(* What the steps have in common. *)

\* A step of thread t moves no other thread.
MovesAlone(t) == \A u \in Threads \ {t} : pc'[u] = pc[u] /\ pindex'[u] = pindex[u]

\* Every handler changes only its own locals.
LEMMA OneMoves ==
    ASSUME TypeInv, NEW t \in Threads, Receive(t) \/ Operator(t) \/ Continue(t)
    PROVE  MovesAlone(t)
<1>1. pc \in [Threads -> Labels] /\ pindex \in [Threads -> index \cup {NULL}]
  BY Zenon DEF TypeInv, TypeOK
<1>2. (\E l : pc' = [pc EXCEPT ![t] = l]) \/ pc' = pc
  <2>1. CASE Receive(t)
    BY ZenonT(60), <2>1 DEF Receive, ProcessHeader, IgnoreBlock, RejectBlock, StoreBlock, Goto
  <2>2. CASE Operator(t)
    BY ZenonT(60), <2>2 DEF Operator, Invalidate, Reconsider, Goto
  <2>3. CASE \/ LinkBlock(t) \/ AcceptBlockDone(t) \/ BeginRound(t) \/ NothingToActivate(t) \/ DropCandidate(t)
             \/ ChooseCandidate(t) \/ DisconnectTip(t) \/ DisconnectTipDone(t) \/ ForkReached(t)
    BY ZenonT(60), <2>3 DEF LinkBlock, AcceptBlockDone, BeginRound, NothingToActivate, DropCandidate, ChooseCandidate,
       DisconnectTip, DisconnectTipDone, ForkReached, Goto
  <2>4. CASE \/ ConnectTip(t) \/ ConnectTipDone(t) \/ ConnectTipFails(t) \/ Abort(t)
             \/ ConnectBlockCrashes(t) \/ DisconnectTipFails(t)
             \/ EndRound(t) \/ BeginPeriodicFlush(t) \/ ActivateBestChainDone(t)
    BY ZenonT(60), <2>4 DEF ConnectTip, ConnectTipDone, ConnectTipFails, Abort, ConnectBlockCrashes,
       DisconnectTipFails, EndRound,
       BeginPeriodicFlush, ActivateBestChainDone, Goto
  <2>5. CASE InvalidateTip(t) \/ InvalidateTipFails(t) \/ InvalidateTipDone(t) \/ InvalidateDone(t)
    BY ZenonT(60), <2>5 DEF InvalidateTip, InvalidateTipFails, InvalidateTipDone, InvalidateDone, Goto
  <2> QED BY Zenon, <2>1, <2>2, <2>3, <2>4, <2>5 DEF Continue
<1>3. (\E b : pindex' = [pindex EXCEPT ![t] = b]) \/ pindex' = pindex
  <2>1. CASE Receive(t)
    BY ZenonT(60), <2>1 DEF Receive, ProcessHeader, IgnoreBlock, RejectBlock, StoreBlock
  <2>2. CASE Operator(t)
    BY ZenonT(60), <2>2 DEF Operator, Invalidate, Reconsider
  <2>3. CASE \/ LinkBlock(t) \/ AcceptBlockDone(t) \/ BeginRound(t) \/ NothingToActivate(t) \/ DropCandidate(t)
             \/ ChooseCandidate(t) \/ DisconnectTip(t) \/ DisconnectTipDone(t) \/ ForkReached(t)
    BY ZenonT(60), <2>3 DEF LinkBlock, AcceptBlockDone, BeginRound, NothingToActivate, DropCandidate, ChooseCandidate,
       DisconnectTip, DisconnectTipDone, ForkReached
  <2>4. CASE \/ ConnectTip(t) \/ ConnectTipDone(t) \/ ConnectTipFails(t) \/ Abort(t)
             \/ ConnectBlockCrashes(t) \/ DisconnectTipFails(t)
             \/ EndRound(t) \/ BeginPeriodicFlush(t) \/ ActivateBestChainDone(t)
    BY ZenonT(60), <2>4 DEF ConnectTip, ConnectTipDone, ConnectTipFails, Abort, ConnectBlockCrashes,
       DisconnectTipFails, EndRound,
       BeginPeriodicFlush, ActivateBestChainDone
  <2>5. CASE InvalidateTip(t) \/ InvalidateTipFails(t) \/ InvalidateTipDone(t) \/ InvalidateDone(t)
    BY ZenonT(60), <2>5 DEF InvalidateTip, InvalidateTipFails, InvalidateTipDone, InvalidateDone
  <2> QED BY Zenon, <2>1, <2>2, <2>3, <2>4, <2>5 DEF Continue
<1>4. \A u \in Threads \ {t} : pc'[u] = pc[u]
  BY Zenon, <1>1, <1>2
<1>5. \A u \in Threads \ {t} : pindex'[u] = pindex[u]
  BY Zenon, <1>1, <1>3
<1> QED BY Zenon, <1>4, <1>5 DEF MovesAlone

\* The steps that neither store nor link a block, nor give up for want of data.
Moving(t) ==
    \/ \E b \in Blocks : ProcessHeader(t, b)
    \/ \E b \in Blocks, fRequested \in BOOLEAN : IgnoreBlock(t, b, fRequested) \/ RejectBlock(t, b, fRequested)
    \/ \E b \in InvalidateTargets : Invalidate(t, b)
    \/ AcceptBlockDone(t) \/ BeginRound(t) \/ NothingToActivate(t) \/ DropCandidate(t) \/ ChooseCandidate(t)
    \/ DisconnectTip(t) \/ DisconnectTipDone(t) \/ ForkReached(t)
    \/ ConnectTip(t) \/ ConnectTipDone(t) \/ ConnectTipFails(t)
    \/ EndRound(t) \/ BeginPeriodicFlush(t) \/ ActivateBestChainDone(t)
    \/ InvalidateTip(t) \/ InvalidateTipDone(t) \/ InvalidateDone(t)

\* Without pruning and reconsiderblock, a step stores a block, links one, or is
\* one of Moving.
LEMMA StepKinds ==
    ASSUME ReconsiderTargets = {}, TypeInv, LinkInv, ValidInv, LinkedOnce, Next
    PROVE  \E t \in Threads :
              /\ Receive(t) \/ Operator(t) \/ Continue(t)
              /\ \/ \E b \in Blocks, fRequested \in BOOLEAN : StoreBlock(t, b, fRequested)
                 \/ LinkBlock(t)
                 \/ Moving(t)
<1>1. PICK t \in Threads : \/ Receive(t) \/ Operator(t) \/ Continue(t)
                           \/ \E bs \in SUBSET Blocks : Prune(t, bs)
  BY Zenon DEF Next
<1>2. /\ ~Abort(t) /\ ~ConnectBlockCrashes(t) /\ ~DisconnectTipFails(t) /\ ~InvalidateTipFails(t)
      /\ \A bs \in SUBSET Blocks : ~Prune(t, bs)
  BY Zenon, NothingFails
<1>3. CASE Receive(t)
  BY Zenon, <1>3 DEF Receive, Moving
<1>4. CASE Operator(t)
  BY Zenon, <1>4 DEF Operator, Moving
<1>5. CASE Continue(t)
  BY Zenon, <1>2, <1>5 DEF Continue, Moving
<1> QED BY Zenon, <1>1, <1>2, <1>3, <1>4, <1>5

\* Such a step leaves links and queues alone, takes no mark back and does not ask
\* for pruning.
LEMMA MovingKeeps ==
    ASSUME PruneMode = FALSE, TypeInv, LinkInv, CauseInv, LinkedOnce, NEW t \in Threads, Moving(t)
    PROVE  /\ addr' = addr /\ linked' = linked /\ sequenceId' = sequenceId /\ toLink' = toLink
           /\ unlinked' = unlinked /\ processed' = processed
           /\ failedValid \subseteq failedValid' /\ ~havePruned' /\ ~checkForPruning'
<1> DEFINE Keeps == /\ addr' = addr /\ linked' = linked /\ sequenceId' = sequenceId /\ toLink' = toLink
                    /\ unlinked' = unlinked /\ processed' = processed
                    /\ failedValid \subseteq failedValid' /\ ~havePruned' /\ ~checkForPruning'
<1>0. ~havePruned /\ ~checkForPruning
  BY Zenon DEF LinkedOnce
<1>same. ASSUME /\ addr' = addr /\ linked' = linked /\ sequenceId' = sequenceId /\ toLink' = toLink
                /\ unlinked' = unlinked /\ processed' = processed
                /\ failedValid \subseteq failedValid' /\ havePruned' = havePruned /\ checkForPruning' = checkForPruning
         PROVE  Keeps
  BY <1>0, <1>same
<1>1. ASSUME NEW b \in Blocks, NEW fRequested \in BOOLEAN,
             ProcessHeader(t, b) \/ IgnoreBlock(t, b, fRequested) \/ RejectBlock(t, b, fRequested)
      PROVE  Keeps
  BY ZenonT(60), <1>same, <1>1 DEF ProcessHeader, IgnoreBlock, RejectBlock
<1>2. ASSUME NEW b \in InvalidateTargets, Invalidate(t, b)
      PROVE  Keeps
  BY ZenonT(60), <1>same, <1>2 DEF Invalidate, MarkInvalid
<1>3. CASE \/ AcceptBlockDone(t) \/ BeginRound(t) \/ NothingToActivate(t) \/ ChooseCandidate(t)
           \/ DisconnectTip(t) \/ DisconnectTipDone(t) \/ ForkReached(t)
  BY ZenonT(60), <1>same, <1>3 DEF AcceptBlockDone, BeginRound, NothingToActivate, ChooseCandidate, DisconnectTip,
     DisconnectTipDone, ForkReached
<1>4. CASE DropCandidate(t)
  <2>1. unlinked' = unlinked /\ failedValid' = failedValid
    BY Zenon, <1>4, DroppedBad
  <2> QED BY Zenon, <1>0, <1>4, <2>1 DEF DropCandidate
<1>5. CASE ConnectTip(t)
  <2>1. ~checkForPruning'
    <3>1. PICK b \in NextToConnect(t) : checkForPruning' = (PruneMode /\ b \notin haveUndo)
      BY Zenon, <1>5 DEF ConnectTip
    <3> QED BY Zenon, <3>1
  <2> QED BY Zenon, <1>0, <1>5, <2>1 DEF ConnectTip
<1>6. CASE \/ ConnectTipDone(t) \/ ConnectTipFails(t)
           \/ EndRound(t) \/ BeginPeriodicFlush(t) \/ ActivateBestChainDone(t)
  BY ZenonT(60), <1>same, <1>6 DEF ConnectTipDone, ConnectTipFails, MarkInvalid, EndRound, BeginPeriodicFlush,
     ActivateBestChainDone
<1>7. CASE InvalidateTip(t) \/ InvalidateTipDone(t) \/ InvalidateDone(t)
  BY ZenonT(60), <1>same, <1>7 DEF InvalidateTip, InvalidateTipDone, InvalidateDone
<1> QED BY Zenon, <1>1, <1>2, <1>3, <1>4, <1>5, <1>6, <1>7 DEF Moving

\* chainActive, pcoinsTip and setBlockIndexCandidates stay among the linked blocks.
LEMMA MovingLinked ==
    ASSUME TypeInv, LinkInv, CauseInv, LinkedOnce, NEW t \in Threads, Moving(t)
    PROVE  tip' \in linked /\ coins' \in linked /\ candidates' \subseteq linked
<1> DEFINE Stays == tip' \in linked /\ coins' \in linked /\ candidates' \subseteq linked
<1>0. tip \in linked /\ coins \in linked /\ candidates \subseteq linked
  BY Zenon DEF LinkedOnce
<1>1. ASSUME NEW b \in Blocks, NEW fRequested \in BOOLEAN,
             ProcessHeader(t, b) \/ IgnoreBlock(t, b, fRequested) \/ RejectBlock(t, b, fRequested)
      PROVE  Stays
  BY ZenonT(60), <1>0, <1>1 DEF ProcessHeader, IgnoreBlock, RejectBlock
<1>2. ASSUME NEW b \in InvalidateTargets, Invalidate(t, b)
      PROVE  Stays
  BY ZenonT(60), <1>0, <1>2 DEF Invalidate, MarkInvalid
<1>3. CASE AcceptBlockDone(t) \/ BeginRound(t) \/ NothingToActivate(t) \/ ChooseCandidate(t) \/ ForkReached(t)
  BY ZenonT(60), <1>0, <1>3 DEF AcceptBlockDone, BeginRound, NothingToActivate, ChooseCandidate, ForkReached
<1>4. CASE DropCandidate(t)
  <2>1. candidates' \subseteq candidates
    BY Zenon, <1>4, DroppedBad
  <2> QED BY Zenon, <1>0, <1>4, <2>1 DEF DropCandidate
<1>5. CASE ConnectTip(t)
  <2>1. PICK b \in NextToConnect(t) : coins' = b
    BY Zenon, <1>5 DEF ConnectTip
  <2>2. pc[t] \in Activating /\ pc[t] \in Locked \ {"link"}
    BY Zenon, <1>5 DEF ConnectTip, Activating, Locked
  <2>3. pindex[t] \in linked
    BY Zenon, <2>2 DEF LinkInv, ChoiceInv
  <2>4. Ancestors[pindex[t]] \subseteq linked
    BY Zenon, <2>2, <2>3, AncestorsLinked
  <2>5. b \in linked
    BY Zenon, <2>4 DEF NextToConnect
  <2> QED BY Zenon, <1>0, <1>5, <2>1, <2>5 DEF ConnectTip
<1>6. CASE \/ ConnectTipDone(t) \/ ConnectTipFails(t)
           \/ EndRound(t) \/ BeginPeriodicFlush(t) \/ ActivateBestChainDone(t)
  BY ZenonT(60), <1>0, <1>6 DEF ConnectTipDone, PruneBlockIndexCandidates, ConnectTipFails, MarkInvalid, EndRound,
     BeginPeriodicFlush, ActivateBestChainDone
<1>7. CASE DisconnectTip(t) \/ DisconnectTipDone(t) \/ InvalidateTip(t) \/ InvalidateTipDone(t)
  <2>1. pc[t] \in Locked \ {"link"}
    BY Zenon, <1>7 DEF DisconnectTip, DisconnectTipDone, InvalidateTip, InvalidateTipDone, Locked, FlushPoints
  <2>2. Parent[tip] \in linked
    BY Zenon, <1>7, <2>1, TipToDisconnect, ParentOfTipLinked
  <2>3. tip' \in {tip, Parent[tip]} /\ coins' \in {coins, Parent[tip]} /\ candidates' \subseteq candidates
    BY ZenonT(60), <1>7 DEF DisconnectTip, DisconnectTipDone, DisconnectBlock, InvalidateTip, MarkTip, InvalidateTipDone
  <2> QED BY Zenon, <1>0, <2>2, <2>3
<1>8. CASE InvalidateDone(t)
  BY Zenon, <1>0, <1>8 DEF InvalidateDone
<1> QED BY Zenon, <1>1, <1>2, <1>3, <1>4, <1>5, <1>6, <1>7, <1>8 DEF Moving

\* StoreBlock takes a block that was never stored before: it is linked nowhere
\* and waits nowhere, and it is put into exactly one of the two queues.
LEMMA StoreEffect ==
    ASSUME PruneMode = FALSE, TypeInv, LinkInv, LinkedOnce,
           NEW t \in Threads, NEW b \in Blocks, NEW fRequested \in BOOLEAN, StoreBlock(t, b, fRequested)
    PROVE  /\ b \notin processed /\ b \notin linked /\ b # Genesis
           /\ linked' = linked /\ processed' = processed \cup {b} /\ \A c \in Blocks : toLink[c] = 0
           /\ unlinked[b] = 0
           /\ addr' = addr /\ sequenceId' = sequenceId /\ candidates' = candidates /\ failedValid' = failedValid
           /\ tip' = tip /\ coins' = coins /\ pindex' = pindex
           /\ ~havePruned' /\ ~checkForPruning'
           /\ \/ ParentLinked(b) /\ toLink' = [toLink EXCEPT ![b] = 1] /\ unlinked' = unlinked
              \/ /\ ~ParentLinked(b) /\ toLink' = toLink
                 /\ unlinked' = IF IsValid(Parent[b], BLOCK_VALID_TREE)
                                THEN [unlinked EXCEPT ![b] = unlinked[b] + 1] ELSE unlinked
<1>1. b \notin processed
  BY Zenon DEF StoreBlock, Ignored, LinkInv, DataInv, LinkedOnce
<1>2. b \notin linked /\ b # Genesis /\ linked' = linked
  <2>1. b \notin linked /\ b # Genesis
    BY Zenon, <1>1 DEF LinkInv, DataInv, LinkedOnce
  <2>2. linked' = linked \ {b}
    BY Zenon DEF StoreBlock
  <2> QED BY <2>1, <2>2
<1>3. \A c \in Blocks : toLink[c] = 0
  BY Zenon, NothingWaits DEF StoreBlock, ReceiveBlock, LinkInv
<1>4. unlinked[b] = 0
  <2>1. unlinked[b] \in Nat /\ ~(unlinked[b] > 0)
    BY Zenon, <1>1 DEF LinkInv, QueueInv, TypeInv, TypeOK
  <2> QED BY <2>1
<1>5. ~checkForPruning' /\ ~havePruned'
  BY Zenon DEF StoreBlock, LinkedOnce
<1>6. \/ ParentLinked(b) /\ toLink' = [toLink EXCEPT ![b] = 1] /\ unlinked' = unlinked
      \/ /\ ~ParentLinked(b) /\ toLink' = toLink
         /\ unlinked' = IF IsValid(Parent[b], BLOCK_VALID_TREE)
                        THEN [unlinked EXCEPT ![b] = unlinked[b] + 1] ELSE unlinked
  BY ZenonT(60) DEF StoreBlock
<1>7. /\ addr' = addr /\ sequenceId' = sequenceId /\ candidates' = candidates /\ failedValid' = failedValid
      /\ tip' = tip /\ coins' = coins /\ pindex' = pindex /\ processed' = processed \cup {b}
  BY ZenonT(60) DEF StoreBlock
<1> QED BY Zenon, <1>1, <1>2, <1>3, <1>4, <1>5, <1>6, <1>7

\* A pass of the loop of ReceivedBlockTransactions links a block that was not
\* linked, and moves what waits for it to the queue.
LEMMA LinkEffect ==
    ASSUME TypeInv, LinkInv, LinkedOnce, NEW t \in Threads, LinkBlock(t)
    PROVE  \E b \in Blocks :
              /\ b \notin linked /\ b \in processed /\ ParentLinked(b) /\ b \notin Children(b) /\ unlinked[b] = 0
              /\ linked' = linked \cup {b} /\ sequenceId' = [sequenceId EXCEPT ![b] = nextSequenceId]
              /\ candidates' = IF Worse(sequenceId', b, tip) THEN candidates ELSE candidates \cup {b}
              /\ \A c \in Blocks :
                    /\ toLink'[c] = IF c = b THEN 0 ELSE IF c \in Children(b) THEN toLink[c] + unlinked[c] ELSE toLink[c]
                    /\ unlinked'[c] = IF c \in Children(b) THEN 0 ELSE unlinked[c]
              /\ addr' = addr /\ failedValid' = failedValid /\ tip' = tip /\ coins' = coins /\ pindex' = pindex
              /\ processed' = processed /\ validity' = validity /\ ~havePruned' /\ ~checkForPruning'
<1>1. PICK b \in Blocks : Link(b)
  BY Zenon DEF LinkBlock
<1>2. toLink[b] \in Nat /\ unlinked[b] \in Nat /\ toLink[b] > 0 /\ toLink[b] + unlinked[b] <= 1
  BY Zenon, <1>1 DEF Link, LinkedOnce, TypeInv, TypeOK
<1>3. toLink[b] = 1 /\ unlinked[b] = 0 /\ toLink[b] # 0
  BY <1>2
<1>4. b \notin linked
  BY Zenon, <1>3 DEF LinkedOnce
<1>5. b \in processed /\ ParentLinked(b)
  BY Zenon, <1>2 DEF Waits, LinkInv, QueueInv
<1>6. b \notin Children(b)
  BY Zenon, ParentDiffers DEF Children
<1>7. ASSUME NEW c \in Blocks
      PROVE  /\ toLink'[c] = IF c = b THEN 0 ELSE IF c \in Children(b) THEN toLink[c] + unlinked[c] ELSE toLink[c]
             /\ unlinked'[c] = IF c \in Children(b) THEN 0 ELSE unlinked[c]
  <2>1. toLink'[c] = (IF c = b THEN toLink[c] - 1 ELSE toLink[c]) + (IF c \in Children(b) THEN unlinked[c] ELSE 0)
    BY Zenon, <1>1, <1>7 DEF Link
  <2>2. unlinked'[c] = IF c \in Children(b) THEN 0 ELSE unlinked[c]
    BY Zenon, <1>1, <1>7 DEF Link, EraseUnlinked
  <2>3. toLink[c] \in Nat /\ unlinked[c] \in Nat
    BY Zenon, <1>7 DEF TypeInv, TypeOK
  <2>4. toLink'[c] = IF c = b THEN 0 ELSE IF c \in Children(b) THEN toLink[c] + unlinked[c] ELSE toLink[c]
    BY <2>1, <2>3, <1>3, <1>6
  <2> QED BY Zenon, <2>2, <2>4
<1>8. ~havePruned' /\ ~checkForPruning'
  <2>1. havePruned' = havePruned /\ checkForPruning' = checkForPruning
    BY Zenon DEF LinkBlock
  <2>2. ~havePruned /\ ~checkForPruning
    BY Zenon DEF LinkedOnce
  <2> QED BY <2>1, <2>2
<1>9. /\ addr' = addr /\ failedValid' = failedValid /\ tip' = tip /\ coins' = coins /\ pindex' = pindex
      /\ processed' = processed /\ validity' = validity
  BY Zenon DEF LinkBlock
<1>10. /\ linked' = linked \cup {b} /\ sequenceId' = [sequenceId EXCEPT ![b] = nextSequenceId]
       /\ candidates' = IF Worse(sequenceId', b, tip) THEN candidates ELSE candidates \cup {b}
  BY Zenon, <1>1 DEF Link
<1> QED BY Zenon, <1>3, <1>4, <1>5, <1>6, <1>7, <1>8, <1>9, <1>10

-----------------------------------------------------------------------------
(* Links, marks and validity of the active chain. *)

\* InitBlockIndex links the genesis block and nothing waits.
LEMMA BaseInvInit == Init => BaseInv
<1> SUFFICES ASSUME Init PROVE BaseInv
  OBVIOUS
<1>1. LinkedOnce
  BY DEF Init, LinkedOnce
<1>2. WaitsForParent
  BY Zenon DEF Init, WaitsForParent
<1>3. NeverValidated /\ ActiveUnmarked /\ CheckHasBlock
  <2>1. \A b \in BadConnect : validity[b] = 0
    BY ChainStateAssumption DEF Init, BLOCK_VALID_UNKNOWN
  <2>2. \A b \in BadConnect : validity[b] # BLOCK_VALID_SCRIPTS
    BY <2>1 DEF BLOCK_VALID_SCRIPTS
  <2> QED BY Zenon, <2>2 DEF Init, NeverValidated, ActiveUnmarked, CheckHasBlock
<1> QED BY Zenon, <1>1, <1>2, <1>3 DEF BaseInv

\* Without pruning no step links a block a second time or queues it twice.
LEMMA LinkedOnceStep ==
    ASSUME PruneMode = FALSE, ReconsiderTargets = {}, TypeInv, LinkInv, ValidInv, CauseInv, LinkedOnce, Next
    PROVE  LinkedOnce'
<1>0. /\ \A c \in Blocks : /\ toLink[c] \in Nat /\ unlinked[c] \in Nat /\ toLink[c] + unlinked[c] <= 1
                           /\ c \in linked => toLink[c] = 0 /\ unlinked[c] = 0
      /\ Genesis \in linked /\ tip \in linked /\ coins \in linked /\ candidates \subseteq linked
  BY Zenon DEF LinkedOnce, TypeInv, TypeOK
<1>1. PICK t \in Threads : \/ \E b \in Blocks, fRequested \in BOOLEAN : StoreBlock(t, b, fRequested)
                           \/ LinkBlock(t)
                           \/ Moving(t)
  BY Zenon, StepKinds
<1>2. CASE \E b \in Blocks, fRequested \in BOOLEAN : StoreBlock(t, b, fRequested)
  <2>1. PICK b \in Blocks, fRequested \in BOOLEAN : StoreBlock(t, b, fRequested)
    BY Zenon, <1>2
  <2>2. /\ b \notin linked /\ linked' = linked /\ toLink[b] = 0 /\ unlinked[b] = 0 /\ ~havePruned' /\ ~checkForPruning'
        /\ tip' = tip /\ coins' = coins /\ candidates' = candidates
        /\ \/ toLink' = [toLink EXCEPT ![b] = 1] /\ unlinked' = unlinked
           \/ toLink' = toLink /\ unlinked' = [unlinked EXCEPT ![b] = unlinked[b] + 1]
           \/ toLink' = toLink /\ unlinked' = unlinked
    BY ZenonT(60), <2>1, StoreEffect
  <2>3. toLink \in [Blocks -> Nat] /\ unlinked \in [Blocks -> Nat]
    BY Zenon DEF TypeInv, TypeOK
  <2>4. ASSUME NEW c \in Blocks
        PROVE  toLink'[c] + unlinked'[c] <= 1 /\ (c \in linked' => toLink'[c] = 0 /\ unlinked'[c] = 0)
    <3>1. CASE c = b
      BY <2>2, <2>3, <3>1
    <3>2. CASE c # b
      <4>1. toLink'[c] = toLink[c] /\ unlinked'[c] = unlinked[c]
        BY Zenon, <2>2, <2>3, <3>2
      <4> QED BY Zenon, <4>1, <2>2, <1>0
    <3> QED BY Zenon, <3>1, <3>2
  <2> QED BY Zenon, <1>0, <2>2, <2>4 DEF LinkedOnce
<1>3. CASE LinkBlock(t)
  <2>1. PICK b \in Blocks :
          /\ b \notin linked /\ b \in processed /\ ParentLinked(b) /\ b \notin Children(b) /\ unlinked[b] = 0
          /\ linked' = linked \cup {b}
          /\ candidates' = IF Worse(sequenceId', b, tip) THEN candidates ELSE candidates \cup {b}
          /\ \A c \in Blocks :
                /\ toLink'[c] = IF c = b THEN 0 ELSE IF c \in Children(b) THEN toLink[c] + unlinked[c] ELSE toLink[c]
                /\ unlinked'[c] = IF c \in Children(b) THEN 0 ELSE unlinked[c]
          /\ tip' = tip /\ coins' = coins /\ ~havePruned' /\ ~checkForPruning'
    BY Zenon, <1>3, LinkEffect
  <2>2. ASSUME NEW c \in Blocks
        PROVE  toLink'[c] + unlinked'[c] <= 1 /\ (c \in linked' => toLink'[c] = 0 /\ unlinked'[c] = 0)
    <3>1. CASE c = b
      BY <2>1, <3>1
    <3>2. CASE c # b /\ c \in Children(b)
      <4>1. toLink'[c] = toLink[c] + unlinked[c] /\ unlinked'[c] = 0
        BY Zenon, <2>1, <3>2
      <4>2. toLink[c] \in Nat /\ unlinked[c] \in Nat /\ toLink[c] + unlinked[c] <= 1
        BY Zenon, <1>0
      <4>3. toLink'[c] + unlinked'[c] <= 1 /\ (toLink[c] = 0 /\ unlinked[c] = 0 => toLink'[c] = 0)
        BY <4>1, <4>2
      <4>4. c \in linked' => c \in linked
        BY Zenon, <2>1, <3>2
      <4> QED BY Zenon, <4>1, <4>3, <4>4, <1>0
    <3>3. CASE c # b /\ c \notin Children(b)
      <4>1. toLink'[c] = toLink[c] /\ unlinked'[c] = unlinked[c] /\ (c \in linked' => c \in linked)
        BY Zenon, <2>1, <3>3
      <4> QED BY Zenon, <4>1, <1>0
    <3> QED BY Zenon, <3>1, <3>2, <3>3
  <2>3. candidates' \subseteq linked'
    BY Zenon, <2>1, <1>0
  <2> QED BY Zenon, <1>0, <2>1, <2>2, <2>3 DEF LinkedOnce
<1>4. CASE Moving(t)
  <2>1. linked' = linked /\ toLink' = toLink /\ unlinked' = unlinked /\ ~havePruned' /\ ~checkForPruning'
    BY Zenon, <1>4, MovingKeeps
  <2>2. tip' \in linked /\ coins' \in linked /\ candidates' \subseteq linked
    BY Zenon, <1>4, MovingLinked
  <2> QED BY Zenon, <1>0, <2>1, <2>2 DEF LinkedOnce
<1> QED BY Zenon, <1>1, <1>2, <1>3, <1>4

\* AcceptBlock finds the parent of a block it stores in the index, and if that
\* is marked invalid the block descends from one that failed.
LEMMA ParentUsable ==
    ASSUME TypeInv, ValidInv, CauseInv, NEW b \in Blocks \ {Genesis}, AcceptBlockHeader(b),
           ~IsValid(Parent[b], BLOCK_VALID_TREE)
    PROVE  Ancestors[b] \cap failedValid # {}
<1>1. Parent[b] \in index
  <2>1. CASE b \in index
    <3>1. Ancestors[b] \subseteq index
      BY Zenon, <2>1 DEF TypeInv, IndexClosed
    <3> QED BY Zenon, <3>1, AncestorsBasic
  <2>2. CASE b \notin index
    BY Zenon, <2>2 DEF AcceptBlockHeader
  <2> QED BY Zenon, <2>1, <2>2
<1>2. validity[Parent[b]] >= BLOCK_VALID_TREE
  BY Zenon, <1>1 DEF ValidInv, IndexValid
<1>3. Parent[b] \in Failed
  BY Zenon, <1>2 DEF IsValid
<1>4. Ancestors[Parent[b]] \cap failedValid # {}
  BY Zenon, <1>3 DEF CauseInv, MarkCaused
<1>5. Ancestors[Parent[b]] \subseteq Ancestors[b]
  BY Zenon, AncestorsBasic
<1> QED BY Zenon, <1>4, <1>5

\* Every step leaves each stored block linked, in the queue, waiting for its
\* parent or below a block that failed.
LEMMA WaitsStep ==
    ASSUME PruneMode = FALSE, ReconsiderTargets = {}, TypeInv, LinkInv, ValidInv, CauseInv, LinkedOnce,
           WaitsForParent, Next
    PROVE  WaitsForParent'
<1>0. \A c \in Blocks : toLink[c] \in Nat /\ unlinked[c] \in Nat
  BY Zenon DEF TypeInv, TypeOK
<1>in. processed \subseteq Blocks
  BY Zenon DEF TypeInv, TypeOK
<1>1. PICK t \in Threads : \/ \E b \in Blocks, fRequested \in BOOLEAN : StoreBlock(t, b, fRequested)
                           \/ LinkBlock(t)
                           \/ Moving(t)
  BY Zenon, StepKinds
<1>2. CASE \E b \in Blocks, fRequested \in BOOLEAN : StoreBlock(t, b, fRequested)
  <2>1. PICK b \in Blocks, fRequested \in BOOLEAN : StoreBlock(t, b, fRequested)
    BY Zenon, <1>2
  <2>2. /\ b \notin linked /\ b # Genesis /\ linked' = linked /\ processed' = processed \cup {b}
        /\ \A c \in Blocks : toLink[c] = 0
        /\ unlinked[b] = 0 /\ failedValid' = failedValid
        /\ \/ ParentLinked(b) /\ toLink' = [toLink EXCEPT ![b] = 1] /\ unlinked' = unlinked
           \/ /\ ~ParentLinked(b) /\ toLink' = toLink
              /\ unlinked' = IF IsValid(Parent[b], BLOCK_VALID_TREE)
                             THEN [unlinked EXCEPT ![b] = unlinked[b] + 1] ELSE unlinked
    BY ZenonT(60), <2>1, StoreEffect
  <2>3. AcceptBlockHeader(b)
    BY Zenon, <2>1 DEF StoreBlock, ReceiveBlock
  <2>4. toLink \in [Blocks -> Nat] /\ unlinked \in [Blocks -> Nat]
    BY Zenon DEF TypeInv, TypeOK
  <2>5. Waits(b)' \/ Ancestors[b] \cap failedValid' # {} \/ (unlinked'[b] > 0 /\ Parent[b] \notin linked')
    <3>1. CASE ParentLinked(b)
      <4>1. toLink'[b] = 1
        BY Zenon, <2>2, <2>4, <3>1
      <4> QED BY <4>1 DEF Waits
    <3>2. CASE ~ParentLinked(b) /\ IsValid(Parent[b], BLOCK_VALID_TREE)
      <4>1. unlinked'[b] = unlinked[b] + 1 /\ Parent[b] \notin linked'
        BY Zenon, <2>2, <2>4, <3>2 DEF ParentLinked
      <4>2. unlinked'[b] > 0
        BY <4>1, <2>2
      <4> QED BY Zenon, <4>1, <4>2
    <3>3. CASE ~IsValid(Parent[b], BLOCK_VALID_TREE)
      BY Zenon, <2>2, <2>3, <3>3, ParentUsable
    <3> QED BY Zenon, <3>1, <3>2, <3>3
  <2>6. ASSUME NEW c \in processed \ linked, c # b
        PROVE  Waits(c)' \/ Ancestors[c] \cap failedValid' # {} \/ (unlinked'[c] > 0 /\ Parent[c] \notin linked')
    <3>1. c \in Blocks /\ toLink[c] = 0
      BY Zenon, <2>2, <1>in
    <3>2. ~Waits(c)
      BY <3>1 DEF Waits
    <3>3. unlinked'[c] = unlinked[c]
      BY Zenon, <2>2, <2>4, <2>6, <3>1
    <3> QED BY Zenon, <2>2, <2>6, <3>2, <3>3 DEF WaitsForParent
  <2> QED BY Zenon, <2>2, <2>5, <2>6 DEF WaitsForParent
<1>3. CASE LinkBlock(t)
  <2>1. PICK b \in Blocks :
          /\ linked' = linked \cup {b}
          /\ \A c \in Blocks :
                /\ toLink'[c] = IF c = b THEN 0 ELSE IF c \in Children(b) THEN toLink[c] + unlinked[c] ELSE toLink[c]
                /\ unlinked'[c] = IF c \in Children(b) THEN 0 ELSE unlinked[c]
          /\ failedValid' = failedValid /\ processed' = processed
    BY Zenon, <1>3, LinkEffect
  <2>2. ASSUME NEW c \in processed \ linked, c # b
        PROVE  Waits(c)' \/ Ancestors[c] \cap failedValid' # {} \/ (unlinked'[c] > 0 /\ Parent[c] \notin linked')
    <3>1. c \in Blocks /\ c # Genesis
      BY Zenon, <2>2, <1>in DEF LinkedOnce
    <3>2. CASE c \in Children(b)
      <4>1. toLink'[c] = toLink[c] + unlinked[c]
        BY Zenon, <2>1, <2>2, <3>1, <3>2
      <4>2. toLink[c] > 0 \/ unlinked[c] > 0 => toLink'[c] > 0
        BY <1>0, <3>1, <4>1
      <4> QED BY Zenon, <2>1, <2>2, <4>2 DEF WaitsForParent, Waits
    <3>3. CASE c \notin Children(b)
      <4>1. toLink'[c] = toLink[c] /\ unlinked'[c] = unlinked[c]
        BY Zenon, <2>1, <2>2, <3>1, <3>3
      <4>2. Parent[c] # b
        BY Zenon, <3>1, <3>3 DEF Children
      <4> QED BY Zenon, <2>1, <2>2, <4>1, <4>2 DEF WaitsForParent, Waits
    <3> QED BY Zenon, <3>2, <3>3
  <2> QED BY Zenon, <2>1, <2>2 DEF WaitsForParent
<1>4. CASE Moving(t)
  <2>1. /\ linked' = linked /\ toLink' = toLink /\ unlinked' = unlinked /\ processed' = processed
        /\ failedValid \subseteq failedValid'
    BY Zenon, <1>4, MovingKeeps
  <2> QED BY Zenon, <2>1 DEF WaitsForParent, Waits
<1> QED BY Zenon, <1>1, <1>2, <1>3, <1>4

\* No step marks a block fully validated that ConnectBlock rejects, and a block
\* that is fully validated stays so.
LEMMA ScriptsStep ==
    ASSUME TypeInv, LinkInv, ValidInv, LinkedOnce, [Next]_vars
    PROVE  /\ \A b \in index : validity[b] = BLOCK_VALID_SCRIPTS => validity'[b] = BLOCK_VALID_SCRIPTS
           /\ \A b \in BadConnect : validity[b] # BLOCK_VALID_SCRIPTS => validity'[b] # BLOCK_VALID_SCRIPTS
<1>0. validity \in [Blocks -> 0 .. 5] /\ index \subseteq Blocks /\ BadConnect \subseteq Blocks
  BY Zenon, ChainStateAssumption DEF TypeInv, TypeOK
<1> DEFINE Keep == /\ \A b \in index : validity[b] = BLOCK_VALID_SCRIPTS => validity'[b] = BLOCK_VALID_SCRIPTS
                   /\ \A b \in BadConnect : validity[b] # BLOCK_VALID_SCRIPTS => validity'[b] # BLOCK_VALID_SCRIPTS
<1>1. ASSUME NEW t \in Threads, NEW b \in Blocks, NEW fRequested \in BOOLEAN,
             ProcessHeader(t, b) \/ IgnoreBlock(t, b, fRequested) \/ RejectBlock(t, b, fRequested)
      PROVE  Keep
  <2>1. validity' = [validity EXCEPT ![b] = TreeValidity(b)]
    BY Zenon, <1>1 DEF ProcessHeader, IgnoreBlock, RejectBlock
  <2> QED BY <2>1, <1>0 DEF TreeValidity, BLOCK_VALID_TREE, BLOCK_VALID_SCRIPTS
<1>2. ASSUME NEW t \in Threads, NEW b \in Blocks, NEW fRequested \in BOOLEAN, StoreBlock(t, b, fRequested)
      PROVE  Keep
  <2>1. validity' = [validity EXCEPT ![b] = IF TreeValidity(b) < BLOCK_VALID_TRANSACTIONS
                                            THEN BLOCK_VALID_TRANSACTIONS ELSE validity[b]]
    BY Zenon, <1>2 DEF StoreBlock
  <2> QED BY <2>1, <1>0 DEF TreeValidity, BLOCK_VALID_TREE, BLOCK_VALID_TRANSACTIONS, BLOCK_VALID_SCRIPTS
<1>3. ASSUME NEW t \in Threads, ConnectTip(t)
      PROVE  Keep
  <2>1. PICK b \in Blocks \ BadConnect :
            validity' = [validity EXCEPT ![b] = IF b \in Failed THEN validity[b] ELSE BLOCK_VALID_SCRIPTS]
    BY Zenon, <1>3 DEF ConnectTip, NextToConnect, Children
  <2> QED BY <2>1, <1>0 DEF BLOCK_VALID_SCRIPTS
<1>4. ASSUME validity' = validity
      PROVE  Keep
  BY Zenon, <1>4
<1>5. ASSUME NEW t \in Threads, Operator(t)
      PROVE  validity' = validity
  BY Zenon, <1>5 DEF Operator, Invalidate, Reconsider
<1>6. ASSUME NEW t \in Threads, Continue(t), ~ConnectTip(t)
      PROVE  validity' = validity
  BY ZenonT(60), <1>6 DEF Continue, LinkBlock, AcceptBlockDone, BeginRound, NothingToActivate, DropCandidate, ChooseCandidate,
     DisconnectTip, DisconnectTipDone, ForkReached, ConnectTipDone, ConnectTipFails, Abort,
     ConnectBlockCrashes, DisconnectTipFails,
     EndRound, BeginPeriodicFlush, ActivateBestChainDone, InvalidateTip, InvalidateTipFails, InvalidateTipDone,
     InvalidateDone
<1>7. ASSUME NEW t \in Threads, NEW bs \in SUBSET Blocks, Prune(t, bs)
      PROVE  validity' = validity
  BY Zenon, <1>7 DEF Prune
<1> QED BY Zenon, <1>1, <1>2, <1>3, <1>4, <1>5, <1>6, <1>7 DEF Next, Receive

\* A step that adds no marked block to the active chain, of a thread that does not
\* leave InvalidateBlock before its block is off the chain.
LEMMA UnmarkedKept ==
    ASSUME ActiveUnmarked, NEW t \in Threads, MovesAlone(t), Active' \cap failedValid' \subseteq Active \cap failedValid,
           pc[t] \in Invalidating /\ pindex[t] \in Active' => pc'[t] \in Invalidating /\ pindex'[t] = pindex[t]
    PROVE  ActiveUnmarked'
<1> SUFFICES ASSUME NEW a \in Active' \cap failedValid'
             PROVE  \E u \in Threads : pc'[u] \in Invalidating /\ pindex'[u] = a
  BY Zenon DEF ActiveUnmarked
<1>1. PICK u \in Threads : pc[u] \in Invalidating /\ pindex[u] = a
  BY Zenon DEF ActiveUnmarked
<1>2. pc'[u] \in Invalidating /\ pindex'[u] = pindex[u]
  <2>1. CASE u = t
    BY Zenon, <1>1, <2>1
  <2>2. CASE u # t
    BY Zenon, <1>1, <2>2 DEF MovesAlone
  <2> QED BY Zenon, <2>1, <2>2
<1> QED BY Zenon, <1>1, <1>2

\* The active chain has been received, and the children of the tip are not on it.
LEMMA ActiveReceived ==
    ASSUME TypeInv, LinkInv, LinkedOnce
    PROVE  Active \subseteq haveData /\ \A b \in Children(tip) : b \notin Active
<1>1. tip \in Blocks /\ tip \in linked
  BY Zenon DEF TypeInv, TypeOK, LinkedOnce
<1>2. Active \subseteq processed
  BY Zenon, <1>1, AncestorsLinked DEF Active
<1>3. processed \subseteq haveData
  BY Zenon DEF LinkInv, DataInv, LinkedOnce
<1>4. ASSUME NEW b \in Children(tip)
      PROVE  b \notin Active
  <2>1. b \in Blocks /\ Height[b] = Height[tip] + 1 /\ Height[tip] \in Nat
    BY Zenon, <1>1, <1>4, TreeAssumption DEF Children
  <2>2. ~(Height[b] <= Height[tip])
    BY <2>1
  <2> QED BY Zenon, <1>1, <2>2, AncestorsAssumption DEF Active
<1> QED BY Zenon, <1>2, <1>3, <1>4

\* Only invalidateblock marks a block of the active chain, and it takes the
\* block off the chain before it ends.
LEMMA UnmarkedStep ==
    ASSUME PruneMode = FALSE, ReconsiderTargets = {}, TypeInv, LinkInv, PathInv, ValidInv, CauseInv, LinkedOnce,
           ActiveUnmarked, Next
    PROVE  ActiveUnmarked'
<1>0. pc \in [Threads -> Labels] /\ pindex \in [Threads -> index \cup {NULL}]
  BY Zenon DEF TypeInv, TypeOK
<1>1. PICK t \in Threads :
         /\ Receive(t) \/ Operator(t) \/ Continue(t)
         /\ \/ \E b \in Blocks, fRequested \in BOOLEAN : StoreBlock(t, b, fRequested)
            \/ LinkBlock(t)
            \/ Moving(t)
  BY Zenon, StepKinds
<1>2. MovesAlone(t)
  BY Zenon, <1>1, OneMoves
<1>keep. ASSUME tip' = tip, \A a \in failedValid' : a \in failedValid \/ a \notin Active,
                pc[t] \notin Invalidating
         PROVE  ActiveUnmarked'
  <2>1. Active' \cap failedValid' \subseteq Active \cap failedValid
    BY Zenon, <1>keep DEF Active
  <2> QED BY Zenon, <1>2, <1>keep, <2>1, UnmarkedKept
<1>3. ASSUME NEW b \in Blocks, NEW fRequested \in BOOLEAN,
             \/ StoreBlock(t, b, fRequested) \/ ProcessHeader(t, b)
             \/ IgnoreBlock(t, b, fRequested) \/ RejectBlock(t, b, fRequested)
      PROVE  ActiveUnmarked'
  <2>1. tip' = tip /\ pc[t] \notin Invalidating
    BY ZenonT(60), <1>3 DEF StoreBlock, ProcessHeader, IgnoreBlock, RejectBlock, ReceiveBlock, Invalidating
  <2>2. failedValid' = failedValid \/ (b \notin haveData /\ failedValid' = failedValid \cup {b})
    BY ZenonT(60), <1>3 DEF StoreBlock, ProcessHeader, IgnoreBlock, RejectBlock, Ignored
  <2>3. \A a \in failedValid' : a \in failedValid \/ a \notin Active
    BY Zenon, <2>2, ActiveReceived
  <2> QED BY Zenon, <2>1, <2>3, <1>keep
<1>4. CASE \/ LinkBlock(t) \/ AcceptBlockDone(t) \/ BeginRound(t) \/ NothingToActivate(t) \/ DropCandidate(t)
           \/ ChooseCandidate(t) \/ DisconnectTip(t) \/ ForkReached(t) \/ ConnectTip(t)
           \/ EndRound(t) \/ BeginPeriodicFlush(t) \/ ActivateBestChainDone(t)
  <2>1. tip' = tip /\ failedValid' = failedValid
    BY ZenonT(60), <1>4 DEF LinkBlock, AcceptBlockDone, BeginRound, NothingToActivate, DropCandidate, ChooseCandidate,
       DisconnectTip, ForkReached, ConnectTip, EndRound, BeginPeriodicFlush, ActivateBestChainDone
  <2>2. pc[t] \notin Invalidating
    BY ZenonT(60), <1>4 DEF LinkBlock, AcceptBlockDone, BeginRound, NothingToActivate, DropCandidate, ChooseCandidate,
       DisconnectTip, ForkReached, ConnectTip, EndRound, BeginPeriodicFlush, ActivateBestChainDone, Invalidating
  <2> QED BY Zenon, <2>1, <2>2, <1>keep
<1>5. CASE ConnectTipFails(t)
  <2>1. PICK b \in NextToConnect(t) : failedValid' = failedValid \cup {b}
    BY Zenon, <1>5 DEF ConnectTipFails, MarkInvalid
  <2>2. b \notin Active
    BY Zenon, ActiveReceived DEF NextToConnect
  <2>3. tip' = tip /\ pc[t] \notin Invalidating
    BY Zenon, <1>5 DEF ConnectTipFails, Invalidating
  <2> QED BY Zenon, <2>1, <2>2, <2>3, <1>keep
<1>6. CASE ConnectTipDone(t)
  <2>1. tip' = coins /\ failedValid' = failedValid /\ pc[t] = "flushConnect" /\ pc[t] \in Activating
        /\ pc[t] \notin Invalidating
    BY Zenon, <1>6 DEF ConnectTipDone, Activating, Invalidating
  <2>2. coins \in NextToConnect(t) /\ pindex[t] \in Blocks /\ tip \in Blocks
    BY Zenon, <2>1 DEF TypeInv, TypeOK, Locals
  <2>3. coins \in Blocks \ {Genesis} /\ Parent[coins] = tip /\ coins \in Ancestors[pindex[t]] /\ coins \notin Active
    BY Zenon, <2>2, ActiveReceived DEF NextToConnect, Children
  <2>4. coins \notin Failed
    BY Zenon, <2>1, <2>3 DEF PathInv, PathUsable, Unusable, PathToActive
  <2>5. Ancestors[coins] = Ancestors[tip] \cup {coins}
    BY Zenon, <2>3, AncestorsBasic
  <2>6. Active' \cap failedValid' \subseteq Active \cap failedValid
    BY Zenon, <2>1, <2>4, <2>5 DEF Active, Failed
  <2> QED BY Zenon, <1>2, <2>1, <2>6, UnmarkedKept
<1>7. CASE DisconnectTipDone(t) \/ InvalidateTipDone(t)
  <2>1. tip' = Parent[tip] /\ failedValid' = failedValid /\ pindex' = pindex
    BY Zenon, <1>7 DEF DisconnectTipDone, InvalidateTipDone
  <2>2. pc[t] \in Invalidating => pc'[t] \in Invalidating
    BY ZenonT(60), <1>7, <1>0 DEF DisconnectTipDone, InvalidateTipDone, Goto, Invalidating
  <2>3. Ancestors[Parent[tip]] \subseteq Active
    BY Zenon, <1>7, TipToDisconnect, ParentOfTip
  <2>4. Active' \cap failedValid' \subseteq Active \cap failedValid
    BY Zenon, <2>1, <2>3 DEF Active
  <2> QED BY Zenon, <1>2, <2>1, <2>2, <2>4, UnmarkedKept
<1>8. ASSUME NEW b \in InvalidateTargets, Invalidate(t, b)
      PROVE  ActiveUnmarked'
  <2>1. /\ CsMainFree /\ tip' = tip /\ failedValid' = failedValid \cup {b} /\ pindex' = [pindex EXCEPT ![t] = b]
        /\ pc' = [pc EXCEPT ![t] = "invalidate"]
    BY Zenon, <1>8 DEF Invalidate, MarkInvalid, Goto
  <2>2. \A u \in Threads : pc[u] \notin Invalidating
    BY Zenon, <2>1 DEF CsMainFree, Locked, FlushPoints, Invalidating
  <2>3. \A a \in Active' \cap failedValid' : a = b
    BY Zenon, <2>1, <2>2 DEF ActiveUnmarked, Active
  <2>4. pc'[t] \in Invalidating /\ pindex'[t] = b
    BY Zenon, <2>1, <1>0 DEF Invalidating
  <2> QED BY Zenon, <2>3, <2>4 DEF ActiveUnmarked
<1>9. CASE InvalidateTip(t)
  <2>1. tip' = tip /\ failedValid' = failedValid /\ pindex' = pindex /\ pc' = [pc EXCEPT ![t] = "flushInvalidate"]
    BY Zenon, <1>9 DEF InvalidateTip, Goto
  <2>2. pc'[t] \in Invalidating
    BY Zenon, <2>1, <1>0 DEF Invalidating
  <2> QED BY Zenon, <1>2, <2>1, <2>2, UnmarkedKept DEF Active
<1>10. CASE InvalidateDone(t)
  <2>1. tip' = tip /\ failedValid' = failedValid /\ pindex[t] \notin Active
    BY Zenon, <1>10 DEF InvalidateDone
  <2> QED BY Zenon, <1>2, <2>1, UnmarkedKept DEF Active
<1> QED BY ZenonT(60), <1>1, <1>3, <1>4, <1>5, <1>6, <1>7, <1>8, <1>9, <1>10 DEF Moving

\* A thread that reads the tip after a step of activation has a pindexMostWork.
LEMMA CheckStep ==
    ASSUME PruneMode = FALSE, ReconsiderTargets = {}, TypeInv, LinkInv, ValidInv, LinkedOnce, CheckHasBlock, Next
    PROVE  CheckHasBlock'
<1>0. pc \in [Threads -> Labels] /\ pindex \in [Threads -> index \cup {NULL}] /\ NULL \notin index
  BY Zenon, TreeAssumption DEF TypeInv, TypeOK
<1>1. PICK t \in Threads :
         /\ Receive(t) \/ Operator(t) \/ Continue(t)
         /\ \/ \E b \in Blocks, fRequested \in BOOLEAN : StoreBlock(t, b, fRequested)
            \/ LinkBlock(t)
            \/ Moving(t)
  BY Zenon, StepKinds
<1>2. MovesAlone(t)
  BY Zenon, <1>1, OneMoves
<1>one. ASSUME pc'[t] # "check" \/ pindex'[t] # NULL
        PROVE  CheckHasBlock'
  BY Zenon, <1>one, <1>2 DEF CheckHasBlock, MovesAlone
<1>3. ASSUME NEW b \in Blocks, NEW fRequested \in BOOLEAN,
             \/ StoreBlock(t, b, fRequested) \/ ProcessHeader(t, b)
             \/ IgnoreBlock(t, b, fRequested) \/ RejectBlock(t, b, fRequested)
      PROVE  pc'[t] # "check"
  BY ZenonT(60), <1>3, <1>0 DEF StoreBlock, ProcessHeader, IgnoreBlock, RejectBlock, ReceiveBlock, Goto
<1>4. CASE LinkBlock(t) \/ EndRound(t)
  <2>1. \E l \in {"stored", "link", "finish", "activate"} : pc' = [pc EXCEPT ![t] = l]
    BY ZenonT(60), <1>4 DEF LinkBlock, EndRound, Goto
  <2> QED BY Zenon, <2>1, <1>0, <1>one
<1>5. CASE \/ AcceptBlockDone(t) \/ BeginRound(t) \/ NothingToActivate(t) \/ DropCandidate(t)
           \/ ChooseCandidate(t) \/ DisconnectTip(t) \/ DisconnectTipDone(t) \/ ConnectTip(t)
  <2>1. pc'[t] # "check"
    BY ZenonT(60), <1>5, <1>0 DEF AcceptBlockDone, BeginRound, NothingToActivate, DropCandidate, ChooseCandidate, DisconnectTip,
       DisconnectTipDone, ConnectTip, Goto
  <2> QED BY Zenon, <2>1, <1>one
<1>6. CASE \/ BeginPeriodicFlush(t) \/ ActivateBestChainDone(t) \/ InvalidateTip(t) \/ InvalidateTipDone(t)
           \/ InvalidateDone(t) \/ \E b \in InvalidateTargets : Invalidate(t, b)
  <2>1. pc'[t] # "check"
    BY ZenonT(60), <1>6, <1>0 DEF BeginPeriodicFlush, ActivateBestChainDone, InvalidateTip, InvalidateTipDone,
       InvalidateDone, Invalidate, Goto
  <2> QED BY Zenon, <2>1, <1>one
<1>7. CASE ForkReached(t) \/ ConnectTipDone(t) \/ ConnectTipFails(t)
  <2>1. pc[t] \in Activating /\ pindex' = pindex
    BY ZenonT(60), <1>7 DEF ForkReached, ConnectTipDone, ConnectTipFails, Activating
  <2>2. pindex[t] \in index
    BY Zenon, <2>1 DEF TypeInv, Locals
  <2> QED BY Zenon, <2>1, <2>2, <1>0, <1>one
<1> QED BY ZenonT(60), <1>1, <1>one, <1>3, <1>4, <1>5, <1>6, <1>7 DEF Moving

\* Every step preserves BaseInv on a node that does not prune.
LEMMA BaseInvStep ==
    ASSUME PruneMode = FALSE, ReconsiderTargets = {}, TypeInv, LinkInv, PathInv, ValidInv, CauseInv, BaseInv,
           [Next]_vars
    PROVE  BaseInv'
<1> USE DEF BaseInv
<1>1. CASE Next
  <2>1. NeverValidated'
    BY Zenon, ScriptsStep DEF NeverValidated
  <2> QED BY Zenon, <1>1, <2>1, LinkedOnceStep, WaitsStep, UnmarkedStep, CheckStep
<1>2. CASE UNCHANGED vars
  <2>1. LinkedOnce'
    BY <1>2 DEF LinkedOnce
  <2>2. WaitsForParent' /\ NeverValidated' /\ CheckHasBlock'
    BY Zenon, <1>2 DEF WaitsForParent, Waits, NeverValidated, CheckHasBlock
  <2>3. ActiveUnmarked'
    BY Zenon, <1>2 DEF ActiveUnmarked, Active
  <2> QED BY Zenon, <2>1, <2>2, <2>3
<1> QED BY Zenon, <1>1, <1>2

-----------------------------------------------------------------------------
(* The candidates. *)

\* r is a block by which setBlockIndexCandidates is complete.
Reference(r) ==
    /\ Good(r) /\ (r = Genesis \/ validity[r] = BLOCK_VALID_SCRIPTS)
    /\ ~Worse(sequenceId, r, tip)
    /\ \A b \in Blocks : Good(b) /\ ~Worse(sequenceId, b, r) => b \in candidates

CandidatesInv ==
    /\ \A c \in candidates : ~Worse(sequenceId, c, tip)
    /\ (\E t \in Threads : pc[t] \in Invalidating) \/ \E r \in Blocks : Reference(r)

\* What is being activated is the best there is.
ChosenBest ==
    \A t \in Threads : pc[t] \in Activating => \A b \in Blocks : Good(b) => ~Worse(sequenceId, pindex[t], b)

\* Thread t will go through FindMostWorkChain although it did so before.
GoesOn(t) ==
    \/ pc[t] \in Activating \cup Invalidating
    \/ pc[t] \in {"activate", "find"} /\ pindex[t] # NULL
    \/ pc[t] = "check" /\ pindex[t] # tip

Settled == Reference(tip) \/ \E t \in Threads : GoesOn(t)

\* Thread t will go through FindMostWorkChain.
WillActivate(t) ==
    \/ pc[t] \in {"link", "stored", "activate", "find"} \cup Activating \cup Invalidating
    \/ pc[t] = "check" /\ pindex[t] # tip

TipBest == \A b \in Blocks : Good(b) => ~Worse(sequenceId, tip, b)

BestOrLater == TipBest \/ \E t \in Threads : WillActivate(t)

BestInv == CandidatesInv /\ ChosenBest /\ Settled /\ BestOrLater

-----------------------------------------------------------------------------
(* Candidates and the best chain. *)

\* The genesis block is the tip and the only candidate after InitBlockIndex.
LEMMA BestInvInit == Init => BestInv
<1> SUFFICES ASSUME Init PROVE BestInv
  OBVIOUS
<1>1. ~Worse(sequenceId, Genesis, Genesis)
  <2>1. addr \in Addresses /\ sequenceId \in [Blocks -> Nat] /\ Genesis \in Blocks
    BY TreeAssumption DEF Init
  <2> QED BY Zenon, <2>1, WorseOrder
<1>2. Reference(Genesis) /\ Genesis \in Blocks
  BY Zenon, <1>1, TreeAssumption DEF Init, Reference, Good
<1>3. CandidatesInv /\ Settled
  BY Zenon, <1>1, <1>2 DEF Init, CandidatesInv, Settled
<1>4. ChosenBest
  BY Zenon DEF Init, ChosenBest, Activating
<1>5. BestOrLater
  BY Zenon, <1>1 DEF Init, BestOrLater, TipBest, Good
<1> QED BY Zenon, <1>3, <1>4, <1>5 DEF BestInv

\* A reference block stays one when it remains unmarked, no better block becomes
\* the tip, and only blocks that sort before it or are marked leave the set.
LEMMA ReferenceKept ==
    ASSUME addr' = addr, linked' = linked, sequenceId' = sequenceId, failedValid \subseteq failedValid',
           NEW r \in Blocks, Reference(r), Ancestors[r] \cap failedValid' = {},
           validity[r] = BLOCK_VALID_SCRIPTS => validity'[r] = BLOCK_VALID_SCRIPTS,
           ~Worse(sequenceId, r, tip'),
           \A c \in candidates : c \in candidates' \/ Worse(sequenceId, c, r) \/ Ancestors[c] \cap failedValid' # {}
    PROVE  Reference(r)'
<1>1. ~Worse(sequenceId, r, tip)'
  BY Zenon DEF Worse
<1>2. Good(r)' /\ (r = Genesis \/ validity'[r] = BLOCK_VALID_SCRIPTS)
  BY Zenon DEF Reference, Good
<1>3. ASSUME NEW b \in Blocks, Good(b)', ~Worse(sequenceId, b, r)'
      PROVE  b \in candidates'
  <2>1. Good(b)
    BY Zenon, <1>3 DEF Good
  <2>2. ~Worse(sequenceId, b, r)
    BY Zenon, <1>3 DEF Worse
  <2>3. b \in candidates
    BY Zenon, <2>1, <2>2 DEF Reference
  <2> QED BY Zenon, <1>3, <2>2, <2>3 DEF Good
<1> QED BY Zenon, <1>1, <1>2, <1>3 DEF Reference

\* A thread that will go through FindMostWorkChain again settles the matter.
LEMMA GoesOnSettles ==
    ASSUME NEW t \in Threads, GoesOn(t)'
    PROVE  Settled' /\ BestOrLater'
<1>1. WillActivate(t)'
  BY Zenon DEF GoesOn, WillActivate
<1> QED BY Zenon, <1>1 DEF Settled, BestOrLater

\* A step of thread t that leaves the tip alone changes nothing for the others.
LEMMA OthersGoOn ==
    ASSUME NEW t \in Threads, MovesAlone(t), tip' = tip, NEW u \in Threads \ {t}
    PROVE  (GoesOn(u) => GoesOn(u)') /\ (WillActivate(u) => WillActivate(u)')
<1>1. pc'[u] = pc[u] /\ pindex'[u] = pindex[u]
  BY Zenon DEF MovesAlone
<1> QED BY Zenon, <1>1 DEF GoesOn, WillActivate

\* What is being activated stays the best there is as long as nothing is linked.
LEMMA ChosenKept ==
    ASSUME ChosenBest, addr' = addr, linked' = linked, sequenceId' = sequenceId, failedValid \subseteq failedValid',
           NEW t \in Threads, MovesAlone(t),
           pc'[t] \in Activating =>
               \/ pc[t] \in Activating /\ pindex'[t] = pindex[t]
               \/ \A b \in Blocks : Good(b) => ~Worse(sequenceId, pindex'[t], b)
    PROVE  ChosenBest'
<1> SUFFICES ASSUME NEW u \in Threads, pc'[u] \in Activating, NEW b \in Blocks, Good(b)'
             PROVE  ~Worse(sequenceId, pindex[u], b)'
  BY Zenon DEF ChosenBest
<1>1. Good(b)
  BY Zenon DEF Good
<1>2. ~Worse(sequenceId, pindex'[u], b)
  <2>1. CASE u = t
    BY Zenon, <1>1, <2>1 DEF ChosenBest
  <2>2. CASE u # t
    BY Zenon, <1>1, <2>2 DEF ChosenBest, MovesAlone
  <2> QED BY Zenon, <2>1, <2>2
<1> QED BY Zenon, <1>2 DEF Worse

\* A step that moves no tip, links nothing and takes only blocks with a marked
\* ancestor out of the set, of a thread that does not stop short of
\* FindMostWorkChain.
LEMMA BestKept ==
    ASSUME BestInv, addr' = addr, linked' = linked, sequenceId' = sequenceId, failedValid \subseteq failedValid',
           tip' = tip, candidates' \subseteq candidates,
           \A c \in candidates : c \in candidates' \/ Ancestors[c] \cap failedValid' # {},
           \A r \in Blocks : Reference(r) => /\ Ancestors[r] \cap failedValid' = {}
                                             /\ validity[r] = BLOCK_VALID_SCRIPTS => validity'[r] = BLOCK_VALID_SCRIPTS,
           tip \in Blocks,
           NEW t \in Threads, MovesAlone(t),
           pc[t] \in Invalidating => pc'[t] \in Invalidating,
           pc'[t] \in Activating => pc[t] \in Activating /\ pindex'[t] = pindex[t],
           GoesOn(t) => GoesOn(t)',
           WillActivate(t) => WillActivate(t)'
    PROVE  BestInv'
<1> USE DEF BestInv
<1>1. \A r \in Blocks : Reference(r) => Reference(r)'
  <2> SUFFICES ASSUME NEW r \in Blocks, Reference(r) PROVE Reference(r)'
    BY Zenon
  <2>1. ~Worse(sequenceId, r, tip')
    BY Zenon DEF Reference
  <2> QED BY Zenon, <2>1, ReferenceKept
<1>2. CandidatesInv'
  <2>1. \A c \in candidates' : ~Worse(sequenceId, c, tip)'
    BY Zenon DEF CandidatesInv, Worse
  <2>2. (\E u \in Threads : pc[u] \in Invalidating) => \E u \in Threads : pc'[u] \in Invalidating
    BY Zenon DEF MovesAlone
  <2> QED BY Zenon, <1>1, <2>1, <2>2 DEF CandidatesInv
<1>3. ChosenBest'
  BY Zenon, ChosenKept
<1>4. Settled'
  <2>1. CASE Reference(tip)
    <3>1. Reference(tip)'
      BY Zenon, <1>1, <2>1 DEF Reference, Good
    <3> QED BY Zenon, <3>1 DEF Settled
  <2>2. CASE \E u \in Threads : GoesOn(u)
    BY Zenon, <2>2, OthersGoOn DEF Settled
  <2> QED BY Zenon, <2>1, <2>2 DEF Settled
<1>5. BestOrLater'
  <2>1. CASE TipBest
    <3>1. TipBest'
      BY Zenon, <2>1 DEF TipBest, Good, Worse
    <3> QED BY Zenon, <3>1 DEF BestOrLater
  <2>2. CASE \E u \in Threads : WillActivate(u)
    BY Zenon, <2>2, OthersGoOn DEF BestOrLater
  <2> QED BY Zenon, <2>1, <2>2 DEF BestOrLater
<1> QED BY Zenon, <1>2, <1>3, <1>4, <1>5

\* While a thread is past LOCK(cs_main) outside InvalidateBlock there is a
\* reference block, it is a candidate, and the best candidate sorts before no
\* block that can be switched to.
LEMMA BestOfAll ==
    ASSUME TypeInv, CandidatesInv, NEW t \in Threads, pc[t] \in Locked \ Invalidating
    PROVE  \E r \in Blocks :
              /\ Reference(r) /\ r \in candidates
              /\ \A best \in BestCandidates : best \in Blocks /\ \A b \in Blocks : Good(b) => ~Worse(sequenceId, best, b)
<1>1. \A u \in Threads : pc[u] \notin Invalidating
  BY Zenon, OthersOutside
<1>2. PICK r \in Blocks : Reference(r)
  BY Zenon, <1>1 DEF CandidatesInv
<1>3. addr \in Addresses /\ sequenceId \in [Blocks -> Nat] /\ candidates \subseteq Blocks
  BY Zenon DEF TypeInv, TypeOK
<1>4. r \in candidates
  BY Zenon, <1>2, <1>3, WorseOrder DEF Reference
<1>5. ASSUME NEW best \in BestCandidates, NEW b \in Blocks, Good(b)
      PROVE  ~Worse(sequenceId, best, b)
  <2>1. best \in Blocks /\ \A d \in candidates : ~Worse(sequenceId, best, d)
    BY Zenon, <1>3 DEF BestCandidates
  <2>2. CASE Worse(sequenceId, b, r)
    <3>1. ~Worse(sequenceId, r, b)
      BY Zenon, <1>3, <2>2, WorseOrder
    <3> QED BY Zenon, <1>3, <1>4, <2>1, <3>1, WorseOrder
  <2>3. CASE ~Worse(sequenceId, b, r)
    BY Zenon, <1>2, <1>5, <2>1, <2>3 DEF Reference
  <2> QED BY Zenon, <2>2, <2>3
<1>6. \A best \in BestCandidates : best \in Blocks
  BY Zenon, <1>3 DEF BestCandidates
<1> QED BY Zenon, <1>2, <1>4, <1>5, <1>6

\* The invariants that the steps below rest on.
Known == TypeInv /\ LinkInv /\ PathInv /\ ValidInv /\ CauseInv /\ BaseInv

\* A step that changes neither candidates nor chain.
LEMMA BestSame ==
    ASSUME Known, BestInv, [Next]_vars,
           addr' = addr, linked' = linked, sequenceId' = sequenceId, failedValid' = failedValid, tip' = tip,
           candidates' = candidates,
           NEW t \in Threads, MovesAlone(t),
           pc[t] \in Invalidating => pc'[t] \in Invalidating,
           pc'[t] \in Activating => pc[t] \in Activating /\ pindex'[t] = pindex[t],
           GoesOn(t) => GoesOn(t)',
           WillActivate(t) => WillActivate(t)'
    PROVE  BestInv'
<1>1. tip \in Blocks /\ linked \subseteq index
  BY Zenon DEF Known, TypeInv, TypeOK
<1>2. \A r \in index : validity[r] = BLOCK_VALID_SCRIPTS => validity'[r] = BLOCK_VALID_SCRIPTS
  BY Zenon, ScriptsStep DEF Known, BaseInv
<1>3. ASSUME NEW r \in Blocks, Reference(r)
      PROVE  /\ Ancestors[r] \cap failedValid' = {}
             /\ validity[r] = BLOCK_VALID_SCRIPTS => validity'[r] = BLOCK_VALID_SCRIPTS
  BY Zenon, <1>1, <1>2, <1>3 DEF Reference, Good
<1> QED BY Zenon, <1>1, <1>3, BestKept

\* Headers and blocks arrive: nothing is linked yet, and a block that is rejected
\* has no descendant that could be switched to.
LEMMA ReceiveBest ==
    ASSUME PruneMode = FALSE, Known, BestInv, Next, NEW t \in Threads, Receive(t)
    PROVE  BestInv'
<1>0. pc \in [Threads -> Labels] /\ pindex \in [Threads -> index \cup {NULL}] /\ MovesAlone(t)
  BY Zenon, OneMoves DEF Known, TypeInv, TypeOK
<1>1. pc[t] = "idle"
  BY ZenonT(60) DEF Receive, ProcessHeader, IgnoreBlock, RejectBlock, StoreBlock, ReceiveBlock
<1>2. ~GoesOn(t) /\ ~WillActivate(t) /\ pc[t] \notin Invalidating /\ pc[t] \notin Activating
  BY Zenon, <1>1 DEF GoesOn, WillActivate, Activating, Invalidating
<1>3. ASSUME NEW b \in Blocks, ProcessHeader(t, b)
      PROVE  BestInv'
  <2>1. /\ addr' = addr /\ linked' = linked /\ sequenceId' = sequenceId /\ failedValid' = failedValid /\ tip' = tip
        /\ candidates' = candidates /\ pc' = pc
    BY Zenon, <1>3 DEF ProcessHeader
  <2> QED BY Zenon, <1>0, <1>2, <2>1, BestSame
<1>4. ASSUME NEW b \in Blocks, NEW fRequested \in BOOLEAN, IgnoreBlock(t, b, fRequested)
      PROVE  BestInv'
  <2>1. /\ addr' = addr /\ linked' = linked /\ sequenceId' = sequenceId /\ failedValid' = failedValid /\ tip' = tip
        /\ candidates' = candidates /\ pc'[t] = "activate"
    BY Zenon, <1>0, <1>4 DEF IgnoreBlock, Goto
  <2>2. pc'[t] \notin Activating
    BY Zenon, <2>1 DEF Activating
  <2> QED BY Zenon, <1>0, <1>2, <2>1, <2>2, BestSame
<1>5. ASSUME NEW b \in Blocks, NEW fRequested \in BOOLEAN, StoreBlock(t, b, fRequested)
      PROVE  BestInv'
  <2>1. /\ addr' = addr /\ linked' = linked /\ sequenceId' = sequenceId /\ failedValid' = failedValid /\ tip' = tip
        /\ candidates' = candidates
    BY Zenon, <1>5, StoreEffect DEF Known, BaseInv
  <2>2. pc'[t] \notin Activating
    BY ZenonT(60), <1>0, <1>5 DEF StoreBlock, Goto, Activating
  <2> QED BY Zenon, <1>0, <1>2, <2>1, <2>2, BestSame
<1>6. ASSUME NEW b \in Blocks, NEW fRequested \in BOOLEAN, RejectBlock(t, b, fRequested)
      PROVE  BestInv'
  <2>1. /\ addr' = addr /\ linked' = linked /\ sequenceId' = sequenceId /\ failedValid' = failedValid \cup {b}
        /\ tip' = tip /\ candidates' = candidates /\ pc' = pc /\ b \notin haveData
    BY Zenon, <1>6 DEF RejectBlock, Ignored
  <2>2. b \notin processed
    BY Zenon, <2>1 DEF Known, LinkInv, DataInv, BaseInv, LinkedOnce
  <2>3. ASSUME NEW r \in Blocks, Reference(r)
        PROVE  /\ Ancestors[r] \cap failedValid' = {}
               /\ validity[r] = BLOCK_VALID_SCRIPTS => validity'[r] = BLOCK_VALID_SCRIPTS
    <3>1. r \in linked /\ Ancestors[r] \cap failedValid = {}
      BY Zenon, <2>3 DEF Reference, Good
    <3>2. Ancestors[r] \subseteq processed /\ r \in index
      BY Zenon, <3>1, AncestorsLinked DEF Known, TypeInv, TypeOK
    <3>3. validity[r] = BLOCK_VALID_SCRIPTS => validity'[r] = BLOCK_VALID_SCRIPTS
      BY Zenon, <3>2, ScriptsStep DEF Known, BaseInv
    <3> QED BY Zenon, <2>1, <2>2, <3>1, <3>2, <3>3
  <2>4. tip \in Blocks
    BY Zenon DEF Known, TypeInv, TypeOK
  <2> QED BY Zenon, <1>0, <1>2, <2>1, <2>3, <2>4, BestKept
<1> QED BY Zenon, <1>3, <1>4, <1>5, <1>6 DEF Receive

\* Steps between two calls of FindMostWorkChain that touch only the thread itself.
LEMMA RoundBest ==
    ASSUME Known, BestInv, Next, NEW t \in Threads,
           \/ AcceptBlockDone(t) \/ BeginRound(t) \/ EndRound(t) \/ BeginPeriodicFlush(t) \/ ActivateBestChainDone(t)
           \/ DisconnectTip(t) \/ ConnectTip(t) \/ (ForkReached(t) /\ tip # pindex[t])
    PROVE  BestInv'
<1>0. pc \in [Threads -> Labels] /\ pindex \in [Threads -> index \cup {NULL}] /\ MovesAlone(t)
  BY Zenon, OneMoves DEF Known, TypeInv, TypeOK, Continue
<1>1. /\ addr' = addr /\ linked' = linked /\ sequenceId' = sequenceId /\ failedValid' = failedValid /\ tip' = tip
      /\ candidates' = candidates
  BY ZenonT(60) DEF AcceptBlockDone, BeginRound, EndRound, BeginPeriodicFlush, ActivateBestChainDone, DisconnectTip,
     ConnectTip, ForkReached
<1>2. CASE AcceptBlockDone(t)
  <2>1. pc[t] = "stored" /\ pc'[t] = "activate"
    BY Zenon, <1>0, <1>2 DEF AcceptBlockDone, Goto
  <2> QED BY Zenon, <1>0, <1>1, <2>1, BestSame DEF GoesOn, WillActivate, Activating, Invalidating
<1>3. CASE BeginRound(t)
  <2>1. pc[t] = "activate" /\ pc'[t] = "find" /\ pindex' = pindex
    BY Zenon, <1>0, <1>3 DEF BeginRound, Goto
  <2> QED BY Zenon, <1>0, <1>1, <2>1, BestSame DEF GoesOn, WillActivate, Activating, Invalidating
<1>4. CASE EndRound(t)
  <2>1. pc[t] = "check" /\ pc'[t] = (IF pindex[t] = tip THEN "finish" ELSE "activate") /\ pindex' = pindex
    BY Zenon, <1>0, <1>4 DEF EndRound, Goto
  <2>2. pindex[t] # NULL
    BY Zenon, <2>1 DEF Known, BaseInv, CheckHasBlock
  <2> QED BY Zenon, <1>0, <1>1, <2>1, <2>2, BestSame DEF GoesOn, WillActivate, Activating, Invalidating
<1>5. CASE BeginPeriodicFlush(t) \/ ActivateBestChainDone(t)
  <2>1. pc[t] \in {"finish", "flushPeriodic"} /\ pc'[t] \in {"flushPeriodic", "idle"}
    BY Zenon, <1>0, <1>5 DEF BeginPeriodicFlush, ActivateBestChainDone, Goto
  <2> QED BY Zenon, <1>0, <1>1, <2>1, BestSame DEF GoesOn, WillActivate, Activating, Invalidating
<1>6. CASE DisconnectTip(t) \/ ConnectTip(t) \/ (ForkReached(t) /\ tip # pindex[t])
  <2>1. /\ pc[t] \in {"disconnect", "connect"} /\ pc'[t] \in {"flushDisconnect", "flushConnect", "connect"}
        /\ pindex' = pindex
    BY ZenonT(60), <1>0, <1>6 DEF DisconnectTip, ConnectTip, ForkReached, Goto
  <2>2. pc[t] \in Activating /\ pc'[t] \in Activating /\ pc[t] \notin Invalidating
    BY Zenon, <2>1 DEF Activating, Invalidating
  <2>3. GoesOn(t)' /\ WillActivate(t)'
    BY Zenon, <2>2 DEF GoesOn, WillActivate
  <2> QED BY Zenon, <1>0, <1>1, <2>1, <2>2, <2>3, BestSame
<1> QED BY Zenon, <1>2, <1>3, <1>4, <1>5, <1>6

\* FindMostWorkChain drops no block that can be switched to, ConnectTip marks no
\* ancestor of one, and InvalidateBlock takes only marked blocks out of the set.
LEMMA MarkingBest ==
    ASSUME Known, BestInv, Next, NEW t \in Threads, DropCandidate(t) \/ ConnectTipFails(t) \/ InvalidateTip(t)
    PROVE  BestInv'
<1>0. pc \in [Threads -> Labels] /\ pindex \in [Threads -> index \cup {NULL}] /\ MovesAlone(t)
  BY Zenon, OneMoves DEF Known, TypeInv, TypeOK, Continue
<1>1. tip \in Blocks /\ linked \subseteq index
  BY Zenon DEF Known, TypeInv, TypeOK
<1>2. \A r \in Blocks : Reference(r) =>
          /\ r \in index /\ Ancestors[r] \cap failedValid = {}
          /\ validity[r] = BLOCK_VALID_SCRIPTS => validity'[r] = BLOCK_VALID_SCRIPTS
  BY Zenon, <1>1, ScriptsStep DEF Known, BaseInv, Reference, Good
<1>3. CASE DropCandidate(t)
  <2>1. /\ failedValid' = failedValid /\ candidates' \subseteq candidates
        /\ \A c \in candidates : c \in candidates' \/ ~Good(c)
    BY Zenon, <1>3, DroppedBad DEF Known, BaseInv
  <2>2. \A c \in candidates : c \in candidates' \/ Ancestors[c] \cap failedValid' # {}
    BY Zenon, <2>1 DEF Good, Known, BaseInv, LinkedOnce
  <2>3. addr' = addr /\ linked' = linked /\ sequenceId' = sequenceId /\ tip' = tip /\ pc' = pc /\ pindex' = pindex
    BY Zenon, <1>3 DEF DropCandidate
  <2>4. (GoesOn(t) => GoesOn(t)') /\ (WillActivate(t) => WillActivate(t)')
    BY Zenon, <2>3 DEF GoesOn, WillActivate
  <2> QED BY Zenon, <1>0, <1>1, <1>2, <2>1, <2>2, <2>3, <2>4, BestKept
<1>4. CASE ConnectTipFails(t)
  <2>1. PICK b \in NextToConnect(t) : /\ b \in BadConnect /\ failedValid' = failedValid \cup {b}
                                      /\ candidates' = candidates \ {b}
    BY Zenon, <1>4 DEF ConnectTipFails, MarkInvalid
  <2>2. b \in Blocks \ {Genesis} /\ b \in Ancestors[b] /\ validity[b] # BLOCK_VALID_SCRIPTS
    BY Zenon, <2>1, AncestorsBasic DEF NextToConnect, Children, Known, BaseInv, NeverValidated
  <2>3. ASSUME NEW r \in Blocks, Reference(r)
        PROVE  Ancestors[r] \cap failedValid' = {}
    <3>1. r \in index /\ Ancestors[r] \cap failedValid = {} /\ (r = Genesis \/ validity[r] = BLOCK_VALID_SCRIPTS)
      BY Zenon, <1>2, <2>3 DEF Reference
    <3>2. b \notin Ancestors[r]
      <4>1. CASE r = Genesis
        BY Zenon, <2>2, <4>1, AncestorsAssumption
      <4>2. CASE validity[r] = BLOCK_VALID_SCRIPTS
        BY Zenon, <2>2, <3>1, <4>2 DEF Known, ValidInv, IndexValid
      <4> QED BY Zenon, <3>1, <4>1, <4>2
    <3> QED BY Zenon, <2>1, <3>1, <3>2
  <2>4. /\ addr' = addr /\ linked' = linked /\ sequenceId' = sequenceId /\ tip' = tip /\ pindex' = pindex
        /\ pc[t] = "connect" /\ pc'[t] = "check"
    BY Zenon, <1>0, <1>4 DEF ConnectTipFails, Goto
  <2>5. tip # pindex[t]
    BY Zenon, <2>4 DEF Known, TypeInv, Locals
  <2>6. GoesOn(t)' /\ WillActivate(t)' /\ pc'[t] \notin Activating /\ pc[t] \notin Invalidating
    BY Zenon, <2>4, <2>5 DEF GoesOn, WillActivate, Activating, Invalidating
  <2>7. failedValid \subseteq failedValid' /\ candidates' \subseteq candidates
        /\ \A c \in candidates : c \in candidates' \/ Ancestors[c] \cap failedValid' # {}
    BY Zenon, <2>1, <2>2
  <2> QED BY Zenon, <1>0, <1>1, <1>2, <2>3, <2>4, <2>6, <2>7, BestKept
<1>5. CASE InvalidateTip(t)
  <2>1. /\ addr' = addr /\ linked' = linked /\ sequenceId' = sequenceId /\ tip' = tip /\ failedValid' = failedValid
        /\ candidates' = candidates \ {tip} /\ pc[t] = "invalidate" /\ pc'[t] = "flushInvalidate"
        /\ pindex[t] \in Ancestors[tip]
    BY Zenon, <1>0, <1>5 DEF InvalidateTip, MarkTip, Goto, Active
  <2>2. pc[t] \in Invalidating /\ pc'[t] \in Invalidating /\ pc'[t] \notin Activating
    BY Zenon, <2>1 DEF Invalidating, Activating
  <2>3. pindex[t] \in failedValid
    BY Zenon, <2>2 DEF Known, CauseInv, TargetMarked
  <2>4. \A c \in candidates : c \in candidates' \/ Ancestors[c] \cap failedValid' # {}
    BY Zenon, <2>1, <2>3
  <2>5. GoesOn(t)' /\ WillActivate(t)'
    BY Zenon, <2>2 DEF GoesOn, WillActivate
  <2> QED BY Zenon, <1>0, <1>1, <1>2, <2>1, <2>2, <2>4, <2>5, BestKept
<1> QED BY Zenon, <1>3, <1>4, <1>5

\* FindMostWorkChain returns the tip only when it is the best, and otherwise the
\* best block there is.
LEMMA FindBest ==
    ASSUME Known, BestInv, Next, NEW t \in Threads,
           NothingToActivate(t) \/ ChooseCandidate(t) \/ (ForkReached(t) /\ tip = pindex[t])
    PROVE  BestInv'
<1>0. pc \in [Threads -> Labels] /\ pindex \in [Threads -> index \cup {NULL}] /\ MovesAlone(t)
  BY Zenon, OneMoves DEF Known, TypeInv, TypeOK, Continue
<1>1. /\ addr' = addr /\ linked' = linked /\ sequenceId' = sequenceId /\ failedValid' = failedValid /\ tip' = tip
      /\ candidates' = candidates
  BY ZenonT(60) DEF NothingToActivate, ChooseCandidate, ForkReached
<1>2. pc[t] \in Locked \ Invalidating
  BY ZenonT(60) DEF NothingToActivate, ChooseCandidate, ForkReached, Locked, Invalidating
<1>3. PICK r \in Blocks :
         /\ Reference(r) /\ r \in candidates
         /\ \A best \in BestCandidates : best \in Blocks /\ \A b \in Blocks : Good(b) => ~Worse(sequenceId, best, b)
  BY Zenon, <1>2, BestOfAll DEF Known, BestInv
<1>4. addr \in Addresses /\ sequenceId \in [Blocks -> Nat] /\ tip \in Blocks /\ linked \subseteq index
  BY Zenon DEF Known, TypeInv, TypeOK
<1>5. \A u \in Threads : pc[u] \notin Invalidating
  BY Zenon, <1>2, OthersOutside DEF Known
<1>6. \A q \in Blocks : Reference(q) => Reference(q)'
  <2> SUFFICES ASSUME NEW q \in Blocks, Reference(q) PROVE Reference(q)'
    BY Zenon
  <2>1. /\ Ancestors[q] \cap failedValid' = {} /\ ~Worse(sequenceId, q, tip')
        /\ validity[q] = BLOCK_VALID_SCRIPTS => validity'[q] = BLOCK_VALID_SCRIPTS
    BY Zenon, <1>1, <1>4, ScriptsStep DEF Reference, Good, Known, BaseInv
  <2> QED BY Zenon, <1>1, <2>1, ReferenceKept
<1>7. CandidatesInv'
  <2>1. \A c \in candidates' : ~Worse(sequenceId, c, tip)'
    BY Zenon, <1>1 DEF BestInv, CandidatesInv, Worse
  <2> QED BY Zenon, <1>3, <1>6, <2>1 DEF CandidatesInv
<1>8. ASSUME \A b \in Blocks : Good(b) => ~Worse(sequenceId, tip, b)
      PROVE  Settled' /\ BestOrLater'
  <2>1. tip = r
    BY Zenon, <1>3, <1>4, <1>8, WorseOrder DEF Reference
  <2>2. Reference(tip)'
    BY Zenon, <1>1, <1>3, <1>6, <2>1 DEF Reference, Good
  <2>3. TipBest'
    BY Zenon, <1>1, <1>8 DEF TipBest, Good, Worse
  <2> QED BY Zenon, <2>2, <2>3 DEF Settled, BestOrLater
<1>9. CASE NothingToActivate(t)
  <2>1. tip \in BestCandidates /\ pc'[t] = "idle"
    BY Zenon, <1>0, <1>3, <1>9 DEF NothingToActivate, Goto
  <2>2. ChosenBest'
    BY Zenon, <1>0, <1>1, <2>1, ChosenKept DEF BestInv, Activating
  <2> QED BY Zenon, <1>3, <1>7, <1>8, <2>1, <2>2 DEF BestInv
<1>10. CASE ChooseCandidate(t)
  <2>1. PICK best \in BestCandidates : pindex' = [pindex EXCEPT ![t] = best]
    BY Zenon, <1>10 DEF ChooseCandidate
  <2>2. pindex'[t] = best /\ pc'[t] = "disconnect"
    BY Zenon, <1>0, <1>10, <2>1 DEF ChooseCandidate, Goto
  <2>3. ChosenBest'
    BY Zenon, <1>0, <1>1, <1>3, <2>2, ChosenKept DEF BestInv
  <2>4. GoesOn(t)'
    BY Zenon, <2>2 DEF GoesOn, Activating
  <2> QED BY Zenon, <1>7, <2>3, <2>4, GoesOnSettles DEF BestInv
<1>11. CASE ForkReached(t) /\ tip = pindex[t]
  <2>1. pc[t] = "disconnect" /\ pc'[t] = "check" /\ pindex' = pindex
    BY Zenon, <1>0, <1>11 DEF ForkReached, Goto
  <2>2. ChosenBest'
    BY Zenon, <1>0, <1>1, <2>1, ChosenKept DEF BestInv, Activating
  <2>3. \A b \in Blocks : Good(b) => ~Worse(sequenceId, tip, b)
    BY Zenon, <1>11, <2>1 DEF BestInv, ChosenBest, Activating
  <2> QED BY Zenon, <1>7, <1>8, <2>2, <2>3 DEF BestInv
<1> QED BY Zenon, <1>9, <1>10, <1>11

\* The tip goes down one block, inside ActivateBestChainStep or InvalidateBlock.
LEMMA DisconnectBest ==
    ASSUME Known, BestInv, Next, NEW t \in Threads, DisconnectTipDone(t) \/ InvalidateTipDone(t)
    PROVE  BestInv'
<1>0. pc \in [Threads -> Labels] /\ pindex \in [Threads -> index \cup {NULL}] /\ MovesAlone(t)
  BY Zenon, OneMoves DEF Known, TypeInv, TypeOK, Continue
<1>1. /\ addr' = addr /\ linked' = linked /\ sequenceId' = sequenceId /\ failedValid' = failedValid
      /\ tip' = Parent[tip] /\ candidates' = candidates /\ pindex' = pindex
  BY ZenonT(60) DEF DisconnectTipDone, InvalidateTipDone
<1>2. /\ pc[t] \in {"flushDisconnect", "flushInvalidate"}
      /\ pc'[t] = IF pc[t] = "flushDisconnect" THEN "disconnect" ELSE "invalidate"
  BY ZenonT(60), <1>0 DEF DisconnectTipDone, InvalidateTipDone, Goto
<1>3. tip \in Blocks \ {Genesis} /\ Parent[tip] \in Blocks
  BY Zenon, TipToDisconnect DEF Known, TypeInv, TypeOK
<1>4. addr \in Addresses /\ sequenceId \in [Blocks -> Nat] /\ linked \subseteq index /\ candidates \subseteq Blocks
  BY Zenon DEF Known, TypeInv, TypeOK
<1>5. \A c \in Blocks : ~Worse(sequenceId, c, tip) => ~Worse(sequenceId, c, tip')
  <2>1. ~Worse(sequenceId, tip, Parent[tip])
    BY Zenon, <1>3, ParentWorse
  <2> QED BY Zenon, <1>1, <1>3, <1>4, <2>1, WorseOrder
<1>6. ChosenBest'
  <2>1. pc'[t] \in Activating => pc[t] \in Activating
    BY Zenon, <1>2 DEF Activating
  <2> QED BY Zenon, <1>0, <1>1, <2>1, ChosenKept DEF BestInv
<1>7. CandidatesInv'
  <2>1. \A c \in candidates' : ~Worse(sequenceId, c, tip)'
    <3>1. \A c \in candidates : ~Worse(sequenceId, c, tip')
      BY Zenon, <1>4, <1>5 DEF BestInv, CandidatesInv
    <3> QED BY Zenon, <1>1, <3>1 DEF Worse
  <2>2. CASE \E u \in Threads : pc[u] \in Invalidating
    <3>1. \E u \in Threads : pc'[u] \in Invalidating
      <4>1. pc[t] \in Invalidating => pc'[t] \in Invalidating
        BY Zenon, <1>2 DEF Invalidating
      <4> QED BY Zenon, <1>0, <2>2, <4>1 DEF MovesAlone
    <3> QED BY Zenon, <2>1, <3>1 DEF CandidatesInv
  <2>3. CASE \E r \in Blocks : Reference(r)
    <3>1. PICK r \in Blocks : Reference(r)
      BY Zenon, <2>3
    <3>2. /\ Ancestors[r] \cap failedValid' = {} /\ ~Worse(sequenceId, r, tip')
          /\ validity[r] = BLOCK_VALID_SCRIPTS => validity'[r] = BLOCK_VALID_SCRIPTS
      BY Zenon, <1>1, <1>4, <1>5, <3>1, ScriptsStep DEF Reference, Good, Known, BaseInv
    <3>3. Reference(r)'
      BY Zenon, <1>1, <3>1, <3>2, ReferenceKept
    <3> QED BY Zenon, <2>1, <3>3 DEF CandidatesInv
  <2> QED BY Zenon, <2>2, <2>3 DEF BestInv, CandidatesInv
<1>8. GoesOn(t)'
  BY Zenon, <1>2 DEF GoesOn, Activating, Invalidating
<1> QED BY Zenon, <1>6, <1>7, <1>8, GoesOnSettles DEF BestInv

\* invalidateblock begins; from here to its end nothing is asked of the set.
LEMMA InvalidateBest ==
    ASSUME Known, BestInv, NEW t \in Threads, NEW b \in InvalidateTargets, Invalidate(t, b), Operator(t)
    PROVE  BestInv'
<1>0. pc \in [Threads -> Labels] /\ pindex \in [Threads -> index \cup {NULL}] /\ MovesAlone(t)
  BY Zenon, OneMoves DEF Known, TypeInv, TypeOK
<1>1. /\ addr' = addr /\ linked' = linked /\ sequenceId' = sequenceId /\ failedValid' = failedValid \cup {b}
      /\ tip' = tip /\ candidates' = candidates \ {b} /\ pc'[t] = "invalidate"
  BY Zenon, <1>0 DEF Invalidate, MarkInvalid, Goto
<1>2. pc'[t] \in Invalidating /\ pc'[t] \notin Activating /\ GoesOn(t)'
  BY Zenon, <1>1 DEF Invalidating, Activating, GoesOn
<1>3. CandidatesInv'
  <2>1. \A c \in candidates' : ~Worse(sequenceId, c, tip)'
    BY Zenon, <1>1 DEF BestInv, CandidatesInv, Worse
  <2> QED BY Zenon, <1>2, <2>1 DEF CandidatesInv
<1>4. ChosenBest'
  BY Zenon, <1>0, <1>1, <1>2, ChosenKept DEF BestInv
<1> QED BY Zenon, <1>2, <1>3, <1>4, GoesOnSettles DEF BestInv

\* The last loop of InvalidateBlock makes the set right for the new tip.
LEMMA InvalidateDoneBest ==
    ASSUME Known, BestInv, NEW t \in Threads, InvalidateDone(t)
    PROVE  BestInv'
<1>0. pc \in [Threads -> Labels] /\ pindex \in [Threads -> index \cup {NULL}] /\ MovesAlone(t)
  BY Zenon, OneMoves DEF Known, TypeInv, TypeOK, Continue
<1>1. /\ addr' = addr /\ linked' = linked /\ sequenceId' = sequenceId /\ failedValid' = failedValid
      /\ tip' = tip /\ validity' = validity /\ pc[t] = "invalidate" /\ pc'[t] = "activate" /\ pindex[t] \notin Active
      /\ candidates' = candidates \cup
           {b \in index : IsValid(b, BLOCK_VALID_TRANSACTIONS) /\ b \in linked /\ ~Worse(sequenceId, b, tip)}
  BY Zenon, <1>0 DEF InvalidateDone, Goto
<1>2. pc[t] \in Locked /\ pc[t] \in Invalidating /\ pc'[t] \notin Activating
  BY Zenon, <1>1 DEF Locked, Invalidating, Activating
<1>3. addr \in Addresses /\ sequenceId \in [Blocks -> Nat] /\ tip \in Blocks /\ linked \subseteq index
      /\ tip \in linked
  BY Zenon DEF Known, TypeInv, TypeOK, BaseInv, LinkedOnce
<1>4. Good(tip)
  <2>1. \A u \in Threads : pc[u] \in Invalidating => u = t
    BY Zenon, <1>2, OthersOutside DEF Known
  <2>2. Active \cap failedValid = {}
    BY Zenon, <1>1, <2>1 DEF Known, BaseInv, ActiveUnmarked
  <2> QED BY Zenon, <1>3, <2>2 DEF Good, Active
<1>5. ASSUME NEW b \in Blocks, Good(b), ~Worse(sequenceId, b, tip)
      PROVE  b \in candidates'
  <2>1. b \in linked /\ b \in index /\ b \notin Failed
    BY Zenon, <1>3, <1>5 DEF Good, Known, CauseInv, MarkCaused
  <2>2. validity[b] >= BLOCK_VALID_TRANSACTIONS
    BY Zenon, <2>1 DEF Known, LinkInv, DataInv, ValidInv, IndexValid
  <2> QED BY Zenon, <1>1, <1>5, <2>1, <2>2 DEF IsValid
<1>6. Reference(tip)'
  <2>1. Good(tip)' /\ (tip' = Genesis \/ validity'[tip'] = BLOCK_VALID_SCRIPTS)
    BY Zenon, <1>1, <1>4 DEF Good, Known, ValidInv, TipValid
  <2>2. ~Worse(sequenceId, tip, tip)'
    <3>1. ~Worse(sequenceId, tip, tip)
      BY Zenon, <1>3, WorseOrder
    <3> QED BY Zenon, <1>1, <3>1 DEF Worse
  <2>3. \A b \in Blocks : Good(b)' /\ ~Worse(sequenceId, b, tip)' => b \in candidates'
    BY Zenon, <1>1, <1>5 DEF Good, Worse
  <2> QED BY Zenon, <2>1, <2>2, <2>3 DEF Reference
<1>7. CandidatesInv'
  <2>1. \A c \in candidates' : ~Worse(sequenceId, c, tip)
    BY Zenon, <1>1 DEF BestInv, CandidatesInv
  <2>2. \A c \in candidates' : ~Worse(sequenceId, c, tip)'
    BY Zenon, <1>1, <2>1 DEF Worse
  <2> QED BY Zenon, <1>1, <1>3, <1>6, <2>2 DEF CandidatesInv
<1>8. ChosenBest'
  BY Zenon, <1>0, <1>1, <1>2, ChosenKept DEF BestInv
<1>9. Settled' /\ BestOrLater'
  BY Zenon, <1>1, <1>6 DEF Settled, BestOrLater, WillActivate
<1> QED BY Zenon, <1>7, <1>8, <1>9 DEF BestInv

\* A block is connected and PruneBlockIndexCandidates runs: either the reference
\* block still sorts after it, or it becomes the reference block itself.
LEMMA ConnectBest ==
    ASSUME Known, BestInv, BaseInv', NEW t \in Threads, ConnectTipDone(t)
    PROVE  BestInv'
<1>0. pc \in [Threads -> Labels] /\ pindex \in [Threads -> index \cup {NULL}] /\ MovesAlone(t)
  BY Zenon, OneMoves DEF Known, TypeInv, TypeOK, Continue
<1>1. /\ addr' = addr /\ linked' = linked /\ sequenceId' = sequenceId /\ failedValid' = failedValid
      /\ tip' = coins /\ validity' = validity /\ pindex' = pindex /\ pc[t] = "flushConnect"
      /\ candidates' = {c \in candidates : ~Worse(sequenceId, c, coins)}
      /\ pc' = [pc EXCEPT ![t] = "check"] \/ pc' = [pc EXCEPT ![t] = "connect"]
  BY Zenon DEF ConnectTipDone, PruneBlockIndexCandidates, Goto
<1>2. pc[t] \in Locked \ Invalidating /\ pc[t] \in Activating /\ pc'[t] \in {"check", "connect"}
  BY Zenon, <1>0, <1>1 DEF Locked, FlushPoints, Invalidating, Activating
<1>3. addr \in Addresses /\ sequenceId \in [Blocks -> Nat] /\ coins \in Blocks /\ linked \subseteq index
      /\ candidates \subseteq Blocks /\ coins \in linked
  BY Zenon DEF Known, TypeInv, TypeOK, BaseInv, LinkedOnce
<1>4. \A u \in Threads : pc[u] \notin Invalidating /\ pc'[u] \notin Invalidating
  <2>1. \A u \in Threads \ {t} : pc[u] \notin Invalidating /\ pc'[u] = pc[u]
    BY Zenon, <1>0, <1>2, OthersOutside DEF Known, MovesAlone
  <2>2. pc'[t] \notin Invalidating
    BY Zenon, <1>2 DEF Invalidating
  <2> QED BY Zenon, <1>2, <2>1, <2>2
<1>5. PICK r \in Blocks : Reference(r)
  BY Zenon, <1>4 DEF BestInv, CandidatesInv
<1>6. Good(coins)' /\ (coins = Genesis \/ validity'[coins] = BLOCK_VALID_SCRIPTS)
  <2>1. Ancestors[coins] \cap failedValid' = {}
    BY Zenon, <1>1, <1>4 DEF BaseInv, ActiveUnmarked, Active
  <2>2. coins' = coins
    BY Zenon DEF ConnectTipDone
  <2> QED BY Zenon, <1>1, <1>3, <2>1, <2>2 DEF Good, Known, ValidInv, TipValid
<1>7. ASSUME ~Worse(sequenceId, coins, r)
      PROVE  Reference(tip)'
  <2>1. ~Worse(sequenceId, coins, coins)
    BY Zenon, <1>3, WorseOrder
  <2>2. ASSUME NEW b \in Blocks, Good(b), ~Worse(sequenceId, b, coins)
        PROVE  b \in candidates'
    <3>1. ~Worse(sequenceId, b, r)
      BY Zenon, <1>3, <1>7, <2>2, WorseOrder
    <3> QED BY Zenon, <1>1, <1>5, <2>2, <3>1 DEF Reference
  <2>3. \A b \in Blocks : Good(b)' /\ ~Worse(sequenceId, b, tip)' => b \in candidates'
    BY Zenon, <1>1, <2>2 DEF Good, Worse
  <2>4. ~Worse(sequenceId, tip, tip)'
    BY Zenon, <1>1, <2>1 DEF Worse
  <2>5. Good(tip)' /\ (tip' = Genesis \/ validity'[tip'] = BLOCK_VALID_SCRIPTS)
    <3>1. coins' = coins
      BY Zenon DEF ConnectTipDone
    <3> QED BY Zenon, <1>1, <1>6, <3>1 DEF Good
  <2> QED BY Zenon, <2>3, <2>4, <2>5 DEF Reference
<1>8. CandidatesInv'
  <2>1. \A c \in candidates' : ~Worse(sequenceId, c, tip)'
    BY Zenon, <1>1 DEF Worse
  <2>2. CASE Worse(sequenceId, r, coins)
    <3>1. Reference(tip)'
      BY Zenon, <1>3, <1>7, <2>2, WorseOrder
    <3> QED BY Zenon, <1>1, <1>3, <2>1, <3>1 DEF CandidatesInv
  <2>3. CASE ~Worse(sequenceId, r, coins)
    <3>1. \A c \in candidates : c \in candidates' \/ Worse(sequenceId, c, r)
      BY Zenon, <1>1, <1>3, <2>3, WorseOrder
    <3>2. Ancestors[r] \cap failedValid' = {} /\ (validity[r] = BLOCK_VALID_SCRIPTS => validity'[r] = BLOCK_VALID_SCRIPTS)
      BY Zenon, <1>1, <1>5 DEF Reference, Good
    <3>3. Reference(r)'
      BY Zenon, <1>1, <1>5, <2>3, <3>1, <3>2, ReferenceKept
    <3> QED BY Zenon, <2>1, <3>3 DEF CandidatesInv
  <2> QED BY Zenon, <2>2, <2>3
<1>9. ChosenBest'
  BY Zenon, <1>0, <1>1, <1>2, ChosenKept DEF BestInv
<1>10. Settled' /\ BestOrLater'
  <2>1. CASE pc'[t] = "check" /\ pindex[t] = coins
    <3>1. \A b \in Blocks : Good(b) => ~Worse(sequenceId, coins, b)
      BY Zenon, <1>2, <2>1 DEF BestInv, ChosenBest
    <3>2. Reference(tip)'
      BY Zenon, <1>5, <1>7, <3>1 DEF Reference
    <3>3. TipBest'
      BY Zenon, <1>1, <3>1 DEF TipBest, Good, Worse
    <3> QED BY Zenon, <3>2, <3>3 DEF Settled, BestOrLater
  <2>2. CASE pc'[t] = "connect" \/ pindex[t] # coins
    <3>1. GoesOn(t)'
      BY Zenon, <1>1, <1>2, <2>2 DEF GoesOn, Activating
    <3> QED BY Zenon, <3>1, GoesOnSettles
  <2> QED BY Zenon, <1>2, <2>1, <2>2
<1> QED BY Zenon, <1>8, <1>9, <1>10 DEF BestInv

\* A block is linked: if it sorts after the reference block it sorts after the
\* tip, and the thread that links it will go through FindMostWorkChain.
LEMMA LinkBest ==
    ASSUME Known, BestInv, NEW t \in Threads, LinkBlock(t)
    PROVE  BestInv'
<1>0. pc \in [Threads -> Labels] /\ pindex \in [Threads -> index \cup {NULL}] /\ MovesAlone(t)
  BY Zenon, OneMoves DEF Known, TypeInv, TypeOK, Continue
<1>1. PICK b \in Blocks :
         /\ b \notin linked /\ linked' = linked \cup {b} /\ sequenceId' = [sequenceId EXCEPT ![b] = nextSequenceId]
         /\ candidates' = IF Worse(sequenceId', b, tip) THEN candidates ELSE candidates \cup {b}
         /\ addr' = addr /\ failedValid' = failedValid /\ tip' = tip /\ pindex' = pindex /\ validity' = validity
  BY Zenon, LinkEffect DEF Known, BaseInv
<1>2. pc[t] = "link" /\ pc'[t] \in {"link", "stored"}
  BY ZenonT(60), <1>0 DEF LinkBlock, Goto
<1>3. /\ addr \in Addresses /\ sequenceId \in [Blocks -> Nat] /\ nextSequenceId \in Nat /\ tip \in Blocks
      /\ tip \in linked /\ candidates \subseteq linked /\ linked \subseteq Blocks
  BY Zenon DEF Known, TypeInv, TypeOK, BaseInv, LinkedOnce
<1>4. sequenceId' \in [Blocks -> Nat] /\ \A c \in Blocks \ {b} : sequenceId'[c] = sequenceId[c]
  BY Zenon, <1>1, <1>3
<1>5. \A c, d \in Blocks \ {b} : Worse(sequenceId', c, d) <=> Worse(sequenceId, c, d)
  BY Zenon, <1>4 DEF Worse
<1>6. \A c, d \in Blocks : Worse(sequenceId, c, d)' <=> Worse(sequenceId', c, d)
  BY Zenon, <1>1 DEF Worse
<1>7. \A c \in candidates' : ~Worse(sequenceId', c, tip)
  BY Zenon, <1>1, <1>3, <1>5 DEF BestInv, CandidatesInv
<1>8. ASSUME NEW r \in Blocks, Reference(r)
      PROVE  Reference(r)'
  <2>1. r \in linked /\ r # b /\ ~Worse(sequenceId', r, tip)
    BY Zenon, <1>1, <1>3, <1>5, <1>8 DEF Reference, Good
  <2>2. Good(r)' /\ (r = Genesis \/ validity'[r] = BLOCK_VALID_SCRIPTS)
    BY Zenon, <1>1, <1>8 DEF Reference, Good
  <2>3. ~Worse(sequenceId, r, tip)'
    BY Zenon, <1>1, <2>1 DEF Worse
  <2>4. ASSUME NEW c \in Blocks, Good(c)', ~Worse(sequenceId, c, r)'
        PROVE  c \in candidates'
    <3>1. ~Worse(sequenceId', c, r)
      BY Zenon, <1>6, <2>4
    <3>2. CASE c = b
      <4>1. ~Worse(sequenceId', b, tip)
        BY Zenon, <1>3, <1>4, <2>1, <3>1, <3>2, WorseOrder
      <4> QED BY Zenon, <1>1, <3>2, <4>1
    <3>3. CASE c # b
      <4>1. Good(c) /\ ~Worse(sequenceId, c, r)
        BY Zenon, <1>1, <1>5, <2>1, <2>4, <3>1, <3>3 DEF Good
      <4> QED BY Zenon, <1>1, <1>8, <4>1 DEF Reference
    <3> QED BY Zenon, <3>2, <3>3
  <2> QED BY Zenon, <2>2, <2>3, <2>4 DEF Reference
<1>9. pc[t] \in Locked \ Invalidating /\ pc'[t] \notin Activating /\ pc[t] \notin Activating
  BY Zenon, <1>2 DEF Locked, Invalidating, Activating
<1>10. \A u \in Threads : pc[u] \notin Invalidating /\ pc'[u] \notin Activating
  <2>1. \A u \in Threads \ {t} : pc[u] \notin Activating /\ pc[u] \notin Invalidating
    BY Zenon, <1>9, OthersOutside DEF Known
  <2> QED BY Zenon, <1>0, <1>9, <2>1 DEF MovesAlone
<1>11. CandidatesInv'
  <2>1. \A c \in candidates' : ~Worse(sequenceId, c, tip)'
    BY Zenon, <1>1, <1>7 DEF Worse
  <2> QED BY Zenon, <1>8, <1>10, <2>1 DEF BestInv, CandidatesInv
<1>12. ChosenBest'
  BY Zenon, <1>10 DEF ChosenBest
<1>13. Settled'
  <2>1. CASE Reference(tip)
    <3>1. Reference(tip)'
      BY Zenon, <1>1, <1>3, <1>8, <2>1 DEF Reference, Good, Worse
    <3> QED BY Zenon, <3>1 DEF Settled
  <2>2. CASE \E u \in Threads : GoesOn(u)
    <3>1. ~GoesOn(t)
      BY Zenon, <1>2 DEF GoesOn, Activating, Invalidating
    <3> QED BY Zenon, <1>0, <1>1, <2>2, <3>1, OthersGoOn DEF Settled
  <2> QED BY Zenon, <2>1, <2>2 DEF BestInv, Settled
<1>14. BestOrLater'
  <2>1. WillActivate(t)'
    BY Zenon, <1>2 DEF WillActivate
  <2> QED BY Zenon, <2>1 DEF BestOrLater
<1> QED BY Zenon, <1>11, <1>12, <1>13, <1>14 DEF BestInv

\* Every step preserves BestInv.
LEMMA BestInvStep ==
    ASSUME PruneMode = FALSE, ReconsiderTargets = {}, Known, BestInv, [Next]_vars
    PROVE  BestInv'
<1>1. CASE Next
  <2>1. PICK t \in Threads :
           /\ Receive(t) \/ Operator(t) \/ Continue(t)
           /\ \/ \E b \in Blocks, fRequested \in BOOLEAN : StoreBlock(t, b, fRequested)
              \/ LinkBlock(t)
              \/ Moving(t)
    BY Zenon, <1>1, StepKinds DEF Known, BaseInv
  <2>2. CASE Receive(t)
    BY Zenon, <1>1, <2>2, ReceiveBest
  <2>3. CASE Operator(t)
    <3>1. PICK b \in InvalidateTargets : Invalidate(t, b)
      BY Zenon, <2>3 DEF Operator
    <3> QED BY Zenon, <2>3, <3>1, InvalidateBest
  <2>4. CASE Continue(t)
    <3>1. ~Abort(t) /\ ~ConnectBlockCrashes(t) /\ ~DisconnectTipFails(t) /\ ~InvalidateTipFails(t)
      BY Zenon, NothingFails DEF Known, BaseInv
    <3>2. CASE \/ AcceptBlockDone(t) \/ BeginRound(t) \/ EndRound(t) \/ BeginPeriodicFlush(t)
               \/ ActivateBestChainDone(t) \/ DisconnectTip(t) \/ ConnectTip(t)
      BY Zenon, <1>1, <3>2, RoundBest
    <3>3. CASE ForkReached(t)
      BY Zenon, <1>1, <3>3, RoundBest, FindBest
    <3>4. CASE DropCandidate(t) \/ ConnectTipFails(t) \/ InvalidateTip(t)
      BY Zenon, <1>1, <3>4, MarkingBest
    <3>5. CASE NothingToActivate(t) \/ ChooseCandidate(t)
      BY Zenon, <1>1, <3>5, FindBest
    <3>6. CASE DisconnectTipDone(t) \/ InvalidateTipDone(t)
      BY Zenon, <1>1, <3>6, DisconnectBest
    <3>7. CASE ConnectTipDone(t)
      <4>1. BaseInv'
        BY Zenon, BaseInvStep DEF Known
      <4> QED BY Zenon, <3>7, <4>1, ConnectBest
    <3>8. CASE LinkBlock(t)
      BY Zenon, <3>8, LinkBest
    <3>9. CASE InvalidateDone(t)
      BY Zenon, <3>9, InvalidateDoneBest
    <3> QED BY Zenon, <2>4, <3>1, <3>2, <3>3, <3>4, <3>5, <3>6, <3>7, <3>8, <3>9 DEF Continue
  <2> QED BY Zenon, <2>1, <2>2, <2>3, <2>4
<1>2. CASE UNCHANGED vars
  <2>1. \A c, d : Worse(sequenceId, c, d)' <=> Worse(sequenceId, c', d')
    BY Zenon, <1>2 DEF Worse
  <2>2. \A r \in Blocks : Reference(r) => Reference(r)'
    BY ZenonT(60), <1>2 DEF Reference, Good, Worse
  <2>3. \A t \in Threads : (GoesOn(t) => GoesOn(t)') /\ (WillActivate(t) => WillActivate(t)')
    BY Zenon, <1>2 DEF GoesOn, WillActivate
  <2>4. CandidatesInv'
    BY ZenonT(60), <1>2, <2>2 DEF BestInv, CandidatesInv, Worse
  <2>5. ChosenBest'
    BY ZenonT(60), <1>2 DEF BestInv, ChosenBest, Good, Worse
  <2>6. Settled'
    <3>1. Reference(tip) => Reference(tip)'
      BY ZenonT(60), <1>2 DEF Reference, Good, Worse
    <3> QED BY Zenon, <2>3, <3>1 DEF BestInv, Settled
  <2>7. BestOrLater'
    <3>1. TipBest => TipBest'
      BY ZenonT(60), <1>2 DEF TipBest, Good, Worse
    <3> QED BY Zenon, <2>3, <3>1 DEF BestInv, BestOrLater
  <2> QED BY Zenon, <2>4, <2>5, <2>6, <2>7 DEF BestInv
<1> QED BY Zenon, <1>1, <1>2

-----------------------------------------------------------------------------
(* What the invariant says when the lock is free. *)

\* Any set of blocks has a lowest one.
LEMMA LowestBlock ==
    ASSUME NEW S \in SUBSET Blocks, S # {}
    PROVE  \E a \in S : \A c \in S : Height[a] <= Height[c]
<1> DEFINE heights == {Height[a] : a \in S}
           less == {ss \in Nat \X Nat : ss[1] < ss[2]}
<1>1. heights \subseteq Nat /\ heights # {}
  BY TreeAssumption
<1>2. IsWellFoundedOn(less, Nat)
  BY Zenon, NatLessThanWellFounded DEF OpToRel
<1>3. \E n \in heights : \A m \in heights : ~(<<m, n>> \in less)
  <2> HIDE DEF heights, less
  <2> QED BY Zenon, <1>1, <1>2, WFMin
<1>4. PICK n \in heights : \A m \in heights : ~(<<m, n>> \in less)
  BY Zenon, <1>3
<1>5. \A m \in Nat : m < n => <<m, n>> \in less
  BY <1>1
<1>6. \A m \in heights : ~(m < n)
  BY Zenon, <1>1, <1>4, <1>5
<1>7. PICK a \in S : n = Height[a]
  BY Zenon
<1>8. \A c \in S : Height[c] \in heights /\ Height[c] \in Nat /\ n \in Nat
  BY Zenon, <1>1
<1>9. \A c \in S : Height[a] <= Height[c]
  <2> HIDE DEF heights
  <2> QED BY <1>6, <1>7, <1>8
<1> QED BY Zenon, <1>9

\* When no handler holds cs_main, a block all of whose ancestors were received and
\* none of which failed is linked.
LEMMA UsableIsLinked ==
    ASSUME Known, CsMainFree, NEW b \in index, Usable(b)
    PROVE  Good(b)
<1>1. b \in Blocks /\ Ancestors[b] \subseteq Blocks /\ b \in Ancestors[b]
  BY Zenon, AncestorsBasic DEF Known, TypeInv, TypeOK
<1>2. Ancestors[b] \cap failedValid = {} /\ Ancestors[b] \subseteq processed
  BY Zenon DEF Usable, Known, LinkInv, DataInv
<1>3. \A a \in Blocks : ~Waits(a)
  BY Zenon, NothingWaits DEF Known, LinkInv
<1> DEFINE missing == Ancestors[b] \ linked
<1>4. ASSUME missing # {}
      PROVE  FALSE
  <2>1. PICK a \in missing : \A c \in missing : Height[a] <= Height[c]
    BY Zenon, <1>1, <1>4, LowestBlock
  <2>2. a \in Blocks /\ a # Genesis
    BY Zenon, <1>1, <2>1 DEF Known, BaseInv, LinkedOnce
  <2>3. Ancestors[a] \subseteq Ancestors[b]
    BY Zenon, <1>1, <2>1, AncestorsAssumption
  <2>4. Parent[a] \in missing
    <3>1. Parent[a] \notin linked
      BY Zenon, <1>2, <1>3, <2>1, <2>2, <2>3 DEF Known, BaseInv, WaitsForParent
    <3>2. Parent[a] \in Ancestors[a]
      BY Zenon, <2>2, AncestorsBasic
    <3> QED BY Zenon, <2>3, <3>1, <3>2
  <2>5. Height[a] <= Height[Parent[a]]
    BY Zenon, <2>1, <2>4
  <2>6. Height[a] = Height[Parent[a]] + 1 /\ Height[Parent[a]] \in Nat
    BY Zenon, <2>2, TreeAssumption
  <2> QED BY <2>5, <2>6
<1> QED BY Zenon, <1>1, <1>2, <1>4 DEF Good

\* All layers together, on a node that neither prunes nor reconsiders.
LEMMA AllLayers ==
    ASSUME PruneMode = FALSE, ReconsiderTargets = {}
    PROVE  Spec => [](Known /\ BestInv)
<1> DEFINE All == Known /\ BestInv
<1>1. Init => All
  BY Zenon, TypeInvInit, LinkInvInit, PathInvInit, ValidInvInit, CauseInvInit, BaseInvInit, BestInvInit DEF Known
<1>2. All /\ [Next]_vars => All'
  <2> SUFFICES ASSUME All, [Next]_vars PROVE All'
    OBVIOUS
  <2>1. TypeInv' /\ LinkInv' /\ PathInv' /\ ValidInv' /\ CauseInv'
    BY Zenon, TypeInvStep, LinkInvStep, PathInvStep, ValidInvStep, CauseInvStep DEF Known
  <2>2. BaseInv'
    BY Zenon, BaseInvStep DEF Known
  <2>3. BestInv'
    BY Zenon, BestInvStep
  <2> QED BY Zenon, <2>1, <2>2, <2>3 DEF Known
<1> HIDE DEF All
<1>3. Spec => []All
  BY <1>1, <1>2, PTL DEF Spec
<1> QED BY <1>3, PTL DEF All

\* CheckBlockIndex finds setBlockIndexCandidates right whenever cs_main is free and
\* no ActivateBestChain is between two rounds, in every interleaving of block
\* arrival, activation and invalidateblock, whatever the tree and however many
\* threads there are.
THEOREM CandidatesRight ==
    ASSUME PruneMode = FALSE, ReconsiderTargets = {}
    PROVE  Spec => []CandidatesWhenSettled
<1>1. ASSUME Known, BestInv, CsMainFree, \A t \in Threads : ~BetweenRounds(t)
      PROVE  CandidatesExact
  <2>1. \A t \in Threads : ~GoesOn(t)
    <3> SUFFICES ASSUME NEW t \in Threads, GoesOn(t) PROVE FALSE
      BY Zenon
    <3>1. pc[t] \notin Activating \cup Invalidating /\ pc[t] # "find"
      BY Zenon, <1>1 DEF CsMainFree, Locked, FlushPoints, Activating, Invalidating
    <3>2. pc[t] = "check" => pindex[t] # NULL
      BY Zenon, <1>1 DEF Known, BaseInv, CheckHasBlock
    <3> QED BY Zenon, <1>1, <3>1, <3>2 DEF GoesOn, BetweenRounds
  <2>2. Reference(tip)
    BY Zenon, <1>1, <2>1 DEF BestInv, Settled
  <2>3. index \subseteq Blocks /\ tip \in Blocks /\ addr \in Addresses /\ sequenceId \in [Blocks -> Nat]
    BY Zenon, <1>1 DEF Known, TypeInv, TypeOK
  <2>4. tip \in candidates
    BY Zenon, <2>2, <2>3, WorseOrder DEF Reference
  <2>5. ASSUME NEW b \in index, ~Worse(sequenceId, b, tip), Usable(b)
        PROVE  b \in candidates
    BY Zenon, <1>1, <2>2, <2>3, <2>5, UsableIsLinked DEF Reference
  <2>6. \A b \in candidates : ~Worse(sequenceId, b, tip)
    BY Zenon, <1>1 DEF BestInv, CandidatesInv
  <2>7. \A b \in candidates : Ancestors[b] \subseteq processed
    BY Zenon, <1>1, AncestorsLinked DEF Known, BaseInv, LinkedOnce
  <2> QED BY Zenon, <2>4, <2>5, <2>6, <2>7 DEF CandidatesExact
<1>2. Known /\ BestInv => CandidatesWhenSettled
  BY Zenon, <1>1 DEF CandidatesWhenSettled
<1> QED BY <1>2, AllLayers, PTL

\* When every handler has returned the tip is the best block whose chain was
\* received and has not failed, whatever the tree and however many threads
\* received blocks, activated chains and invalidated blocks at the same time.
THEOREM BestChainIsActive ==
    ASSUME PruneMode = FALSE, ReconsiderTargets = {}
    PROVE  Spec => []BestChainActive
<1>1. ASSUME Known, BestInv, Quiet, NEW b \in index, Usable(b)
      PROVE  ~Worse(sequenceId, tip, b)
  <2>1. CsMainFree
    BY Zenon, <1>1 DEF Quiet, CsMainFree, Locked, FlushPoints
  <2>2. \A t \in Threads : ~WillActivate(t)
    BY Zenon, <1>1 DEF Quiet, WillActivate, Activating, Invalidating
  <2>3. TipBest
    BY Zenon, <1>1, <2>2 DEF BestInv, BestOrLater
  <2>4. Good(b) /\ b \in Blocks
    BY Zenon, <1>1, <2>1, UsableIsLinked DEF Known, TypeInv, TypeOK
  <2> QED BY Zenon, <2>3, <2>4 DEF TipBest
<1>2. Known /\ BestInv => BestChainActive
  BY Zenon, <1>1 DEF BestChainActive
<1> QED BY <1>2, AllLayers, PTL

\* CheckBlockIndex finds mapBlocksUnlinked right whenever cs_main is free: what was
\* received and cannot be linked yet waits there, and nothing else does.
THEOREM UnlinkedRight ==
    ASSUME PruneMode = FALSE, ReconsiderTargets = {}
    PROVE  Spec => []UnlinkedExact
<1>1. ASSUME Known, CsMainFree, NEW b \in index \ {Genesis}
      PROVE  /\ b \in haveData /\ b \notin linked /\ Ancestors[b] \cap failedValid = {} => unlinked[b] > 0
             /\ b \notin haveData => unlinked[b] = 0
             /\ Usable(b) => unlinked[b] = 0
             /\ b \in linked => Ancestors[b] \subseteq haveData
  <2>1. b \in Blocks /\ unlinked[b] \in Nat
    BY <1>1 DEF Known, TypeInv, TypeOK
  <2>2. ~havePruned /\ processed = haveData
    <3>1. ~havePruned
      BY Zenon, <1>1 DEF Known, BaseInv, LinkedOnce
    <3>2. haveData \subseteq processed /\ processed \subseteq haveData
      BY Zenon, <1>1, <3>1 DEF Known, LinkInv, DataInv
    <3> QED BY Zenon, <3>1, <3>2
  <2>3. ~Waits(b)
    BY Zenon, <1>1, <2>1, NothingWaits DEF Known, LinkInv
  <2>4. b \in haveData /\ b \notin linked /\ Ancestors[b] \cap failedValid = {} => unlinked[b] > 0
    BY Zenon, <1>1, <2>2, <2>3 DEF Known, BaseInv, WaitsForParent
  <2>5. b \notin haveData => unlinked[b] = 0
    <3>1. b \notin haveData => ~(unlinked[b] > 0)
      BY Zenon, <1>1, <2>1, <2>2 DEF Known, LinkInv, QueueInv
    <3> QED BY <2>1, <3>1
  <2>6. Usable(b) => unlinked[b] = 0
    BY Zenon, <1>1, <2>1, UsableIsLinked DEF Good, Known, BaseInv, LinkedOnce
  <2>7. b \in linked => Ancestors[b] \subseteq haveData
    BY Zenon, <1>1, <2>2, AncestorsLinked DEF Known
  <2> QED BY Zenon, <2>4, <2>5, <2>6, <2>7
<1>2. Known /\ BestInv => UnlinkedExact
  BY Zenon, <1>1 DEF UnlinkedExact
<1> QED BY <1>2, AllLayers, PTL

\* No block changes its place in the order of setBlockIndexCandidates while it is in
\* that set: nSequenceId is given when a block is linked, and the blocks in the set
\* are linked already.
THEOREM CandidateKeysStay ==
    ASSUME PruneMode = FALSE, ReconsiderTargets = {}
    PROVE  Spec => CandidateKeysFixed
<1>1. ASSUME Known, Next, NEW b \in candidates
      PROVE  sequenceId'[b] = sequenceId[b]
  <2>1. b \in Blocks /\ b \in linked /\ sequenceId \in [Blocks -> Nat]
    BY Zenon, <1>1 DEF Known, TypeInv, TypeOK, BaseInv, LinkedOnce
  <2>2. PICK t \in Threads :
           \/ \E c \in Blocks, fRequested \in BOOLEAN : StoreBlock(t, c, fRequested)
           \/ LinkBlock(t)
           \/ Moving(t)
    BY Zenon, <1>1, StepKinds DEF Known, BaseInv
  <2>3. CASE \E c \in Blocks, fRequested \in BOOLEAN : StoreBlock(t, c, fRequested)
    BY Zenon, <2>3 DEF StoreBlock
  <2>4. CASE LinkBlock(t)
    <3>1. PICK c \in Blocks : c \notin linked /\ sequenceId' = [sequenceId EXCEPT ![c] = nextSequenceId]
      BY Zenon, <1>1, <2>4, LinkEffect DEF Known, BaseInv
    <3> QED BY Zenon, <2>1, <3>1
  <2>5. CASE Moving(t)
    BY Zenon, <1>1, <2>5, MovingKeeps DEF Known, BaseInv
  <2> QED BY Zenon, <2>2, <2>3, <2>4, <2>5
<1>2. Known /\ [Next]_vars => [failedValid = {} => \A b \in candidates : sequenceId'[b] = sequenceId[b]]_vars
  BY Zenon, <1>1
<1>3. Spec => [][Next]_vars
  BY PTL DEF Spec
<1> HIDE DEF vars
<1> QED BY <1>2, <1>3, AllLayers, PTL DEF CandidateKeysFixed

=============================================================================
