------------------------------ MODULE BlockTree ------------------------------
(***************************************************************************)
(* The tree of block headers that a node may come to know (CBlockIndex,    *)
(* src/src/chain.h).  A block's parent is fixed by the hash in its header, *)
(* so the tree is a constant: nodes differ in which part of it they hold.  *)
(*                                                                         *)
(* pprev, nHeight and nChainWork of CBlockIndex are Parent, Height and     *)
(* Work.  Ancestors[b] is the set of blocks met by following pprev from b, *)
(* b included.  The assumptions are what AddToBlockIndex establishes when  *)
(* it links a new entry below its parent.                                  *)
(***************************************************************************)
EXTENDS Integers

CONSTANTS
    Blocks,     \* the headers that pass CheckBlockHeader and ContextualCheckBlockHeader
    Genesis,
    NULL,       \* the null CBlockIndex pointer
    Parent,
    Ancestors,
    Height,
    Work

ASSUME TreeAssumption ==
    /\ Genesis \in Blocks
    /\ NULL \notin Blocks
    /\ Parent \in [Blocks \ {Genesis} -> Blocks]
    /\ Height \in [Blocks -> Nat]
    /\ Work \in [Blocks -> Nat]
    /\ Height[Genesis] = 0
    /\ \A b \in Blocks \ {Genesis} :
          /\ Height[b] = Height[Parent[b]] + 1
          /\ Work[b] > Work[Parent[b]]

ASSUME AncestorsAssumption ==
    /\ Ancestors \in [Blocks -> SUBSET Blocks]
    /\ Ancestors[Genesis] = {Genesis}
    /\ \A b \in Blocks \ {Genesis} : Ancestors[b] = Ancestors[Parent[b]] \cup {b}
    /\ \A b \in Blocks : \A a \in Ancestors[b] :
          /\ Genesis \in Ancestors[a]
          /\ Ancestors[a] \subseteq Ancestors[b]
          /\ Height[a] <= Height[b]
          /\ Height[a] = Height[b] => a = b
    /\ \A b \in Blocks : \A a \in Ancestors[b] \ {b} : \E c \in Ancestors[b] \ {Genesis} : Parent[c] = a
    /\ \A b \in Blocks : \A a, c \in Ancestors[b] : a \in Ancestors[c] \/ c \in Ancestors[a]

Children(b) == {c \in Blocks \ {Genesis} : Parent[c] = b}

Descendants(b) == {c \in Blocks : b \in Ancestors[c]}

=============================================================================
