---------------------------- MODULE MCChainState ----------------------------
(***************************************************************************)
(* Instances of ChainState for TLC: two trees of six blocks, each block    *)
(* with one unit of work.                                                  *)
(*                                                                         *)
(*     Fork:       1 -- 2              Stem:           2                   *)
(*               /                                   /                     *)
(*              0                            0 --- 1                       *)
(*               \                                   \                     *)
(*                 3 -- 4 -- 5                         3 -- 4 -- 5         *)
(*                                                                         *)
(***************************************************************************)
EXTENDS ChainState

MCBlocks == 0 .. 5

ForkParent == <<0, 1, 0, 3, 4>>
ForkAncestors[b \in MCBlocks] == IF b = 0 THEN {0} ELSE ForkAncestors[ForkParent[b]] \cup {b}
ForkHeight[b \in MCBlocks] == IF b = 0 THEN 0 ELSE ForkHeight[ForkParent[b]] + 1
ForkWork == [b \in MCBlocks |-> ForkHeight[b] + 1]

StemParent == <<0, 1, 1, 3, 4>>
StemAncestors[b \in MCBlocks] == IF b = 0 THEN {0} ELSE StemAncestors[StemParent[b]] \cup {b}
StemHeight[b \in MCBlocks] == IF b = 0 THEN 0 ELSE StemHeight[StemParent[b]] + 1
StemWork == [b \in MCBlocks |-> StemHeight[b] + 1]

\* CBlockIndex objects lie in memory in the order of the numbers.
Ascending == {[b \in MCBlocks |-> b]}

=============================================================================
