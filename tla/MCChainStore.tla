---------------------------- MODULE MCChainStore ----------------------------
(***************************************************************************)
(* ChainStore on a tree of four blocks, each with one unit of work:        *)
(*                                                                         *)
(*           1                                                             *)
(*         /                                                               *)
(*        0                                                                *)
(*         \                                                               *)
(*           2 -- 3                                                        *)
(*                                                                         *)
(***************************************************************************)
EXTENDS ChainStore

MCBlocks == 0 .. 3

MCParent == <<0, 0, 2>>
MCAncestors[b \in MCBlocks] == IF b = 0 THEN {0} ELSE MCAncestors[MCParent[b]] \cup {b}
MCHeight[b \in MCBlocks] == IF b = 0 THEN 0 ELSE MCHeight[MCParent[b]] + 1
MCWork == [b \in MCBlocks |-> MCHeight[b] + 1]

\* CBlockIndex objects lie in memory in the order of the numbers.
Ascending == {[b \in MCBlocks |-> b]}

=============================================================================
