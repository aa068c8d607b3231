---------------------------- MODULE MCCoinsCache -----------------------------
(* CoinsCache with one tree of commitments beside the empty one, entered   *)
(* and removed any number of times.  Coins and blocks are interchangeable. *)
EXTENDS CoinsCache, TLC

MCRoots == {"r0", "r1"}

MCEmptyRoot == "r0"

MCSize == [r0 |-> 0, r1 |-> 1]

Symmetry == Permutations(Coins) \cup Permutations(BlockHashes)

=============================================================================
