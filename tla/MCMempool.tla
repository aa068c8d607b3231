----------------------------- MODULE MCMempool -----------------------------
(***************************************************************************)
(* Mempool with three coinbases and these transactions: a and c spend the  *)
(* same coinbase, cb1, b both outputs of a, d an output of b and another   *)
(* coinbase.  x and z reveal the same nullifier, y spends from the         *)
(* commitment tree with those of z.  cb1 matures at height 3 and can come  *)
(* again at height 4, once it is spent: alone or in the block of d.        *)
(***************************************************************************)
EXTENDS Mempool, TLC

MCTxs == {"cb1", "cb2", "cb3", "a", "b", "c", "d", "x", "y", "z"}
MCCoinBases == {"cb1", "cb2", "cb3"}

Output(t, p) == [hash |-> t, n |-> p]

MCVin == [t \in MCTxs |->
    CASE t \in {"a", "c"} -> <<Output("cb1", 0)>>
      [] t = "b" -> <<Output("a", 1), Output("a", 0)>>
      [] t = "d" -> <<Output("b", 1), Output("cb2", 0)>>
      [] OTHER -> <<>>]

MCVout == [t \in MCTxs |->
    [p \in {0, 1} |->
        CASE t = "a" -> IF p = 0 THEN "pay" ELSE "change"
          [] t = "b" -> IF p = 0 THEN "return" ELSE "pay"
          [] OTHER -> IF p = 0 THEN "pay" ELSE NULL]]

MCVersion == [t \in MCTxs |-> IF t \in {"x", "y", "z"} THEN 2 ELSE 1]
MCReveals == [t \in MCTxs |-> IF t \in {"x", "z"} THEN {"nf1"} ELSE IF t = "y" THEN {"nf2"} ELSE {}]
MCAnchor == [t \in MCTxs |-> IF t = "y" THEN <<"z">> ELSE <<>>]

MCBlocks == {<<"cb1">>, <<"cb1", "z">>, <<"cb2">>, <<"cb2", "y">>,
             <<"cb3", "x">>, <<"cb3", "c">>, <<"cb3", "a", "b">>,
             <<"cb1", "d">>}

\* The peers are interchangeable.
PeerSymmetry == Permutations(Peers)
=============================================================================
