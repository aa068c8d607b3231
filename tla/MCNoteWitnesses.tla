-------------------------- MODULE MCNoteWitnesses --------------------------
(***************************************************************************)
(* NoteWitnesses with a transaction that has notes for two keys, one with  *)
(* a note for one of them and a note of somebody else.                     *)
(***************************************************************************)
EXTENDS NoteWitnesses

MCTxNotes == [t \in Txs |-> IF t = "t1" THEN <<"n1", "n2">> ELSE <<"n3", "n4">>]
MCOwner == [n \in Notes |-> CASE n \in {"n1", "n4"} -> "k1" [] n = "n2" -> "k2" [] OTHER -> NULL]
MCBlocks == {<<>>, <<"t1">>, <<"t2">>, <<"t1", "t2">>, <<"t2", "t1">>}
=============================================================================
