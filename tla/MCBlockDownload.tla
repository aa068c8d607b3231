-------------------------- MODULE MCBlockDownload --------------------------
(***************************************************************************)
(* BlockDownload on the chain 0 - 1 - 2 with a block 3 above 1 that does   *)
(* not connect and has more work than 2.                                   *)
(***************************************************************************)
EXTENDS BlockDownload, TLC

MCParent == (1 :> 0) @@ (2 :> 1) @@ (3 :> 1)
MCAncestors == (0 :> {0}) @@ (1 :> {0, 1}) @@ (2 :> {0, 1, 2}) @@ (3 :> {0, 1, 3})
MCHeight == (0 :> 0) @@ (1 :> 1) @@ (2 :> 2) @@ (3 :> 2)
MCAnnounced == [n \in Nodes |-> {Best}]
MCHeadersUpTo == [n \in Nodes |-> IF n \in Prompt THEN {Best} ELSE {3}]
MCWork == (0 :> 0) @@ (1 :> 1) @@ (2 :> 2) @@ (3 :> 3)
=============================================================================
