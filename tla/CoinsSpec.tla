------------------------------ MODULE CoinsSpec ------------------------------
(***************************************************************************)
(* What the stack of coins views (src/src/coins.h) promises: the state of  *)
(* the unspent outputs, the nullifiers and the note commitment anchors is  *)
(* one value per level, with no caches and no flags.                       *)
(*                                                                         *)
(*   disk  what a restart finds in the coin database;                      *)
(*   tip   the state after the best block, seen through pcoinsTip;         *)
(*   work  the state seen through the view of the block being connected or *)
(*         disconnected, equal to tip when there is none.                  *)
(*                                                                         *)
(* Changes are made to work alone; a finished block replaces tip by work   *)
(* in one step, a failed one leaves tip as it was, a flush replaces disk   *)
(* by tip in one step, and a crash falls back on disk.                     *)
(***************************************************************************)
EXTENDS Integers

CONSTANTS
    Txids,
    Coins,          \* the values of CCoins with an unspent output
    Pruned,         \* the CCoins without one, the same as no CCoins at all
    Nullifiers,
    Roots,          \* roots of the note commitment tree
    EmptyRoot,
    Size,           \* the number of commitments in the tree of a root
    BlockHashes,
    NullHash        \* the null hash

VARIABLES disk, tip, work

vars == <<disk, tip, work>>

Init ==
    /\ tip = [coins      |-> [x \in Txids |-> Pruned],
              nullifiers |-> {},
              anchors    |-> {EmptyRoot},
              block      |-> NullHash,
              anchor     |-> EmptyRoot]
    /\ disk = tip
    /\ work = tip

Change(w) == work' = w /\ UNCHANGED <<disk, tip>>

Modify(x, c) == Change([work EXCEPT !.coins[x] = c])

Spend(n) == Change([work EXCEPT !.nullifiers = @ \cup {n}])

Unspend(n) == Change([work EXCEPT !.nullifiers = @ \ {n}])

(* The commitment tree only grows: an anchor is added above all others ... *)
Push(r) ==
    /\ \A a \in work.anchors : Size[a] < Size[r]
    /\ Change([work EXCEPT !.anchors = @ \cup {r}, !.anchor = r])

(* ... and the best one is removed, which uncovers the one below it.       *)
Pop(r) ==
    /\ r \in work.anchors \ {work.anchor}
    /\ \A a \in work.anchors \ {work.anchor} : Size[a] <= Size[r]
    /\ Change([work EXCEPT !.anchors = @ \ {work.anchor}, !.anchor = r])

SetBestBlock(b) == Change([work EXCEPT !.block = b])

Commit == tip' = work /\ UNCHANGED <<disk, work>>

Discard == work' = tip /\ UNCHANGED <<disk, tip>>

Sync == work = tip /\ disk' = tip /\ UNCHANGED <<tip, work>>

Crash == tip' = disk /\ work' = disk /\ UNCHANGED disk

Next ==
    \/ \E x \in Txids, c \in Coins \cup {Pruned} : Modify(x, c)
    \/ \E n \in Nullifiers : Spend(n) \/ Unspend(n)
    \/ \E r \in Roots : Push(r) \/ Pop(r)
    \/ \E b \in BlockHashes : SetBestBlock(b)
    \/ Commit
    \/ Discard
    \/ Sync
    \/ Crash

Spec == Init /\ [][Next]_vars

=============================================================================
