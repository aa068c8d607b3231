------------------------------ MODULE BlockUndo ------------------------------
(***************************************************************************)
(* What ConnectBlock and DisconnectBlock (src/src/main.cpp) do to the set  *)
(* of unspent coins: UpdateCoins spends the inputs of a transaction one by *)
(* one and records undo data for each (src/src/undo.h); ApplyTxInUndo puts *)
(* them back in reverse order when the block is disconnected.              *)
(*                                                                         *)
(* CCoins (src/src/coins.h) is a record whose vout maps every position to  *)
(* an output or to NULL, so that Cleanup() needs no counterpart.  A CCoins *)
(* without outputs is never stored and compares equal to any other one:    *)
(* Pruned stands for all of them.  "tip" is *pcoinsTip and "view" the      *)
(* cache above it that ConnectTip and DisconnectTip flush or drop; their   *)
(* entries and flags are those of module CoinsCache.                       *)
(***************************************************************************)
EXTENDS Integers, Sequences, FiniteSets, Functions

CONSTANTS
    Txs,            \* transaction hashes
    Pos,            \* output positions
    Outs,           \* outputs (CTxOut)
    NULL,           \* the null CTxOut
    Unspendable,    \* outputs whose script is unspendable
    Vin,            \* the outpoints a transaction spends; none for a coinbase
    Vout,           \* its outputs by position, NULL after the last one
    Version,
    CoinBases,
    Nullifiers,
    Reveals,        \* the nullifiers revealed by its JoinSplits
    Anchor,         \* the root of the commitment tree that its JoinSplits spend from
    Blocks,         \* the vtx of blocks that pass CheckBlock
    Maturity,       \* COINBASE_MATURITY
    MaxHeight,      \* bound: the height of the chain
    MaxBlocks       \* bound: the blocks ever connected

OutPoint == [hash : Txs, n : Pos]

NoOutputs == [p \in Pos |-> NULL]

Pruned == [vout |-> NoOutputs, nHeight |-> 0, fCoinBase |-> FALSE, nVersion |-> 0]

\* A root of the commitment tree stands for the transactions whose commitments
\* the tree holds, in their order.
Root == Seq(Txs)

ASSUME BlockUndoAssumption ==
    /\ NULL \notin Outs
    /\ CoinBases \subseteq Txs
    /\ Vin \in [Txs -> Seq(OutPoint)]
    /\ \A t \in Txs : \A m, n \in 1 .. Len(Vin[t]) : Vin[t][m] = Vin[t][n] => m = n
    /\ Vout \in [Txs -> [Pos -> Outs \cup {NULL}]]
    /\ Version \in [Txs -> Nat]
    /\ Reveals \in [Txs -> SUBSET Nullifiers]
    /\ Anchor \in [Txs -> Root]
    /\ \A t \in Txs : t \in CoinBases <=> Vin[t] = <<>> /\ Reveals[t] = {}
    /\ Blocks \subseteq Seq(Txs)
    /\ \A vtx \in Blocks :
          /\ vtx # <<>> /\ vtx[1] \in CoinBases
          /\ \A n \in 2 .. Len(vtx) : vtx[n] \notin CoinBases
    /\ Maturity \in Nat /\ MaxHeight \in Nat /\ MaxBlocks \in Nat

VARIABLES
    chain,  \* the vtx of the active blocks, from height 1 on
    rev,    \* the undo data on disk, by block: a block is known by the chain it ends
    tip,    \* *pcoinsTip: coins, nullifiers, anchors and the best anchor
    view,   \* the view of the block at work
    pc,     \* where ConnectBlock or DisconnectBlock is
    block,  \* its vtx
    i, j,   \* applied so far: i transactions, and j inputs of the one after them
    undo,   \* blockundo; undo[1] is the undoDummy of the coinbase
    fClean

vars == <<chain, rev, tip, view, pc, block, i, j, undo, fClean>>

\* Before a block is connected above the genesis block, whose coinbase is skipped.
Init ==
    /\ chain = <<>> /\ rev = [c \in {} |-> <<>>]
    /\ tip = [coins |-> [t \in Txs |-> Pruned], nullifiers |-> {}, anchors |-> {<<>>}, best |-> <<>>]
    /\ view = tip
    /\ pc = "idle" /\ block = <<>> /\ i = 0 /\ j = 0 /\ undo = <<>> /\ fClean = TRUE

-----------------------------------------------------------------------------
(* CCoins and CTxInUndo.  An operator whose comment says "mutant" is a bug *)
(* that one of the properties must detect.                                 *)

Stored(c) == IF c.vout = NoOutputs THEN Pruned ELSE c

IsAvailable(coins, out) == coins[out.hash].vout[out.n] # NULL

FromTx(t, nHeight) ==
    Stored([vout      |-> [p \in Pos |-> IF Vout[t][p] \in Unspendable THEN NULL ELSE Vout[t][p]],
            nHeight   |-> nHeight,
            fCoinBase |-> t \in CoinBases,
            nVersion  |-> Version[t]])

Spend(c, n) == Stored([c EXCEPT !.vout[n] = NULL])

\* mutant: the metadata of a spent transaction is lost
SpentOutput(c, n) == [txout |-> c.vout[n], nHeight |-> 0, fCoinBase |-> FALSE, nVersion |-> 0]

\* The undo data of spending output n: with the metadata if it is the last one.
InUndo(c, n) ==
    IF Spend(c, n) = Pruned
    THEN [txout |-> c.vout[n], nHeight |-> c.nHeight, fCoinBase |-> c.fCoinBase, nVersion |-> c.nVersion]
    ELSE [txout |-> c.vout[n], nHeight |-> 0, fCoinBase |-> FALSE, nVersion |-> 0]

\* What CTxInUndo::Unserialize gets from the bytes of Serialize.
ReadBack(u) == [u EXCEPT !.nVersion = IF u.nHeight > 0 THEN @ ELSE 0]

-----------------------------------------------------------------------------
(* ConnectBlock, in a view that ConnectTip flushes *)

nHeight == Len(chain) + 1

\* The transaction at work
Tx == block[i + 1]

\* BIP30: a transaction may come again once all its outputs are spent.
OverwritesUnspent(vtx) == \E n \in 1 .. Len(vtx) : tip.coins[vtx[n]] # Pruned

BeginConnect(vtx) ==
    /\ pc = "idle" /\ Len(chain) < MaxHeight
    /\ Append(chain, vtx) \in DOMAIN rev \/ Cardinality(DOMAIN rev) < MaxBlocks
    /\ ~ OverwritesUnspent(vtx)
    /\ pc' = "tx" /\ block' = vtx
    /\ UNCHANGED <<chain, rev, tip, view, i, j, undo, fClean>>

HaveInputs(t) == \A n \in 1 .. Len(Vin[t]) : IsAvailable(view.coins, Vin[t][n])

IsShielded(t) == Reveals[t] # {}

HaveJoinSplitRequirements(t) ==
    IsShielded(t) => Reveals[t] \cap view.nullifiers = {} /\ Anchor[t] \in view.anchors

\* ContextualCheckInputs: the coinbases among the inputs are old enough.
Matured(t) ==
    \A n \in 1 .. Len(Vin[t]) :
        LET c == view.coins[Vin[t][n].hash] IN c.fCoinBase => nHeight - c.nHeight >= Maturity

BeginTx ==
    /\ pc = "tx" /\ i < Len(block)
    /\ HaveInputs(Tx) /\ HaveJoinSplitRequirements(Tx) /\ Matured(Tx)
    /\ pc' = "spend" /\ undo' = Append(undo, <<>>)
    /\ UNCHANGED <<chain, rev, tip, view, block, i, j, fClean>>

\* UpdateCoins: one input
SpendInput ==
    /\ pc = "spend" /\ j < Len(Vin[Tx])
    /\ LET out == Vin[Tx][j + 1]
           c   == view.coins[out.hash]
       IN /\ IsAvailable(view.coins, out)
          /\ view' = [view EXCEPT !.coins[out.hash] = Spend(c, out.n)]
          /\ undo' = [undo EXCEPT ![i + 1] = Append(@, InUndo(c, out.n))]
    /\ j' = j + 1
    /\ UNCHANGED <<chain, rev, tip, pc, block, i, fClean>>

\* UpdateCoins: nullifiers and outputs
AddOutputs ==
    /\ pc = "spend" /\ j = Len(Vin[Tx])
    /\ view' = [view EXCEPT !.coins[Tx] = FromTx(Tx, nHeight), !.nullifiers = @ \cup Reveals[Tx]]
    /\ pc' = "tx" /\ i' = i + 1 /\ j' = 0
    /\ UNCHANGED <<chain, rev, tip, block, undo, fClean>>

Idle == pc' = "idle" /\ block' = <<>> /\ i' = 0 /\ j' = 0 /\ undo' = <<>> /\ fClean' = TRUE

\* A missing input, a script, an amount or another check fails, or the caller
\* only tests the block: the view is dropped.
RejectBlock ==
    /\ pc = "tx"
    /\ view' = tip
    /\ Idle
    /\ UNCHANGED <<chain, rev, tip>>

WrittenUndo == [n \in 1 .. Len(undo) |-> [m \in 1 .. Len(undo[n]) |-> ReadBack(undo[n][m])]]

\* The transactions of a block that have commitments
ShieldedOf(vtx) ==
    LET some[n \in 0 .. Len(vtx)] ==
            IF n = 0 THEN <<>> ELSE IF IsShielded(vtx[n]) THEN Append(some[n - 1], vtx[n]) ELSE some[n - 1]
    IN some[Len(vtx)]

\* The tree with the commitments of the block
Tree == view.best \o ShieldedOf(block)

PushAnchor(v, root) == [v EXCEPT !.anchors = @ \cup {root}, !.best = root]

PopAnchor(v, root) == [v EXCEPT !.anchors = IF v.best = root THEN @ ELSE @ \ {v.best}, !.best = root]

\* The undo data is written when the block is connected for the first time.
FinishConnect ==
    /\ pc = "tx" /\ i = Len(block)
    /\ chain' = Append(chain, block)
    /\ rev' = [c \in DOMAIN rev \cup {chain'} |-> IF c \in DOMAIN rev THEN rev[c]
                                                    ELSE [vtxundo |-> WrittenUndo, old_tree_root |-> view.best]]
    /\ tip' = PushAnchor(view, Tree)
    /\ view' = tip'
    /\ Idle

-----------------------------------------------------------------------------
(* DisconnectBlock, in a view that DisconnectTip flushes *)

\* The sizes of the undo data are compared here for all transactions at once:
\* when one of them is wrong, the view is dropped, whatever was done in it.
BeginDisconnect ==
    /\ pc = "idle" /\ chain # <<>>
    /\ block' = chain[Len(chain)]
    /\ undo' = rev[chain].vtxundo
    /\ Len(undo') = Len(block')
    /\ \A n \in 1 .. Len(block') : Len(undo'[n]) = Len(Vin[block'[n]])
    /\ pc' = "undo" /\ i' = Len(block')
    /\ UNCHANGED <<chain, rev, tip, view, j, fClean>>

NullifiersWithout(t) == view.nullifiers \ Reveals[t]

RemoveOutputs ==
    /\ pc = "undo" /\ j = 0 /\ i > 0
    /\ i' = i - 1
    /\ LET tx == block[i]
       IN /\ fClean' = (fClean /\ view.coins[tx] = FromTx(tx, Len(chain)))
          /\ view' = [view EXCEPT !.coins[tx] = Pruned, !.nullifiers = NullifiersWithout(tx)]
          /\ j' = Len(Vin[tx])
    /\ UNCHANGED <<chain, rev, tip, pc, block, undo>>

\* ApplyTxInUndo: the coins it leaves, and whether it found what it expected
RestoredCoins(u, c, n) ==
    LET kept == IF u.nHeight # 0
                THEN [Pruned EXCEPT !.nHeight = u.nHeight, !.fCoinBase = u.fCoinBase, !.nVersion = u.nVersion]
                ELSE c
    IN [kept EXCEPT !.vout[n] = u.txout]

UndoFits(u, c, n) == (u.nHeight # 0 <=> c = Pruned) /\ c.vout[n] = NULL

\* Inputs are restored from the last one to the first.
RestoreInput ==
    /\ pc = "undo" /\ j > 0
    /\ LET out == Vin[Tx][j]
           u   == undo[i + 1][j]
           c   == view.coins[out.hash]
       IN /\ view' = [view EXCEPT !.coins[out.hash] = RestoredCoins(u, c, out.n)]
          /\ fClean' = (fClean /\ UndoFits(u, c, out.n))
    /\ j' = j - 1
    /\ UNCHANGED <<chain, rev, tip, pc, block, i, undo>>

\* DisconnectTip drops the view when it was not clean.
FinishDisconnect ==
    /\ pc = "undo" /\ i = 0 /\ j = 0
    /\ chain' = IF fClean THEN SubSeq(chain, 1, Len(chain) - 1) ELSE chain
    /\ tip' = IF fClean THEN PopAnchor(view, rev[chain].old_tree_root) ELSE tip
    /\ view' = tip'
    /\ Idle
    /\ UNCHANGED rev

\* The steps that leave chain and tip alone
BlockStep ==
    \/ BeginTx \/ SpendInput \/ AddOutputs \/ RejectBlock
    \/ RemoveOutputs \/ RestoreInput

-----------------------------------------------------------------------------
(* Properties *)

\* The places of transactions in the blocks of a, of the last of them the first m.
Places(a, m) == UNION {{h} \X (1 .. IF h = Len(a) THEN m ELSE Len(a[h])) : h \in 1 .. Len(a)}

Before(q, r) == q[1] < r[1] \/ (q[1] = r[1] /\ q[2] < r[2])

TxAt(a, q) == a[q[1]][q[2]]

LastPlace(a, m, t, q) ==
    q \in Places(a, m) /\ TxAt(a, q) = t /\ \A r \in Places(a, m) : TxAt(a, r) = t => ~ Before(q, r)

\* Is out, created at q, spent by a transaction after q, or by one of the first n
\* inputs of the transaction that comes next?
Spent(a, m, n, out, q) ==
    \/ \E r \in Places(a, m) : Before(q, r) /\ \E x \in 1 .. Len(Vin[TxAt(a, r)]) : Vin[TxAt(a, r)][x] = out
    \/ \E x \in 1 .. n : Vin[a[Len(a)][m + 1]][x] = out

\* What is left of the coins of t, created at q
LeftOf(a, m, n, t, q) ==
    Stored([FromTx(t, q[1]) EXCEPT
              !.vout = [p \in Pos |-> IF Spent(a, m, n, [hash |-> t, n |-> p], q) THEN NULL ELSE @[p]]])

\* The coins of t as they follow from the blocks, without spending or restoring.
CoinsAt(a, m, n, t) ==
    IF \E q \in Places(a, m) : LastPlace(a, m, t, q)
    THEN LeftOf(a, m, n, t, CHOOSE q \in Places(a, m) : LastPlace(a, m, t, q))
    ELSE Pruned

NullifiersAt(a, m) == UNION {Reveals[TxAt(a, q)] : q \in Places(a, m)}

\* The roots of the commitment tree after the blocks of a
RootsOf(a) ==
    LET root[h \in 0 .. Len(a)] == IF h = 0 THEN <<>> ELSE root[h - 1] \o ShieldedOf(a[h])
    IN root

\* The anchors that are known with the blocks of a
AnchorsAt(a) == {RootsOf(a)[h] : h \in 0 .. Len(a)}

\* The blocks that are connected or at work, and the transactions of the last of
\* them that are applied.
Applied == IF pc \in {"tx", "spend"} THEN Append(chain, block) ELSE chain

LastTxs(a) == IF a = <<>> THEN 0 ELSE Len(a[Len(a)])

AppliedTxs == IF pc # "idle" THEN i ELSE LastTxs(chain)

\* The coins of the view are, at every step of connecting and of disconnecting
\* a block, the unspent outputs of the transactions applied so far, with the
\* height, version and coinbase flag of their last inclusion.  So disconnecting
\* a block restores what connecting it has changed, although an input spends
\* the last output of a transaction created in the same block, or of one that
\* comes a second time, and although the undo data on disk is that of the first
\* time the block was connected.  The nullifiers are those the transactions
\* revealed, and the anchors the roots of the tree after every active block.
\* No "undo data overwriting existing transaction", "added transaction mismatch"
\* or other sign of a corrupted database is reported (fClean), and assert(false)
\* in UpdateCoins is not reached: an input is there when it is spent, although
\* the inputs were checked before the first of them was spent.
CoinsExact ==
    /\ \A t \in Txs : view.coins[t] = CoinsAt(Applied, AppliedTxs, j, t)
    /\ view.nullifiers = NullifiersAt(Applied, AppliedTxs)
    /\ view.best = RootsOf(chain)[Len(chain)]
    /\ view.anchors = AnchorsAt(chain)
    /\ fClean
    /\ pc = "spend" /\ j < Len(Vin[Tx]) => IsAvailable(view.coins, Vin[Tx][j + 1])
=============================================================================
