--------------------------- MODULE BlockUndoProofs ---------------------------
(***************************************************************************)
(* ConnectBlock and DisconnectBlock are inverse to each other: in every    *)
(* state the coins, the nullifiers and the anchors of the tip are the ones *)
(* that the blocks of the chain give when they are applied one output at a *)
(* time, and DisconnectBlock meets no inconsistency on its way.            *)
(*                                                                         *)
(* CoinsAt(a, m, n, t) is what CCoins has to be for transaction t after m  *)
(* transactions of the last block of a, and n inputs of the next one, were *)
(* applied.  It is not defined by recursion along the chain but by the     *)
(* last place at which t was included and by the spends after it: a step   *)
(* then changes one place, and the proof of a step needs no induction.     *)
(*                                                                         *)
(* BlockInv says that the view is there at every step of connecting and    *)
(* disconnecting, that the undo data is what the inputs were when they     *)
(* were spent, and what the checks of ConnectBlock made sure of.  The      *)
(* roots of the commitment tree and the shielded transactions of a block   *)
(* are defined by recursion; Recursion and UpTo, at the beginning, take    *)
(* the place of the induction that a lemma with a predicate would allow.   *)
(***************************************************************************)
EXTENDS BlockUndo, WellFoundedInduction, TLAPS

-----------------------------------------------------------------------------
(* Induction and recursion up to a bound. *)

\* A set that holds 0, and n + 1 whenever it holds n, holds the numbers up to the
\* bound.
LEMMA UpTo ==
    ASSUME NEW N \in Nat, NEW T, 0 \in T, \A n \in 0 .. N - 1 : n \in T => n + 1 \in T
    PROVE  \A n \in 0 .. N : n \in T
<1> DEFINE bad == {n \in Nat : n <= N /\ n \notin T}
           less == {ss \in Nat \X Nat : ss[1] < ss[2]}
<1>1. SUFFICES bad = {}
  OBVIOUS
<1>2. SUFFICES ASSUME bad # {} PROVE FALSE
  OBVIOUS
<1>3. IsWellFoundedOn(less, Nat)
  BY Zenon, NatLessThanWellFounded DEF OpToRel
<1>4. PICK n \in bad : \A m \in bad : ~(<<m, n>> \in less)
  <2>1. bad \subseteq Nat
    OBVIOUS
  <2> HIDE DEF bad, less
  <2> QED BY Zenon, <1>2, <1>3, <2>1, WFMin
<1>5. n # 0 /\ n - 1 \in 0 .. N - 1 /\ n = (n - 1) + 1
  OBVIOUS
<1>6. n - 1 \notin T
  BY Zenon, <1>5
<1>7. n - 1 \in bad /\ <<n - 1, n>> \in less
  BY <1>5, <1>6
<1> QED BY Zenon, <1>4, <1>7

\* The values f[0], ..., f[N] of a recursion that starts with b
Follows(f, N, X, b, step) ==
    f \in [0 .. N -> X] /\ f[0] = b /\ \A n \in 1 .. N : f[n] = step[<<n, f[n - 1]>>]

\* A recursion over 1 .. N has values in a set that its steps do not leave.
LEMMA Recursion ==
    ASSUME NEW N \in Nat, NEW X, NEW b \in X, NEW step \in [(1 .. N) \X X -> X]
    PROVE  \E f : Follows(f, N, X, b, step)
<1> DEFINE Right(f, m) == f[0] = b /\ \A n \in 1 .. m : f[n] = step[<<n, f[n - 1]>>]
           T == {m \in 0 .. N : \E f \in [0 .. m -> X] : Right(f, m)}
<1>1. 0 \in T
  <2>1. [n \in 0 .. 0 |-> b] \in [0 .. 0 -> X] /\ Right([n \in 0 .. 0 |-> b], 0)
    OBVIOUS
  <2>2. 0 \in 0 .. N
    OBVIOUS
  <2> QED BY Zenon, <2>1, <2>2
<1>2. ASSUME NEW m \in 0 .. N - 1, m \in T PROVE m + 1 \in T
  <2>1. PICK f \in [0 .. m -> X] : Right(f, m)
    BY Zenon, <1>2
  <2> DEFINE g == [n \in 0 .. m + 1 |-> IF n <= m THEN f[n] ELSE step[<<m + 1, f[m]>>]]
  <2>2. step[<<m + 1, f[m]>>] \in X
    <3>1. <<m + 1, f[m]>> \in (1 .. N) \X X
      OBVIOUS
    <3> QED BY <3>1
  <2>3. g \in [0 .. m + 1 -> X]
    BY <2>2
  <2>4. \A n \in 0 .. m : g[n] = f[n]
    OBVIOUS
  <2>5. g[m + 1] = step[<<m + 1, f[m]>>]
    OBVIOUS
  <2>6. Right(g, m + 1)
    <3> HIDE DEF g
    <3>1. g[0] = b
      BY <2>1, <2>4
    <3>2. ASSUME NEW n \in 1 .. m + 1 PROVE g[n] = step[<<n, g[n - 1]>>]
      <4>1. CASE n = m + 1
        <5>1. g[n - 1] = f[m]
          BY <2>4, <4>1
        <5> QED BY <2>5, <4>1, <5>1
      <4>2. CASE n # m + 1
        <5>1. n \in 0 .. m /\ n - 1 \in 0 .. m /\ n \in 1 .. m
          BY <4>2
        <5> QED BY <2>1, <2>4, <5>1
      <4> QED BY <4>1, <4>2
    <3> QED BY <3>1, <3>2
  <2>7. m + 1 \in 0 .. N
    OBVIOUS
  <2> HIDE DEF g
  <2> QED BY SMTT(30), <2>3, <2>6, <2>7
<1>3. N \in T
  <2>1. \A n \in 0 .. N : n \in T
    <3> HIDE DEF T
    <3> QED BY Zenon, <1>1, <1>2, UpTo
  <2>2. N \in 0 .. N
    OBVIOUS
  <2> QED BY Zenon, <2>1, <2>2
<1> QED BY Zenon, <1>3 DEF Follows
-----------------------------------------------------------------------------
(* CCoins and CTxInUndo. *)

Coin == [vout : [Pos -> Outs \cup {NULL}], nHeight : Nat, fCoinBase : BOOLEAN, nVersion : Nat]

TxInUndo == [txout : Outs \cup {NULL}, nHeight : Nat, fCoinBase : BOOLEAN, nVersion : Nat]

View == [coins : [Txs -> Coin], nullifiers : SUBSET Nullifiers, anchors : SUBSET Root, best : Root]

\* The output at position p of t, if it can be spent.
Spendable(t, p) == IF Vout[t][p] \in Unspendable THEN NULL ELSE Vout[t][p]

\* Every CCoins without outputs counts as the same one (Stored).
LEMMA StoredParts ==
    ASSUME NEW c \in Coin
    PROVE  /\ Stored(c) \in Coin /\ Stored(c).vout = c.vout
           /\ c.vout # NoOutputs => Stored(c) = c
           /\ c.vout = NoOutputs => Stored(c) = Pruned
           /\ Pruned \in Coin /\ Pruned.vout = NoOutputs
BY DEF Stored, Coin, Pruned, NoOutputs

\* The coins of a transaction that is just included (CCoins::FromTx).
LEMMA FromTxParts ==
    ASSUME NEW t \in Txs, NEW h \in Nat
    PROVE  /\ FromTx(t, h) \in Coin
           /\ FromTx(t, h).vout = [p \in Pos |-> Spendable(t, p)]
           /\ FromTx(t, h).vout # NoOutputs =>
                 /\ FromTx(t, h).nHeight = h /\ FromTx(t, h).fCoinBase = (t \in CoinBases)
                 /\ FromTx(t, h).nVersion = Version[t]
           /\ FromTx(t, h).vout = NoOutputs => FromTx(t, h) = Pruned
<1> DEFINE c == [vout      |-> [p \in Pos |-> IF Vout[t][p] \in Unspendable THEN NULL ELSE Vout[t][p]],
                 nHeight   |-> h,
                 fCoinBase |-> t \in CoinBases,
                 nVersion  |-> Version[t]]
<1>1. c \in Coin
  BY BlockUndoAssumption DEF Coin
<1>2. FromTx(t, h) = Stored(c)
  BY Zenon DEF FromTx
<1>3. c.vout = [p \in Pos |-> Spendable(t, p)] /\ c.nHeight = h /\ c.fCoinBase = (t \in CoinBases) /\ c.nVersion = Version[t]
  BY DEF Spendable
<1> HIDE DEF c
<1> QED BY <1>1, <1>2, <1>3, StoredParts

\* Spending an output: the others stay.
LEMMA SpendParts ==
    ASSUME NEW c \in Coin, NEW n \in Pos
    PROVE  /\ Spend(c, n) \in Coin
           /\ Spend(c, n).vout = [c.vout EXCEPT ![n] = NULL]
           /\ Spend(c, n).vout # NoOutputs => Spend(c, n) = [c EXCEPT !.vout[n] = NULL]
           /\ Spend(c, n).vout = NoOutputs => Spend(c, n) = Pruned
<1> DEFINE d == [c EXCEPT !.vout[n] = NULL]
<1>1. d \in Coin /\ d.vout = [c.vout EXCEPT ![n] = NULL]
  BY DEF Coin
<1>2. Spend(c, n) = Stored(d)
  BY Zenon DEF Spend
<1> HIDE DEF d
<1>3. Spend(c, n) \in Coin /\ Spend(c, n).vout = d.vout
  BY Zenon, <1>1, <1>2, StoredParts
<1>4. d.vout # NoOutputs => Spend(c, n) = d
  BY Zenon, <1>1, <1>2, StoredParts
<1>5. d.vout = NoOutputs => Spend(c, n) = Pruned
  BY Zenon, <1>1, <1>2, StoredParts
<1> QED BY Zenon, <1>1, <1>3, <1>4, <1>5 DEF d

\* The undo data of an input, as it is recorded and as it is read back.
LEMMA InUndoTyped ==
    ASSUME NEW c \in Coin, NEW n \in Pos
    PROVE  InUndo(c, n) \in TxInUndo
BY DEF InUndo, TxInUndo, Coin

\* What UNSERIALIZE of a CTxInUndo gives is one.
LEMMA ReadBackTyped ==
    ASSUME NEW u \in TxInUndo
    PROVE  ReadBack(u) \in TxInUndo
BY DEF ReadBack, TxInUndo

\* What ApplyTxInUndo leaves is a CCoins.
LEMMA RestoredTyped ==
    ASSUME NEW u \in TxInUndo, NEW c \in Coin, NEW n \in Pos
    PROVE  RestoredCoins(u, c, n) \in Coin
BY Zenon DEF RestoredCoins, TxInUndo, Coin, Pruned, NoOutputs

\* ApplyTxInUndo takes back what UpdateCoins did to one input, from the undo data
\* as it is on disk: the height of a transaction is never 0.
LEMMA RestoreInvertsSpend ==
    ASSUME NEW c \in Coin, NEW n \in Pos, c.vout[n] # NULL, c.nHeight # 0
    PROVE  /\ RestoredCoins(ReadBack(InUndo(c, n)), Spend(c, n), n) = c
           /\ UndoFits(ReadBack(InUndo(c, n)), Spend(c, n), n)
<1> DEFINE s == Spend(c, n)
           u == ReadBack(InUndo(c, n))
<1>1. s \in Coin /\ s.vout = [c.vout EXCEPT ![n] = NULL]
  BY Zenon, SpendParts
<1>2. s.vout # NoOutputs => s = [c EXCEPT !.vout[n] = NULL]
  BY Zenon, SpendParts
<1>3. s.vout = NoOutputs => s = Pruned
  BY Zenon, SpendParts
<1>4. s = Pruned => s.vout = NoOutputs
  BY DEF Pruned
<1>5. CASE s = Pruned
  <2>1. u = [txout |-> c.vout[n], nHeight |-> c.nHeight, fCoinBase |-> c.fCoinBase, nVersion |-> c.nVersion]
    BY <1>5 DEF InUndo, ReadBack, Coin
  <2> HIDE DEF s, u
  <2>2. \A p \in Pos : p # n => c.vout[p] = NULL
    BY <1>1, <1>4, <1>5 DEF NoOutputs, Coin
  <2>3. RestoredCoins(u, s, n) = [vout |-> [NoOutputs EXCEPT ![n] = c.vout[n]], nHeight |-> c.nHeight,
                                   fCoinBase |-> c.fCoinBase, nVersion |-> c.nVersion]
    <3>1. u.nHeight # 0 /\ u.nHeight = c.nHeight /\ u.fCoinBase = c.fCoinBase /\ u.nVersion = c.nVersion /\ u.txout = c.vout[n]
      BY <2>1
    <3> DEFINE kept == [Pruned EXCEPT !.nHeight = c.nHeight, !.fCoinBase = c.fCoinBase, !.nVersion = c.nVersion]
    <3>2. RestoredCoins(u, s, n) = [kept EXCEPT !.vout[n] = c.vout[n]]
      BY <3>1 DEF RestoredCoins
    <3>3. kept \in Coin /\ kept.vout = NoOutputs /\ kept.nHeight = c.nHeight /\ kept.fCoinBase = c.fCoinBase /\ kept.nVersion = c.nVersion
      BY Zenon DEF Pruned, Coin, NoOutputs
    <3> HIDE DEF kept
    <3> QED BY <3>2, <3>3 DEF Coin
  <2>4. [NoOutputs EXCEPT ![n] = c.vout[n]] = c.vout
    BY <2>2 DEF NoOutputs, Coin
  <2>5. RestoredCoins(u, s, n) = c
    BY <2>3, <2>4 DEF Coin
  <2>6. UndoFits(u, s, n)
    BY <1>5, <2>1 DEF UndoFits, Pruned, NoOutputs, Coin
  <2> QED BY Zenon, <2>5, <2>6 DEF s, u
<1>6. CASE s # Pruned
  <2>1. u = [txout |-> c.vout[n], nHeight |-> 0, fCoinBase |-> FALSE, nVersion |-> 0]
    <3>1. InUndo(c, n) = [txout |-> c.vout[n], nHeight |-> 0, fCoinBase |-> FALSE, nVersion |-> 0]
      BY Zenon, <1>6 DEF InUndo
    <3> DEFINE w == [txout |-> c.vout[n], nHeight |-> 0, fCoinBase |-> FALSE, nVersion |-> 0]
    <3>2. w.nHeight = 0 /\ u = [w EXCEPT !.nVersion = IF w.nHeight > 0 THEN @ ELSE 0]
      BY <3>1 DEF ReadBack
    <3>3. u = [w EXCEPT !.nVersion = 0]
      <4> HIDE DEF w
      <4> QED BY <3>2
    <3>4. [w EXCEPT !.nVersion = 0] = w
      <4>1. w \in TxInUndo /\ w.nVersion = 0
        BY DEF TxInUndo, Coin
      <4> HIDE DEF w
      <4> QED BY <4>1 DEF TxInUndo
    <3> QED BY Zenon, <3>3, <3>4
  <2> HIDE DEF s, u
  <2>2. s = [c EXCEPT !.vout[n] = NULL]
    BY Zenon, <1>2, <1>3, <1>6
  <2>3. RestoredCoins(u, s, n) = [s EXCEPT !.vout[n] = c.vout[n]]
    BY <2>1 DEF RestoredCoins
  <2>4. RestoredCoins(u, s, n) = c
    <3>1. /\ c.vout \in [Pos -> Outs \cup {NULL}]
          /\ c = [vout |-> c.vout, nHeight |-> c.nHeight, fCoinBase |-> c.fCoinBase, nVersion |-> c.nVersion]
      BY DEF Coin
    <3>2. s = [vout |-> [c.vout EXCEPT ![n] = NULL], nHeight |-> c.nHeight, fCoinBase |-> c.fCoinBase, nVersion |-> c.nVersion]
      BY <2>2, <3>1
    <3>3. RestoredCoins(u, s, n) = [vout |-> [[c.vout EXCEPT ![n] = NULL] EXCEPT ![n] = c.vout[n]], nHeight |-> c.nHeight,
                                     fCoinBase |-> c.fCoinBase, nVersion |-> c.nVersion]
      BY <2>3, <3>2
    <3>4. [[c.vout EXCEPT ![n] = NULL] EXCEPT ![n] = c.vout[n]] = c.vout
      BY Zenon, <3>1
    <3> QED BY <3>1, <3>3, <3>4
  <2>5. UndoFits(u, s, n)
    BY <1>6, <2>1, <2>2 DEF UndoFits, Coin
  <2> QED BY Zenon, <2>4, <2>5 DEF s, u
<1> QED BY Zenon, <1>5, <1>6

-----------------------------------------------------------------------------
(* The places of transactions in the chain. *)

\* The blocks of a chain
LEMMA BlocksOfChain ==
    ASSUME NEW a \in Seq(Blocks), NEW h \in 1 .. Len(a)
    PROVE  a[h] \in Blocks /\ a[h] \in Seq(Txs) /\ a[h] # <<>> /\ Len(a[h]) \in Nat /\ Len(a[h]) # 0
<1>1. a[h] \in Blocks
  OBVIOUS
<1>2. a[h] \in Seq(Txs) /\ a[h] # <<>>
  BY Zenon, <1>1, BlockUndoAssumption
<1> QED BY <1>1, <1>2

\* A place is a height and an index in the block of that height.
LEMMA PlacesAre ==
    ASSUME NEW a \in Seq(Blocks), NEW m \in Nat, NEW q
    PROVE  /\ q \in Places(a, m) <=>
                 /\ q = <<q[1], q[2]>> /\ q[1] \in 1 .. Len(a) /\ q[2] \in Nat /\ q[2] >= 1
                 /\ q[1] = Len(a) => q[2] <= m
                 /\ q[1] # Len(a) => q[2] <= Len(a[q[1]])
<1>1. \A h \in 1 .. Len(a) : Len(a[h]) \in Nat
  BY Zenon, BlocksOfChain
<1>2. ASSUME q \in Places(a, m)
      PROVE  \E h \in 1 .. Len(a) : \E x \in 1 .. (IF h = Len(a) THEN m ELSE Len(a[h])) : q = <<h, x>>
  <2>1. PICK h \in 1 .. Len(a) : q \in {h} \X (1 .. IF h = Len(a) THEN m ELSE Len(a[h]))
    BY Zenon, <1>2 DEF Places
  <2>2. PICK g \in {h}, x \in 1 .. (IF h = Len(a) THEN m ELSE Len(a[h])) : q = <<g, x>>
    BY <2>1
  <2> QED BY <2>2
<1>3. ASSUME NEW h \in 1 .. Len(a), NEW x \in 1 .. (IF h = Len(a) THEN m ELSE Len(a[h])), q = <<h, x>>
      PROVE  q \in Places(a, m)
  <2>1. q \in {h} \X (1 .. IF h = Len(a) THEN m ELSE Len(a[h]))
    BY <1>3
  <2> QED BY Zenon, <2>1 DEF Places
<1>4. ASSUME q \in Places(a, m)
      PROVE  /\ q = <<q[1], q[2]>> /\ q[1] \in 1 .. Len(a) /\ q[2] \in Nat /\ q[2] >= 1
             /\ q[1] = Len(a) => q[2] <= m
             /\ q[1] # Len(a) => q[2] <= Len(a[q[1]])
  BY <1>1, <1>2, <1>4
<1>5. ASSUME q = <<q[1], q[2]>>, q[1] \in 1 .. Len(a), q[2] \in Nat, q[2] >= 1,
             q[1] = Len(a) => q[2] <= m, q[1] # Len(a) => q[2] <= Len(a[q[1]])
      PROVE  q \in Places(a, m)
  <2>1. q[2] \in 1 .. (IF q[1] = Len(a) THEN m ELSE Len(a[q[1]]))
    BY <1>1, <1>5
  <2> QED BY Zenon, <1>3, <1>5, <2>1
<1> QED BY Zenon, <1>4, <1>5

\* The last place of a transaction is one place.
LEMMA LastPlaceUnique ==
    ASSUME NEW a \in Seq(Blocks), NEW m \in Nat, NEW t, NEW q, NEW r, LastPlace(a, m, t, q), LastPlace(a, m, t, r)
    PROVE  q = r
<1>1. q \in Places(a, m) /\ r \in Places(a, m) /\ ~ Before(q, r) /\ ~ Before(r, q)
  BY Zenon DEF LastPlace
<1>2. /\ q = <<q[1], q[2]>> /\ q[1] \in Nat /\ q[2] \in Nat
      /\ r = <<r[1], r[2]>> /\ r[1] \in Nat /\ r[2] \in Nat
  <2>1. /\ q = <<q[1], q[2]>> /\ q[1] \in 1 .. Len(a) /\ q[2] \in Nat
        /\ r = <<r[1], r[2]>> /\ r[1] \in 1 .. Len(a) /\ r[2] \in Nat
    BY Zenon, <1>1, PlacesAre
  <2> QED BY <2>1
<1>3. q[1] = r[1] /\ q[2] = r[2]
  BY <1>1, <1>2 DEF Before
<1> QED BY Zenon, <1>2, <1>3

\* The coins of a transaction follow from its last place.
LEMMA CoinsAtPlace ==
    ASSUME NEW a \in Seq(Blocks), NEW m \in Nat, NEW n, NEW t
    PROVE  /\ \A q : LastPlace(a, m, t, q) => CoinsAt(a, m, n, t) = LeftOf(a, m, n, t, q)
           /\ (\A q : ~ LastPlace(a, m, t, q)) => CoinsAt(a, m, n, t) = Pruned
<1>1. ASSUME NEW q, LastPlace(a, m, t, q) PROVE CoinsAt(a, m, n, t) = LeftOf(a, m, n, t, q)
  <2> DEFINE c == CHOOSE r \in Places(a, m) : LastPlace(a, m, t, r)
  <2>1. \E r \in Places(a, m) : LastPlace(a, m, t, r)
    BY Zenon, <1>1 DEF LastPlace
  <2>2. LastPlace(a, m, t, c)
    BY Zenon, <2>1
  <2>3. CoinsAt(a, m, n, t) = LeftOf(a, m, n, t, c)
    BY Zenon, <2>1 DEF CoinsAt
  <2> HIDE DEF c
  <2>4. c = q
    BY Zenon, <1>1, <2>2, LastPlaceUnique
  <2> QED BY Zenon, <2>3, <2>4
<1>2. ASSUME \A q : ~ LastPlace(a, m, t, q) PROVE CoinsAt(a, m, n, t) = Pruned
  BY Zenon, <1>2 DEF CoinsAt
<1> QED BY Zenon, <1>1, <1>2

\* What is left of t, which was added at place q, when the inputs up to n of the
\* block's transaction m are spent.
IsLeft(c, a, m, n, t, q) ==
    /\ c \in Coin
    /\ c.vout = [p \in Pos |-> IF Spent(a, m, n, [hash |-> t, n |-> p], q) THEN NULL ELSE Spendable(t, p)]
    /\ c.vout # NoOutputs => c.nHeight = q[1] /\ c.fCoinBase = (t \in CoinBases) /\ c.nVersion = Version[t]
    /\ c.vout = NoOutputs => c = Pruned

\* LeftOf is what it should be: the outputs that nobody spent, or nothing at all.
LEMMA LeftOfParts ==
    ASSUME NEW a \in Seq(Blocks), NEW m \in Nat, NEW n, NEW t \in Txs, NEW q, q[1] \in Nat
    PROVE  IsLeft(LeftOf(a, m, n, t, q), a, m, n, t, q)
<1> DEFINE f == FromTx(t, q[1])
           v == [p \in Pos |-> IF Spent(a, m, n, [hash |-> t, n |-> p], q) THEN NULL ELSE f.vout[p]]
           c == [f EXCEPT !.vout = v]
           s == [p \in Pos |-> IF Spent(a, m, n, [hash |-> t, n |-> p], q) THEN NULL ELSE Spendable(t, p)]
<1>1. f \in Coin /\ f.vout = [p \in Pos |-> Spendable(t, p)]
  BY Zenon, FromTxParts
<1>2. /\ f.vout # NoOutputs => f.nHeight = q[1] /\ f.fCoinBase = (t \in CoinBases) /\ f.nVersion = Version[t]
  BY Zenon, FromTxParts
<1>3. LeftOf(a, m, n, t, q) = Stored(c)
  BY DEF LeftOf
<1> HIDE DEF f
<1>4. v = s
  BY <1>1
<1>5. v \in [Pos -> Outs \cup {NULL}]
  BY <1>1 DEF Coin
<1>6. v # NoOutputs => f.vout # NoOutputs
  BY <1>1 DEF NoOutputs, Coin
<1> HIDE DEF v, s
<1>7. c \in Coin /\ c.vout = v /\ c.nHeight = f.nHeight /\ c.fCoinBase = f.fCoinBase /\ c.nVersion = f.nVersion
  BY <1>1, <1>5 DEF Coin
<1> HIDE DEF c
<1>8. Stored(c) \in Coin /\ Stored(c).vout = v /\ (v # NoOutputs => Stored(c) = c) /\ (v = NoOutputs => Stored(c) = Pruned)
  BY <1>7, StoredParts
<1> QED BY <1>2, <1>3, <1>4, <1>6, <1>7, <1>8 DEF s, IsLeft

\* What the coins of the chain are like: an unspent output is that of the
\* transaction, and its height is not 0.
LEMMA CoinsAtParts ==
    ASSUME NEW a \in Seq(Blocks), NEW m \in Nat, NEW n, NEW t \in Txs
    PROVE  /\ CoinsAt(a, m, n, t) \in Coin
           /\ CoinsAt(a, m, n, t) # Pruned => CoinsAt(a, m, n, t).nHeight # 0
           /\ CoinsAt(a, m, n, t).fCoinBase => t \in CoinBases
           /\ \A p \in Pos : CoinsAt(a, m, n, t).vout[p] # NULL => CoinsAt(a, m, n, t).vout[p] = Spendable(t, p)
<1>1. CASE \E q : LastPlace(a, m, t, q)
  <2>1. PICK q : LastPlace(a, m, t, q)
    BY <1>1
  <2>2. q[1] \in Nat /\ q[1] # 0
    <3>1. q[1] \in 1 .. Len(a)
      BY Zenon, <2>1, PlacesAre DEF LastPlace
    <3> QED BY <3>1
  <2> DEFINE c == LeftOf(a, m, n, t, q)
  <2>3. CoinsAt(a, m, n, t) = c
    BY Zenon, <2>1, CoinsAtPlace
  <2>a. IsLeft(c, a, m, n, t, q)
    BY Zenon, <2>2, LeftOfParts
  <2> HIDE DEF c
  <2>4. /\ c \in Coin
        /\ c.vout = [p \in Pos |-> IF Spent(a, m, n, [hash |-> t, n |-> p], q) THEN NULL ELSE Spendable(t, p)]
        /\ c.vout # NoOutputs => c.nHeight = q[1] /\ c.fCoinBase = (t \in CoinBases) /\ c.nVersion = Version[t]
        /\ c.vout = NoOutputs => c = Pruned
    BY Zenon, <2>a DEF IsLeft
  <2>5. c.fCoinBase => t \in CoinBases
    <3>1. CASE c.vout = NoOutputs
      <4>1. c = Pruned
        BY Zenon, <2>4, <3>1
      <4> QED BY <4>1 DEF Pruned
    <3>2. CASE c.vout # NoOutputs
      BY Zenon, <2>4, <3>2 DEF Coin
    <3> QED BY Zenon, <3>1, <3>2
  <2>6. c # Pruned => c.nHeight # 0
    BY Zenon, <2>2, <2>4
  <2>7. \A p \in Pos : c.vout[p] # NULL => c.vout[p] = Spendable(t, p)
    BY <2>4
  <2> QED BY Zenon, <2>3, <2>4, <2>5, <2>6, <2>7
<1>2. CASE \A q : ~ LastPlace(a, m, t, q)
  <2>1. CoinsAt(a, m, n, t) = Pruned
    BY Zenon, <1>2, CoinsAtPlace
  <2> QED BY <2>1 DEF Pruned, NoOutputs, Coin
<1> QED BY Zenon, <1>1, <1>2

\* The coins of t are the same at two positions of the chain when its last place
\* and the spends after it are.
LEMMA SameCoins ==
    ASSUME NEW a \in Seq(Blocks), NEW m \in Nat, NEW n, NEW b \in Seq(Blocks), NEW k \in Nat, NEW l, NEW t \in Txs,
           \A q : LastPlace(a, m, t, q) <=> LastPlace(b, k, t, q),
           \A q : LastPlace(a, m, t, q) =>
              \A p \in Pos : Spent(a, m, n, [hash |-> t, n |-> p], q) <=> Spent(b, k, l, [hash |-> t, n |-> p], q)
    PROVE  CoinsAt(a, m, n, t) = CoinsAt(b, k, l, t)
<1>1. CASE \E q : LastPlace(a, m, t, q)
  <2>1. PICK q : LastPlace(a, m, t, q)
    BY <1>1
  <2>2. CoinsAt(a, m, n, t) = LeftOf(a, m, n, t, q) /\ CoinsAt(b, k, l, t) = LeftOf(b, k, l, t, q)
    BY <2>1, CoinsAtPlace
  <2> DEFINE f == FromTx(t, q[1])
             v == [p \in Pos |-> IF Spent(a, m, n, [hash |-> t, n |-> p], q) THEN NULL ELSE f.vout[p]]
             w == [p \in Pos |-> IF Spent(b, k, l, [hash |-> t, n |-> p], q) THEN NULL ELSE f.vout[p]]
  <2>3. LeftOf(a, m, n, t, q) = Stored([f EXCEPT !.vout = v]) /\ LeftOf(b, k, l, t, q) = Stored([f EXCEPT !.vout = w])
    BY DEF LeftOf
  <2>4. v = w
    <3> HIDE DEF f
    <3> QED BY <2>1
  <2> HIDE DEF v, w, f
  <2> QED BY Zenon, <2>2, <2>3, <2>4
<1>2. CASE \A q : ~ LastPlace(a, m, t, q)
  BY Zenon, <1>2, CoinsAtPlace
<1> QED BY Zenon, <1>1, <1>2

\* The transaction after the first m of the last block, and the outpoint of its
\* next input.
NextTx(a, m) == a[Len(a)][m + 1]

NextOut(a, m, n) == Vin[NextTx(a, m)][n + 1]

\* A position in the last block: m transactions and n inputs are applied.
At(a, m, n) ==
    /\ a \in Seq(Blocks) /\ a # <<>>
    /\ m \in Nat /\ m < Len(a[Len(a)])
    /\ n \in Nat /\ n <= Len(Vin[NextTx(a, m)])

\* A place in the last block of a chain, and the transaction and the input it is at.
LEMMA AtParts ==
    ASSUME NEW a, NEW m, NEW n, At(a, m, n)
    PROVE  /\ a \in Seq(Blocks) /\ m \in Nat /\ m + 1 \in Nat /\ n \in Nat
           /\ Len(a) \in Nat /\ Len(a) \in 1 .. Len(a) /\ a[Len(a)] \in Blocks /\ a[Len(a)] \in Seq(Txs)
           /\ NextTx(a, m) \in Txs
           /\ Vin[NextTx(a, m)] \in Seq(OutPoint)
           /\ n < Len(Vin[NextTx(a, m)]) =>
                 NextOut(a, m, n) \in OutPoint /\ NextOut(a, m, n).hash \in Txs /\ NextOut(a, m, n).n \in Pos
<1>1. a \in Seq(Blocks) /\ Len(a) \in Nat /\ Len(a) \in 1 .. Len(a) /\ m \in Nat /\ m + 1 \in Nat /\ n \in Nat
  BY DEF At
<1>2. a[Len(a)] \in Blocks
  BY <1>1
<1>3. a[Len(a)] \in Seq(Txs)
  BY <1>2, BlockUndoAssumption
<1>4. m + 1 \in 1 .. Len(a[Len(a)])
  BY <1>1, <1>3 DEF At
<1>5. NextTx(a, m) \in Txs
  BY <1>3, <1>4 DEF NextTx
<1>6. Vin[NextTx(a, m)] \in Seq(OutPoint)
  BY <1>5, BlockUndoAssumption
<1>7. n < Len(Vin[NextTx(a, m)]) => NextOut(a, m, n) \in OutPoint
  BY <1>1, <1>6 DEF NextOut
<1>8. \A out \in OutPoint : out.hash \in Txs /\ out.n \in Pos
  BY DEF OutPoint
<1> QED BY Zenon, <1>1, <1>2, <1>3, <1>5, <1>6, <1>7, <1>8

\* One more input: its output is spent, and nothing else changes.
LEMMA SpendStep ==
    ASSUME NEW a, NEW m, NEW n, At(a, m, n), n < Len(Vin[NextTx(a, m)]), NEW t \in Txs
    PROVE  CoinsAt(a, m, n + 1, t) = IF t = NextOut(a, m, n).hash
                                     THEN Spend(CoinsAt(a, m, n, t), NextOut(a, m, n).n)
                                     ELSE CoinsAt(a, m, n, t)
<1> DEFINE out == NextOut(a, m, n)
<1>1. /\ a \in Seq(Blocks) /\ m \in Nat /\ n \in Nat /\ n + 1 \in Nat
      /\ out \in OutPoint /\ out.hash \in Txs /\ out.n \in Pos
  <2>1. n \in Nat => n + 1 \in Nat
    OBVIOUS
  <2> QED BY Zenon, <2>1, AtParts
<1>2. \A o, q : Spent(a, m, n + 1, o, q) <=> Spent(a, m, n, o, q) \/ o = out
  <2>1. \A x \in 1 .. n + 1 : x \in 1 .. n \/ x = n + 1
    BY <1>1
  <2>2. \A x \in 1 .. n : x \in 1 .. n + 1
    BY <1>1
  <2>3. n + 1 \in 1 .. n + 1
    BY <1>1
  <2> QED BY Zenon, <2>1, <2>2, <2>3 DEF Spent, NextOut, NextTx
<1>3. out = [hash |-> out.hash, n |-> out.n] /\ \A p : [hash |-> t, n |-> p].hash = t /\ [hash |-> t, n |-> p].n = p
  BY <1>1 DEF OutPoint
<1> HIDE DEF out
<1>4. CASE t # out.hash
  <2>1. \A q, p : Spent(a, m, n + 1, [hash |-> t, n |-> p], q) <=> Spent(a, m, n, [hash |-> t, n |-> p], q)
    BY <1>2, <1>3, <1>4
  <2>2. CoinsAt(a, m, n, t) = CoinsAt(a, m, n + 1, t)
    BY <1>1, <2>1, SameCoins
  <2> QED BY Zenon, <1>4, <2>2 DEF out
<1>5. CASE t = out.hash
  <2>1. CASE \A q : ~ LastPlace(a, m, t, q)
    <3>1. CoinsAt(a, m, n, t) = Pruned /\ CoinsAt(a, m, n + 1, t) = Pruned
      BY Zenon, <1>1, <2>1, CoinsAtPlace
    <3>2. Spend(Pruned, out.n) = Pruned
      BY <1>1 DEF Spend, Pruned, Stored, NoOutputs
    <3> QED BY Zenon, <1>5, <3>1, <3>2 DEF out
  <2>2. ASSUME NEW q, LastPlace(a, m, t, q) PROVE CoinsAt(a, m, n + 1, t) = Spend(CoinsAt(a, m, n, t), out.n)
    <3> DEFINE c == LeftOf(a, m, n, t, q)
               d == LeftOf(a, m, n + 1, t, q)
               s == Spend(c, out.n)
    <3>1. CoinsAt(a, m, n, t) = c /\ CoinsAt(a, m, n + 1, t) = d
      BY <1>1, <2>2, CoinsAtPlace
    <3>2. q[1] \in Nat
      <4>1. q[1] \in 1 .. Len(a)
        BY Zenon, <1>1, <2>2, PlacesAre DEF LastPlace
      <4> QED BY <4>1
    <3>a. IsLeft(c, a, m, n, t, q) /\ IsLeft(d, a, m, n + 1, t, q)
      BY Zenon, <1>1, <3>2, LeftOfParts
    <3> HIDE DEF c, d
    <3>3. /\ c \in Coin
          /\ c.vout = [p \in Pos |-> IF Spent(a, m, n, [hash |-> t, n |-> p], q) THEN NULL ELSE Spendable(t, p)]
          /\ c.vout # NoOutputs => c.nHeight = q[1] /\ c.fCoinBase = (t \in CoinBases) /\ c.nVersion = Version[t]
          /\ c.vout = NoOutputs => c = Pruned
      BY Zenon, <3>a DEF IsLeft
    <3>4. /\ d \in Coin
          /\ d.vout = [p \in Pos |-> IF Spent(a, m, n + 1, [hash |-> t, n |-> p], q) THEN NULL ELSE Spendable(t, p)]
          /\ d.vout # NoOutputs => d.nHeight = q[1] /\ d.fCoinBase = (t \in CoinBases) /\ d.nVersion = Version[t]
          /\ d.vout = NoOutputs => d = Pruned
      BY Zenon, <3>a DEF IsLeft
    <3>5. /\ s \in Coin /\ s.vout = [c.vout EXCEPT ![out.n] = NULL]
          /\ s.vout # NoOutputs => s = [c EXCEPT !.vout[out.n] = NULL]
          /\ s.vout = NoOutputs => s = Pruned
      BY Zenon, <1>1, <3>3, SpendParts
    <3>6. \A p \in Pos : Spent(a, m, n + 1, [hash |-> t, n |-> p], q) <=> Spent(a, m, n, [hash |-> t, n |-> p], q) \/ p = out.n
      BY <1>2, <1>3, <1>5
    <3> HIDE DEF s
    <3>7. d.vout = s.vout
      <4>1. d.vout \in [Pos -> Outs \cup {NULL}] /\ s.vout \in [Pos -> Outs \cup {NULL}]
        BY Zenon, <3>4, <3>5 DEF Coin
      <4>2. ASSUME NEW p \in Pos PROVE d.vout[p] = s.vout[p]
        <5>1. d.vout[p] = IF Spent(a, m, n + 1, [hash |-> t, n |-> p], q) THEN NULL ELSE Spendable(t, p)
          BY Zenon, <3>4
        <5>2. c.vout[p] = IF Spent(a, m, n, [hash |-> t, n |-> p], q) THEN NULL ELSE Spendable(t, p)
          BY Zenon, <3>3
        <5>3. s.vout[p] = IF p = out.n THEN NULL ELSE c.vout[p]
          BY <1>1, <3>3, <3>5
        <5> QED BY Zenon, <3>6, <5>1, <5>2, <5>3
      <4> QED BY <4>1, <4>2
    <3>8. d = s
      <4>1. CASE d.vout = NoOutputs
        BY Zenon, <3>4, <3>5, <3>7, <4>1
      <4>2. CASE d.vout # NoOutputs
        <5>1. c.vout # NoOutputs
          BY <1>1, <3>3, <3>5, <3>7, <4>2 DEF NoOutputs
        <5>2. s.nHeight = c.nHeight /\ s.fCoinBase = c.fCoinBase /\ s.nVersion = c.nVersion
          BY <3>3, <3>5, <3>7, <4>2 DEF Coin
        <5> QED BY <3>3, <3>4, <3>5, <3>7, <4>2, <5>1, <5>2 DEF Coin
      <4> QED BY Zenon, <4>1, <4>2
    <3> QED BY Zenon, <3>1, <3>8 DEF s
  <2> QED BY Zenon, <1>5, <2>1, <2>2 DEF out
<1> QED BY Zenon, <1>4, <1>5 DEF out

\* One more transaction is one more place, after all others.
LEMMA PlacesStep ==
    ASSUME NEW a, NEW m, At(a, m, Len(Vin[NextTx(a, m)]))
    PROVE  /\ \A q : q \in Places(a, m + 1) <=> q \in Places(a, m) \/ q = <<Len(a), m + 1>>
           /\ TxAt(a, <<Len(a), m + 1>>) = NextTx(a, m)
           /\ \A q \in Places(a, m) : Before(q, <<Len(a), m + 1>>) /\ ~ Before(<<Len(a), m + 1>>, q)
           /\ <<Len(a), m + 1>> \notin Places(a, m)
           /\ ~ Before(<<Len(a), m + 1>>, <<Len(a), m + 1>>)
<1> DEFINE z == <<Len(a), m + 1>>
<1>1. a \in Seq(Blocks) /\ m \in Nat /\ m + 1 \in Nat /\ Len(a) \in Nat /\ Len(a) \in 1 .. Len(a)
  BY Zenon, AtParts
<1>2. \A h \in 1 .. Len(a) : Len(a[h]) \in Nat
  BY Zenon, <1>1, BlocksOfChain
<1>3. z[1] = Len(a) /\ z[2] = m + 1
  OBVIOUS
<1>4. ASSUME NEW q PROVE q \in Places(a, m + 1) <=> q \in Places(a, m) \/ q = z
  <2>1. q \in Places(a, m) <=>
            /\ q = <<q[1], q[2]>> /\ q[1] \in 1 .. Len(a) /\ q[2] \in Nat /\ q[2] >= 1
            /\ q[1] = Len(a) => q[2] <= m
            /\ q[1] # Len(a) => q[2] <= Len(a[q[1]])
    BY Zenon, <1>1, PlacesAre
  <2>2. q \in Places(a, m + 1) <=>
            /\ q = <<q[1], q[2]>> /\ q[1] \in 1 .. Len(a) /\ q[2] \in Nat /\ q[2] >= 1
            /\ q[1] = Len(a) => q[2] <= m + 1
            /\ q[1] # Len(a) => q[2] <= Len(a[q[1]])
    BY Zenon, <1>1, PlacesAre
  <2>3. \A x \in Nat : x <= m + 1 <=> x <= m \/ x = m + 1
    BY <1>1
  <2>4. CASE q = z
    <3>1. m + 1 >= 1
      BY <1>1
    <3>2. q = <<q[1], q[2]>> /\ q[1] = Len(a) /\ q[2] = m + 1 /\ m + 1 <= m + 1
      BY <1>1, <2>4
    <3> QED BY Zenon, <1>1, <2>2, <2>4, <3>1, <3>2
  <2>5. CASE q # z
    <3>1. ~(q = <<q[1], q[2]>> /\ q[1] = Len(a) /\ q[2] = m + 1)
      BY Zenon, <2>5
    <3> QED BY Zenon, <2>1, <2>2, <2>3, <2>5, <3>1
  <2> QED BY Zenon, <2>4, <2>5
<1>5. ASSUME NEW q \in Places(a, m) PROVE Before(q, z) /\ ~ Before(z, q) /\ q # z
  <2>1. q[1] \in 1 .. Len(a) /\ q[2] \in Nat /\ (q[1] = Len(a) => q[2] <= m)
    BY Zenon, <1>1, PlacesAre
  <2> QED BY <1>1, <2>1 DEF Before
<1>6. ~ Before(z, z)
  BY <1>1 DEF Before
<1>7. TxAt(a, z) = NextTx(a, m)
  BY DEF TxAt, NextTx
<1> QED BY Zenon, <1>4, <1>5, <1>6, <1>7

\* One more transaction: its outputs are there, and nothing else changes.
LEMMA AddStep ==
    ASSUME NEW a, NEW m, At(a, m, Len(Vin[NextTx(a, m)])), NEW t \in Txs
    PROVE  CoinsAt(a, m + 1, 0, t) = IF t = NextTx(a, m)
                                     THEN FromTx(t, Len(a))
                                     ELSE CoinsAt(a, m, Len(Vin[NextTx(a, m)]), t)
<1> DEFINE N == Len(Vin[NextTx(a, m)])
           z == <<Len(a), m + 1>>
<1>1. a \in Seq(Blocks) /\ m \in Nat /\ m + 1 \in Nat /\ N \in Nat /\ Len(a) \in Nat
  BY Zenon, AtParts
<1>2. /\ \A q : q \in Places(a, m + 1) <=> q \in Places(a, m) \/ q = z
      /\ TxAt(a, z) = NextTx(a, m)
      /\ \A q \in Places(a, m) : Before(q, z) /\ ~ Before(z, q)
      /\ z \notin Places(a, m) /\ ~ Before(z, z)
  BY Zenon, PlacesStep
<1>3. z[1] = Len(a) /\ \A x : x \notin 1 .. 0
  OBVIOUS
<1> HIDE DEF z
<1>4. CASE t # NextTx(a, m)
  <2>1. ASSUME NEW q PROVE LastPlace(a, m, t, q) <=> LastPlace(a, m + 1, t, q)
    BY Zenon, <1>2, <1>4 DEF LastPlace
  <2>2. ASSUME NEW q, LastPlace(a, m, t, q), NEW o
        PROVE  Spent(a, m, N, o, q) <=> Spent(a, m + 1, 0, o, q)
    <3>1. q \in Places(a, m)
      BY Zenon, <2>2 DEF LastPlace
    <3>2. Spent(a, m, N, o, q) <=>
             \/ \E r \in Places(a, m) : Before(q, r) /\ \E x \in 1 .. Len(Vin[TxAt(a, r)]) : Vin[TxAt(a, r)][x] = o
             \/ \E x \in 1 .. N : Vin[NextTx(a, m)][x] = o
      BY Zenon DEF Spent, NextTx
    <3>3. Spent(a, m + 1, 0, o, q) <=>
             \E r \in Places(a, m + 1) : Before(q, r) /\ \E x \in 1 .. Len(Vin[TxAt(a, r)]) : Vin[TxAt(a, r)][x] = o
      BY Zenon, <1>3 DEF Spent
    <3> QED BY Zenon, <1>2, <3>1, <3>2, <3>3
  <2>3. CoinsAt(a, m, N, t) = CoinsAt(a, m + 1, 0, t)
    <3> HIDE DEF N
    <3> QED BY <1>1, <2>1, <2>2, SameCoins
  <2> QED BY Zenon, <1>4, <2>3
<1>5. CASE t = NextTx(a, m)
  <2>1. LastPlace(a, m + 1, t, z)
    BY Zenon, <1>2, <1>5 DEF LastPlace
  <2>2. ASSUME NEW o PROVE ~ Spent(a, m + 1, 0, o, z)
    BY Zenon, <1>2, <1>3 DEF Spent
  <2> DEFINE f == FromTx(t, z[1])
             v == [p \in Pos |-> IF Spent(a, m + 1, 0, [hash |-> t, n |-> p], z) THEN NULL ELSE f.vout[p]]
  <2>3. CoinsAt(a, m + 1, 0, t) = LeftOf(a, m + 1, 0, t, z)
    BY <1>1, <2>1, CoinsAtPlace
  <2>4. LeftOf(a, m + 1, 0, t, z) = Stored([f EXCEPT !.vout = v])
    BY DEF LeftOf
  <2>5. f \in Coin /\ f = FromTx(t, Len(a)) /\ (f.vout = NoOutputs => f = Pruned)
    <3>1. f = FromTx(t, Len(a))
      BY Zenon, <1>3
    <3> HIDE DEF f
    <3> QED BY Zenon, <1>1, <3>1, FromTxParts
  <2> HIDE DEF f
  <2>6. v = f.vout
    BY <2>2, <2>5 DEF Coin
  <2>7. [f EXCEPT !.vout = f.vout] = f
    BY <2>5 DEF Coin
  <2>8. Stored(f) = f
    BY Zenon, <2>5 DEF Stored
  <2> HIDE DEF v
  <2>9. CoinsAt(a, m + 1, 0, t) = FromTx(t, Len(a))
    BY Zenon, <2>3, <2>4, <2>5, <2>6, <2>7, <2>8
  <2> QED BY Zenon, <1>5, <2>9
<1> QED BY Zenon, <1>4, <1>5

\* Nothing of a block applied is all of the blocks below it applied.
LEMMA BoundaryStep ==
    ASSUME NEW a \in Seq(Blocks), NEW vtx \in Blocks, NEW m \in Nat, a # <<>> => m = Len(a[Len(a)])
    PROVE  /\ \A t \in Txs : CoinsAt(Append(a, vtx), 0, 0, t) = CoinsAt(a, m, 0, t)
           /\ Places(Append(a, vtx), 0) = Places(a, m)
           /\ \A q \in Places(a, m) : TxAt(Append(a, vtx), q) = TxAt(a, q)
<1> DEFINE b == Append(a, vtx)
<1>1. /\ b \in Seq(Blocks) /\ Len(b) = Len(a) + 1 /\ Len(a) \in Nat
      /\ \A h \in 1 .. Len(a) : b[h] = a[h]
  OBVIOUS
<1>2. \A h \in 1 .. Len(a) : Len(a[h]) \in Nat
  BY Zenon, BlocksOfChain
<1> HIDE DEF b
<1>3. ASSUME NEW q PROVE q \in Places(b, 0) <=> q \in Places(a, m)
  <2>1. q \in Places(a, m) <=>
            /\ q = <<q[1], q[2]>> /\ q[1] \in 1 .. Len(a) /\ q[2] \in Nat /\ q[2] >= 1
            /\ q[1] = Len(a) => q[2] <= m
            /\ q[1] # Len(a) => q[2] <= Len(a[q[1]])
    BY Zenon, PlacesAre
  <2>2. q \in Places(b, 0) <=>
            /\ q = <<q[1], q[2]>> /\ q[1] \in 1 .. Len(b) /\ q[2] \in Nat /\ q[2] >= 1
            /\ q[1] = Len(b) => q[2] <= 0
            /\ q[1] # Len(b) => q[2] <= Len(b[q[1]])
    BY <1>1, PlacesAre
  <2>3. ASSUME q[2] \in Nat, q[2] >= 1 PROVE ~(q[2] <= 0)
    BY <2>3
  <2>4. q[1] \in 1 .. Len(a) <=> q[1] \in 1 .. Len(b) /\ q[1] # Len(b)
    BY <1>1
  <2>5. q[1] \in 1 .. Len(a) => b[q[1]] = a[q[1]] /\ (q[1] = Len(a) => m = Len(a[q[1]]))
    BY <1>1
  <2> QED BY Zenon, <2>1, <2>2, <2>3, <2>4, <2>5
<1>4. Places(b, 0) = Places(a, m)
  BY Zenon, <1>3
<1>5. ASSUME NEW q \in Places(a, m) PROVE TxAt(b, q) = TxAt(a, q)
  <2>1. q[1] \in 1 .. Len(a)
    BY Zenon, PlacesAre
  <2> QED BY Zenon, <1>1, <2>1 DEF TxAt
<1>6. \A q, t : LastPlace(b, 0, t, q) <=> LastPlace(a, m, t, q)
  BY Zenon, <1>4, <1>5 DEF LastPlace
<1>7. \A q, o : Spent(b, 0, 0, o, q) <=> Spent(a, m, 0, o, q)
  <2>1. \A x : x \notin 1 .. 0
    OBVIOUS
  <2> QED BY Zenon, <1>4, <1>5, <2>1 DEF Spent
<1>8. ASSUME NEW t \in Txs PROVE CoinsAt(b, 0, 0, t) = CoinsAt(a, m, 0, t)
  BY <1>1, <1>6, <1>7, SameCoins
<1> QED BY Zenon, <1>4, <1>5, <1>8 DEF b

\* The nullifiers revealed, when one more transaction is applied, and at the
\* boundary of two blocks.
LEMMA NullifiersStep ==
    ASSUME NEW a, NEW m, At(a, m, Len(Vin[NextTx(a, m)]))
    PROVE  NullifiersAt(a, m + 1) = NullifiersAt(a, m) \cup Reveals[NextTx(a, m)]
<1>1. /\ \A q : q \in Places(a, m + 1) <=> q \in Places(a, m) \/ q = <<Len(a), m + 1>>
      /\ TxAt(a, <<Len(a), m + 1>>) = NextTx(a, m)
  BY Zenon, PlacesStep
<1>2. \A nf : nf \in NullifiersAt(a, m + 1) <=> \E q \in Places(a, m + 1) : nf \in Reveals[TxAt(a, q)]
  BY Zenon DEF NullifiersAt
<1>3. \A nf : nf \in NullifiersAt(a, m) <=> \E q \in Places(a, m) : nf \in Reveals[TxAt(a, q)]
  BY Zenon DEF NullifiersAt
<1>4. \A nf : nf \in NullifiersAt(a, m + 1) <=> nf \in NullifiersAt(a, m) \/ nf \in Reveals[NextTx(a, m)]
  BY Zenon, <1>1, <1>2, <1>3
<1> QED BY <1>4

\* The nullifiers are the same after a block and before the first transaction of the
\* next.
LEMMA NullifiersBoundary ==
    ASSUME NEW a \in Seq(Blocks), NEW vtx \in Blocks, NEW m \in Nat, a # <<>> => m = Len(a[Len(a)])
    PROVE  NullifiersAt(Append(a, vtx), 0) = NullifiersAt(a, m)
<1>1. /\ Places(Append(a, vtx), 0) = Places(a, m)
      /\ \A q \in Places(a, m) : TxAt(Append(a, vtx), q) = TxAt(a, q)
  BY Zenon, BoundaryStep
<1>2. {Reveals[TxAt(Append(a, vtx), q)] : q \in Places(Append(a, vtx), 0)} = {Reveals[TxAt(a, q)] : q \in Places(a, m)}
  BY <1>1
<1> QED BY Zenon, <1>2 DEF NullifiersAt

-----------------------------------------------------------------------------
(* The roots of the commitment tree. *)

\* The transactions of a block with a JoinSplit are transactions.
LEMMA ShieldedTyped ==
    ASSUME NEW vtx \in Seq(Txs)
    PROVE  ShieldedOf(vtx) \in Seq(Txs)
<1> DEFINE N == Len(vtx)
           step == [y \in (1 .. N) \X Seq(Txs) |-> IF IsShielded(vtx[y[1]]) THEN Append(y[2], vtx[y[1]]) ELSE y[2]]
           Is(g) == g = [n \in 0 .. N |-> IF n = 0 THEN <<>> ELSE IF IsShielded(vtx[n]) THEN Append(g[n - 1], vtx[n]) ELSE g[n - 1]]
           some == CHOOSE g : Is(g)
<1>1. N \in Nat /\ <<>> \in Seq(Txs)
  OBVIOUS
<1>2. step \in [(1 .. N) \X Seq(Txs) -> Seq(Txs)]
  OBVIOUS
<1>3. PICK g \in [0 .. N -> Seq(Txs)] : g[0] = <<>> /\ \A n \in 1 .. N : g[n] = step[<<n, g[n - 1]>>]
  <2> HIDE DEF N, step
  <2>1. \E f : Follows(f, N, Seq(Txs), <<>>, step)
    BY Zenon, <1>1, <1>2, Recursion
  <2> QED BY Zenon, <2>1 DEF Follows
<1>4. ASSUME NEW n \in 1 .. N
      PROVE  g[n] = IF IsShielded(vtx[n]) THEN Append(g[n - 1], vtx[n]) ELSE g[n - 1]
  <2>1. n - 1 \in 0 .. N
    BY <1>1
  <2>2. g[n - 1] \in Seq(Txs)
    BY <2>1
  <2>3. <<n, g[n - 1]>> \in (1 .. N) \X Seq(Txs)
    BY Zenon, <2>2
  <2> QED BY Zenon, <1>3, <2>3
<1>5. Is(g)
  <2> HIDE DEF N, step
  <2>1. \A n \in 0 .. N : n = 0 \/ n \in 1 .. N
    BY <1>1
  <2>2. \A n \in 0 .. N : g[n] = IF n = 0 THEN <<>> ELSE IF IsShielded(vtx[n]) THEN Append(g[n - 1], vtx[n]) ELSE g[n - 1]
    BY Zenon, <1>3, <1>4, <2>1
  <2> QED BY <2>2
<1>6. Is(some)
  <2> HIDE DEF Is
  <2> QED BY Zenon, <1>5
<1>7. ShieldedOf(vtx) = some[N]
  BY DEF ShieldedOf
<1> DEFINE T == {n \in 0 .. N : some[n] \in Seq(Txs)}
<1> HIDE DEF some
<1>8. some[0] = <<>>
  BY <1>1, <1>6
<1>9. ASSUME NEW n \in 0 .. N - 1, n \in T PROVE n + 1 \in T
  <2>1. n + 1 \in 0 .. N /\ n + 1 # 0 /\ (n + 1) - 1 = n /\ vtx[n + 1] \in Txs
    OBVIOUS
  <2>2. some[n + 1] = IF IsShielded(vtx[n + 1]) THEN Append(some[n], vtx[n + 1]) ELSE some[n]
    BY Zenon, <1>6, <2>1
  <2>3. Append(some[n], vtx[n + 1]) \in Seq(Txs)
    BY <1>9, <2>1
  <2> QED BY Zenon, <1>9, <2>1, <2>2, <2>3
<1>10. 0 \in T /\ N \in 0 .. N
  <2>1. 0 \in 0 .. N /\ N \in 0 .. N
    BY <1>1
  <2> QED BY Zenon, <1>1, <1>8, <2>1
<1>11. N \in T
  <2> HIDE DEF T, N
  <2> QED BY Zenon, <1>1, <1>9, <1>10, UpTo
<1> QED BY Zenon, <1>7, <1>11

\* The root after a block is that of the block before and its commitments.
LEMMA RootsAre ==
    ASSUME NEW a \in Seq(Blocks)
    PROVE  /\ RootsOf(a)[0] = <<>>
           /\ \A h \in 1 .. Len(a) : RootsOf(a)[h] = RootsOf(a)[h - 1] \o ShieldedOf(a[h])
           /\ \A h \in 0 .. Len(a) : RootsOf(a)[h] \in Root
<1> DEFINE N == Len(a)
           step == [y \in (1 .. N) \X Root |-> y[2] \o ShieldedOf(a[y[1]])]
           Is(g) == g = [h \in 0 .. N |-> IF h = 0 THEN <<>> ELSE g[h - 1] \o ShieldedOf(a[h])]
           root == CHOOSE g : Is(g)
<1>1. N \in Nat /\ <<>> \in Root
  BY DEF Root
<1>2. \A h \in 1 .. N : ShieldedOf(a[h]) \in Root
  BY Zenon, BlocksOfChain, ShieldedTyped DEF Root
<1>3. step \in [(1 .. N) \X Root -> Root]
  BY <1>2 DEF Root
<1>4. PICK g \in [0 .. N -> Root] : g[0] = <<>> /\ \A n \in 1 .. N : g[n] = step[<<n, g[n - 1]>>]
  <2> HIDE DEF N, step
  <2>1. \E f : Follows(f, N, Root, <<>>, step)
    BY Zenon, <1>1, <1>3, Recursion
  <2> QED BY Zenon, <2>1 DEF Follows
<1>5. ASSUME NEW n \in 1 .. N PROVE g[n] = g[n - 1] \o ShieldedOf(a[n])
  <2>1. n - 1 \in 0 .. N
    BY <1>1
  <2>2. <<n, g[n - 1]>> \in (1 .. N) \X Root
    BY Zenon, <2>1
  <2> QED BY Zenon, <1>4, <2>2
<1>6. Is(g)
  <2> HIDE DEF N, step
  <2>1. \A n \in 0 .. N : n = 0 \/ n \in 1 .. N
    BY <1>1
  <2>2. \A n \in 0 .. N : g[n] = IF n = 0 THEN <<>> ELSE g[n - 1] \o ShieldedOf(a[n])
    BY Zenon, <1>4, <1>5, <2>1
  <2> QED BY Zenon, <2>2
<1>7. Is(root) /\ RootsOf(a) = root
  <2>1. RootsOf(a) = root
    BY DEF RootsOf
  <2> HIDE DEF Is
  <2> QED BY Zenon, <1>6, <2>1
<1> DEFINE T == {n \in 0 .. N : root[n] \in Root}
<1> HIDE DEF root
<1>8. root[0] = <<>>
  BY <1>1, <1>7
<1>9. ASSUME NEW h \in 1 .. N PROVE root[h] = root[h - 1] \o ShieldedOf(a[h])
  <2>1. h \in 0 .. N /\ h # 0
    BY <1>1
  <2> QED BY Zenon, <1>7, <2>1
<1>10. ASSUME NEW n \in 0 .. N - 1, n \in T PROVE n + 1 \in T
  <2>1. n + 1 \in 0 .. N /\ n + 1 \in 1 .. N /\ (n + 1) - 1 = n
    BY <1>1
  <2>2. root[n] \in Root /\ ShieldedOf(a[n + 1]) \in Root /\ root[n + 1] = root[n] \o ShieldedOf(a[n + 1])
    BY <1>2, <1>9, <1>10, <2>1
  <2>3. root[n + 1] \in Root
    BY <2>2 DEF Root
  <2> QED BY Zenon, <2>1, <2>3
<1>11. 0 \in T
  <2>1. 0 \in 0 .. N
    BY <1>1
  <2> QED BY Zenon, <1>1, <1>8, <2>1
<1>12. \A n \in 0 .. N : n \in T
  <2> HIDE DEF T, N
  <2> QED BY Zenon, <1>1, <1>10, <1>11, UpTo
<1>13. \A n \in 0 .. N : root[n] \in Root
  BY Zenon, <1>12
<1> QED BY Zenon, <1>7, <1>8, <1>9, <1>13

\* The roots after the blocks of a do not depend on what comes above them.
LEMMA RootsPrefix ==
    ASSUME NEW a \in Seq(Blocks), NEW vtx \in Blocks
    PROVE  \A h \in 0 .. Len(a) : RootsOf(Append(a, vtx))[h] = RootsOf(a)[h]
<1> DEFINE b == Append(a, vtx)
           N == Len(a)
           T == {h \in 0 .. N : RootsOf(b)[h] = RootsOf(a)[h]}
<1>1. b \in Seq(Blocks) /\ Len(b) = N + 1 /\ N \in Nat /\ \A h \in 1 .. N : b[h] = a[h]
  OBVIOUS
<1> HIDE DEF b
<1>2. /\ RootsOf(a)[0] = <<>>
      /\ \A h \in 1 .. N : RootsOf(a)[h] = RootsOf(a)[h - 1] \o ShieldedOf(a[h])
  BY Zenon, RootsAre
<1>3. /\ RootsOf(b)[0] = <<>>
      /\ \A h \in 1 .. Len(b) : RootsOf(b)[h] = RootsOf(b)[h - 1] \o ShieldedOf(b[h])
  BY Zenon, <1>1, RootsAre
<1>4. 0 \in T
  <2>1. 0 \in 0 .. N
    BY <1>1
  <2> QED BY Zenon, <1>2, <1>3, <2>1
<1>5. ASSUME NEW n \in 0 .. N - 1, n \in T PROVE n + 1 \in T
  <2>1. n + 1 \in 0 .. N /\ n + 1 \in 1 .. N /\ n + 1 \in 1 .. Len(b) /\ (n + 1) - 1 = n
    BY <1>1
  <2>2. RootsOf(a)[n + 1] = RootsOf(a)[n] \o ShieldedOf(a[n + 1])
    BY Zenon, <1>2, <2>1
  <2>3. RootsOf(b)[n + 1] = RootsOf(b)[n] \o ShieldedOf(b[n + 1])
    BY Zenon, <1>3, <2>1
  <2> QED BY Zenon, <1>1, <1>5, <2>1, <2>2, <2>3
<1>6. \A h \in 0 .. N : h \in T
  <2> HIDE DEF T, N
  <2> QED BY Zenon, <1>1, <1>4, <1>5, UpTo
<1> QED BY Zenon, <1>6 DEF b

\* The commitment tree only grows.
LEMMA RootsGrow ==
    ASSUME NEW a \in Seq(Blocks), NEW h \in 0 .. Len(a), NEW g \in 0 .. h
    PROVE  Len(RootsOf(a)[g]) <= Len(RootsOf(a)[h])
<1> DEFINE N == Len(a)
           L(x) == Len(RootsOf(a)[x])
           T == {x \in 0 .. N : \A y \in 0 .. x : L(y) <= L(x)}
<1>1. N \in Nat
  OBVIOUS
<1>2. \A x \in 0 .. N : L(x) \in Nat
  <2>1. \A x \in 0 .. N : RootsOf(a)[x] \in Root
    BY Zenon, RootsAre
  <2> QED BY <2>1 DEF Root
<1>3. ASSUME NEW x \in 1 .. N PROVE L(x - 1) <= L(x)
  <2>1. RootsOf(a)[x] = RootsOf(a)[x - 1] \o ShieldedOf(a[x])
    BY Zenon, RootsAre
  <2>2. x - 1 \in 0 .. N
    BY <1>1
  <2>3. RootsOf(a)[x - 1] \in Seq(Txs) /\ ShieldedOf(a[x]) \in Seq(Txs)
    BY Zenon, <2>2, RootsAre, BlocksOfChain, ShieldedTyped DEF Root
  <2>4. \A r, s \in Seq(Txs) : Len(r) <= Len(r \o s)
    OBVIOUS
  <2> QED BY Zenon, <2>1, <2>3, <2>4
<1> HIDE DEF L
<1>4. 0 \in T
  <2>1. 0 \in 0 .. N /\ \A y \in 0 .. 0 : y = 0
    BY <1>1
  <2>2. L(0) <= L(0)
    BY <1>2, <2>1
  <2> QED BY Zenon, <2>1, <2>2
<1>5. ASSUME NEW x \in 0 .. N - 1, x \in T PROVE x + 1 \in T
  <2>1. x + 1 \in 0 .. N /\ x + 1 \in 1 .. N /\ (x + 1) - 1 = x /\ x \in 0 .. N
    BY <1>1
  <2>2. L(x) <= L(x + 1)
    BY <1>3, <2>1
  <2>3. ASSUME NEW y \in 0 .. x + 1 PROVE L(y) <= L(x + 1)
    <3>1. y = x + 1 \/ y \in 0 .. x
      BY <1>1
    <3>2. y \in 0 .. N
      BY <1>1, <2>1
    <3>3. L(y) \in Nat /\ L(x) \in Nat /\ L(x + 1) \in Nat
      BY Zenon, <1>2, <2>1, <3>2
    <3>4. y \in 0 .. x => L(y) <= L(x)
      BY Zenon, <1>5
    <3> QED BY <2>2, <3>1, <3>3, <3>4
  <2> QED BY Zenon, <2>1, <2>3
<1>6. \A x \in 0 .. N : x \in T
  <2> HIDE DEF T, N
  <2> QED BY Zenon, <1>1, <1>4, <1>5, UpTo
<1> QED BY Zenon, <1>6 DEF L

\* PushAnchor and PopAnchor: the anchors of the chain with one more block, and
\* without it.
LEMMA AnchorsStep ==
    ASSUME NEW a \in Seq(Blocks), NEW vtx \in Blocks
    PROVE  LET b == Append(a, vtx)
           IN /\ RootsOf(b)[Len(b)] = RootsOf(a)[Len(a)] \o ShieldedOf(vtx)
              /\ RootsOf(b)[Len(b) - 1] = RootsOf(a)[Len(a)]
              /\ AnchorsAt(b) = AnchorsAt(a) \cup {RootsOf(b)[Len(b)]}
              /\ RootsOf(b)[Len(b)] = RootsOf(a)[Len(a)] => AnchorsAt(a) = AnchorsAt(b)
              /\ RootsOf(b)[Len(b)] # RootsOf(a)[Len(a)] => AnchorsAt(a) = AnchorsAt(b) \ {RootsOf(b)[Len(b)]}
<1> DEFINE b == Append(a, vtx)
           N == Len(a)
           R == RootsOf(b)[Len(b)]
<1>1. b \in Seq(Blocks) /\ Len(b) = N + 1 /\ N \in Nat /\ b[N + 1] = vtx /\ vtx \in Seq(Txs)
  BY BlockUndoAssumption
<1> HIDE DEF b
<1>2. \A h \in 0 .. N : RootsOf(b)[h] = RootsOf(a)[h]
  BY Zenon, RootsPrefix DEF b
<1>3. N \in 0 .. N /\ N + 1 \in 1 .. Len(b) /\ N + 1 \in 0 .. Len(b) /\ (N + 1) - 1 = N
  BY <1>1
<1>4. R = RootsOf(a)[N] \o ShieldedOf(vtx)
  <2>1. RootsOf(b)[N + 1] = RootsOf(b)[(N + 1) - 1] \o ShieldedOf(b[N + 1])
    BY Zenon, <1>1, <1>3, RootsAre
  <2> QED BY Zenon, <1>1, <1>2, <1>3, <2>1
<1>5. \A x : x \in AnchorsAt(b) <=> x \in AnchorsAt(a) \/ x = R
  <2>1. \A h \in 0 .. Len(b) : h \in 0 .. N \/ h = N + 1
    BY <1>1
  <2>2. \A h \in 0 .. N : h \in 0 .. Len(b)
    BY <1>1
  <2> QED BY Zenon, <1>1, <1>2, <1>3, <2>1, <2>2 DEF AnchorsAt
<1>6. RootsOf(a)[N] \in AnchorsAt(a)
  BY Zenon, <1>3 DEF AnchorsAt
<1>7. ASSUME R # RootsOf(a)[N] PROVE R \notin AnchorsAt(a)
  <2>1. RootsOf(a)[N] \in Seq(Txs) /\ ShieldedOf(vtx) \in Seq(Txs)
    BY Zenon, <1>1, <1>3, RootsAre, ShieldedTyped DEF Root
  <2>2. ShieldedOf(vtx) # <<>>
    BY <1>4, <1>7, <2>1
  <2>3. Len(R) > Len(RootsOf(a)[N])
    BY <1>4, <2>1, <2>2
  <2>4. ASSUME NEW h \in 0 .. N PROVE R # RootsOf(a)[h]
    <3>1. Len(RootsOf(a)[h]) <= Len(RootsOf(a)[N])
      BY Zenon, <1>3, RootsGrow
    <3>2. RootsOf(a)[h] \in Seq(Txs)
      BY Zenon, RootsAre DEF Root
    <3> QED BY <2>1, <2>3, <3>1, <3>2
  <2> QED BY Zenon, <2>4 DEF AnchorsAt
<1>8. AnchorsAt(b) = AnchorsAt(a) \cup {R}
  BY <1>5
<1>9. R = RootsOf(a)[N] => AnchorsAt(a) = AnchorsAt(b)
  BY Zenon, <1>5, <1>6
<1>10. R # RootsOf(a)[N] => AnchorsAt(a) = AnchorsAt(b) \ {R}
  BY <1>5, <1>7
<1>11. RootsOf(b)[Len(b) - 1] = RootsOf(a)[N]
  BY <1>1, <1>2, <1>3
<1> QED BY Zenon, <1>4, <1>8, <1>9, <1>10, <1>11 DEF b

-----------------------------------------------------------------------------
(* The inductive invariant. *)

\* The steps of ConnectBlock and DisconnectBlock
BlockNext ==
    \/ \E vtx \in Blocks : BeginConnect(vtx)
    \/ BeginDisconnect \/ BlockStep \/ FinishConnect \/ FinishDisconnect

Connecting == pc \in {"tx", "spend"}

TypeOK ==
    /\ chain \in Seq(Blocks) /\ tip \in View /\ view \in View
    /\ pc \in {"idle", "tx", "spend", "undo"} /\ i \in Nat /\ j \in Nat
    /\ pc = "idle" => view = tip /\ i = 0 /\ j = 0 /\ undo = <<>>
    /\ Connecting => block \in Blocks /\ i <= Len(block) /\ undo \in Seq(Seq(TxInUndo))
    /\ pc = "tx" => j = 0 /\ Len(undo) = i
    /\ pc = "spend" => i < Len(block) /\ j <= Len(Vin[Tx]) /\ Len(undo) = i + 1
    /\ pc = "undo" => /\ chain # <<>> /\ block = chain[Len(chain)] /\ undo = rev[chain].vtxundo /\ i <= Len(block)
                      /\ j # 0 => i < Len(block) /\ j <= Len(Vin[Tx])

\* An input is there when it is spent, and the undo data it gets.
SpendSound(a, m, n) == CoinsAt(a, m, n, NextOut(a, m, n).hash).vout[NextOut(a, m, n).n] # NULL

UndoOf(a, m, n) == InUndo(CoinsAt(a, m, n, NextOut(a, m, n).hash), NextOut(a, m, n).n)

\* Nothing of a transaction is there, and none of its nullifiers is spent, when it
\* is added.
AddSound(a, m) ==
    /\ CoinsAt(a, m, Len(Vin[NextTx(a, m)]), NextTx(a, m)) = Pruned
    /\ Reveals[NextTx(a, m)] \cap NullifiersAt(a, m) = {}

\* blockundo holds what the first k inputs of the transaction have got.
RecordedTx(a, m, k) ==
    /\ Len(undo[m + 1]) = k
    /\ \A n \in Nat : n < k => SpendSound(a, m, n) /\ undo[m + 1][n + 1] = UndoOf(a, m, n)

Recorded ==
    Connecting =>
        /\ \A m \in Nat : m < i =>
              /\ AddSound(Append(chain, block), m)
              /\ RecordedTx(Append(chain, block), m, Len(Vin[NextTx(Append(chain, block), m)]))
        /\ pc = "spend" => RecordedTx(Append(chain, block), i, j)

\* The block that ends chain a can be taken back with the undo data u.
CanUndo(a, u) ==
    /\ \A m \in Nat : m < Len(a[Len(a)]) =>
          /\ AddSound(a, m)
          /\ \A n \in Nat : n < Len(Vin[NextTx(a, m)]) =>
                SpendSound(a, m, n) /\ u.vtxundo[m + 1][n + 1] = ReadBack(UndoOf(a, m, n))
    /\ u.old_tree_root = RootsOf(a)[Len(a) - 1]

Written ==
    /\ \A a \in DOMAIN rev : a \in Seq(Blocks) /\ a # <<>> /\ CanUndo(a, rev[a])
    /\ \A h \in 1 .. Len(chain) : SubSeq(chain, 1, h) \in DOMAIN rev

ViewExact ==
    /\ \A t \in Txs : view.coins[t] = CoinsAt(Applied, AppliedTxs, j, t)
    /\ view.nullifiers = NullifiersAt(Applied, AppliedTxs)
    /\ view.best = tip.best /\ view.anchors = tip.anchors
    /\ fClean = TRUE

TipExact ==
    /\ \A t \in Txs : tip.coins[t] = CoinsAt(chain, LastTxs(chain), 0, t)
    /\ tip.nullifiers = NullifiersAt(chain, LastTxs(chain))
    /\ tip.best = RootsOf(chain)[Len(chain)]
    /\ tip.anchors = AnchorsAt(chain)

\* While a block is connected: BIP30 holds for it; its transactions are different
\* ones; what they spent is not there any more, and was there before the block or
\* came with an earlier transaction of it.
Fresh ==
    Connecting =>
        /\ \A m \in 1 .. Len(block) : tip.coins[block[m]] = Pruned
        /\ \A m, l \in 1 .. i : block[m] = block[l] => m = l
        /\ \A m \in 1 .. i : \A x \in 1 .. Len(Vin[block[m]]) :
              /\ ~ IsAvailable(view.coins, Vin[block[m]][x])
              /\ \/ tip.coins[Vin[block[m]][x].hash] # Pruned
                 \/ \E l \in 1 .. i : l < m /\ block[l] = Vin[block[m]][x].hash
        /\ \A t \in Txs : view.coins[t] # Pruned => tip.coins[t] # Pruned \/ \E l \in 1 .. i : block[l] = t
        /\ \A m \in 1 .. i : Reveals[block[m]] \subseteq view.nullifiers

\* The same for the transaction at work: its inputs are there until they are spent.
FreshTx ==
    pc = "spend" =>
        /\ \A l \in 1 .. i : block[l] # Tx
        /\ Reveals[Tx] \cap view.nullifiers = {}
        /\ \A x \in 1 .. Len(Vin[Tx]) :
              /\ IsAvailable(view.coins, Vin[Tx][x]) <=> x > j
              /\ tip.coins[Vin[Tx][x].hash] # Pruned \/ \E l \in 1 .. i : block[l] = Vin[Tx][x].hash

BlockInv == TypeOK /\ Recorded /\ Written /\ ViewExact /\ TipExact /\ Fresh /\ FreshTx

\* The position in a block on top of a chain
LEMMA AppendBlock ==
    ASSUME NEW c \in Seq(Blocks), NEW b \in Blocks
    PROVE  /\ Append(c, b) \in Seq(Blocks) /\ Append(c, b) # <<>> /\ Len(Append(c, b)) = Len(c) + 1
           /\ Append(c, b)[Len(Append(c, b))] = b
           /\ b \in Seq(Txs) /\ Len(b) \in Nat /\ \A m \in 1 .. Len(b) : b[m] \in Txs /\ Vin[b[m]] \in Seq(OutPoint)
           /\ \A m : NextTx(Append(c, b), m) = b[m + 1]
           /\ \A m, n : NextOut(Append(c, b), m, n) = Vin[b[m + 1]][n + 1]
           /\ \A m, n \in Nat : m < Len(b) /\ n <= Len(Vin[b[m + 1]]) => At(Append(c, b), m, n)
<1> DEFINE a == Append(c, b)
<1>1. a \in Seq(Blocks) /\ a # <<>> /\ Len(a) = Len(c) + 1 /\ a[Len(a)] = b
  OBVIOUS
<1> HIDE DEF a
<1>2. b \in Seq(Txs)
  BY Zenon, BlockUndoAssumption
<1>3. Len(b) \in Nat /\ \A m \in 1 .. Len(b) : b[m] \in Txs
  BY <1>2
<1>4. \A m \in 1 .. Len(b) : Vin[b[m]] \in Seq(OutPoint)
  BY <1>3, BlockUndoAssumption
<1>5. \A m : NextTx(a, m) = b[m + 1]
  BY Zenon, <1>1 DEF NextTx
<1>6. \A m, n : NextOut(a, m, n) = Vin[b[m + 1]][n + 1]
  BY Zenon, <1>5 DEF NextOut
<1>7. \A m, n \in Nat : m < Len(b) /\ n <= Len(Vin[b[m + 1]]) => At(a, m, n)
  BY Zenon, <1>1, <1>5 DEF At
<1> QED BY Zenon, <1>1, <1>2, <1>3, <1>4, <1>5, <1>6, <1>7 DEF a

\* BlockInv holds before the first block is connected.
LEMMA BlockInvInit ==
    ASSUME Init
    PROVE  BlockInv
<1>1. TypeOK
  <2>1. tip \in View
    <3>1. Pruned \in Coin
      BY DEF Pruned, Coin, NoOutputs
    <3>2. [t \in Txs |-> Pruned] \in [Txs -> Coin]
      BY <3>1
    <3>3. {<<>>} \in SUBSET Root /\ <<>> \in Root /\ {} \in SUBSET Nullifiers
      BY DEF Root
    <3> QED BY <3>2, <3>3 DEF Init, View
  <2>2. pc = "idle" /\ i = 0 /\ j = 0 /\ undo = <<>> /\ view = tip /\ chain = <<>>
    BY DEF Init
  <2>3. chain \in Seq(Blocks)
    BY <2>2
  <2> QED BY <2>1, <2>2, <2>3 DEF TypeOK, Connecting
<1>2. Recorded /\ Fresh /\ FreshTx
  BY DEF Recorded, Fresh, FreshTx, Connecting, Init
<1>3. Written
  BY DEF Written, Init
<1>4. TipExact
  <2>1. chain = <<>> /\ chain \in Seq(Blocks) /\ Len(chain) = 0 /\ LastTxs(chain) = 0
    BY DEF Init, LastTxs
  <2>2. Places(chain, 0) = {}
    BY <2>1 DEF Places
  <2>3. \A t \in Txs : CoinsAt(chain, 0, 0, t) = Pruned
    BY Zenon, <2>2 DEF CoinsAt
  <2>4. NullifiersAt(chain, 0) = {}
    BY <2>2 DEF NullifiersAt
  <2>5. RootsOf(chain)[0] = <<>>
    BY Zenon, <2>1, RootsAre
  <2>6. AnchorsAt(chain) = {<<>>}
    <3>1. 0 .. 0 = {0}
      OBVIOUS
    <3> QED BY <2>1, <2>5, <3>1 DEF AnchorsAt
  <2>7. \A t \in Txs : tip.coins[t] = Pruned
    BY DEF Init
  <2>8. tip.nullifiers = {} /\ tip.anchors = {<<>>} /\ tip.best = <<>>
    BY DEF Init
  <2> QED BY Zenon, <2>1, <2>3, <2>4, <2>5, <2>6, <2>7, <2>8 DEF TipExact
<1>5. ViewExact
  <2>1. view = tip /\ pc = "idle" /\ j = 0 /\ fClean = TRUE
    BY DEF Init
  <2>2. Applied = chain /\ AppliedTxs = LastTxs(chain)
    BY <2>1 DEF Applied, AppliedTxs
  <2> QED BY <1>4, <2>1, <2>2 DEF ViewExact, TipExact
<1> QED BY Zenon, <1>1, <1>2, <1>3, <1>4, <1>5 DEF BlockInv

\* ConnectBlock begins only if no transaction of the block has coins left (BIP30).
LEMMA BlockInvBeginConnect ==
    ASSUME BlockInv, NEW vtx \in Blocks, BeginConnect(vtx)
    PROVE  BlockInv'
<1>1. /\ pc = "idle" /\ pc' = "tx" /\ block' = vtx /\ view = tip /\ i = 0 /\ j = 0 /\ undo = <<>>
      /\ chain' = chain /\ rev' = rev /\ tip' = tip /\ view' = view /\ i' = i /\ j' = j /\ undo' = undo /\ fClean' = fClean
      /\ chain \in Seq(Blocks)
  BY DEF BeginConnect, BlockInv, TypeOK
<1>2. Connecting' /\ pc' # "spend" /\ pc' # "undo" /\ pc' # "idle"
  BY <1>1 DEF Connecting
<1>3. TypeOK'
  <2>1. Len(vtx) \in Nat /\ 0 <= Len(vtx)
    BY <1>1, AppendBlock
  <2>2. <<>> \in Seq(Seq(TxInUndo)) /\ Len(<<>>) = 0
    OBVIOUS
  <2> QED BY <1>1, <1>2, <2>1, <2>2 DEF BlockInv, TypeOK
<1>4. Recorded'
  <2>1. \A m \in Nat : ~(m < 0)
    OBVIOUS
  <2> QED BY Zenon, <1>1, <1>2, <2>1 DEF Recorded
<1>5. Written'
  BY Zenon, <1>1 DEF BlockInv, Written
<1>6. TipExact'
  BY Zenon, <1>1 DEF BlockInv, TipExact
<1>7. ViewExact'
  <2>1. Applied = chain /\ AppliedTxs = LastTxs(chain) /\ Applied' = Append(chain, vtx) /\ AppliedTxs' = 0
    BY <1>1 DEF Applied, AppliedTxs
  <2>2. LastTxs(chain) \in Nat /\ (chain # <<>> => LastTxs(chain) = Len(chain[Len(chain)]))
    <3>1. chain # <<>> => Len(chain) \in 1 .. Len(chain)
      BY <1>1
    <3> QED BY <1>1, <3>1, BlocksOfChain DEF LastTxs
  <2>3. \A t \in Txs : CoinsAt(Append(chain, vtx), 0, 0, t) = CoinsAt(chain, LastTxs(chain), 0, t)
    BY Zenon, <1>1, <2>2, BoundaryStep
  <2>4. NullifiersAt(Append(chain, vtx), 0) = NullifiersAt(chain, LastTxs(chain))
    BY Zenon, <1>1, <2>2, NullifiersBoundary
  <2> QED BY <1>1, <2>1, <2>3, <2>4 DEF BlockInv, ViewExact
<1>8. Fresh'
  <2>1. \A m \in 1 .. Len(vtx) : tip.coins[vtx[m]] = Pruned
    BY Zenon DEF BeginConnect, OverwritesUnspent
  <2>2. \A m : m \notin 1 .. 0
    OBVIOUS
  <2> QED BY Zenon, <1>1, <2>1, <2>2 DEF Fresh
<1>9. FreshTx'
  BY Zenon, <1>2 DEF FreshTx
<1> QED BY Zenon, <1>3, <1>4, <1>5, <1>6, <1>7, <1>8, <1>9 DEF BlockInv

\* An output that is there is an output of coins that are there.
LEMMA AvailableNotPruned ==
    ASSUME NEW coins, NEW out \in OutPoint, IsAvailable(coins, out)
    PROVE  coins[out.hash] # Pruned
BY DEF IsAvailable, Pruned, NoOutputs, OutPoint

\* HaveInputs and HaveJoinSplitRequirements make sure of the inputs and the
\* nullifiers of a transaction before UpdateCoins.
LEMMA BlockInvBeginTx ==
    ASSUME BlockInv, BeginTx
    PROVE  BlockInv'
<1> DEFINE a == Append(chain, block)
<1>1. /\ pc = "tx" /\ pc' = "spend" /\ i < Len(block) /\ undo' = Append(undo, <<>>)
      /\ chain' = chain /\ rev' = rev /\ tip' = tip /\ view' = view /\ block' = block /\ i' = i /\ j' = j /\ fClean' = fClean
      /\ chain \in Seq(Blocks) /\ block \in Blocks /\ i \in Nat /\ j = 0 /\ undo \in Seq(Seq(TxInUndo)) /\ Len(undo) = i
      /\ tip \in View /\ view \in View /\ i <= Len(block)
  BY DEF BeginTx, BlockInv, TypeOK, Connecting
<1>2. /\ Connecting /\ Connecting' /\ pc # "spend" /\ pc' # "undo" /\ pc' # "idle" /\ pc' # "tx"
      /\ Applied = Applied' /\ AppliedTxs = AppliedTxs'
  BY <1>1 DEF Connecting, Applied, AppliedTxs
<1>3. /\ block \in Seq(Txs) /\ Len(block) \in Nat /\ Tx \in Txs /\ Vin[Tx] \in Seq(OutPoint) /\ i + 1 \in 1 .. Len(block)
      /\ \A m \in 1 .. i : m \in 1 .. Len(block) /\ block[m] \in Txs
  <2>1. i + 1 \in 1 .. Len(block) /\ \A m \in 1 .. i : m \in 1 .. Len(block)
    BY <1>1, AppendBlock
  <2> QED BY Zenon, <1>1, <2>1, AppendBlock DEF Tx
<1>4. /\ Len(undo') = i + 1 /\ undo' \in Seq(Seq(TxInUndo)) /\ undo'[i + 1] = <<>>
      /\ \A m \in Nat : m < i => undo'[m + 1] = undo[m + 1]
  <2>1. <<>> \in Seq(TxInUndo)
    OBVIOUS
  <2> QED BY <1>1, <2>1
<1>5. TypeOK'
  <2>1. 0 <= Len(Vin[Tx])
    BY <1>3
  <2> QED BY <1>1, <1>2, <1>4, <2>1 DEF BlockInv, TypeOK, Tx
<1>6. Recorded'
  <2>1. \A m \in Nat : m < i => AddSound(a, m) /\ RecordedTx(a, m, Len(Vin[NextTx(a, m)]))
    BY Zenon, <1>2 DEF BlockInv, Recorded
  <2>2. ASSUME NEW m \in Nat, m < i PROVE RecordedTx(a, m, Len(Vin[NextTx(a, m)]))'
    BY Zenon, <1>1, <1>4, <2>1, <2>2 DEF RecordedTx
  <2>3. RecordedTx(a, i, j)'
    <3>1. Len(<<>>) = 0 /\ \A n \in Nat : ~(n < 0)
      OBVIOUS
    <3> QED BY Zenon, <1>1, <1>4, <3>1 DEF RecordedTx
  <2> QED BY Zenon, <1>1, <2>1, <2>2, <2>3 DEF Recorded
<1>7. Written' /\ TipExact'
  BY Zenon, <1>1 DEF BlockInv, Written, TipExact
<1>8. ViewExact'
  BY SMTT(30), <1>1, <1>2 DEF BlockInv, ViewExact
<1>9. Fresh'
  <2>1. Fresh
    BY Zenon DEF BlockInv
  <2>2. block' = block /\ i' = i /\ tip' = tip /\ view' = view /\ Connecting
    BY Zenon, <1>1, <1>2
  <2> QED BY <2>1, <2>2 DEF Fresh
<1>10. FreshTx'
  <2>1. /\ \A x \in 1 .. Len(Vin[Tx]) : IsAvailable(view.coins, Vin[Tx][x])
        /\ IsShielded(Tx) => Reveals[Tx] \cap view.nullifiers = {}
    BY Zenon DEF BeginTx, HaveInputs, HaveJoinSplitRequirements
  <2>2. /\ \A m \in 1 .. i : \A x \in 1 .. Len(Vin[block[m]]) : ~ IsAvailable(view.coins, Vin[block[m]][x])
        /\ \A t \in Txs : view.coins[t] # Pruned => tip.coins[t] # Pruned \/ \E l \in 1 .. i : block[l] = t
        /\ \A m \in 1 .. i : Reveals[block[m]] \subseteq view.nullifiers
    BY Zenon, <1>2 DEF BlockInv, Fresh
  <2>3. Reveals[Tx] \cap view.nullifiers = {}
    BY <2>1 DEF IsShielded
  <2>4. ASSUME NEW l \in 1 .. i PROVE block[l] # Tx
    <3>1. SUFFICES ASSUME block[l] = Tx PROVE FALSE
      OBVIOUS
    <3>2. Tx \notin CoinBases
      <4>1. i + 1 \in 2 .. Len(block)
        BY <1>1, <1>3
      <4> QED BY Zenon, <1>1, <4>1, BlockUndoAssumption DEF Tx
    <3>3. Vin[Tx] # <<>> \/ Reveals[Tx] # {}
      BY Zenon, <1>3, <3>2, BlockUndoAssumption
    <3>4. Reveals[Tx] = {}
      BY <2>2, <2>3, <3>1
    <3>5. 1 \in 1 .. Len(Vin[Tx])
      BY <1>3, <3>3, <3>4
    <3> QED BY Zenon, <2>1, <2>2, <3>1, <3>5
  <2>5. ASSUME NEW x \in 1 .. Len(Vin[Tx])
        PROVE  tip.coins[Vin[Tx][x].hash] # Pruned \/ \E l \in 1 .. i : block[l] = Vin[Tx][x].hash
    <3>1. Vin[Tx][x] \in OutPoint
      BY <1>3
    <3>2. Vin[Tx][x].hash \in Txs
      BY <3>1 DEF OutPoint
    <3>3. view.coins[Vin[Tx][x].hash] # Pruned
      BY Zenon, <2>1, <3>1, AvailableNotPruned
    <3> QED BY Zenon, <2>2, <3>2, <3>3
  <2>6. \A x \in 1 .. Len(Vin[Tx]) : x > 0
    BY <1>3
  <2>7. Tx' = Tx
    BY Zenon, <1>1 DEF Tx
  <2> QED BY Zenon, <1>1, <2>1, <2>3, <2>4, <2>5, <2>6, <2>7 DEF FreshTx
<1> QED BY Zenon, <1>5, <1>6, <1>7, <1>8, <1>9, <1>10 DEF BlockInv

\* Spending one output takes it away, and no other one.
LEMMA SpentAvailable ==
    ASSUME NEW coins \in [Txs -> Coin], NEW out \in OutPoint, NEW o \in OutPoint
    PROVE  IsAvailable([coins EXCEPT ![out.hash] = Spend(coins[out.hash], out.n)], o) <=> IsAvailable(coins, o) /\ o # out
<1> DEFINE c == coins[out.hash]
           s == Spend(c, out.n)
<1>1. out.hash \in Txs /\ out.n \in Pos /\ o.hash \in Txs /\ o.n \in Pos /\ (o = out <=> o.hash = out.hash /\ o.n = out.n)
  BY DEF OutPoint
<1>2. c \in Coin
  BY <1>1
<1>3. s.vout = [c.vout EXCEPT ![out.n] = NULL] /\ c.vout \in [Pos -> Outs \cup {NULL}]
  <2>1. s.vout = [c.vout EXCEPT ![out.n] = NULL]
    BY Zenon, <1>1, <1>2, SpendParts
  <2> QED BY <1>2, <2>1 DEF Coin
<1> HIDE DEF s
<1> QED BY <1>1, <1>3 DEF IsAvailable, s

\* UpdateCoins spends an input and records in the undo data what it needs to be put back.
LEMMA BlockInvSpendInput ==
    ASSUME BlockInv, SpendInput
    PROVE  BlockInv'
<1> DEFINE a == Append(chain, block)
           out == Vin[Tx][j + 1]
           c == view.coins[out.hash]
           s == Spend(c, out.n)
           u == InUndo(c, out.n)
<1>1. /\ pc = "spend" /\ pc' = pc /\ j < Len(Vin[Tx]) /\ j' = j + 1 /\ IsAvailable(view.coins, out)
      /\ view' = [view EXCEPT !.coins[out.hash] = s] /\ undo' = [undo EXCEPT ![i + 1] = Append(@, u)]
      /\ chain' = chain /\ rev' = rev /\ tip' = tip /\ block' = block /\ i' = i /\ fClean' = fClean
  BY DEF SpendInput
<1>2. /\ chain \in Seq(Blocks) /\ block \in Blocks /\ i \in Nat /\ j \in Nat /\ j + 1 \in Nat /\ i < Len(block) /\ i <= Len(block)
      /\ undo \in Seq(Seq(TxInUndo)) /\ Len(undo) = i + 1 /\ tip \in View /\ view \in View
  BY SMTT(30), <1>1 DEF BlockInv, TypeOK, Connecting
<1>3. /\ Connecting /\ Connecting' /\ pc' # "undo" /\ pc' # "idle" /\ pc' # "tx"
      /\ Applied = a /\ Applied' = a /\ AppliedTxs = i /\ AppliedTxs' = i /\ Tx' = Tx
  BY <1>1 DEF Connecting, Applied, AppliedTxs, Tx
<1>4. /\ At(a, i, j) /\ NextTx(a, i) = Tx /\ NextOut(a, i, j) = out
      /\ Tx \in Txs /\ Vin[Tx] \in Seq(OutPoint) /\ i + 1 \in 1 .. Len(block)
  <2>1. i + 1 \in 1 .. Len(block)
    BY SMTT(30), <1>2, AppendBlock
  <2>2. j <= Len(Vin[block[i + 1]])
    BY <1>1 DEF BlockInv, TypeOK, Tx
  <2>3. Tx \in Txs /\ Vin[Tx] \in Seq(OutPoint)
    BY Zenon, <1>2, <2>1, AppendBlock DEF Tx
  <2>4. NextTx(a, i) = Tx /\ NextOut(a, i, j) = out
    <3>1. /\ \A m : NextTx(a, m) = block[m + 1]
          /\ \A m, n : NextOut(a, m, n) = Vin[block[m + 1]][n + 1]
      BY Zenon, <1>2, AppendBlock
    <3> HIDE DEF a
    <3> QED BY Zenon, <3>1 DEF Tx
  <2>5. At(a, i, j)
    BY Zenon, <1>2, <2>2, AppendBlock
  <2> QED BY Zenon, <2>1, <2>3, <2>4, <2>5
<1>5. out \in OutPoint /\ out.hash \in Txs /\ out.n \in Pos
  <2>1. out \in OutPoint
    BY <1>1, <1>2, <1>4
  <2> QED BY <2>1 DEF OutPoint
<1>6. c \in Coin /\ view.coins \in [Txs -> Coin] /\ s \in Coin /\ u \in TxInUndo
  <2>1. view.coins \in [Txs -> Coin]
    BY <1>2 DEF View
  <2>2. c \in Coin
    BY <1>5, <2>1
  <2> QED BY Zenon, <1>5, <2>1, <2>2, SpendParts, InUndoTyped
<1> HIDE DEF s, u, out
<1>7. /\ view' \in View /\ view'.coins = [view.coins EXCEPT ![out.hash] = s] /\ view'.nullifiers = view.nullifiers
      /\ view'.best = view.best /\ view'.anchors = view.anchors
  BY Zenon, <1>1, <1>2, <1>5, <1>6 DEF View
<1>8. /\ undo' \in Seq(Seq(TxInUndo)) /\ Len(undo') = i + 1
      /\ \A m \in Nat : m < i => undo'[m + 1] = undo[m + 1]
      /\ undo'[i + 1] = Append(undo[i + 1], u) /\ undo[i + 1] \in Seq(TxInUndo)
  <2>1. i + 1 \in 1 .. Len(undo) /\ undo[i + 1] \in Seq(TxInUndo)
    BY <1>2
  <2>2. Append(undo[i + 1], u) \in Seq(TxInUndo)
    BY <1>6, <2>1
  <2> QED BY <1>1, <1>2, <2>1, <2>2
<1>9. TypeOK'
  <2>1. j + 1 <= Len(Vin[Tx])
    BY <1>1, <1>2, <1>4
  <2> QED BY <1>1, <1>2, <1>3, <1>7, <1>8, <2>1 DEF BlockInv, TypeOK
<1>10. \A t \in Txs : view.coins[t] = CoinsAt(a, i, j, t)
  BY <1>3 DEF BlockInv, ViewExact
<1>11. Recorded'
  <2>1. \A m \in Nat : m < i => AddSound(a, m) /\ RecordedTx(a, m, Len(Vin[NextTx(a, m)]))
    BY Zenon, <1>3 DEF BlockInv, Recorded
  <2>2. RecordedTx(a, i, j)
    BY Zenon, <1>1, <1>3 DEF BlockInv, Recorded
  <2>3. ASSUME NEW m \in Nat, m < i PROVE RecordedTx(a, m, Len(Vin[NextTx(a, m)]))'
    BY Zenon, <1>1, <1>8, <2>1, <2>3 DEF RecordedTx
  <2>4. SpendSound(a, i, j) /\ UndoOf(a, i, j) = u
    <3>1. CoinsAt(a, i, j, out.hash) = c
      BY Zenon, <1>5, <1>10
    <3> QED BY Zenon, <1>1, <1>4, <3>1 DEF SpendSound, UndoOf, IsAvailable, u
  <2>5. /\ Len(undo'[i + 1]) = j + 1 /\ undo'[i + 1][j + 1] = u
        /\ \A n \in Nat : n < j => undo'[i + 1][n + 1] = undo[i + 1][n + 1]
    BY <1>2, <1>8, <2>2 DEF RecordedTx
  <2>6. ASSUME NEW n \in Nat, n < j + 1 PROVE SpendSound(a, i, n) /\ undo'[i + 1][n + 1] = UndoOf(a, i, n)
    <3>1. n < j \/ n = j
      BY <1>2, <2>6
    <3> QED BY Zenon, <2>2, <2>4, <2>5, <3>1 DEF RecordedTx
  <2>7. RecordedTx(a, i, j)'
    BY Zenon, <1>1, <2>5, <2>6 DEF RecordedTx
  <2> QED BY Zenon, <1>1, <2>1, <2>3, <2>7 DEF Recorded
<1>12. Written' /\ TipExact'
  BY Zenon, <1>1 DEF BlockInv, Written, TipExact
<1>13. ViewExact'
  <2>1. ASSUME NEW t \in Txs PROVE view'.coins[t] = CoinsAt(a, i, j + 1, t)
    <3>1. CoinsAt(a, i, j + 1, t) = IF t = out.hash THEN Spend(CoinsAt(a, i, j, t), out.n) ELSE CoinsAt(a, i, j, t)
      BY <1>1, <1>4, SpendStep
    <3>2. view'.coins[t] = IF t = out.hash THEN s ELSE view.coins[t]
      BY <1>5, <1>6, <1>7
    <3> QED BY Zenon, <1>10, <3>1, <3>2 DEF s
  <2> QED BY <1>1, <1>3, <1>7, <2>1 DEF BlockInv, ViewExact
<1>14. \A o \in OutPoint : IsAvailable(view'.coins, o) <=> IsAvailable(view.coins, o) /\ o # out
  <2>1. \A o \in OutPoint : IsAvailable([view.coins EXCEPT ![out.hash] = s], o) <=> IsAvailable(view.coins, o) /\ o # out
    BY Zenon, <1>5, <1>6, SpentAvailable DEF s
  <2> QED BY Zenon, <1>7, <2>1
<1>15. Fresh'
  <2> DEFINE From(t, n) == tip.coins[t] # Pruned \/ \E l \in 1 .. i : l < n /\ block[l] = t
  <2>1. /\ \A m \in 1 .. Len(block) : tip.coins[block[m]] = Pruned
        /\ \A m, l \in 1 .. i : block[m] = block[l] => m = l
        /\ \A m \in 1 .. i : \A x \in 1 .. Len(Vin[block[m]]) :
              ~ IsAvailable(view.coins, Vin[block[m]][x]) /\ From(Vin[block[m]][x].hash, m)
        /\ \A t \in Txs : view.coins[t] # Pruned => tip.coins[t] # Pruned \/ \E l \in 1 .. i : block[l] = t
        /\ \A m \in 1 .. i : Reveals[block[m]] \subseteq view.nullifiers
    BY Zenon, <1>3 DEF BlockInv, Fresh
  <2>2. ASSUME NEW m \in 1 .. i, NEW x \in 1 .. Len(Vin[block[m]]) PROVE ~ IsAvailable(view'.coins, Vin[block[m]][x])
    <3>1. m \in 1 .. Len(block)
      BY <1>2, AppendBlock
    <3>2. Vin[block[m]] \in Seq(OutPoint)
      BY Zenon, <1>2, <3>1, AppendBlock
    <3>3. Vin[block[m]][x] \in OutPoint
      BY <3>2
    <3> QED BY Zenon, <1>14, <2>1, <3>3
  <2>3. ASSUME NEW t \in Txs, view'.coins[t] # Pruned PROVE view.coins[t] # Pruned
    <3>1. c # Pruned
      BY Zenon, <1>1, <1>5, AvailableNotPruned
    <3>2. t # out.hash => view'.coins[t] = view.coins[t]
      BY <1>5, <1>6, <1>7
    <3> QED BY Zenon, <2>3, <3>1, <3>2
  <2> QED BY SMTT(30), <1>1, <1>7, <2>1, <2>2, <2>3 DEF Fresh
<1>16. FreshTx'
  <2>1. /\ \A l \in 1 .. i : block[l] # Tx
        /\ Reveals[Tx] \cap view.nullifiers = {}
        /\ \A x \in 1 .. Len(Vin[Tx]) :
              /\ IsAvailable(view.coins, Vin[Tx][x]) <=> x > j
              /\ tip.coins[Vin[Tx][x].hash] # Pruned \/ \E l \in 1 .. i : block[l] = Vin[Tx][x].hash
    BY Zenon, <1>1 DEF BlockInv, FreshTx
  <2>2. ASSUME NEW x \in 1 .. Len(Vin[Tx]) PROVE IsAvailable(view'.coins, Vin[Tx][x]) <=> x > j + 1
    <3>1. Vin[Tx][x] \in OutPoint /\ j + 1 \in 1 .. Len(Vin[Tx])
      BY <1>1, <1>2, <1>4
    <3>2. Vin[Tx][x] = out <=> x = j + 1
      BY Zenon, <1>4, <3>1, BlockUndoAssumption DEF out
    <3>3. x > j + 1 <=> x > j /\ x # j + 1
      BY <1>2, <1>4
    <3> QED BY Zenon, <1>14, <2>1, <3>1, <3>2, <3>3
  <2> QED BY Zenon, <1>1, <1>3, <1>7, <2>1, <2>2 DEF FreshTx
<1> QED BY Zenon, <1>9, <1>11, <1>12, <1>13, <1>15, <1>16 DEF BlockInv

\* UpdateCoins marks the nullifiers as spent and adds the outputs.
LEMMA BlockInvAddOutputs ==
    ASSUME BlockInv, AddOutputs
    PROVE  BlockInv'
<1> DEFINE a == Append(chain, block)
           N == Len(Vin[Tx])
           f == FromTx(Tx, nHeight)
<1>1. /\ pc = "spend" /\ pc' = "tx" /\ j = N /\ j' = 0 /\ i' = i + 1
      /\ view' = [view EXCEPT !.coins[Tx] = f, !.nullifiers = @ \cup Reveals[Tx]]
      /\ chain' = chain /\ rev' = rev /\ tip' = tip /\ block' = block /\ undo' = undo /\ fClean' = fClean
  BY DEF AddOutputs
<1>2. /\ chain \in Seq(Blocks) /\ block \in Blocks /\ i \in Nat /\ i + 1 \in Nat /\ j \in Nat /\ i < Len(block)
      /\ undo \in Seq(Seq(TxInUndo)) /\ Len(undo) = i + 1 /\ tip \in View /\ view \in View
  BY <1>1 DEF BlockInv, TypeOK, Connecting
<1>3. /\ Connecting /\ Connecting' /\ pc' # "undo" /\ pc' # "idle" /\ pc' # "spend"
      /\ Applied = a /\ Applied' = a /\ AppliedTxs = i /\ AppliedTxs' = i + 1
  BY <1>1 DEF Connecting, Applied, AppliedTxs
<1>4. /\ At(a, i, N) /\ NextTx(a, i) = Tx /\ Len(a) = nHeight
      /\ Tx \in Txs /\ Vin[Tx] \in Seq(OutPoint) /\ Len(block) \in Nat /\ i + 1 \in 1 .. Len(block)
      /\ \A m \in 1 .. Len(block) : block[m] \in Txs /\ Vin[block[m]] \in Seq(OutPoint)
  <2>1. i + 1 \in 1 .. Len(block)
    BY <1>2, AppendBlock
  <2>2. \A m \in 1 .. Len(block) : block[m] \in Txs /\ Vin[block[m]] \in Seq(OutPoint)
    BY Zenon, <1>2, AppendBlock
  <2>3. N \in Nat /\ N <= N /\ N = Len(Vin[block[i + 1]])
    BY <1>1, <1>2 DEF Tx
  <2>4. /\ \A m : NextTx(a, m) = block[m + 1]
        /\ Len(a) = Len(chain) + 1 /\ Len(block) \in Nat
    BY Zenon, <1>2, AppendBlock
  <2>5. At(a, i, N)
    BY Zenon, <1>2, <2>3, AppendBlock
  <2> HIDE DEF a
  <2> QED BY Zenon, <2>1, <2>2, <2>4, <2>5 DEF Tx, nHeight
<1>5. f \in Coin /\ view.coins \in [Txs -> Coin] /\ Reveals[Tx] \subseteq Nullifiers
  <2>1. nHeight \in Nat
    BY <1>2 DEF nHeight
  <2>2. f \in Coin
    BY Zenon, <1>4, <2>1, FromTxParts
  <2> QED BY SMTT(30), <1>2, <1>4, <2>2, BlockUndoAssumption DEF View
<1> HIDE DEF f
<1>6. /\ view' \in View /\ view'.coins = [view.coins EXCEPT ![Tx] = f] /\ view'.nullifiers = view.nullifiers \cup Reveals[Tx]
      /\ view'.best = view.best /\ view'.anchors = view.anchors
  BY Zenon, <1>1, <1>2, <1>4, <1>5 DEF View
<1>7. TypeOK'
  <2>1. i + 1 <= Len(block)
    BY <1>2, <1>4
  <2> QED BY SMTT(30), <1>1, <1>2, <1>3, <1>6, <2>1 DEF BlockInv, TypeOK
<1>8. /\ \A m \in 1 .. Len(block) : tip.coins[block[m]] = Pruned
      /\ \A m, l \in 1 .. i : block[m] = block[l] => m = l
      /\ \A m \in 1 .. i : \A x \in 1 .. Len(Vin[block[m]]) :
            /\ ~ IsAvailable(view.coins, Vin[block[m]][x])
            /\ \/ tip.coins[Vin[block[m]][x].hash] # Pruned
               \/ \E l \in 1 .. i : l < m /\ block[l] = Vin[block[m]][x].hash
      /\ \A t \in Txs : view.coins[t] # Pruned => tip.coins[t] # Pruned \/ \E l \in 1 .. i : block[l] = t
      /\ \A m \in 1 .. i : Reveals[block[m]] \subseteq view.nullifiers
  BY Zenon, <1>3 DEF BlockInv, Fresh
<1>9. /\ \A l \in 1 .. i : block[l] # Tx
      /\ Reveals[Tx] \cap view.nullifiers = {}
      /\ \A x \in 1 .. Len(Vin[Tx]) :
            /\ IsAvailable(view.coins, Vin[Tx][x]) <=> x > j
            /\ tip.coins[Vin[Tx][x].hash] # Pruned \/ \E l \in 1 .. i : block[l] = Vin[Tx][x].hash
  BY Zenon, <1>1 DEF BlockInv, FreshTx
<1>10. tip.coins[Tx] = Pruned
  BY Zenon, <1>4, <1>8 DEF Tx
<1>11. \A t \in Txs : view.coins[t] = CoinsAt(a, i, N, t)
  BY <1>1, <1>3 DEF BlockInv, ViewExact
<1>12. view.nullifiers = NullifiersAt(a, i)
  BY <1>3 DEF BlockInv, ViewExact
<1>13. AddSound(a, i)
  <2>1. view.coins[Tx] = Pruned
    BY Zenon, <1>4, <1>8, <1>9, <1>10
  <2>2. CoinsAt(a, i, N, Tx) = Pruned
    BY Zenon, <1>4, <1>11, <2>1
  <2> QED BY Zenon, <1>4, <1>9, <1>12, <2>2 DEF AddSound
<1>14. Recorded'
  <2>1. \A m \in Nat : m < i => AddSound(a, m) /\ RecordedTx(a, m, Len(Vin[NextTx(a, m)]))
    BY Zenon, <1>3 DEF BlockInv, Recorded
  <2>2. RecordedTx(a, i, Len(Vin[NextTx(a, i)]))
    BY Zenon, <1>1, <1>3, <1>4 DEF BlockInv, Recorded
  <2>3. \A m \in Nat : m < i + 1 => m < i \/ m = i
    BY <1>2
  <2>4. \A m \in Nat : m < i + 1 => AddSound(a, m) /\ RecordedTx(a, m, Len(Vin[NextTx(a, m)]))
    BY Zenon, <1>13, <2>1, <2>2, <2>3
  <2>5. \A m \in Nat : m < i + 1 => RecordedTx(a, m, Len(Vin[NextTx(a, m)]))'
    BY Zenon, <1>1, <2>4 DEF RecordedTx
  <2> QED BY Zenon, <1>1, <1>3, <2>4, <2>5 DEF Recorded
<1>15. Written' /\ TipExact'
  BY Zenon, <1>1 DEF BlockInv, Written, TipExact
<1>16. ViewExact'
  <2>1. ASSUME NEW t \in Txs PROVE view'.coins[t] = CoinsAt(a, i + 1, 0, t)
    <3>1. CoinsAt(a, i + 1, 0, t) = IF t = Tx THEN FromTx(t, Len(a)) ELSE CoinsAt(a, i, N, t)
      BY Zenon, <1>4, AddStep
    <3>2. view'.coins[t] = IF t = Tx THEN f ELSE view.coins[t]
      BY SMTT(30), <1>4, <1>5, <1>6
    <3> QED BY Zenon, <1>4, <1>11, <3>1, <3>2 DEF f
  <2>2. NullifiersAt(a, i + 1) = NullifiersAt(a, i) \cup Reveals[Tx]
    BY <1>4, NullifiersStep
  <2> QED BY SMTT(30), <1>1, <1>3, <1>6, <1>12, <2>1, <2>2 DEF BlockInv, ViewExact
<1>17. FreshTx'
  BY Zenon, <1>3 DEF FreshTx
<1>18. \A m \in 1 .. i + 1 : m \in 1 .. i \/ (m = i + 1 /\ block[m] = Tx)
  BY <1>2 DEF Tx
<1>19. \A l \in 1 .. i : l \in 1 .. i + 1 /\ l < i + 1
  BY <1>2
<1>20. ASSUME NEW m \in 1 .. i + 1, NEW l \in 1 .. i + 1, block[m] = block[l]
       PROVE  m = l
  <2>1. \A r, s \in 1 .. i : block[r] = block[s] => r = s
    BY Zenon, <1>8
  <2>2. \A r \in 1 .. i : block[r] # Tx
    BY Zenon, <1>9
  <2>3. (m \in 1 .. i \/ (m = i + 1 /\ block[m] = Tx)) /\ (l \in 1 .. i \/ (l = i + 1 /\ block[l] = Tx))
    BY Zenon, <1>18
  <2> QED BY Zenon, <1>20, <2>1, <2>2, <2>3
<1>21. ASSUME NEW m \in 1 .. i + 1, NEW x \in 1 .. Len(Vin[block[m]])
       PROVE  \/ tip.coins[Vin[block[m]][x].hash] # Pruned
              \/ \E l \in 1 .. i : l < m /\ block[l] = Vin[block[m]][x].hash
  <2>1. CASE m \in 1 .. i
    BY Zenon, <1>8, <2>1
  <2>2. CASE m = i + 1 /\ block[m] = Tx
    BY Zenon, <1>9, <1>19, <2>2
  <2> QED BY Zenon, <1>18, <2>1, <2>2
<1>22. ASSUME NEW m \in 1 .. i + 1, NEW x \in 1 .. Len(Vin[block[m]])
       PROVE  ~ IsAvailable(view'.coins, Vin[block[m]][x])
  <2>1. Vin[block[m]][x].hash # Tx
    BY Zenon, <1>9, <1>10, <1>21
  <2>2. ~ IsAvailable(view.coins, Vin[block[m]][x])
    <3>1. ~(x > Len(Vin[block[m]]))
      BY <1>2, <1>4, <1>18
    <3> QED BY Zenon, <1>1, <1>8, <1>9, <1>18, <3>1
  <2>3. Vin[block[m]][x] \in OutPoint
    BY SMTT(30), <1>4, <1>18
  <2>4. view'.coins[Vin[block[m]][x].hash] = view.coins[Vin[block[m]][x].hash]
    BY <1>5, <1>6, <2>1, <2>3 DEF OutPoint
  <2> QED BY Zenon, <2>2, <2>4 DEF IsAvailable
<1>23. ASSUME NEW t \in Txs, view'.coins[t] # Pruned PROVE tip.coins[t] # Pruned \/ \E l \in 1 .. i + 1 : block[l] = t
  <2>1. t # Tx => view'.coins[t] = view.coins[t]
    BY <1>5, <1>6
  <2>2. i + 1 \in 1 .. i + 1
    BY SMTT(30), <1>2
  <2> QED BY Zenon, <1>8, <1>19, <1>23, <2>1, <2>2 DEF Tx
<1>24. \A m \in 1 .. i + 1 : Reveals[block[m]] \subseteq view'.nullifiers
  BY SMTT(30), <1>6, <1>8, <1>18
<1>25. Fresh'
  BY <1>1, <1>8, <1>19, <1>20, <1>21, <1>22, <1>23, <1>24 DEF Fresh
<1> QED BY Zenon, <1>7, <1>14, <1>15, <1>16, <1>17, <1>25 DEF BlockInv

\* The transactions of the last block of a chain
LEMMA LastTxsParts ==
    ASSUME NEW a \in Seq(Blocks)
    PROVE  LastTxs(a) \in Nat /\ (a # <<>> => LastTxs(a) = Len(a[Len(a)]))
<1>1. a # <<>> => Len(a) \in 1 .. Len(a)
  OBVIOUS
<1> QED BY <1>1, BlocksOfChain DEF LastTxs

\* A block that is refused, or was only tested, leaves no trace.
LEMMA BlockInvRejectBlock ==
    ASSUME BlockInv, RejectBlock
    PROVE  BlockInv'
<1>1. /\ pc' = "idle" /\ i' = 0 /\ j' = 0 /\ undo' = <<>> /\ fClean' = TRUE /\ view' = tip
      /\ chain' = chain /\ rev' = rev /\ tip' = tip
  BY DEF RejectBlock, Idle
<1>2. ~ Connecting' /\ pc' # "tx" /\ pc' # "spend" /\ pc' # "undo"
  BY <1>1 DEF Connecting
<1>3. TypeOK'
  BY <1>1, <1>2 DEF BlockInv, TypeOK
<1>4. Recorded' /\ Fresh' /\ FreshTx'
  BY Zenon, <1>2 DEF Recorded, Fresh, FreshTx
<1>5. Written' /\ TipExact'
  BY Zenon, <1>1 DEF BlockInv, Written, TipExact
<1>6. ViewExact'
  <2>1. Applied' = chain /\ AppliedTxs' = LastTxs(chain)
    BY <1>1 DEF Applied, AppliedTxs
  <2> QED BY <1>1, <2>1 DEF BlockInv, ViewExact, TipExact
<1> QED BY Zenon, <1>3, <1>4, <1>5, <1>6 DEF BlockInv

\* The chains that end with the blocks of a chain
LEMMA PrefixesOfAppend ==
    ASSUME NEW c \in Seq(Blocks), NEW b \in Blocks
    PROVE  /\ \A h \in 1 .. Len(c) : SubSeq(Append(c, b), 1, h) = SubSeq(c, 1, h)
           /\ SubSeq(Append(c, b), 1, Len(c) + 1) = Append(c, b)
           /\ SubSeq(Append(c, b), 1, Len(c)) = c
OBVIOUS

\* The end of ConnectBlock writes the undo data and makes the view the tip.
LEMMA BlockInvFinishConnect ==
    ASSUME BlockInv, FinishConnect
    PROVE  BlockInv'
<1> DEFINE a == Append(chain, block)
           w == [vtxundo |-> WrittenUndo, old_tree_root |-> view.best]
<1>1. /\ pc = "tx" /\ i = Len(block) /\ chain' = a /\ tip' = PushAnchor(view, Tree) /\ view' = tip'
      /\ rev' = [c \in DOMAIN rev \cup {a} |-> IF c \in DOMAIN rev THEN rev[c] ELSE w]
      /\ pc' = "idle" /\ i' = 0 /\ j' = 0 /\ undo' = <<>> /\ fClean' = TRUE
  BY DEF FinishConnect, Idle
<1>2. /\ chain \in Seq(Blocks) /\ block \in Blocks /\ i \in Nat /\ j = 0
      /\ undo \in Seq(Seq(TxInUndo)) /\ Len(undo) = i /\ tip \in View /\ view \in View
  BY <1>1 DEF BlockInv, TypeOK, Connecting
<1>3. /\ Connecting /\ ~ Connecting' /\ pc' # "tx" /\ pc' # "spend" /\ pc' # "undo"
      /\ Applied = a /\ AppliedTxs = i /\ Applied' = a /\ AppliedTxs' = LastTxs(a)
  BY <1>1 DEF Connecting, Applied, AppliedTxs
<1>4. /\ a \in Seq(Blocks) /\ a # <<>> /\ Len(a) = Len(chain) + 1 /\ a[Len(a)] = block /\ LastTxs(a) = i
      /\ \A m : NextTx(a, m) = block[m + 1]
  <2>1. a \in Seq(Blocks) /\ a # <<>> /\ Len(a) = Len(chain) + 1 /\ a[Len(a)] = block
    BY Zenon, <1>2, AppendBlock
  <2>2. \A m : NextTx(a, m) = block[m + 1]
    BY Zenon, <1>2, AppendBlock
  <2> HIDE DEF a
  <2> QED BY Zenon, <1>1, <2>1, <2>2 DEF LastTxs
<1>5. /\ RootsOf(a)[Len(a)] = RootsOf(chain)[Len(chain)] \o ShieldedOf(block)
      /\ RootsOf(a)[Len(a) - 1] = RootsOf(chain)[Len(chain)]
      /\ AnchorsAt(a) = AnchorsAt(chain) \cup {RootsOf(a)[Len(a)]}
      /\ RootsOf(a)[Len(a)] \in Root
  <2>1. Len(a) \in 0 .. Len(a)
    BY <1>4
  <2>2. RootsOf(a)[Len(a)] \in Root
    BY Zenon, <1>4, <2>1, RootsAre
  <2> QED BY Zenon, <1>2, <2>2, AnchorsStep
<1>6. /\ view.best = RootsOf(chain)[Len(chain)] /\ view.anchors = AnchorsAt(chain)
      /\ Tree = RootsOf(a)[Len(a)]
  BY Zenon, <1>5 DEF BlockInv, ViewExact, TipExact, Tree
<1>7. /\ tip' \in View /\ tip'.coins = view.coins /\ tip'.nullifiers = view.nullifiers
      /\ tip'.best = RootsOf(a)[Len(a)] /\ tip'.anchors = view.anchors \cup {RootsOf(a)[Len(a)]}
  BY Zenon, <1>1, <1>2, <1>5, <1>6 DEF PushAnchor, View
<1>8. TypeOK'
  BY <1>1, <1>3, <1>4, <1>7 DEF TypeOK
<1>9. Recorded' /\ Fresh' /\ FreshTx'
  BY Zenon, <1>3 DEF Recorded, Fresh, FreshTx
<1>10. TipExact'
  BY Zenon, <1>1, <1>2, <1>3, <1>4, <1>5, <1>6, <1>7 DEF BlockInv, ViewExact, TipExact
<1>11. ViewExact'
  BY Zenon, <1>1, <1>3, <1>10 DEF ViewExact, TipExact
<1>12. CanUndo(a, w)
  <2>1. w.old_tree_root = RootsOf(a)[Len(a) - 1] /\ w.vtxundo = WrittenUndo
    BY <1>5, <1>6
  <2>2. ASSUME NEW m \in Nat, m < i
        PROVE  /\ AddSound(a, m)
               /\ \A n \in Nat : n < Len(Vin[NextTx(a, m)]) =>
                     SpendSound(a, m, n) /\ w.vtxundo[m + 1][n + 1] = ReadBack(UndoOf(a, m, n))
    <3>1. AddSound(a, m) /\ RecordedTx(a, m, Len(Vin[NextTx(a, m)]))
      BY Zenon, <1>3, <2>2 DEF BlockInv, Recorded
    <3>2. /\ Len(undo[m + 1]) = Len(Vin[NextTx(a, m)])
          /\ \A n \in Nat : n < Len(Vin[NextTx(a, m)]) => SpendSound(a, m, n) /\ undo[m + 1][n + 1] = UndoOf(a, m, n)
      BY Zenon, <3>1 DEF RecordedTx
    <3>3. m + 1 \in 1 .. Len(undo) /\ undo[m + 1] \in Seq(TxInUndo)
      BY <1>2, <2>2
    <3>4. \A n \in Nat : n < Len(undo[m + 1]) => n + 1 \in 1 .. Len(undo[m + 1])
      BY <3>3
    <3>5. \A n \in 1 .. Len(undo[m + 1]) : WrittenUndo[m + 1][n] = ReadBack(undo[m + 1][n])
      BY Zenon, <3>3 DEF WrittenUndo
    <3> HIDE DEF a, w
    <3> QED BY Zenon, <2>1, <3>1, <3>2, <3>4, <3>5
  <2> HIDE DEF a, w
  <2> QED BY Zenon, <1>1, <1>4, <2>1, <2>2 DEF CanUndo
<1>13. Written'
  <2>1. /\ \A c \in DOMAIN rev : c \in Seq(Blocks) /\ c # <<>> /\ CanUndo(c, rev[c])
        /\ \A h \in 1 .. Len(chain) : SubSeq(chain, 1, h) \in DOMAIN rev
    BY Zenon DEF BlockInv, Written
  <2>2. DOMAIN rev' = DOMAIN rev \cup {a} /\ \A c \in DOMAIN rev' : rev'[c] = IF c \in DOMAIN rev THEN rev[c] ELSE w
    BY Zenon, <1>1
  <2>3. ASSUME NEW c \in DOMAIN rev' PROVE c \in Seq(Blocks) /\ c # <<>> /\ CanUndo(c, rev'[c])
    <3> HIDE DEF a, w
    <3>1. CASE c \in DOMAIN rev
      BY Zenon, <2>1, <2>2, <3>1
    <3>2. CASE c \notin DOMAIN rev
      <4>1. c = a /\ rev'[c] = w
        BY Zenon, <2>2, <2>3, <3>2
      <4> QED BY Zenon, <1>4, <1>12, <4>1
    <3> QED BY Zenon, <3>1, <3>2
  <2>4. ASSUME NEW h \in 1 .. Len(a) PROVE SubSeq(a, 1, h) \in DOMAIN rev'
    <3>1. h \in 1 .. Len(chain) \/ h = Len(chain) + 1
      BY <1>2, <1>4
    <3>2. CASE h \in 1 .. Len(chain)
      <4>1. SubSeq(a, 1, h) = SubSeq(chain, 1, h)
        BY Zenon, <1>2, <3>2, PrefixesOfAppend
      <4>2. SubSeq(chain, 1, h) \in DOMAIN rev
        BY Zenon, <2>1, <3>2
      <4> QED BY Zenon, <2>2, <4>1, <4>2
    <3>3. CASE h = Len(chain) + 1
      BY <1>2, <2>2, <3>3, PrefixesOfAppend
    <3> QED BY Zenon, <3>1, <3>2, <3>3
  <2> HIDE DEF a, w
  <2> QED BY Zenon, <1>1, <2>3, <2>4 DEF Written
<1> QED BY Zenon, <1>8, <1>9, <1>10, <1>11, <1>13 DEF BlockInv

\* DisconnectBlock reads the undo data of the last block back.
LEMMA BlockInvBeginDisconnect ==
    ASSUME BlockInv, BeginDisconnect
    PROVE  BlockInv'
<1>1. /\ pc = "idle" /\ pc' = "undo" /\ chain # <<>> /\ block' = chain[Len(chain)] /\ undo' = rev[chain].vtxundo
      /\ i' = Len(block') /\ chain' = chain /\ rev' = rev /\ tip' = tip /\ view' = view /\ j' = j /\ fClean' = fClean
      /\ chain \in Seq(Blocks) /\ j = 0
  BY DEF BeginDisconnect, BlockInv, TypeOK
<1>2. ~ Connecting' /\ pc' # "tx" /\ pc' # "spend" /\ pc' # "idle"
  BY <1>1 DEF Connecting
<1>3. LastTxs(chain) \in Nat /\ LastTxs(chain) = i'
  BY <1>1, LastTxsParts
<1>4. TypeOK'
  BY <1>1, <1>2, <1>3 DEF BlockInv, TypeOK
<1>5. Recorded' /\ Fresh' /\ FreshTx'
  BY Zenon, <1>2 DEF Recorded, Fresh, FreshTx
<1>6. Written' /\ TipExact'
  BY Zenon, <1>1 DEF BlockInv, Written, TipExact
<1>7. ViewExact'
  <2>1. Applied = chain /\ AppliedTxs = LastTxs(chain) /\ Applied' = chain /\ AppliedTxs' = LastTxs(chain)
    BY <1>1, <1>3 DEF Applied, AppliedTxs
  <2> QED BY <1>1, <2>1 DEF BlockInv, ViewExact
<1> QED BY Zenon, <1>4, <1>5, <1>6, <1>7 DEF BlockInv

\* The undo data with which a block is disconnected is that of the tip.
LEMMA UndoParts ==
    ASSUME BlockInv, pc = "undo"
    PROVE  /\ chain \in Seq(Blocks) /\ chain # <<>> /\ block = chain[Len(chain)] /\ undo = rev[chain].vtxundo
           /\ i \in Nat /\ i <= Len(block) /\ j \in Nat /\ Len(block) \in Nat /\ tip \in View /\ view \in View
           /\ \A m : NextTx(chain, m) = block[m + 1]
           /\ Applied = chain /\ AppliedTxs = i
           /\ CanUndo(chain, rev[chain])
<1>1. /\ chain \in Seq(Blocks) /\ chain # <<>> /\ block = chain[Len(chain)] /\ undo = rev[chain].vtxundo
      /\ i \in Nat /\ i <= Len(block) /\ j \in Nat /\ tip \in View /\ view \in View
  BY DEF BlockInv, TypeOK
<1>2. Len(chain) \in 1 .. Len(chain) /\ SubSeq(chain, 1, Len(chain)) = chain
  BY <1>1
<1>3. Len(block) \in Nat
  BY <1>1, <1>2, BlocksOfChain
<1>4. CanUndo(chain, rev[chain])
  <2>1. chain \in DOMAIN rev
    BY Zenon, <1>2 DEF BlockInv, Written
  <2> QED BY Zenon, <2>1 DEF BlockInv, Written
<1>5. \A m : NextTx(chain, m) = block[m + 1]
  BY Zenon, <1>1 DEF NextTx
<1>6. Applied = chain /\ AppliedTxs = i
  BY DEF Applied, AppliedTxs
<1> QED BY Zenon, <1>1, <1>3, <1>4, <1>5, <1>6

\* DisconnectBlock removes the outputs of a transaction, which are as ConnectBlock left
\* them.
LEMMA BlockInvRemoveOutputs ==
    ASSUME BlockInv, RemoveOutputs
    PROVE  BlockInv'
<1> DEFINE tx == block[i]
           N == Len(Vin[tx])
           m == i - 1
<1>1. /\ pc = "undo" /\ pc' = pc /\ j = 0 /\ i > 0 /\ i' = m /\ j' = N
      /\ view' = [view EXCEPT !.coins[tx] = Pruned, !.nullifiers = view.nullifiers \ Reveals[tx]]
      /\ fClean' = (fClean /\ view.coins[tx] = FromTx(tx, Len(chain)))
      /\ chain' = chain /\ rev' = rev /\ tip' = tip /\ block' = block /\ undo' = undo
  BY DEF RemoveOutputs, NullifiersWithout
<1>2. /\ chain \in Seq(Blocks) /\ chain # <<>> /\ block = chain[Len(chain)] /\ undo = rev[chain].vtxundo
      /\ i \in Nat /\ i <= Len(block) /\ Len(block) \in Nat /\ tip \in View /\ view \in View
      /\ \A l : NextTx(chain, l) = block[l + 1]
      /\ Applied = chain /\ AppliedTxs = i
      /\ CanUndo(chain, rev[chain])
  BY Zenon, <1>1, UndoParts
<1>3. m \in Nat /\ m < Len(block) /\ m + 1 = i /\ m <= Len(block)
  BY <1>1, <1>2
<1> HIDE DEF m
<1>4. /\ ~ Connecting' /\ pc' # "tx" /\ pc' # "spend" /\ pc' # "idle"
      /\ Applied' = chain /\ AppliedTxs' = m
  BY <1>1 DEF Connecting, Applied, AppliedTxs
<1>5. NextTx(chain, m) = tx
  BY <1>2, <1>3
<1>6. Vin[tx] \in Seq(OutPoint) /\ tx \in Txs /\ N \in Nat /\ N <= N
  <2>1. Len(chain) \in 1 .. Len(chain)
    BY <1>2
  <2>2. block \in Seq(Txs)
    BY <1>2, <2>1, BlocksOfChain
  <2>3. tx \in Txs
    BY <1>2, <1>3, <2>2
  <2> QED BY <2>3, BlockUndoAssumption
<1>7. At(chain, m, N)
  BY Zenon, <1>2, <1>3, <1>5, <1>6 DEF At
<1> HIDE DEF tx
<1>8. ASSUME NEW t \in Txs
      PROVE  CoinsAt(chain, i, 0, t) = IF t = tx THEN FromTx(t, Len(chain)) ELSE CoinsAt(chain, m, N, t)
  BY <1>3, <1>5, <1>7, AddStep
<1>9. /\ CoinsAt(chain, m, N, tx) = Pruned /\ Reveals[tx] \cap NullifiersAt(chain, m) = {}
      /\ NullifiersAt(chain, i) = NullifiersAt(chain, m) \cup Reveals[tx]
  <2>1. AddSound(chain, m)
    BY Zenon, <1>2, <1>3 DEF CanUndo
  <2>2. NullifiersAt(chain, m + 1) = NullifiersAt(chain, m) \cup Reveals[tx]
    BY <1>5, <1>7, NullifiersStep
  <2> QED BY Zenon, <1>3, <1>5, <2>1, <2>2 DEF AddSound
<1>10. /\ \A t \in Txs : view.coins[t] = CoinsAt(chain, i, 0, t)
       /\ view.nullifiers = NullifiersAt(chain, i) /\ view.best = tip.best /\ view.anchors = tip.anchors /\ fClean = TRUE
  BY <1>1, <1>2 DEF BlockInv, ViewExact
<1>11. /\ view' \in View /\ view'.coins = [view.coins EXCEPT ![tx] = Pruned]
       /\ view'.nullifiers = view.nullifiers \ Reveals[tx]
       /\ view'.best = view.best /\ view'.anchors = view.anchors /\ view.coins \in [Txs -> Coin]
  <2>1. Pruned \in Coin
    BY DEF Pruned, Coin, NoOutputs
  <2> QED BY Zenon, <1>1, <1>2, <1>6, <2>1 DEF View
<1>12. TypeOK'
  BY <1>1, <1>2, <1>3, <1>4, <1>6, <1>11 DEF TypeOK, Tx, tx
<1>13. Recorded' /\ Fresh' /\ FreshTx'
  BY Zenon, <1>4 DEF Recorded, Fresh, FreshTx
<1>14. Written' /\ TipExact'
  BY Zenon, <1>1 DEF BlockInv, Written, TipExact
<1>15. ViewExact'
  <2>1. fClean' = TRUE
    BY Zenon, <1>1, <1>6, <1>8, <1>10
  <2>2. ASSUME NEW t \in Txs PROVE view'.coins[t] = CoinsAt(chain, m, N, t)
    <3>1. view'.coins[t] = IF t = tx THEN Pruned ELSE view.coins[t]
      BY <1>6, <1>11
    <3> QED BY Zenon, <1>8, <1>9, <1>10, <3>1
  <2>3. view'.nullifiers = NullifiersAt(chain, m)
    BY <1>9, <1>10, <1>11
  <2> QED BY <1>1, <1>4, <1>10, <1>11, <2>1, <2>2, <2>3 DEF ViewExact
<1> QED BY Zenon, <1>12, <1>13, <1>14, <1>15 DEF BlockInv

\* ApplyTxInUndo brings an input back as it was before it was spent.
LEMMA BlockInvRestoreInput ==
    ASSUME BlockInv, RestoreInput
    PROVE  BlockInv'
<1> DEFINE out == Vin[Tx][j]
           u == undo[i + 1][j]
           c == view.coins[out.hash]
           n == j - 1
           r == RestoredCoins(u, c, out.n)
           C == CoinsAt(chain, i, n, out.hash)
<1>1. /\ pc = "undo" /\ pc' = pc /\ j > 0 /\ j' = n
      /\ view' = [view EXCEPT !.coins[out.hash] = r]
      /\ fClean' = (fClean /\ UndoFits(u, c, out.n))
      /\ chain' = chain /\ rev' = rev /\ tip' = tip /\ block' = block /\ i' = i /\ undo' = undo
  BY DEF RestoreInput
<1>2. /\ chain \in Seq(Blocks) /\ chain # <<>> /\ block = chain[Len(chain)] /\ undo = rev[chain].vtxundo
      /\ i \in Nat /\ i <= Len(block) /\ j \in Nat /\ Len(block) \in Nat /\ tip \in View /\ view \in View
      /\ \A l : NextTx(chain, l) = block[l + 1]
      /\ Applied = chain /\ AppliedTxs = i
      /\ CanUndo(chain, rev[chain])
  BY Zenon, <1>1, UndoParts
<1>3. i < Len(block) /\ j <= Len(Vin[Tx])
  BY <1>1, <1>2 DEF BlockInv, TypeOK
<1>4. NextTx(chain, i) = Tx
  BY Zenon, <1>2 DEF Tx
<1>5. /\ n \in Nat /\ n + 1 = j /\ n < Len(Vin[Tx]) /\ n <= Len(Vin[Tx])
  <2>1. Len(chain) \in 1 .. Len(chain)
    BY <1>2
  <2>2. block \in Seq(Txs)
    BY <1>2, <2>1, BlocksOfChain
  <2>3. Tx \in Txs
    BY <1>2, <1>3, <2>2 DEF Tx
  <2>4. Vin[Tx] \in Seq(OutPoint)
    BY <2>3, BlockUndoAssumption
  <2> QED BY <1>1, <1>2, <1>3, <2>4
<1> HIDE DEF n
<1>6. /\ ~ Connecting' /\ pc' # "tx" /\ pc' # "spend" /\ pc' # "idle"
      /\ Applied' = chain /\ AppliedTxs' = i
  BY <1>1 DEF Connecting, Applied, AppliedTxs
<1>7. At(chain, i, n) /\ NextOut(chain, i, n) = out
  BY Zenon, <1>2, <1>3, <1>4, <1>5 DEF At, NextOut
<1>8. out.hash \in Txs /\ out.n \in Pos
  BY Zenon, <1>4, <1>5, <1>7, AtParts
<1> HIDE DEF out
<1>9. ASSUME NEW t \in Txs
      PROVE  CoinsAt(chain, i, j, t) = IF t = out.hash THEN Spend(CoinsAt(chain, i, n, t), out.n) ELSE CoinsAt(chain, i, n, t)
  BY <1>4, <1>5, <1>7, SpendStep
<1>10. C.vout[out.n] # NULL /\ u = ReadBack(InUndo(C, out.n))
  BY Zenon, <1>2, <1>3, <1>4, <1>5, <1>7 DEF CanUndo, SpendSound, UndoOf
<1>11. C \in Coin /\ C.nHeight # 0
  <2>1. C # Pruned
    BY <1>8, <1>10 DEF Pruned, NoOutputs
  <2> QED BY <1>2, <1>8, <2>1, CoinsAtParts
<1>12. /\ \A t \in Txs : view.coins[t] = CoinsAt(chain, i, j, t)
       /\ view.nullifiers = NullifiersAt(chain, i) /\ view.best = tip.best /\ view.anchors = tip.anchors /\ fClean = TRUE
  BY <1>1, <1>2 DEF BlockInv, ViewExact
<1>13. c = Spend(C, out.n)
  BY <1>8, <1>9, <1>12
<1> HIDE DEF c, u, C
<1>14. r = C /\ UndoFits(u, c, out.n)
  BY <1>8, <1>10, <1>11, <1>13, RestoreInvertsSpend
<1> HIDE DEF r
<1>15. /\ view' \in View /\ view'.coins = [view.coins EXCEPT ![out.hash] = C] /\ view'.nullifiers = view.nullifiers
       /\ view'.best = view.best /\ view'.anchors = view.anchors /\ view.coins \in [Txs -> Coin]
  BY Zenon, <1>1, <1>2, <1>8, <1>11, <1>14 DEF View
<1>16. TypeOK'
  BY <1>1, <1>2, <1>3, <1>5, <1>6, <1>15 DEF TypeOK, Tx
<1>17. Recorded' /\ Fresh' /\ FreshTx'
  BY Zenon, <1>6 DEF Recorded, Fresh, FreshTx
<1>18. Written' /\ TipExact'
  BY Zenon, <1>1 DEF BlockInv, Written, TipExact
<1>19. ViewExact'
  <2>1. fClean' = TRUE
    BY Zenon, <1>1, <1>12, <1>14
  <2>2. ASSUME NEW t \in Txs PROVE view'.coins[t] = CoinsAt(chain, i, n, t)
    <3>1. view'.coins[t] = IF t = out.hash THEN C ELSE view.coins[t]
      BY <1>8, <1>15
    <3> QED BY Zenon, <1>9, <1>12, <3>1 DEF C
  <2> QED BY <1>1, <1>6, <1>12, <1>15, <2>1, <2>2 DEF ViewExact
<1> QED BY Zenon, <1>16, <1>17, <1>18, <1>19 DEF BlockInv

\* A chain is the chain of the block before the last one, and that block.
LEMMA ButLast ==
    ASSUME NEW a \in Seq(Blocks), a # <<>>
    PROVE  /\ SubSeq(a, 1, Len(a) - 1) \in Seq(Blocks) /\ a[Len(a)] \in Blocks
           /\ a = Append(SubSeq(a, 1, Len(a) - 1), a[Len(a)])
           /\ \A h \in 1 .. Len(SubSeq(a, 1, Len(a) - 1)) : h \in 1 .. Len(a) /\ SubSeq(SubSeq(a, 1, Len(a) - 1), 1, h) = SubSeq(a, 1, h)
<1>1. Len(a) \in 1 .. Len(a) /\ Len(a) - 1 \in 0 .. Len(a)
  OBVIOUS
<1>2. SubSeq(a, 1, Len(a) - 1) \in Seq(Blocks) /\ Len(SubSeq(a, 1, Len(a) - 1)) = Len(a) - 1
  <2>1. \A h \in 1 .. Len(a) - 1 : h \in 1 .. Len(a) /\ a[h] \in Blocks
    BY <1>1
  <2> DEFINE k == Len(a) - 1
             s == SubSeq(a, 1, k)
  <2>2. k \in Nat /\ k <= Len(a)
    BY <1>1
  <2> HIDE DEF k
  <2>3. DOMAIN s = 1 .. k /\ s = [h \in DOMAIN s |-> s[h]] /\ \A h \in 1 .. k : s[h] = a[h]
    BY <2>2
  <2>4. s \in Seq(Blocks) /\ Len(s) = k
    <3>1. \A h \in 1 .. k : s[h] \in Blocks
      BY <2>1, <2>3 DEF k
    <3> HIDE DEF s
    <3> QED BY <2>2, <2>3, <3>1
  <2> QED BY <2>4 DEF k
<1>3. a = Append(SubSeq(a, 1, Len(a) - 1), a[Len(a)])
  BY <1>1, <1>2
<1> QED BY <1>1, <1>2, <1>3

\* What is left when a block is disconnected is what was there before it was
\* connected; the view is clean, so that it is never dropped.
LEMMA BlockInvFinishDisconnect ==
    ASSUME BlockInv, FinishDisconnect
    PROVE  BlockInv' /\ chain' = SubSeq(chain, 1, Len(chain) - 1) /\ tip' = PopAnchor(view, rev[chain].old_tree_root)
<1> DEFINE c == SubSeq(chain, 1, Len(chain) - 1)
           b == chain[Len(chain)]
           root == rev[chain].old_tree_root
<1>1. /\ pc = "undo" /\ i = 0 /\ j = 0 /\ view' = tip' /\ rev' = rev
      /\ pc' = "idle" /\ i' = 0 /\ j' = 0 /\ undo' = <<>> /\ fClean' = TRUE
  BY DEF FinishDisconnect, Idle
<1>2. /\ chain \in Seq(Blocks) /\ chain # <<>> /\ tip \in View /\ view \in View
      /\ Applied = chain /\ AppliedTxs = 0
      /\ CanUndo(chain, rev[chain])
  BY Zenon, <1>1, UndoParts
<1>3. /\ \A t \in Txs : view.coins[t] = CoinsAt(chain, 0, 0, t)
      /\ view.nullifiers = NullifiersAt(chain, 0) /\ view.best = RootsOf(chain)[Len(chain)]
      /\ view.anchors = AnchorsAt(chain) /\ fClean = TRUE
  BY <1>1, <1>2 DEF BlockInv, ViewExact, TipExact
<1>4. chain' = c /\ tip' = PopAnchor(view, root)
  BY <1>3 DEF FinishDisconnect
<1>5. /\ c \in Seq(Blocks) /\ b \in Blocks /\ chain = Append(c, b)
      /\ \A h \in 1 .. Len(c) : h \in 1 .. Len(chain) /\ SubSeq(c, 1, h) = SubSeq(chain, 1, h)
  BY Zenon, <1>2, ButLast
<1> HIDE DEF c, b
<1>6. LastTxs(c) \in Nat /\ (c # <<>> => LastTxs(c) = Len(c[Len(c)]))
  BY Zenon, <1>5, LastTxsParts
<1>7. /\ \A t \in Txs : CoinsAt(chain, 0, 0, t) = CoinsAt(c, LastTxs(c), 0, t)
      /\ NullifiersAt(chain, 0) = NullifiersAt(c, LastTxs(c))
  <2>1. \A t \in Txs : CoinsAt(Append(c, b), 0, 0, t) = CoinsAt(c, LastTxs(c), 0, t)
    BY Zenon, <1>5, <1>6, BoundaryStep
  <2>2. NullifiersAt(Append(c, b), 0) = NullifiersAt(c, LastTxs(c))
    BY Zenon, <1>5, <1>6, NullifiersBoundary
  <2> QED BY <1>5, <2>1, <2>2
<1>8. /\ root = RootsOf(c)[Len(c)] /\ root \in Root
      /\ view.best = root => AnchorsAt(c) = AnchorsAt(chain)
      /\ view.best # root => AnchorsAt(c) = AnchorsAt(chain) \ {view.best}
  <2>1. /\ RootsOf(Append(c, b))[Len(Append(c, b)) - 1] = RootsOf(c)[Len(c)]
        /\ RootsOf(Append(c, b))[Len(Append(c, b))] = RootsOf(c)[Len(c)] => AnchorsAt(c) = AnchorsAt(Append(c, b))
        /\ RootsOf(Append(c, b))[Len(Append(c, b))] # RootsOf(c)[Len(c)] =>
              AnchorsAt(c) = AnchorsAt(Append(c, b)) \ {RootsOf(Append(c, b))[Len(Append(c, b))]}
    BY Zenon, <1>5, AnchorsStep
  <2>2. root = RootsOf(chain)[Len(chain) - 1]
    BY Zenon, <1>2 DEF CanUndo
  <2>3. Len(c) \in 0 .. Len(c)
    BY <1>5
  <2>4. RootsOf(c)[Len(c)] \in Root
    BY Zenon, <1>5, <2>3, RootsAre
  <2> HIDE DEF root
  <2> QED BY <1>3, <1>5, <2>1, <2>2, <2>4
<1> HIDE DEF root
<1>9. /\ tip' \in View /\ tip'.coins = view.coins /\ tip'.nullifiers = view.nullifiers /\ tip'.best = root
      /\ tip'.anchors = IF view.best = root THEN view.anchors ELSE view.anchors \ {view.best}
  BY Zenon, <1>2, <1>4, <1>8 DEF PopAnchor, View
<1>10. /\ ~ Connecting' /\ pc' # "tx" /\ pc' # "spend" /\ pc' # "undo"
       /\ Applied' = c /\ AppliedTxs' = LastTxs(c)
  BY <1>1, <1>4 DEF Connecting, Applied, AppliedTxs
<1>11. TypeOK'
  BY <1>1, <1>4, <1>5, <1>9, <1>10 DEF TypeOK
<1>12. Recorded' /\ Fresh' /\ FreshTx'
  BY Zenon, <1>10 DEF Recorded, Fresh, FreshTx
<1>13. TipExact'
  BY Zenon, <1>3, <1>4, <1>7, <1>8, <1>9 DEF TipExact
<1>14. ViewExact'
  BY Zenon, <1>1, <1>4, <1>10, <1>13 DEF ViewExact, TipExact
<1>15. Written'
  BY Zenon, <1>1, <1>4, <1>5 DEF BlockInv, Written
<1> QED BY Zenon, <1>4, <1>11, <1>12, <1>13, <1>14, <1>15 DEF BlockInv, c, root

\* Connecting and disconnecting blocks keep the invariant.
LEMMA BlockInvStep ==
    ASSUME BlockInv, [BlockNext]_vars
    PROVE  BlockInv'
<1>1. CASE \E vtx \in Blocks : BeginConnect(vtx)
  BY <1>1, BlockInvBeginConnect
<1>2. CASE BeginDisconnect
  BY <1>2, BlockInvBeginDisconnect
<1>3. CASE BeginTx
  BY SMTT(30), <1>3, BlockInvBeginTx
<1>4. CASE SpendInput
  BY <1>4, BlockInvSpendInput
<1>5. CASE AddOutputs
  BY <1>5, BlockInvAddOutputs
<1>6. CASE RejectBlock
  BY <1>6, BlockInvRejectBlock
<1>7. CASE RemoveOutputs
  BY <1>7, BlockInvRemoveOutputs
<1>8. CASE RestoreInput
  BY <1>8, BlockInvRestoreInput
<1>9. CASE FinishConnect
  BY <1>9, BlockInvFinishConnect
<1>10. CASE FinishDisconnect
  BY <1>10, BlockInvFinishDisconnect
<1>11. CASE UNCHANGED vars
  <2>1. /\ chain' = chain /\ rev' = rev /\ tip' = tip /\ view' = view /\ pc' = pc /\ block' = block
        /\ i' = i /\ j' = j /\ undo' = undo /\ fClean' = fClean
    BY <1>11 DEF vars
  <2>2. Tx' = Tx /\ (Connecting' <=> Connecting) /\ Applied' = Applied /\ AppliedTxs' = AppliedTxs
    BY <2>1 DEF Tx, Connecting, Applied, AppliedTxs
  <2>3. TypeOK'
    BY <2>1, <2>2 DEF BlockInv, TypeOK
  <2>4. \A a, m, k : RecordedTx(a, m, k)' <=> RecordedTx(a, m, k)
    BY Zenon, <2>1 DEF RecordedTx
  <2>5. Recorded'
    BY Zenon, <2>1, <2>2, <2>4 DEF BlockInv, Recorded
  <2>6. Written' /\ TipExact' /\ ViewExact'
    BY Zenon, <2>1, <2>2 DEF BlockInv, Written, TipExact, ViewExact
  <2>7. Fresh'
    BY <2>1, <2>2 DEF BlockInv, Fresh
  <2>8. FreshTx'
    BY Zenon, <2>1, <2>2 DEF BlockInv, FreshTx
  <2> QED BY Zenon, <2>3, <2>5, <2>6, <2>7, <2>8 DEF BlockInv
<1> QED BY Zenon, <1>1, <1>2, <1>3, <1>4, <1>5, <1>6, <1>7, <1>8, <1>9, <1>10, <1>11 DEF BlockNext, BlockStep

\* With the invariant the coins are exact.
LEMMA BlockInvExact ==
    ASSUME BlockInv
    PROVE  CoinsExact
<1>1. /\ \A t \in Txs : view.coins[t] = CoinsAt(Applied, AppliedTxs, j, t)
      /\ view.nullifiers = NullifiersAt(Applied, AppliedTxs)
      /\ view.best = RootsOf(chain)[Len(chain)] /\ view.anchors = AnchorsAt(chain) /\ fClean
  BY DEF BlockInv, ViewExact, TipExact
<1>2. pc = "spend" /\ j < Len(Vin[Tx]) => IsAvailable(view.coins, Vin[Tx][j + 1])
  <2>1. SUFFICES ASSUME pc = "spend", j < Len(Vin[Tx]) PROVE IsAvailable(view.coins, Vin[Tx][j + 1])
    OBVIOUS
  <2>2. chain \in Seq(Blocks) /\ block \in Blocks /\ i \in Nat /\ j \in Nat /\ i < Len(block)
    BY <2>1 DEF BlockInv, TypeOK, Connecting
  <2>3. i + 1 \in 1 .. Len(block)
    BY <2>2, AppendBlock
  <2>4. Vin[Tx] \in Seq(OutPoint)
    BY Zenon, <2>2, <2>3, AppendBlock DEF Tx
  <2>5. j + 1 \in 1 .. Len(Vin[Tx]) /\ j + 1 > j
    BY <2>1, <2>2, <2>4
  <2> QED BY Zenon, <2>1, <2>5 DEF BlockInv, FreshTx
<1> QED BY Zenon, <1>1, <1>2 DEF CoinsExact

-----------------------------------------------------------------------------
(* What a whole block changes: the coins before its first transaction and after *)
(* its last one.                                                                *)

\* Output p of t is there unless it was spent after q, with the height of q.
ThereSince(a, m, t, p, q) ==
    /\ CoinsAt(a, m, 0, t).vout[p] # NULL <=>
          ~ Spent(a, m, 0, [hash |-> t, n |-> p], q) /\ Spendable(t, p) # NULL
    /\ CoinsAt(a, m, 0, t).vout[p] # NULL => CoinsAt(a, m, 0, t).nHeight = q[1]

\* Which outputs of a transaction are there, and since when.
LEMMA AvailableAt ==
    ASSUME NEW a \in Seq(Blocks), NEW m \in Nat, NEW t \in Txs, NEW p \in Pos
    PROVE  /\ CoinsAt(a, m, 0, t).vout[p] # NULL => \E q : LastPlace(a, m, t, q)
           /\ \A q : LastPlace(a, m, t, q) => ThereSince(a, m, t, p, q)
<1>1. CoinsAt(a, m, 0, t).vout[p] # NULL => \E q : LastPlace(a, m, t, q)
  <2>1. Pruned.vout[p] = NULL
    BY DEF Pruned, NoOutputs
  <2> QED BY Zenon, <2>1, CoinsAtPlace
<1>2. ASSUME NEW q, LastPlace(a, m, t, q)
      PROVE  ThereSince(a, m, t, p, q)
  <2> DEFINE c == LeftOf(a, m, 0, t, q)
  <2>1. q[1] \in Nat
    <3>1. q[1] \in 1 .. Len(a)
      BY Zenon, <1>2, PlacesAre DEF LastPlace
    <3> QED BY <3>1
  <2>2. CoinsAt(a, m, 0, t) = c
    BY Zenon, <1>2, CoinsAtPlace
  <2>a. IsLeft(c, a, m, 0, t, q)
    BY Zenon, <2>1, LeftOfParts
  <2> HIDE DEF c
  <2>3. /\ c.vout = [x \in Pos |-> IF Spent(a, m, 0, [hash |-> t, n |-> x], q) THEN NULL ELSE Spendable(t, x)]
        /\ c.vout # NoOutputs => c.nHeight = q[1]
    BY Zenon, <2>a DEF IsLeft
  <2>4. c.vout[p] # NULL => c.vout # NoOutputs
    BY DEF NoOutputs
  <2>5. c.vout[p] = IF Spent(a, m, 0, [hash |-> t, n |-> p], q) THEN NULL ELSE Spendable(t, p)
    BY Zenon, <2>3
  <2> QED BY Zenon, <2>2, <2>3, <2>4, <2>5 DEF ThereSince
<1> QED BY Zenon, <1>1, <1>2

\* An output of a coinbase is marked as one.
LEMMA CoinBaseAt ==
    ASSUME NEW a \in Seq(Blocks), NEW m \in Nat, NEW t \in Txs, NEW p \in Pos,
           CoinsAt(a, m, 0, t).vout[p] # NULL
    PROVE  t \in CoinBases => CoinsAt(a, m, 0, t).fCoinBase
<1>1. PICK q : LastPlace(a, m, t, q)
  BY Zenon, AvailableAt
<1> DEFINE c == LeftOf(a, m, 0, t, q)
<1>2. q[1] \in Nat
  <2>1. q[1] \in 1 .. Len(a)
    BY Zenon, <1>1, PlacesAre DEF LastPlace
  <2> QED BY <2>1
<1>3. CoinsAt(a, m, 0, t) = c
  BY Zenon, <1>1, CoinsAtPlace
<1>a. IsLeft(c, a, m, 0, t, q)
  BY Zenon, <1>2, LeftOfParts
<1> HIDE DEF c
<1>4. /\ c \in Coin
      /\ c.vout = [x \in Pos |-> IF Spent(a, m, 0, [hash |-> t, n |-> x], q) THEN NULL ELSE Spendable(t, x)]
      /\ c.vout # NoOutputs => c.nHeight = q[1] /\ c.fCoinBase = (t \in CoinBases) /\ c.nVersion = Version[t]
      /\ c.vout = NoOutputs => c = Pruned
  BY Zenon, <1>a DEF IsLeft
<1>5. c.vout # NoOutputs
  BY <1>3 DEF NoOutputs
<1> QED BY Zenon, <1>3, <1>4, <1>5

SpentBy(vtx, out) == \E m \in 1 .. Len(vtx) : \E x \in 1 .. Len(Vin[vtx[m]]) : Vin[vtx[m]][x] = out

\* The places before a block and those in it
LEMMA PlacesAcross ==
    ASSUME NEW a \in Seq(Blocks), a # <<>>
    PROVE  /\ Len(a[Len(a)]) \in Nat
           /\ \A q : q \in Places(a, 0) => q \in Places(a, Len(a[Len(a)]))
           /\ \A q : q \in Places(a, Len(a[Len(a)])) =>
                 q \in Places(a, 0) \/ (q[1] = Len(a) /\ q[2] \in 1 .. Len(a[Len(a)]) /\ q = <<Len(a), q[2]>>
                                        /\ TxAt(a, q) = a[Len(a)][q[2]])
           /\ \A m \in 1 .. Len(a[Len(a)]) : <<Len(a), m>> \in Places(a, Len(a[Len(a)])) /\ TxAt(a, <<Len(a), m>>) = a[Len(a)][m]
           /\ \A q \in Places(a, 0), m \in 1 .. Len(a[Len(a)]) : Before(q, <<Len(a), m>>) /\ ~ Before(<<Len(a), m>>, q)
<1> DEFINE L == Len(a)
           M == Len(a[L])
<1>1. L \in Nat /\ L \in 1 .. L
  OBVIOUS
<1>2. M \in Nat /\ 0 \in Nat
  BY Zenon, <1>1, BlocksOfChain
<1>3. \A q : q \in Places(a, 0) <=>
                 /\ q = <<q[1], q[2]>> /\ q[1] \in 1 .. L /\ q[2] \in Nat /\ q[2] >= 1
                 /\ q[1] = L => q[2] <= 0
                 /\ q[1] # L => q[2] <= Len(a[q[1]])
  BY Zenon, <1>2, PlacesAre
<1>4. \A q : q \in Places(a, M) <=>
                 /\ q = <<q[1], q[2]>> /\ q[1] \in 1 .. L /\ q[2] \in Nat /\ q[2] >= 1
                 /\ q[1] = L => q[2] <= M
                 /\ q[1] # L => q[2] <= Len(a[q[1]])
  BY Zenon, <1>2, PlacesAre
<1> HIDE DEF M, L
<1>5. \A q : q \in Places(a, 0) => q \in Places(a, M) /\ q[1] # L /\ q[1] \in 1 .. L
  BY <1>1, <1>2, <1>3, <1>4
<1>6. ASSUME NEW q, q \in Places(a, M), q \notin Places(a, 0)
      PROVE  q[1] = L /\ q[2] \in 1 .. M /\ q = <<L, q[2]>> /\ TxAt(a, q) = a[L][q[2]]
  BY <1>1, <1>2, <1>3, <1>4, <1>6 DEF TxAt
<1>7. ASSUME NEW m \in 1 .. M
      PROVE  <<L, m>> \in Places(a, M) /\ TxAt(a, <<L, m>>) = a[L][m]
  BY <1>1, <1>2, <1>4 DEF TxAt
<1>8. ASSUME NEW q \in Places(a, 0), NEW m \in 1 .. M
      PROVE  Before(q, <<L, m>>) /\ ~ Before(<<L, m>>, q)
  <2>1. q[1] < L /\ q[1] \in Nat
    BY <1>1, <1>5
  <2> QED BY <1>1, <2>1 DEF Before
<1> QED BY Zenon, <1>2, <1>5, <1>6, <1>7, <1>8 DEF M, L

\* A block leaves the outputs of other transactions that it does not spend.
LEMMA KeptAcross ==
    ASSUME NEW a \in Seq(Blocks), a # <<>>, NEW t \in Txs, NEW p \in Pos, \A m \in 1 .. Len(a[Len(a)]) : a[Len(a)][m] # t
    PROVE  LET M == Len(a[Len(a)])
           IN /\ CoinsAt(a, M, 0, t).vout[p] # NULL <=>
                    CoinsAt(a, 0, 0, t).vout[p] # NULL /\ ~ SpentBy(a[Len(a)], [hash |-> t, n |-> p])
              /\ CoinsAt(a, M, 0, t).vout[p] # NULL => CoinsAt(a, M, 0, t).nHeight = CoinsAt(a, 0, 0, t).nHeight
<1> DEFINE L == Len(a)
           b == a[L]
           M == Len(b)
           out == [hash |-> t, n |-> p]
<1>1. /\ M \in Nat
      /\ \A q : q \in Places(a, 0) => q \in Places(a, M)
      /\ \A q : q \in Places(a, M) =>
            q \in Places(a, 0) \/ (q[1] = L /\ q[2] \in 1 .. M /\ q = <<L, q[2]>> /\ TxAt(a, q) = b[q[2]])
      /\ \A m \in 1 .. M : <<L, m>> \in Places(a, M) /\ TxAt(a, <<L, m>>) = b[m]
      /\ \A q \in Places(a, 0), m \in 1 .. M : Before(q, <<L, m>>) /\ ~ Before(<<L, m>>, q)
  BY Zenon, PlacesAcross
<1> HIDE DEF out, M, b, L
<1>2. \A m \in 1 .. M : b[m] # t
  BY Zenon DEF M, b, L
<1>3. ASSUME NEW q, LastPlace(a, M, t, q) PROVE LastPlace(a, 0, t, q)
  <2>1. q \in Places(a, M) /\ TxAt(a, q) = t /\ \A r \in Places(a, M) : TxAt(a, r) = t => ~ Before(q, r)
    BY Zenon, <1>3 DEF LastPlace
  <2>2. q \in Places(a, 0)
    BY Zenon, <1>1, <1>2, <2>1
  <2> QED BY Zenon, <1>1, <2>1, <2>2 DEF LastPlace
<1>4. ASSUME NEW q, LastPlace(a, 0, t, q) PROVE LastPlace(a, M, t, q)
  <2>1. q \in Places(a, 0) /\ TxAt(a, q) = t /\ \A r \in Places(a, 0) : TxAt(a, r) = t => ~ Before(q, r)
    BY Zenon, <1>4 DEF LastPlace
  <2>2. ASSUME NEW r \in Places(a, M), TxAt(a, r) = t PROVE ~ Before(q, r)
    <3>1. r \in Places(a, 0)
      BY Zenon, <1>1, <1>2, <2>2
    <3> QED BY Zenon, <2>1, <2>2, <3>1
  <2> QED BY Zenon, <1>1, <2>1, <2>2 DEF LastPlace
<1>5. ASSUME NEW q \in Places(a, 0) PROVE Spent(a, M, 0, out, q) <=> Spent(a, 0, 0, out, q) \/ SpentBy(b, out)
  <2>1. \A x : x \notin 1 .. 0
    OBVIOUS
  <2>2. ASSUME SpentBy(b, out) PROVE Spent(a, M, 0, out, q)
    <3>1. PICK m \in 1 .. M : \E x \in 1 .. Len(Vin[b[m]]) : Vin[b[m]][x] = out
      BY Zenon, <2>2 DEF SpentBy, M
    <3>2. \E x \in 1 .. Len(Vin[TxAt(a, <<L, m>>)]) : Vin[TxAt(a, <<L, m>>)][x] = out
      BY <1>1, <3>1
    <3> QED BY Zenon, <1>1, <3>2 DEF Spent
  <2>3. ASSUME Spent(a, 0, 0, out, q) PROVE Spent(a, M, 0, out, q)
    BY Zenon, <1>1, <2>1, <2>3 DEF Spent
  <2>4. ASSUME Spent(a, M, 0, out, q), ~ Spent(a, 0, 0, out, q) PROVE SpentBy(b, out)
    <3>1. PICK r \in Places(a, M) : Before(q, r) /\ \E x \in 1 .. Len(Vin[TxAt(a, r)]) : Vin[TxAt(a, r)][x] = out
      BY Zenon, <2>1, <2>4 DEF Spent
    <3>2. r \notin Places(a, 0)
      BY Zenon, <2>4, <3>1 DEF Spent
    <3>3. r[2] \in 1 .. M /\ TxAt(a, r) = b[r[2]]
      BY Zenon, <1>1, <3>2
    <3>4. \E x \in 1 .. Len(Vin[b[r[2]]]) : Vin[b[r[2]]][x] = out
      BY <3>1, <3>3
    <3> QED BY Zenon, <3>3, <3>4 DEF SpentBy, M
  <2> QED BY Zenon, <2>2, <2>3, <2>4
<1>6. CASE \E q : LastPlace(a, 0, t, q)
  <2>1. PICK q : LastPlace(a, 0, t, q)
    BY <1>6
  <2>2. LastPlace(a, M, t, q) /\ q \in Places(a, 0)
    BY Zenon, <1>4, <2>1 DEF LastPlace
  <2>3. /\ CoinsAt(a, M, 0, t).vout[p] # NULL <=> ~ Spent(a, M, 0, out, q) /\ Spendable(t, p) # NULL
        /\ CoinsAt(a, M, 0, t).vout[p] # NULL => CoinsAt(a, M, 0, t).nHeight = q[1]
    <3>1. ThereSince(a, M, t, p, q)
      BY Zenon, <1>1, <2>2, AvailableAt
    <3> QED BY Zenon, <3>1 DEF ThereSince, out
  <2>4. /\ CoinsAt(a, 0, 0, t).vout[p] # NULL <=> ~ Spent(a, 0, 0, out, q) /\ Spendable(t, p) # NULL
        /\ CoinsAt(a, 0, 0, t).vout[p] # NULL => CoinsAt(a, 0, 0, t).nHeight = q[1]
    <3>1. 0 \in Nat
      OBVIOUS
    <3>2. ThereSince(a, 0, t, p, q)
      BY Zenon, <2>1, <3>1, AvailableAt
    <3> QED BY Zenon, <3>2 DEF ThereSince, out
  <2>5. Spent(a, M, 0, out, q) <=> Spent(a, 0, 0, out, q) \/ SpentBy(b, out)
    BY Zenon, <1>5, <2>2
  <2> QED BY Zenon, <2>3, <2>4, <2>5 DEF out, M, b, L
<1>7. CASE \A q : ~ LastPlace(a, 0, t, q)
  <2>1. \A q : ~ LastPlace(a, M, t, q)
    BY Zenon, <1>3, <1>7
  <2>2. 0 \in Nat /\ M \in Nat
    BY <1>1
  <2>3. CoinsAt(a, M, 0, t).vout[p] = NULL
    BY Zenon, <2>1, <2>2, AvailableAt
  <2>4. CoinsAt(a, 0, 0, t).vout[p] = NULL
    BY Zenon, <1>7, <2>2, AvailableAt
  <2> QED BY Zenon, <2>3, <2>4 DEF M, b, L
<1> QED BY Zenon, <1>6, <1>7

\* The outputs of a transaction that comes once in a block are there after it,
\* except for those the block spends.
LEMMA CreatedAcross ==
    ASSUME NEW a \in Seq(Blocks), a # <<>>, NEW m \in 1 .. Len(a[Len(a)]), NEW t \in Txs, NEW p \in Pos,
           a[Len(a)][m] = t, \A l \in 1 .. Len(a[Len(a)]) : a[Len(a)][l] = t => l = m,
           Spendable(t, p) # NULL, ~ SpentBy(a[Len(a)], [hash |-> t, n |-> p])
    PROVE  CoinsAt(a, Len(a[Len(a)]), 0, t).vout[p] # NULL
<1> DEFINE L == Len(a)
           b == a[L]
           M == Len(b)
           out == [hash |-> t, n |-> p]
           q == <<L, m>>
<1>1. /\ M \in Nat
      /\ \A r : r \in Places(a, M) =>
            r \in Places(a, 0) \/ (r[1] = L /\ r[2] \in 1 .. M /\ r = <<L, r[2]>> /\ TxAt(a, r) = b[r[2]])
      /\ \A l \in 1 .. M : <<L, l>> \in Places(a, M) /\ TxAt(a, <<L, l>>) = b[l]
      /\ \A r \in Places(a, 0), l \in 1 .. M : Before(r, <<L, l>>) /\ ~ Before(<<L, l>>, r)
  BY Zenon, PlacesAcross
<1>2. ~ Before(q, q)
  BY <1>1 DEF Before
<1> HIDE DEF out, M, b, L
<1>3. /\ m \in 1 .. M /\ b[m] = t /\ ~ SpentBy(b, out)
      /\ \A l \in 1 .. M : b[l] = t => l = m
  BY Zenon DEF M, b, L, out
<1>4. LastPlace(a, M, t, q)
  <2>1. ASSUME NEW r \in Places(a, M), TxAt(a, r) = t PROVE ~ Before(q, r)
    <3>1. CASE r \in Places(a, 0)
      BY Zenon, <1>1, <1>3, <3>1
    <3>2. CASE r[2] \in 1 .. M /\ r = <<L, r[2]>> /\ TxAt(a, r) = b[r[2]]
      <4>1. r[2] = m
        BY Zenon, <1>3, <2>1, <3>2
      <4> QED BY Zenon, <1>2, <3>2, <4>1
    <3> QED BY Zenon, <1>1, <3>1, <3>2
  <2> QED BY Zenon, <1>1, <1>3, <2>1 DEF LastPlace
<1>5. ~ Spent(a, M, 0, out, q)
  <2>1. SUFFICES ASSUME Spent(a, M, 0, out, q) PROVE SpentBy(b, out)
    BY Zenon, <1>3
  <2>2. \A x : x \notin 1 .. 0
    OBVIOUS
  <2>3. PICK r \in Places(a, M) : Before(q, r) /\ \E x \in 1 .. Len(Vin[TxAt(a, r)]) : Vin[TxAt(a, r)][x] = out
    BY Zenon, <2>1, <2>2 DEF Spent
  <2>4. r \notin Places(a, 0)
    BY Zenon, <1>1, <1>3, <2>3
  <2>5. r[2] \in 1 .. M /\ TxAt(a, r) = b[r[2]]
    BY Zenon, <1>1, <2>4
  <2>6. \E x \in 1 .. Len(Vin[b[r[2]]]) : Vin[b[r[2]]][x] = out
    BY <2>3, <2>5
  <2> QED BY Zenon, <2>5, <2>6 DEF SpentBy, M
<1> HIDE DEF q
<1>6. CoinsAt(a, M, 0, t).vout[p] # NULL
  <2>1. ThereSince(a, M, t, p, q)
    BY Zenon, <1>1, <1>4, AvailableAt
  <2> QED BY Zenon, <1>5, <2>1 DEF ThereSince, out
<1> QED BY Zenon, <1>6 DEF M, b, L

\* The nullifiers after a block are those before it and those it reveals.
LEMMA NullifiersAcross ==
    ASSUME NEW a \in Seq(Blocks), a # <<>>, NEW nf
    PROVE  nf \in NullifiersAt(a, Len(a[Len(a)])) <=>
              nf \in NullifiersAt(a, 0) \/ \E m \in 1 .. Len(a[Len(a)]) : nf \in Reveals[a[Len(a)][m]]
<1> DEFINE L == Len(a)
           b == a[L]
           M == Len(b)
<1>1. /\ M \in Nat
      /\ \A q : q \in Places(a, 0) => q \in Places(a, M)
      /\ \A q : q \in Places(a, M) => q \in Places(a, 0) \/ (q[2] \in 1 .. M /\ TxAt(a, q) = b[q[2]])
      /\ \A m \in 1 .. M : <<L, m>> \in Places(a, M) /\ TxAt(a, <<L, m>>) = b[m]
  BY Zenon, PlacesAcross
<1> HIDE DEF M, b, L
<1>2. \A m, x : x \in NullifiersAt(a, m) <=> \E q \in Places(a, m) : x \in Reveals[TxAt(a, q)]
  BY DEF NullifiersAt
<1>3. ASSUME nf \in NullifiersAt(a, M), nf \notin NullifiersAt(a, 0) PROVE \E m \in 1 .. M : nf \in Reveals[b[m]]
  <2>1. PICK q \in Places(a, M) : nf \in Reveals[TxAt(a, q)]
    BY Zenon, <1>2, <1>3
  <2>2. q \notin Places(a, 0)
    BY Zenon, <1>2, <1>3, <2>1
  <2> QED BY Zenon, <1>1, <2>1, <2>2
<1>4. ASSUME nf \in NullifiersAt(a, 0) PROVE nf \in NullifiersAt(a, M)
  BY Zenon, <1>1, <1>2, <1>4
<1>5. ASSUME NEW m \in 1 .. M, nf \in Reveals[b[m]] PROVE nf \in NullifiersAt(a, M)
  <2>1. nf \in Reveals[TxAt(a, <<L, m>>)]
    BY <1>1, <1>5
  <2> QED BY Zenon, <1>1, <1>2, <2>1
<1> QED BY Zenon, <1>3, <1>4, <1>5 DEF M, b, L

\* The coins of the tip: only coinbases are marked so, and an unspent output is one
\* that can be spent.
LEMMA TipParts ==
    ASSUME BlockInv
    PROVE  /\ tip \in View /\ chain \in Seq(Blocks)
           /\ \A t \in Txs : tip.coins[t] \in Coin
           /\ \A out \in OutPoint : IsAvailable(tip.coins, out) =>
                 Spendable(out.hash, out.n) # NULL /\ (out.hash \in CoinBases => tip.coins[out.hash].fCoinBase)
<1>1. tip \in View /\ chain \in Seq(Blocks) /\ \A t \in Txs : tip.coins[t] = CoinsAt(chain, LastTxs(chain), 0, t)
  BY Zenon DEF BlockInv, TypeOK, TipExact
<1>2. LastTxs(chain) \in Nat
  BY Zenon, <1>1, LastTxsParts
<1>3. ASSUME NEW t \in Txs
      PROVE  /\ CoinsAt(chain, LastTxs(chain), 0, t) \in Coin
             /\ \A p \in Pos : CoinsAt(chain, LastTxs(chain), 0, t).vout[p] # NULL => Spendable(t, p) # NULL
  BY <1>1, <1>2, CoinsAtParts
<1>4. ASSUME NEW out \in OutPoint, IsAvailable(tip.coins, out)
      PROVE  Spendable(out.hash, out.n) # NULL /\ (out.hash \in CoinBases => tip.coins[out.hash].fCoinBase)
  <2>1. out.hash \in Txs /\ out.n \in Pos
    BY DEF OutPoint
  <2>2. CoinsAt(chain, LastTxs(chain), 0, out.hash).vout[out.n] # NULL
    BY <1>1, <1>4, <2>1 DEF IsAvailable
  <2>3. out.hash \in CoinBases => CoinsAt(chain, LastTxs(chain), 0, out.hash).fCoinBase
    BY Zenon, <1>1, <1>2, <2>1, <2>2, CoinBaseAt
  <2> QED BY Zenon, <1>1, <1>3, <2>1, <2>2, <2>3
<1>5. \A t \in Txs : tip.coins[t] \in Coin
  BY <1>1, <1>3
<1> QED BY Zenon, <1>1, <1>4, <1>5

\* What connecting a block makes of the tip: it keeps the outputs the block does
\* not spend and gets those the block creates; it gets no other nullifiers than
\* those the block reveals, and loses no anchor.
LEMMA ConnectedTip ==
    ASSUME BlockInv, FinishConnect
    PROVE  /\ block \in Seq(Txs) /\ Len(block) \in Nat /\ Len(chain') = Len(chain) + 1 /\ Len(chain) \in Nat
           /\ \A out \in OutPoint : ~ SpentBy(block, out) /\ IsAvailable(tip.coins, out) =>
                 IsAvailable(tip'.coins, out) /\ tip'.coins[out.hash].nHeight = tip.coins[out.hash].nHeight
           /\ \A out \in OutPoint : \A m \in 1 .. Len(block) :
                 ~ SpentBy(block, out) /\ block[m] = out.hash /\ Spendable(out.hash, out.n) # NULL => IsAvailable(tip'.coins, out)
           /\ \A t \in Txs : tip'.coins[t].fCoinBase => t \in CoinBases
           /\ \A nf \in tip'.nullifiers : nf \in tip.nullifiers \/ \E m \in 1 .. Len(block) : nf \in Reveals[block[m]]
           /\ tip.anchors \subseteq tip'.anchors
<1> DEFINE a == Append(chain, block)
           M == Len(block)
<1>1. /\ pc = "tx" /\ i = M /\ chain' = a /\ tip' = PushAnchor(view, Tree)
  BY DEF FinishConnect
<1>2. /\ chain \in Seq(Blocks) /\ block \in Blocks /\ j = 0 /\ tip \in View /\ view \in View
  BY <1>1 DEF BlockInv, TypeOK, Connecting
<1>3. /\ a \in Seq(Blocks) /\ a # <<>> /\ Len(a) = Len(chain) + 1 /\ a[Len(a)] = block /\ block \in Seq(Txs) /\ M \in Nat
  BY Zenon, <1>2, AppendBlock
<1>4. Connecting /\ Applied = a /\ AppliedTxs = M
  BY <1>1 DEF Connecting, Applied, AppliedTxs
<1>5. tip'.coins = view.coins /\ tip'.nullifiers = view.nullifiers /\ view.anchors \subseteq tip'.anchors
  BY <1>1, <1>2 DEF PushAnchor, View
<1>6. /\ \A t \in Txs : view.coins[t] = CoinsAt(a, M, 0, t)
      /\ view.nullifiers = NullifiersAt(a, M) /\ view.anchors = tip.anchors
  BY Zenon, <1>2, <1>4 DEF BlockInv, ViewExact
<1>7. /\ \A t \in Txs : tip.coins[t] = CoinsAt(a, 0, 0, t)
      /\ tip.nullifiers = NullifiersAt(a, 0)
  <2>1. LastTxs(chain) \in Nat /\ (chain # <<>> => LastTxs(chain) = Len(chain[Len(chain)]))
    BY Zenon, <1>2, LastTxsParts
  <2>2. \A t \in Txs : CoinsAt(a, 0, 0, t) = CoinsAt(chain, LastTxs(chain), 0, t)
    BY Zenon, <1>2, <2>1, BoundaryStep
  <2>3. NullifiersAt(a, 0) = NullifiersAt(chain, LastTxs(chain))
    BY Zenon, <1>2, <2>1, NullifiersBoundary
  <2> QED BY Zenon, <2>2, <2>3 DEF BlockInv, TipExact
<1> HIDE DEF a
<1>8. /\ \A m \in 1 .. M : tip.coins[block[m]] = Pruned
      /\ \A m, l \in 1 .. M : block[m] = block[l] => m = l
  BY Zenon, <1>1, <1>4 DEF BlockInv, Fresh
<1>9. ASSUME NEW out \in OutPoint, ~ SpentBy(block, out), IsAvailable(tip.coins, out)
      PROVE  IsAvailable(tip'.coins, out) /\ tip'.coins[out.hash].nHeight = tip.coins[out.hash].nHeight
  <2>1. out.hash \in Txs /\ out.n \in Pos /\ out = [hash |-> out.hash, n |-> out.n]
    BY DEF OutPoint
  <2>2. \A m \in 1 .. Len(a[Len(a)]) : a[Len(a)][m] # out.hash
    <3>1. tip.coins[out.hash] # Pruned
      BY Zenon, <1>9, AvailableNotPruned
    <3> QED BY <1>3, <1>8, <3>1
  <2>3. CoinsAt(a, 0, 0, out.hash).vout[out.n] # NULL /\ ~ SpentBy(a[Len(a)], [hash |-> out.hash, n |-> out.n])
    BY <1>3, <1>7, <1>9, <2>1 DEF IsAvailable
  <2>4. /\ CoinsAt(a, Len(a[Len(a)]), 0, out.hash).vout[out.n] # NULL
        /\ CoinsAt(a, Len(a[Len(a)]), 0, out.hash).nHeight = CoinsAt(a, 0, 0, out.hash).nHeight
    BY Zenon, <1>3, <2>1, <2>2, <2>3, KeptAcross
  <2> QED BY SMTT(30), <1>3, <1>5, <1>6, <1>7, <2>1, <2>4 DEF IsAvailable
<1>10. ASSUME NEW out \in OutPoint, NEW m \in 1 .. M, ~ SpentBy(block, out), block[m] = out.hash, Spendable(out.hash, out.n) # NULL
       PROVE  IsAvailable(tip'.coins, out)
  <2>1. out.hash \in Txs /\ out.n \in Pos /\ out = [hash |-> out.hash, n |-> out.n]
    BY DEF OutPoint
  <2>2. /\ m \in 1 .. Len(a[Len(a)]) /\ a[Len(a)][m] = out.hash /\ ~ SpentBy(a[Len(a)], [hash |-> out.hash, n |-> out.n])
        /\ \A l \in 1 .. Len(a[Len(a)]) : a[Len(a)][l] = out.hash => l = m
    BY <1>3, <1>8, <1>10, <2>1
  <2>3. CoinsAt(a, Len(a[Len(a)]), 0, out.hash).vout[out.n] # NULL
    BY Zenon, <1>3, <1>10, <2>1, <2>2, CreatedAcross
  <2> QED BY <1>3, <1>5, <1>6, <2>1, <2>3 DEF IsAvailable
<1>11. ASSUME NEW nf \in tip'.nullifiers
       PROVE  nf \in tip.nullifiers \/ \E m \in 1 .. M : nf \in Reveals[block[m]]
  <2>1. nf \in NullifiersAt(a, Len(a[Len(a)]))
    BY <1>3, <1>5, <1>6
  <2>2. nf \in NullifiersAt(a, 0) \/ \E m \in 1 .. Len(a[Len(a)]) : nf \in Reveals[a[Len(a)][m]]
    BY Zenon, <1>3, <2>1, NullifiersAcross
  <2> QED BY <1>3, <1>7, <2>2
<1>12. Len(chain) \in Nat /\ Len(chain') = Len(chain) + 1
  BY SMTT(30), <1>1, <1>2, <1>3
<1>13. \A t \in Txs : tip'.coins[t].fCoinBase => t \in CoinBases
  BY <1>3, <1>5, <1>6, CoinsAtParts
<1> QED BY Zenon, <1>3, <1>5, <1>6, <1>9, <1>10, <1>11, <1>12, <1>13

\* What disconnecting a block makes of the tip: it keeps the outputs of other
\* transactions, gets no nullifier, and loses no anchor but its own.
LEMMA DisconnectedTip ==
    ASSUME BlockInv, FinishDisconnect
    PROVE  /\ fClean /\ block \in Seq(Txs) /\ Len(block) \in Nat /\ Len(chain) = Len(chain') + 1 /\ Len(chain') \in Nat
           /\ \A out \in OutPoint : IsAvailable(tip.coins, out) /\ (\A m \in 1 .. Len(block) : block[m] # out.hash) =>
                 IsAvailable(tip'.coins, out)
           /\ tip'.nullifiers \subseteq tip.nullifiers
           /\ \A r \in tip.anchors : r \in tip'.anchors \/ (r = tip.best /\ tip.best # tip'.best)
<1> DEFINE M == Len(block)
           root == rev[chain].old_tree_root
<1>1. /\ pc = "undo" /\ i = 0 /\ j = 0 /\ chain' = SubSeq(chain, 1, Len(chain) - 1) /\ tip' = PopAnchor(view, root)
  BY BlockInvFinishDisconnect DEF FinishDisconnect
<1>2. /\ chain \in Seq(Blocks) /\ chain # <<>> /\ block = chain[Len(chain)] /\ view \in View /\ M \in Nat
      /\ Applied = chain /\ AppliedTxs = 0
  BY Zenon, <1>1, UndoParts
<1>3. /\ \A t \in Txs : view.coins[t] = CoinsAt(chain, 0, 0, t)
      /\ view.nullifiers = NullifiersAt(chain, 0) /\ view.best = tip.best /\ view.anchors = tip.anchors /\ fClean = TRUE
  BY <1>1, <1>2 DEF BlockInv, ViewExact
<1>4. /\ \A t \in Txs : tip.coins[t] = CoinsAt(chain, M, 0, t)
      /\ tip.nullifiers = NullifiersAt(chain, M)
  <2>1. LastTxs(chain) = M
    BY Zenon, <1>2 DEF LastTxs
  <2> QED BY Zenon, <2>1 DEF BlockInv, TipExact
<1> HIDE DEF root
<1>5. /\ tip'.coins = view.coins /\ tip'.nullifiers = view.nullifiers /\ tip'.best = root
      /\ tip'.anchors = IF view.best = root THEN view.anchors ELSE view.anchors \ {view.best}
  BY <1>1, <1>2 DEF PopAnchor, View
<1>6. block \in Seq(Txs) /\ Len(chain) = Len(chain') + 1 /\ Len(chain') \in Nat
  <2>1. Len(chain) \in 1 .. Len(chain)
    BY <1>2
  <2>2. block \in Seq(Txs)
    BY <1>2, <2>1, BlocksOfChain
  <2> DEFINE c == SubSeq(chain, 1, Len(chain) - 1)
  <2>3. c \in Seq(Blocks) /\ chain[Len(chain)] \in Blocks /\ chain = Append(c, chain[Len(chain)])
    BY Zenon, <1>2, ButLast
  <2> HIDE DEF c
  <2>4. Len(chain) = Len(c) + 1 /\ Len(c) \in Nat
    BY SMTT(30), <2>3
  <2> QED BY <1>1, <2>2, <2>4 DEF c
<1>7. ASSUME NEW out \in OutPoint, IsAvailable(tip.coins, out), \A m \in 1 .. M : block[m] # out.hash
      PROVE  IsAvailable(tip'.coins, out)
  <2>1. out.hash \in Txs /\ out.n \in Pos
    BY DEF OutPoint
  <2>2. \A m \in 1 .. Len(chain[Len(chain)]) : chain[Len(chain)][m] # out.hash
    BY <1>2, <1>7
  <2>3. CoinsAt(chain, Len(chain[Len(chain)]), 0, out.hash).vout[out.n] # NULL
    BY <1>2, <1>4, <1>7, <2>1 DEF IsAvailable
  <2>4. CoinsAt(chain, 0, 0, out.hash).vout[out.n] # NULL
    BY Zenon, <1>2, <2>1, <2>2, <2>3, KeptAcross
  <2> QED BY <1>3, <1>5, <2>1, <2>4 DEF IsAvailable
<1>8. ASSUME NEW nf \in tip'.nullifiers PROVE nf \in tip.nullifiers
  <2>1. nf \in NullifiersAt(chain, Len(chain[Len(chain)]))
    BY Zenon, <1>2, <1>3, <1>5, NullifiersAcross
  <2> QED BY <1>2, <1>4, <2>1
<1>9. \A r \in tip.anchors : r \in tip'.anchors \/ (r = tip.best /\ tip.best # tip'.best)
  BY <1>3, <1>5
<1> QED BY Zenon, <1>2, <1>3, <1>6, <1>7, <1>8, <1>9
=============================================================================
