---------------------------- MODULE MempoolProofs ----------------------------
(***************************************************************************)
(* What is in the mempool can be mined on the tip: the inputs of an entry  *)
(* are coins of the tip or outputs of other entries, no two entries spend  *)
(* the same output or nullifier, their anchors are in the tip, and no      *)
(* entry spends a coinbase that is not mature, whatever blocks are         *)
(* connected and disconnected and whatever transactions arrive.            *)
(*                                                                         *)
(* The coins of the tip are known from BlockUndoProofs.  What a block      *)
(* takes away and what DisconnectBlock gives back is described there for   *)
(* the whole block; here remove, removeConflicts, removeForBlock,          *)
(* removeWithAnchor, removeCoinbaseSpends and the return of the block's    *)
(* transactions are followed through a disconnection, in the order of      *)
(* DisconnectTip.                                                          *)
(*                                                                         *)
(* The second part is about the transactions that wait for a parent:       *)
(* mapOrphanTransactionsByPrev lists exactly the orphans under exactly     *)
(* their parents, and when the handler of a "tx" message returns, no       *)
(* orphan is left whose inputs were all there to be found because of what  *)
(* the message brought in.  HandlerInv says of every orphan that spends    *)
(* from a transaction the handler has dealt with, that it is settled: it   *)
(* is about to be erased or tried, its peer misbehaved, an input is        *)
(* missing, or it spends from a transaction that is still in the work      *)
(* queue.                                                                  *)
(***************************************************************************)
EXTENDS Mempool, BlockUndoProofs, FiniteSetTheorems

-----------------------------------------------------------------------------
(* The maps of the pool. *)

Maps(A, B) == UNION {[D -> B] : D \in SUBSET A}

Pools == [mapTx : SUBSET (Txs \ CoinBases), mapNextTx : Maps(OutPoint, Txs), mapNullifiers : Maps(Nullifiers, Txs)]

\* mapNextTx and mapNullifiers hold the spends of the entries and nothing else.
Exact(p) ==
    /\ \A t \in p.mapTx :
          /\ \A out \in Inputs(t) : out \in DOMAIN p.mapNextTx /\ p.mapNextTx[out] = t
          /\ \A nf \in Reveals[t] : nf \in DOMAIN p.mapNullifiers /\ p.mapNullifiers[nf] = t
    /\ DOMAIN p.mapNextTx = UNION {Inputs(t) : t \in p.mapTx}
    /\ DOMAIN p.mapNullifiers = UNION {Reveals[t] : t \in p.mapTx}

\* Maps lose entries and are joined within their type (Without and With).
LEMMA MapsClosed ==
    ASSUME NEW A, NEW B, NEW f \in Maps(A, B)
    PROVE  /\ DOMAIN f \subseteq A
           /\ \A x \in DOMAIN f : f[x] \in B
           /\ \A S : Without(f, S) \in Maps(A, B)
           /\ \A D \in SUBSET A, b \in B : With(f, D, b) \in Maps(A, B)
<1>1. PICK D \in SUBSET A : f \in [D -> B]
  BY Zenon DEF Maps
<1>2. \A S : Without(f, S) \in [DOMAIN f \ S -> B] /\ DOMAIN f \ S \in SUBSET A
  BY <1>1 DEF Without
<1>3. ASSUME NEW C \in SUBSET A, NEW b \in B
      PROVE  With(f, C, b) \in [C \cup D -> B] /\ C \cup D \in SUBSET A
  BY <1>1 DEF With
<1>4. \A C \in SUBSET A : \A g \in [C -> B] : g \in Maps(A, B)
  BY Zenon DEF Maps
<1>5. DOMAIN f = D
  BY <1>1
<1>6. \A S : Without(f, S) \in Maps(A, B)
  BY Zenon, <1>2, <1>4
<1>7. \A C \in SUBSET A, b \in B : With(f, C, b) \in Maps(A, B)
  BY Zenon, <1>3, <1>4
<1>8. DOMAIN f \subseteq A /\ \A x \in DOMAIN f : f[x] \in B
  BY <1>1
<1> QED BY Zenon, <1>6, <1>7, <1>8

\* The inputs of a transaction and their hashes, and the nullifiers it reveals.
LEMMA TxParts ==
    ASSUME NEW t \in Txs
    PROVE  /\ Inputs(t) \subseteq OutPoint
           /\ \A out \in Inputs(t) : out.hash \in Txs /\ out.n \in Pos /\ out.hash \in Parents(t)
           /\ Parents(t) \subseteq Txs
           /\ Reveals[t] \subseteq Nullifiers
<1>1. Vin[t] \in Seq(OutPoint) /\ Reveals[t] \subseteq Nullifiers
  BY BlockUndoAssumption
<1>2. \A n \in 1 .. Len(Vin[t]) : Vin[t][n] \in OutPoint
  BY <1>1
<1>3. Inputs(t) \subseteq OutPoint
  BY Zenon, <1>2 DEF Inputs
<1>4. \A out \in OutPoint : out.hash \in Txs /\ out.n \in Pos
  BY DEF OutPoint
<1> QED BY Zenon, <1>1, <1>3, <1>4 DEF Parents

\* A pool from which any transactions are erased is a pool, and exact if it was.
LEMMA ErasedExact ==
    ASSUME NEW p \in Pools, NEW S
    PROVE  /\ Erased(p, S) \in Pools
           /\ Erased(p, S).mapTx = p.mapTx \ S
           /\ DOMAIN Erased(p, S).mapNullifiers \subseteq DOMAIN p.mapNullifiers
           /\ Exact(p) => Exact(Erased(p, S))
<1> DEFINE q == Erased(p, S)
<1>1. /\ p.mapTx \subseteq Txs /\ p.mapTx \cap CoinBases = {}
      /\ p.mapNextTx \in Maps(OutPoint, Txs) /\ p.mapNullifiers \in Maps(Nullifiers, Txs)
  BY DEF Pools
<1>2. /\ q.mapTx = p.mapTx \ S
      /\ q.mapNextTx = Without(p.mapNextTx, UNION {Inputs(t) : t \in S \cap p.mapTx})
      /\ q.mapNullifiers = Without(p.mapNullifiers, UNION {Reveals[t] : t \in S \cap p.mapTx})
      /\ q = [mapTx |-> q.mapTx, mapNextTx |-> q.mapNextTx, mapNullifiers |-> q.mapNullifiers]
  BY DEF Erased
<1>3. q.mapNextTx \in Maps(OutPoint, Txs) /\ q.mapNullifiers \in Maps(Nullifiers, Txs)
  <2> HIDE DEF q
  <2>1. /\ \A D : Without(p.mapNextTx, D) \in Maps(OutPoint, Txs)
        /\ \A D : Without(p.mapNullifiers, D) \in Maps(Nullifiers, Txs)
    BY Zenon, <1>1, MapsClosed
  <2> QED BY Zenon, <1>2, <2>1
<1>4. q \in Pools
  <2> HIDE DEF q
  <2> QED BY <1>1, <1>2, <1>3 DEF Pools
<1>5. /\ DOMAIN q.mapNextTx = DOMAIN p.mapNextTx \ UNION {Inputs(t) : t \in S \cap p.mapTx}
      /\ \A x \in DOMAIN q.mapNextTx : q.mapNextTx[x] = p.mapNextTx[x]
      /\ DOMAIN q.mapNullifiers = DOMAIN p.mapNullifiers \ UNION {Reveals[t] : t \in S \cap p.mapTx}
      /\ \A x \in DOMAIN q.mapNullifiers : q.mapNullifiers[x] = p.mapNullifiers[x]
  BY <1>2 DEF Without
<1>6. ASSUME Exact(p) PROVE Exact(q)
  <2> HIDE DEF q
  <2>1. ASSUME NEW t \in q.mapTx, NEW out \in Inputs(t)
        PROVE  out \in DOMAIN q.mapNextTx /\ q.mapNextTx[out] = t
    BY <1>2, <1>5, <1>6, <2>1 DEF Exact
  <2>2. ASSUME NEW t \in q.mapTx, NEW nf \in Reveals[t]
        PROVE  nf \in DOMAIN q.mapNullifiers /\ q.mapNullifiers[nf] = t
    BY <1>2, <1>5, <1>6, <2>2 DEF Exact
  <2>3. ASSUME NEW out \in DOMAIN q.mapNextTx PROVE \E t \in q.mapTx : out \in Inputs(t)
    BY <1>2, <1>5, <1>6, <2>3 DEF Exact
  <2>4. ASSUME NEW nf \in DOMAIN q.mapNullifiers PROVE \E t \in q.mapTx : nf \in Reveals[t]
    BY <1>2, <1>5, <1>6, <2>4 DEF Exact
  <2>5. DOMAIN q.mapNextTx = UNION {Inputs(t) : t \in q.mapTx}
    BY <2>1, <2>3
  <2>6. DOMAIN q.mapNullifiers = UNION {Reveals[t] : t \in q.mapTx}
    BY <2>2, <2>4
  <2> QED BY Zenon, <2>1, <2>2, <2>5, <2>6 DEF Exact
<1> QED BY Zenon, <1>2, <1>4, <1>5, <1>6

\* What remove(..., fRecursive) takes out: the transactions it is given, whatever
\* spends from something taken out, and nothing when it is given nothing.
LEMMA DescendantsClosed ==
    ASSUME NEW p \in Pools, Exact(p), NEW S
    PROVE  /\ S \subseteq WithDescendants(p, S)
           /\ \A t \in p.mapTx : Parents(t) \cap WithDescendants(p, S) # {} => t \in WithDescendants(p, S)
           /\ WithDescendants(p, {}) = {}
<1> DEFINE W == WithDescendants(p, S)
<1>1. S \subseteq W
  BY DEF WithDescendants
<1>2. ASSUME NEW t \in p.mapTx, Parents(t) \cap W # {} PROVE t \in W
  <2>1. PICK out \in Inputs(t) : out.hash \in W
    BY Zenon, <1>2 DEF Parents
  <2>2. out \in DOMAIN p.mapNextTx /\ p.mapNextTx[out] = t
    BY Zenon DEF Exact
  <2>3. ASSUME NEW D \in SUBSET p.mapTx, Spenders(p, S \cup D) \cap p.mapTx \subseteq D PROVE t \in D
    <3>1. W \subseteq S \cup D
      BY Zenon, <2>3 DEF WithDescendants
    <3>2. t \in Spenders(p, S \cup D)
      BY Zenon, <2>1, <2>2, <3>1 DEF Spenders
    <3> QED BY Zenon, <2>3, <3>2
  <2> QED BY Zenon, <2>3 DEF WithDescendants
<1>3. WithDescendants(p, {}) = {}
  <2>1. Spenders(p, {} \cup {}) = {}
    BY DEF Spenders
  <2>2. {} \in SUBSET p.mapTx /\ Spenders(p, {} \cup {}) \cap p.mapTx \subseteq {}
    BY <2>1
  <2>3. \A t \in p.mapTx : ~(\A D \in SUBSET p.mapTx : Spenders(p, {} \cup D) \cap p.mapTx \subseteq D => t \in D)
    BY Zenon, <2>2
  <2> QED BY Zenon, <2>3 DEF WithDescendants
<1> QED BY Zenon, <1>1, <1>2, <1>3

\* After remove(..., fRecursive) the maps are exact, nothing that was to go is
\* left, and no entry is left whose parent went.
LEMMA RemoveAllExact ==
    ASSUME NEW p \in Pools, Exact(p), NEW S
    PROVE  /\ removeAll(p, S) \in Pools /\ Exact(removeAll(p, S))
           /\ removeAll(p, S).mapTx \subseteq p.mapTx /\ removeAll(p, S).mapTx \cap S = {}
           /\ DOMAIN removeAll(p, S).mapNullifiers \subseteq DOMAIN p.mapNullifiers
           /\ \A e \in removeAll(p, S).mapTx :
                 /\ Parents(e) \cap S = {}
                 /\ Parents(e) \cap p.mapTx \subseteq removeAll(p, S).mapTx
<1> DEFINE W == WithDescendants(p, S)
           q == removeAll(p, S)
<1>1. /\ q \in Pools /\ Exact(q) /\ q.mapTx = p.mapTx \ W
      /\ DOMAIN q.mapNullifiers \subseteq DOMAIN p.mapNullifiers
  <2> HIDE DEF W
  <2>1. q = Erased(p, W)
    BY Zenon DEF removeAll, W
  <2> HIDE DEF q
  <2> QED BY Zenon, <2>1, ErasedExact
<1>2. S \subseteq W /\ \A t \in p.mapTx : Parents(t) \cap W # {} => t \in W
  BY Zenon, DescendantsClosed
<1> HIDE DEF W, q
<1>3. ASSUME NEW e \in q.mapTx PROVE Parents(e) \cap S = {} /\ Parents(e) \cap p.mapTx \subseteq q.mapTx
  <2>1. Parents(e) \cap W = {}
    BY <1>1, <1>2
  <2> QED BY <1>1, <1>2, <2>1
<1>4. q.mapTx \subseteq p.mapTx /\ q.mapTx \cap S = {}
  BY <1>1, <1>2
<1> QED BY Zenon, <1>1, <1>3, <1>4 DEF q

\* addUnchecked keeps the maps exact when no entry spends what the new one spends.
LEMMA AddUncheckedExact ==
    ASSUME NEW p \in Pools, Exact(p), NEW t \in Txs \ CoinBases, t \notin p.mapTx,
           Inputs(t) \cap DOMAIN p.mapNextTx = {}, Reveals[t] \cap DOMAIN p.mapNullifiers = {}
    PROVE  /\ addUnchecked(p, t) \in Pools /\ Exact(addUnchecked(p, t))
           /\ addUnchecked(p, t).mapTx = p.mapTx \cup {t}
<1> DEFINE q == addUnchecked(p, t)
<1>1. /\ p.mapTx \subseteq Txs /\ p.mapTx \cap CoinBases = {}
      /\ p.mapNextTx \in Maps(OutPoint, Txs) /\ p.mapNullifiers \in Maps(Nullifiers, Txs)
  BY DEF Pools
<1>2. /\ q.mapTx = p.mapTx \cup {t}
      /\ q.mapNextTx = With(p.mapNextTx, Inputs(t), t)
      /\ q.mapNullifiers = With(p.mapNullifiers, Reveals[t], t)
      /\ q = [mapTx |-> q.mapTx, mapNextTx |-> q.mapNextTx, mapNullifiers |-> q.mapNullifiers]
  BY DEF addUnchecked
<1> HIDE DEF q
<1>3. q.mapNextTx \in Maps(OutPoint, Txs) /\ q.mapNullifiers \in Maps(Nullifiers, Txs)
  <2>1. Inputs(t) \in SUBSET OutPoint /\ Reveals[t] \in SUBSET Nullifiers /\ t \in Txs
    BY Zenon, TxParts
  <2>2. /\ \A D \in SUBSET OutPoint, b \in Txs : With(p.mapNextTx, D, b) \in Maps(OutPoint, Txs)
        /\ \A D \in SUBSET Nullifiers, b \in Txs : With(p.mapNullifiers, D, b) \in Maps(Nullifiers, Txs)
    BY Zenon, <1>1, MapsClosed
  <2> QED BY Zenon, <1>2, <2>1, <2>2
<1>4. q \in Pools
  BY <1>1, <1>2, <1>3 DEF Pools
<1>5. /\ DOMAIN q.mapNextTx = DOMAIN p.mapNextTx \cup Inputs(t)
      /\ \A x \in DOMAIN q.mapNextTx : q.mapNextTx[x] = IF x \in Inputs(t) THEN t ELSE p.mapNextTx[x]
      /\ DOMAIN q.mapNullifiers = DOMAIN p.mapNullifiers \cup Reveals[t]
      /\ \A x \in DOMAIN q.mapNullifiers : q.mapNullifiers[x] = IF x \in Reveals[t] THEN t ELSE p.mapNullifiers[x]
  BY <1>2 DEF With
<1>6. Exact(q)
  <2>1. ASSUME NEW e \in q.mapTx, NEW out \in Inputs(e)
        PROVE  out \in DOMAIN q.mapNextTx /\ q.mapNextTx[out] = e
    BY <1>2, <1>5, <2>1 DEF Exact
  <2>2. ASSUME NEW e \in q.mapTx, NEW nf \in Reveals[e]
        PROVE  nf \in DOMAIN q.mapNullifiers /\ q.mapNullifiers[nf] = e
    BY <1>2, <1>5, <2>2 DEF Exact
  <2>3. ASSUME NEW out \in DOMAIN q.mapNextTx PROVE \E e \in q.mapTx : out \in Inputs(e)
    BY <1>2, <1>5, <2>3 DEF Exact
  <2>4. ASSUME NEW nf \in DOMAIN q.mapNullifiers PROVE \E e \in q.mapTx : nf \in Reveals[e]
    BY <1>2, <1>5, <2>4 DEF Exact
  <2>5. DOMAIN q.mapNextTx = UNION {Inputs(e) : e \in q.mapTx}
    BY <2>1, <2>3
  <2>6. DOMAIN q.mapNullifiers = UNION {Reveals[e] : e \in q.mapTx}
    BY <2>2, <2>4
  <2> QED BY Zenon, <2>1, <2>2, <2>5, <2>6 DEF Exact
<1> QED BY Zenon, <1>2, <1>4, <1>6 DEF q

\* AcceptToMemoryPool leaves exact maps; the new entry and the entries that stay
\* keep those of their parents that are in the pool.
LEMMA AcceptedExact ==
    ASSUME NEW p \in Pools, Exact(p), NEW t \in Txs, NEW v, NEW height, Acceptable(p, v, height, t)
    PROVE  /\ Accepted(p, t) \in Pools /\ Exact(Accepted(p, t))
           /\ t \in Accepted(p, t).mapTx /\ Accepted(p, t).mapTx \subseteq p.mapTx \cup {t}
           /\ \A e \in Accepted(p, t).mapTx : Parents(e) \cap p.mapTx \subseteq Accepted(p, t).mapTx
<1> DEFINE C == ConflictsOf(p, t)
           r == removeAll(p, C)
           q == Accepted(p, t)
<1>1. /\ t \notin CoinBases /\ t \notin p.mapTx /\ Reveals[t] \cap DOMAIN p.mapNullifiers = {}
      /\ C = {} \/ \E e \in p.mapTx : C = {e} /\ Parents(t) \cap WithDescendants(p, {e}) = {}
  BY Zenon DEF Acceptable, ViewHaveCoins, MayOverride
<1>2. Parents(t) \cap WithDescendants(p, C) = {}
  <2> HIDE DEF C
  <2>1. CASE C = {}
    BY Zenon, <2>1, DescendantsClosed
  <2> QED BY Zenon, <1>1, <2>1
<1>3. /\ r \in Pools /\ Exact(r) /\ r.mapTx \subseteq p.mapTx /\ r.mapTx \cap C = {}
      /\ DOMAIN r.mapNullifiers \subseteq DOMAIN p.mapNullifiers
      /\ \A e \in r.mapTx : Parents(e) \cap p.mapTx \subseteq r.mapTx
  <2> HIDE DEF C
  <2> QED BY Zenon, RemoveAllExact
<1>4. r.mapTx = p.mapTx \ WithDescendants(p, C) /\ q = addUnchecked(r, t)
  <2>1. r = Erased(p, WithDescendants(p, C)) /\ q = addUnchecked(r, t)
    BY Zenon DEF removeAll, Accepted
  <2> HIDE DEF C, r, q
  <2> QED BY Zenon, <2>1, ErasedExact
<1>5. DOMAIN r.mapNextTx \subseteq DOMAIN p.mapNextTx /\ \A x \in DOMAIN r.mapNextTx : r.mapNextTx[x] = p.mapNextTx[x]
  BY DEF removeAll, Erased, Without
<1>6. Inputs(t) \cap DOMAIN r.mapNextTx = {}
  <2>1. \A out \in Inputs(t) \cap DOMAIN p.mapNextTx : p.mapNextTx[out] \in C
    BY Zenon DEF ConflictsOf
  <2> HIDE DEF C, r
  <2>2. \A out \in DOMAIN r.mapNextTx : r.mapNextTx[out] \in r.mapTx
    BY <1>3 DEF Exact
  <2> QED BY <1>3, <1>5, <2>1, <2>2
<1> HIDE DEF C, r, q
<1>7. t \notin r.mapTx /\ Reveals[t] \cap DOMAIN r.mapNullifiers = {} /\ t \in Txs \ CoinBases
  BY <1>1, <1>3
<1>8. q \in Pools /\ Exact(q) /\ q.mapTx = r.mapTx \cup {t}
  BY Zenon, <1>3, <1>4, <1>6, <1>7, AddUncheckedExact
<1>9. ASSUME NEW e \in q.mapTx PROVE Parents(e) \cap p.mapTx \subseteq q.mapTx
  <2>1. CASE e = t
    BY <1>2, <1>4, <1>8, <2>1
  <2>2. CASE e \in r.mapTx
    BY Zenon, <1>3, <1>8, <2>2
  <2> QED BY Zenon, <1>8, <2>1, <2>2
<1>10. t \in q.mapTx /\ q.mapTx \subseteq p.mapTx \cup {t}
  BY <1>3, <1>8
<1> QED BY Zenon, <1>8, <1>9, <1>10 DEF q

-----------------------------------------------------------------------------
(* What the pool needs of the coins of the tip. *)

\* An input is spendable on top of the view v, which stands at the height.
InputReady(p, v, height, out) ==
    IF out.hash \in p.mapTx
    THEN FromTx(out.hash, 0).vout[out.n] # NULL
    ELSE /\ IsAvailable(v.coins, out)
         /\ v.coins[out.hash].fCoinBase => height + 1 - v.coins[out.hash].nHeight >= Maturity

\* Nothing that t reveals is spent, and the anchor it spends from is known.
JoinSplitsReady(v, t) == Reveals[t] \cap v.nullifiers = {} /\ (IsShielded(t) => Anchor[t] \in v.anchors)

Ready(p, v, height) ==
    \A t \in p.mapTx : JoinSplitsReady(v, t) /\ \A out \in Inputs(t) : InputReady(p, v, height, out)

\* Removal with descendants takes nothing from what the remaining entries need.
LEMMA RemoveAllReady ==
    ASSUME NEW p \in Pools, Exact(p), NEW S, NEW v, NEW height, Ready(p, v, height)
    PROVE  Ready(removeAll(p, S), v, height)
<1> DEFINE q == removeAll(p, S)
<1>1. q.mapTx \subseteq p.mapTx /\ \A e \in q.mapTx : Parents(e) \cap p.mapTx \subseteq q.mapTx
  BY Zenon, RemoveAllExact
<1> HIDE DEF q
<1>2. ASSUME NEW t \in q.mapTx, NEW out \in Inputs(t) PROVE InputReady(q, v, height, out)
  <2>1. InputReady(p, v, height, out) /\ out.hash \in Parents(t)
    BY Zenon, <1>1 DEF Ready, Parents
  <2>2. out.hash \in q.mapTx <=> out.hash \in p.mapTx
    BY Zenon, <1>1, <2>1
  <2> QED BY Zenon, <2>1, <2>2 DEF InputReady
<1>3. \A t \in q.mapTx : JoinSplitsReady(v, t)
  BY Zenon, <1>1 DEF Ready
<1>4. Ready(q, v, height)
  BY Zenon, <1>2, <1>3 DEF Ready
<1> QED BY Zenon, <1>4 DEF q

\* AcceptToMemoryPool accepts what can be mined, and nothing that an entry takes
\* for an output of the chain.
LEMMA AcceptedReady ==
    ASSUME NEW p \in Pools, Exact(p), NEW t \in Txs, NEW v, NEW height, Acceptable(p, v, height, t),
           Ready(p, v, height)
    PROVE  Ready(Accepted(p, t), v, height)
<1> DEFINE q == Accepted(p, t)
<1>1. /\ t \in q.mapTx /\ q.mapTx \subseteq p.mapTx \cup {t}
      /\ \A e \in q.mapTx : Parents(e) \cap p.mapTx \subseteq q.mapTx
  BY Zenon, AcceptedExact
<1>2. /\ v.coins[t] = Pruned /\ JoinSplitsReady(v, t)
      /\ \A out \in Inputs(t) : InputReady(p, v, height, out)
  <2>1. v.coins[t] = Pruned
    BY Zenon DEF Acceptable, ViewHaveCoins
  <2>2. JoinSplitsReady(v, t)
    BY Zenon DEF Acceptable, JoinSplitsReady
  <2>3. ASSUME NEW out \in Inputs(t) PROVE InputReady(p, v, height, out)
    <3>1. ViewAvailable(p, v.coins, out)
      BY Zenon DEF Acceptable
    <3>2. out.hash \notin p.mapTx
            => (v.coins[out.hash].fCoinBase => height + 1 - v.coins[out.hash].nHeight >= Maturity)
      BY Zenon DEF Acceptable, Parents
    <3> QED BY Zenon, <3>1, <3>2 DEF InputReady, ViewAvailable
  <2> QED BY Zenon, <2>1, <2>2, <2>3
<1> HIDE DEF q
<1>3. ASSUME NEW e \in q.mapTx, NEW out \in Inputs(e) PROVE InputReady(q, v, height, out)
  <2>1. InputReady(p, v, height, out) /\ out.hash \in Parents(e) /\ out.n \in Pos
    <3>1. e \in Txs
      BY <1>1 DEF Pools
    <3> QED BY Zenon, <1>1, <1>2, <3>1, TxParts DEF Ready
  <2>2. out.hash # t
    <3>1. out.hash = t => out.hash \notin p.mapTx
      BY Zenon DEF Acceptable, ViewHaveCoins
    <3>2. out.hash = t => ~ IsAvailable(v.coins, out)
      BY <1>2, <2>1 DEF IsAvailable, Pruned, NoOutputs
    <3> QED BY Zenon, <2>1, <3>1, <3>2 DEF InputReady
  <2>3. out.hash \in q.mapTx <=> out.hash \in p.mapTx
    BY Zenon, <1>1, <2>1, <2>2
  <2> QED BY Zenon, <2>1, <2>3 DEF InputReady
<1>4. \A e \in q.mapTx : JoinSplitsReady(v, e)
  BY Zenon, <1>1, <1>2 DEF Ready
<1>5. Ready(q, v, height)
  BY Zenon, <1>3, <1>4 DEF Ready
<1> QED BY Zenon, <1>5 DEF q

-----------------------------------------------------------------------------
(* removeForBlock *)

ExactPools == {p \in Pools : Exact(p)}

\* No entry is t or conflicts with t.
Apart(q, t) == \A e \in q.mapTx : e # t /\ Inputs(e) \cap Inputs(t) = {} /\ Reveals[e] \cap Reveals[t] = {}

\* One transaction of a block: what conflicts with it goes, and no entry loses
\* another parent than this transaction.
LEMMA ForBlockStep ==
    ASSUME NEW p \in ExactPools, NEW t \in Txs
    PROVE  LET r == removeConflicts(Erased(p, {t}), t)
           IN /\ r \in ExactPools /\ r.mapTx \subseteq p.mapTx /\ Apart(r, t)
              /\ \A e \in r.mapTx : Parents(e) \cap p.mapTx \subseteq r.mapTx \cup {t}
<1> DEFINE d == Erased(p, {t})
           S == ({d.mapNextTx[out] : out \in Inputs(t) \cap DOMAIN d.mapNextTx}
                    \cup {d.mapNullifiers[nf] : nf \in Reveals[t] \cap DOMAIN d.mapNullifiers}) \ {t}
           r == removeConflicts(d, t)
<1>1. p \in Pools /\ Exact(p)
  BY DEF ExactPools
<1>2. d \in Pools /\ d.mapTx = p.mapTx \ {t} /\ Exact(d)
  BY Zenon, <1>1, ErasedExact
<1> HIDE DEF d
<1>3. r = removeAll(d, S)
  BY Zenon DEF removeConflicts
<1>4. /\ \A out \in Inputs(t) : out \in DOMAIN d.mapNextTx /\ d.mapNextTx[out] # t => d.mapNextTx[out] \in S
      /\ \A nf \in Reveals[t] : nf \in DOMAIN d.mapNullifiers /\ d.mapNullifiers[nf] # t => d.mapNullifiers[nf] \in S
  OBVIOUS
<1> HIDE DEF S, r
<1>5. /\ r \in Pools /\ Exact(r) /\ r.mapTx \subseteq d.mapTx /\ r.mapTx \cap S = {}
      /\ \A e \in r.mapTx : Parents(e) \cap d.mapTx \subseteq r.mapTx
  BY <1>2, <1>3, RemoveAllExact
<1>6. ASSUME NEW e \in r.mapTx PROVE e # t /\ Inputs(e) \cap Inputs(t) = {} /\ Reveals[e] \cap Reveals[t] = {}
  <2>1. e \in d.mapTx /\ e # t /\ e \notin S
    BY <1>2, <1>5
  <2>2. /\ \A out \in Inputs(e) : out \in DOMAIN d.mapNextTx /\ d.mapNextTx[out] = e
        /\ \A nf \in Reveals[e] : nf \in DOMAIN d.mapNullifiers /\ d.mapNullifiers[nf] = e
    BY Zenon, <1>2, <2>1 DEF Exact
  <2>3. \A out \in Inputs(e) : out \notin Inputs(t)
    BY <1>4, <2>1, <2>2
  <2>4. \A nf \in Reveals[e] : nf \notin Reveals[t]
    BY <1>4, <2>1, <2>2
  <2> QED BY <2>1, <2>3, <2>4
<1>7. r.mapTx \subseteq p.mapTx /\ \A e \in r.mapTx : Parents(e) \cap p.mapTx \subseteq r.mapTx \cup {t}
  BY <1>2, <1>5
<1> QED BY Zenon, <1>5, <1>6, <1>7 DEF ExactPools, Apart, r, d

\* After the first n transactions of a block: nothing conflicts with them, and no
\* entry has lost another parent.
ForBlock(p, vtx, q, n) ==
    /\ q \in ExactPools /\ q.mapTx \subseteq p.mapTx
    /\ \A m \in 1 .. n : Apart(q, vtx[m])
    /\ \A e \in q.mapTx : \A h \in Parents(e) \cap p.mapTx : h \in q.mapTx \/ \E m \in 1 .. n : vtx[m] = h

\* removeForBlock leaves a pool without the block's transactions and what conflicts with
\* them; an entry whose parent goes has it in the block.
LEMMA RemoveForBlock ==
    ASSUME NEW p \in ExactPools, NEW vtx \in Seq(Txs)
    PROVE  ForBlock(p, vtx, removeForBlock(p, vtx), Len(vtx))
<1> DEFINE N == Len(vtx)
           step == [y \in (1 .. N) \X ExactPools |-> removeConflicts(Erased(y[2], {vtx[y[1]]}), vtx[y[1]])]
           Is(g) == g = [n \in 0 .. N |-> IF n = 0 THEN p ELSE removeConflicts(Erased(g[n - 1], {vtx[n]}), vtx[n])]
           q == CHOOSE g : Is(g)
<1>1. N \in Nat /\ \A n \in 1 .. N : vtx[n] \in Txs
  OBVIOUS
<1>2. \A n \in 1 .. N : \A x \in ExactPools : removeConflicts(Erased(x, {vtx[n]}), vtx[n]) \in ExactPools
  BY Zenon, <1>1, ForBlockStep
<1>3. step \in [(1 .. N) \X ExactPools -> ExactPools]
  BY <1>2
<1>4. PICK g \in [0 .. N -> ExactPools] : g[0] = p /\ \A n \in 1 .. N : g[n] = step[<<n, g[n - 1]>>]
  <2> HIDE DEF N, step
  <2>1. \E f : Follows(f, N, ExactPools, p, step)
    BY Zenon, <1>1, <1>3, Recursion
  <2> QED BY Zenon, <2>1 DEF Follows
<1>5. ASSUME NEW n \in 1 .. N PROVE g[n] = removeConflicts(Erased(g[n - 1], {vtx[n]}), vtx[n])
  <2>1. n - 1 \in 0 .. N
    BY <1>1
  <2>2. <<n, g[n - 1]>> \in (1 .. N) \X ExactPools
    BY Zenon, <2>1
  <2> QED BY <1>4, <2>2
<1>6. Is(g)
  <2> HIDE DEF N, step
  <2>1. \A n \in 0 .. N : n = 0 \/ n \in 1 .. N
    BY <1>1
  <2>2. \A n \in 0 .. N : g[n] = IF n = 0 THEN p ELSE removeConflicts(Erased(g[n - 1], {vtx[n]}), vtx[n])
    BY Zenon, <1>4, <1>5, <2>1
  <2> QED BY Zenon, <2>2
<1>7. Is(q) /\ removeForBlock(p, vtx) = q[N]
  <2>1. removeForBlock(p, vtx) = q[N]
    BY DEF removeForBlock
  <2> HIDE DEF Is
  <2> QED BY Zenon, <1>6, <2>1
<1> HIDE DEF q
<1>8. q[0] = p
  BY <1>1, <1>7
<1>9. ASSUME NEW n \in 1 .. N PROVE q[n] = removeConflicts(Erased(q[n - 1], {vtx[n]}), vtx[n])
  <2>1. n \in 0 .. N /\ n # 0
    BY <1>1
  <2> QED BY Zenon, <1>7, <2>1
<1> DEFINE T == {n \in 0 .. N : ForBlock(p, vtx, q[n], n)}
<1>10. 0 \in T
  <2>1. 0 \in 0 .. N /\ \A m : m \notin 1 .. 0
    BY <1>1
  <2>2. ForBlock(p, vtx, p, 0)
    BY <2>1 DEF ForBlock
  <2> QED BY <1>8, <2>1, <2>2
<1>11. ASSUME NEW n \in 0 .. N - 1, n \in T PROVE n + 1 \in T
  <2> DEFINE x == q[n]
             y == q[n + 1]
             t == vtx[n + 1]
  <2>1. n + 1 \in 0 .. N /\ n + 1 \in 1 .. N /\ (n + 1) - 1 = n /\ t \in Txs
    BY <1>1
  <2>2. y = removeConflicts(Erased(x, {t}), t)
    BY <1>9, <2>1
  <2>3. /\ x \in ExactPools /\ x.mapTx \subseteq p.mapTx
        /\ \A m \in 1 .. n : Apart(x, vtx[m])
        /\ \A e \in x.mapTx : \A h \in Parents(e) \cap p.mapTx : h \in x.mapTx \/ \E m \in 1 .. n : vtx[m] = h
    BY Zenon, <1>11 DEF ForBlock
  <2> HIDE DEF x, y, t
  <2>4. /\ y \in ExactPools /\ y.mapTx \subseteq x.mapTx /\ Apart(y, t)
        /\ \A e \in y.mapTx : Parents(e) \cap x.mapTx \subseteq y.mapTx \cup {t}
    BY Zenon, <2>1, <2>2, <2>3, ForBlockStep
  <2>5. \A m \in 1 .. n + 1 : m \in 1 .. n \/ m = n + 1
    BY <1>1
  <2>6. \A m \in 1 .. n : m \in 1 .. n + 1
    BY <1>1
  <2>7. n + 1 \in 1 .. n + 1
    BY <1>1
  <2>8. ASSUME NEW m \in 1 .. n + 1 PROVE Apart(y, vtx[m])
    <3>1. CASE m \in 1 .. n
      BY <2>3, <2>4, <3>1 DEF Apart
    <3>2. CASE m = n + 1
      BY <2>4, <3>2 DEF t
    <3> QED BY Zenon, <2>5, <3>1, <3>2
  <2>9. ASSUME NEW e \in y.mapTx, NEW h \in Parents(e) \cap p.mapTx PROVE h \in y.mapTx \/ \E m \in 1 .. n + 1 : vtx[m] = h
    <3>1. h \in x.mapTx \/ \E m \in 1 .. n : vtx[m] = h
      BY <2>3, <2>4
    <3>2. h \in x.mapTx => h \in y.mapTx \/ h = t
      BY <2>4
    <3> QED BY Zenon, <2>6, <2>7, <3>1, <3>2 DEF t
  <2>10. y.mapTx \subseteq p.mapTx
    BY <2>3, <2>4
  <2>11. ForBlock(p, vtx, y, n + 1)
    BY Zenon, <2>4, <2>8, <2>9, <2>10 DEF ForBlock
  <2> QED BY Zenon, <2>1, <2>11 DEF y
<1>12. \A n \in 0 .. N : n \in T
  <2> HIDE DEF T, N
  <2> QED BY Zenon, <1>1, <1>10, <1>11, UpTo
<1>13. N \in 0 .. N
  BY <1>1
<1> QED BY Zenon, <1>7, <1>12, <1>13

\* What an entry needs of the pool: the outputs it spends in it.
LEMMA FromPool ==
    ASSUME NEW out \in OutPoint
    PROVE  FromTx(out.hash, 0).vout[out.n] = Spendable(out.hash, out.n)
<1>1. out.hash \in Txs /\ out.n \in Pos /\ 0 \in Nat
  BY DEF OutPoint
<1>2. FromTx(out.hash, 0).vout = [p \in Pos |-> Spendable(out.hash, p)]
  BY <1>1, FromTxParts
<1> QED BY Zenon, <1>1, <1>2

\* A connected block takes out of the pool what cannot be mined above it.
LEMMA ConnectReady ==
    ASSUME BlockInv, pool \in ExactPools, Ready(pool, tip, Len(chain)), ConnectTip
    PROVE  pool' \in ExactPools /\ Ready(pool', tip', Len(chain'))
<1>1. FinishConnect /\ pool' = removeForBlock(pool, block)
  BY DEF ConnectTip
<1>2. /\ block \in Seq(Txs) /\ Len(block) \in Nat /\ Len(chain') = Len(chain) + 1 /\ Len(chain) \in Nat
      /\ \A nf \in tip'.nullifiers : nf \in tip.nullifiers \/ \E m \in 1 .. Len(block) : nf \in Reveals[block[m]]
      /\ tip.anchors \subseteq tip'.anchors
  BY Zenon, <1>1, ConnectedTip
<1>3. ForBlock(pool, block, pool', Len(block))
  BY <1>1, <1>2, RemoveForBlock
<1>4. /\ pool' \in ExactPools /\ pool'.mapTx \subseteq pool.mapTx
      /\ \A m \in 1 .. Len(block) : Apart(pool', block[m])
      /\ \A e \in pool'.mapTx : \A h \in Parents(e) \cap pool.mapTx : h \in pool'.mapTx \/ \E m \in 1 .. Len(block) : block[m] = h
  BY Zenon, <1>3 DEF ForBlock
<1>5. pool.mapTx \subseteq Txs \ CoinBases
  BY DEF ExactPools, Pools
<1>6. \A t \in Txs : tip'.coins[t].fCoinBase => t \in CoinBases
  BY Zenon, <1>1, ConnectedTip
<1>7. ASSUME NEW e \in pool'.mapTx PROVE JoinSplitsReady(tip', e)
  <2>1. JoinSplitsReady(tip, e)
    BY Zenon, <1>4 DEF Ready
  <2>2. \A m \in 1 .. Len(block) : Reveals[e] \cap Reveals[block[m]] = {}
    BY Zenon, <1>4 DEF Apart
  <2> QED BY <1>2, <2>1, <2>2 DEF JoinSplitsReady
<1>8. ASSUME NEW e \in pool'.mapTx, NEW out \in Inputs(e) PROVE InputReady(pool', tip', Len(chain'), out)
  <2>1. e \in pool.mapTx /\ e \in Txs
    BY <1>4, <1>5
  <2>2. out \in OutPoint /\ out.hash \in Txs /\ out.n \in Pos /\ out.hash \in Parents(e)
    BY <2>1, TxParts
  <2>3. InputReady(pool, tip, Len(chain), out)
    BY Zenon, <2>1 DEF Ready
  <2>4. ~ SpentBy(block, out)
    <3>1. \A m \in 1 .. Len(block) : out \notin Inputs(block[m])
      BY <1>4 DEF Apart
    <3> QED BY Zenon, <3>1 DEF SpentBy, Inputs
  <2>5. CASE out.hash \in pool'.mapTx
    BY Zenon, <1>4, <2>3, <2>5 DEF InputReady
  <2>6. CASE out.hash \in pool.mapTx /\ out.hash \notin pool'.mapTx
    <3>1. PICK m \in 1 .. Len(block) : block[m] = out.hash
      BY <1>4, <2>2, <2>6
    <3>2. Spendable(out.hash, out.n) # NULL
      BY Zenon, <2>2, <2>3, <2>6, FromPool DEF InputReady
    <3>3. IsAvailable(tip'.coins, out)
      BY Zenon, <1>1, <2>2, <2>4, <3>1, <3>2, ConnectedTip
    <3>4. ~ tip'.coins[out.hash].fCoinBase
      BY <1>5, <1>6, <2>2, <2>6
    <3> QED BY Zenon, <2>6, <3>3, <3>4 DEF InputReady
  <2>7. CASE out.hash \notin pool.mapTx
    <3>1. /\ IsAvailable(tip.coins, out)
          /\ tip.coins[out.hash].fCoinBase => Len(chain) + 1 - tip.coins[out.hash].nHeight >= Maturity
      BY Zenon, <2>3, <2>7 DEF InputReady
    <3>2. IsAvailable(tip'.coins, out) /\ tip'.coins[out.hash].nHeight = tip.coins[out.hash].nHeight
      BY Zenon, <1>1, <2>2, <2>4, <3>1, ConnectedTip
    <3>3. tip'.coins[out.hash].fCoinBase => Len(chain') + 1 - tip'.coins[out.hash].nHeight >= Maturity
      <4>1. tip.coins[out.hash] \in Coin /\ (out.hash \in CoinBases => tip.coins[out.hash].fCoinBase)
        BY Zenon, <2>2, <3>1, TipParts
      <4>2. tip'.coins[out.hash].fCoinBase => Len(chain) + 1 - tip.coins[out.hash].nHeight >= Maturity
        BY Zenon, <1>6, <2>2, <3>1, <4>1
      <4>3. tip.coins[out.hash].nHeight \in Nat
        BY <4>1 DEF Coin
      <4> QED BY SMTT(30), <1>2, <3>2, <4>2, <4>3, BlockUndoAssumption
    <3> QED BY Zenon, <1>4, <2>7, <3>2, <3>3 DEF InputReady
  <2> QED BY Zenon, <2>5, <2>6, <2>7
<1> QED BY Zenon, <1>4, <1>7, <1>8 DEF Ready

-----------------------------------------------------------------------------
(* DisconnectTip *)

\* While the transactions of a disconnected block are offered to the pool: an input
\* that is not in the pool is in the coins v, or comes with one of the transactions
\* left, which are still to be offered.
InputMidway(p, v, left, out) ==
    IF out.hash \in p.mapTx
    THEN Spendable(out.hash, out.n) # NULL
    ELSE IsAvailable(v.coins, out) \/ (out.hash \in left /\ Spendable(out.hash, out.n) # NULL)

Midway(p, v, left, roots) ==
    \A e \in p.mapTx :
        /\ Reveals[e] \cap v.nullifiers = {}
        /\ IsShielded(e) => Anchor[e] \in roots
        /\ \A out \in Inputs(e) : InputMidway(p, v, left, out)

\* Whatever is offered, the maps stay exact.
LEMMA OfferedExact ==
    ASSUME NEW p \in ExactPools, NEW t \in Txs, NEW v, NEW height, NEW refused
    PROVE  Offered(p, v, height, t, refused) \in ExactPools
<1>1. p \in Pools /\ Exact(p)
  BY DEF ExactPools
<1>2. CASE t \notin refused /\ Acceptable(p, v, height, t)
  <2>1. Accepted(p, t) \in Pools /\ Exact(Accepted(p, t))
    BY Zenon, <1>1, <1>2, AcceptedExact
  <2> QED BY Zenon, <1>2, <2>1 DEF Offered, ExactPools
<1>3. CASE ~(t \notin refused /\ Acceptable(p, v, height, t))
  <2>1. removeAll(p, {t}) \in Pools /\ Exact(removeAll(p, {t}))
    BY Zenon, <1>1, RemoveAllExact
  <2> QED BY Zenon, <1>3, <2>1 DEF Offered, ExactPools
<1> QED BY Zenon, <1>2, <1>3

\* Offering a transaction: either it comes into the pool, or what spends from it
\* goes.
LEMMA OfferedMidway ==
    ASSUME NEW p \in ExactPools, NEW t \in Txs, NEW v, NEW height, NEW refused, NEW left, NEW roots, v.anchors \subseteq roots,
           Midway(p, v, left, roots)
    PROVE  LET q == Offered(p, v, height, t, refused)
           IN q \in ExactPools /\ Midway(q, v, left \ {t}, roots)
<1>1. p \in Pools /\ Exact(p) /\ p.mapTx \subseteq Txs
  BY DEF ExactPools, Pools
<1>2. \A e \in p.mapTx : \A out \in Inputs(e) : out \in OutPoint /\ out.hash \in Parents(e)
  BY Zenon, <1>1, TxParts
<1>3. \A out \in Inputs(t) : out \in OutPoint /\ out.hash \in Parents(t)
  BY Zenon, TxParts
<1>4. CASE t \notin refused /\ Acceptable(p, v, height, t)
  <2> DEFINE q == Accepted(p, t)
  <2>1. Offered(p, v, height, t, refused) = q
    BY Zenon, <1>4 DEF Offered
  <2>2. /\ q \in Pools /\ Exact(q) /\ t \in q.mapTx /\ q.mapTx \subseteq p.mapTx \cup {t}
        /\ \A e \in q.mapTx : Parents(e) \cap p.mapTx \subseteq q.mapTx
    BY Zenon, <1>1, <1>4, AcceptedExact
  <2> HIDE DEF q
  <2>3. /\ v.coins[t] = Pruned /\ \A out \in Inputs(t) : ViewAvailable(p, v.coins, out)
        /\ Reveals[t] \cap v.nullifiers = {} /\ (IsShielded(t) => Anchor[t] \in v.anchors)
    BY <1>4 DEF Acceptable, ViewHaveCoins
  <2>4. ASSUME NEW out \in OutPoint, IsAvailable(v.coins, out) PROVE out.hash # t
    BY Zenon, <2>3, <2>4, AvailableNotPruned
  <2>5. ASSUME NEW e \in p.mapTx, e \in q.mapTx, NEW out \in Inputs(e) PROVE InputMidway(q, v, left \ {t}, out)
    <3>1. InputMidway(p, v, left, out)
      BY Zenon DEF Midway
    <3>2. out \in OutPoint /\ out.hash \in Parents(e)
      BY Zenon, <1>2
    <3>3. CASE out.hash \in p.mapTx
      <4>1. out.hash \in q.mapTx
        BY <2>2, <2>5, <3>2, <3>3
      <4> QED BY Zenon, <3>1, <3>3, <4>1 DEF InputMidway
    <3>4. CASE out.hash \notin p.mapTx /\ IsAvailable(v.coins, out)
      <4>1. out.hash \notin q.mapTx
        BY SMTT(30), <2>2, <2>4, <3>2, <3>4
      <4> QED BY Zenon, <3>4, <4>1 DEF InputMidway
    <3>5. CASE out.hash \in left /\ Spendable(out.hash, out.n) # NULL
      BY SMTT(30), <2>2, <3>1, <3>5 DEF InputMidway
    <3> QED BY Zenon, <3>1, <3>3, <3>4, <3>5 DEF InputMidway
  <2>6. ASSUME NEW out \in Inputs(t) PROVE InputMidway(q, v, left \ {t}, out)
    <3>1. ViewAvailable(p, v.coins, out) /\ out \in OutPoint /\ out.hash \in Parents(t)
      BY Zenon, <1>3, <2>3
    <3>2. CASE out.hash \in p.mapTx
      <4>1. out.hash \in q.mapTx
        BY <2>2, <3>1, <3>2
      <4>2. Spendable(out.hash, out.n) # NULL
        BY Zenon, <3>1, <3>2, FromPool DEF ViewAvailable
      <4> QED BY Zenon, <4>1, <4>2 DEF InputMidway
    <3>3. CASE out.hash \notin p.mapTx
      <4>1. IsAvailable(v.coins, out)
        BY Zenon, <3>1, <3>3 DEF ViewAvailable
      <4>2. out.hash \notin q.mapTx
        BY <2>2, <2>4, <3>1, <3>3, <4>1
      <4> QED BY Zenon, <4>1, <4>2 DEF InputMidway
    <3> QED BY Zenon, <3>2, <3>3
  <2>7. ASSUME NEW e \in q.mapTx
        PROVE  /\ Reveals[e] \cap v.nullifiers = {}
               /\ IsShielded(e) => Anchor[e] \in roots
               /\ \A out \in Inputs(e) : InputMidway(q, v, left \ {t}, out)
    <3>1. CASE e \in p.mapTx
      BY Zenon, <2>5, <3>1 DEF Midway
    <3>2. CASE e = t
      BY SMTT(30), <2>3, <2>6, <3>2
    <3> QED BY <2>2, <3>1, <3>2
  <2> QED BY Zenon, <2>1, <2>2, <2>7 DEF Midway, ExactPools
<1>5. CASE ~(t \notin refused /\ Acceptable(p, v, height, t))
  <2> DEFINE q == removeAll(p, {t})
  <2>1. Offered(p, v, height, t, refused) = q
    BY Zenon, <1>5 DEF Offered
  <2>2. /\ q \in Pools /\ Exact(q) /\ q.mapTx \subseteq p.mapTx
        /\ \A e \in q.mapTx : Parents(e) \cap {t} = {} /\ Parents(e) \cap p.mapTx \subseteq q.mapTx
    BY Zenon, <1>1, RemoveAllExact
  <2> HIDE DEF q
  <2>3. ASSUME NEW e \in q.mapTx, NEW out \in Inputs(e) PROVE InputMidway(q, v, left \ {t}, out)
    <3>1. InputMidway(p, v, left, out) /\ out.hash \in Parents(e)
      BY Zenon, <1>2, <2>2 DEF Midway
    <3>2. out.hash # t /\ (out.hash \in q.mapTx <=> out.hash \in p.mapTx)
      BY <2>2, <3>1
    <3> QED BY <3>1, <3>2 DEF InputMidway
  <2> QED BY Zenon, <2>1, <2>2, <2>3 DEF Midway, ExactPools
<1> QED BY Zenon, <1>4, <1>5

\* The transactions of the block that are still to be offered after the first n
ToOffer(n) == {block[m] : m \in n + 1 .. Len(block)}

\* Offering all of them: nothing is left that an entry may wait for.
LEMMA ResurrectedMidway ==
    ASSUME pool \in ExactPools, block \in Seq(Txs), NEW v, NEW height, NEW refused, NEW roots, v.anchors \subseteq roots,
           Midway(pool, v, ToOffer(0), roots)
    PROVE  Resurrected(v, height, refused) \in ExactPools /\ Midway(Resurrected(v, height, refused), v, {}, roots)
<1> DEFINE N == Len(block)
           step == [y \in (1 .. N) \X ExactPools |-> Offered(y[2], v, height, block[y[1]], refused)]
           Is(g) == g = [n \in 0 .. N |-> IF n = 0 THEN pool ELSE Offered(g[n - 1], v, height, block[n], refused)]
           q == CHOOSE g : Is(g)
<1>1. N \in Nat /\ \A n \in 1 .. N : block[n] \in Txs
  OBVIOUS
<1>2. \A n \in 1 .. N : \A x \in ExactPools : Offered(x, v, height, block[n], refused) \in ExactPools
  BY Zenon, <1>1, OfferedExact
<1>3. step \in [(1 .. N) \X ExactPools -> ExactPools]
  BY <1>2
<1>4. PICK g \in [0 .. N -> ExactPools] : g[0] = pool /\ \A n \in 1 .. N : g[n] = step[<<n, g[n - 1]>>]
  <2> HIDE DEF N, step
  <2>1. \E f : Follows(f, N, ExactPools, pool, step)
    BY Zenon, <1>1, <1>3, Recursion
  <2> QED BY Zenon, <2>1 DEF Follows
<1>5. ASSUME NEW n \in 1 .. N PROVE g[n] = Offered(g[n - 1], v, height, block[n], refused)
  <2>1. n - 1 \in 0 .. N
    BY <1>1
  <2>2. <<n, g[n - 1]>> \in (1 .. N) \X ExactPools
    BY Zenon, <2>1
  <2> QED BY Zenon, <1>4, <2>2
<1>6. Is(g)
  <2> HIDE DEF N, step
  <2>1. \A n \in 0 .. N : n = 0 \/ n \in 1 .. N
    BY <1>1
  <2>2. \A n \in 0 .. N : g[n] = IF n = 0 THEN pool ELSE Offered(g[n - 1], v, height, block[n], refused)
    BY Zenon, <1>4, <1>5, <2>1
  <2> QED BY <2>2
<1>7. Is(q) /\ Resurrected(v, height, refused) = q[N]
  <2>1. Resurrected(v, height, refused) = q[N]
    BY DEF Resurrected
  <2> HIDE DEF Is
  <2> QED BY Zenon, <1>6, <2>1
<1> HIDE DEF q
<1>8. q[0] = pool
  BY <1>1, <1>7
<1>9. ASSUME NEW n \in 1 .. N PROVE q[n] = Offered(q[n - 1], v, height, block[n], refused)
  <2>1. n \in 0 .. N /\ n # 0
    BY <1>1
  <2> QED BY Zenon, <1>7, <2>1
<1> DEFINE T == {n \in 0 .. N : q[n] \in ExactPools /\ Midway(q[n], v, ToOffer(n), roots)}
<1>10. 0 \in T
  <2>1. 0 \in 0 .. N
    BY <1>1
  <2> QED BY <1>8, <2>1
<1>11. ASSUME NEW n \in 0 .. N - 1, n \in T PROVE n + 1 \in T
  <2>1. n + 1 \in 0 .. N /\ n + 1 \in 1 .. N /\ (n + 1) - 1 = n /\ block[n + 1] \in Txs
    BY <1>1
  <2>2. q[n + 1] = Offered(q[n], v, height, block[n + 1], refused)
    BY <1>9, <2>1
  <2>3. q[n + 1] \in ExactPools /\ Midway(q[n + 1], v, ToOffer(n) \ {block[n + 1]}, roots)
    <3> DEFINE x == Offered(q[n], v, height, block[n + 1], refused)
    <3>1. q[n] \in ExactPools /\ Midway(q[n], v, ToOffer(n), roots)
      BY Zenon, <1>11
    <3>2. x \in ExactPools /\ Midway(x, v, ToOffer(n) \ {block[n + 1]}, roots)
      BY Zenon, <2>1, <3>1, OfferedMidway
    <3> QED BY Zenon, <2>2, <3>2
  <2>4. ToOffer(n) \ {block[n + 1]} \subseteq ToOffer(n + 1)
    <3>1. \A m \in n + 1 .. N : m = n + 1 \/ m \in (n + 1) + 1 .. N
      BY SMTT(30), <1>1
    <3> QED BY Zenon, <3>1 DEF ToOffer
  <2>5. Midway(q[n + 1], v, ToOffer(n + 1), roots)
    BY <2>3, <2>4 DEF Midway, InputMidway
  <2> QED BY Zenon, <2>1, <2>3, <2>5
<1>12. \A n \in 0 .. N : n \in T
  <2> HIDE DEF T, N
  <2> QED BY Zenon, <1>1, <1>10, <1>11, UpTo
<1>13. N \in 0 .. N /\ ToOffer(N) = {}
  BY <1>1 DEF ToOffer
<1>14. q[N] \in ExactPools /\ Midway(q[N], v, ToOffer(N), roots)
  BY Zenon, <1>12, <1>13
<1> QED BY Zenon, <1>7, <1>13, <1>14

\* A disconnected block gives its transactions back to the pool, and what cannot
\* be mined without it goes.
LEMMA DisconnectReady ==
    ASSUME BlockInv, pool \in ExactPools, Ready(pool, tip, Len(chain)), DisconnectTip
    PROVE  pool' \in ExactPools /\ Ready(pool', tip', Len(chain'))
<1>1. FinishDisconnect
  BY DEF DisconnectTip
<1>2. /\ fClean /\ block \in Seq(Txs) /\ Len(block) \in Nat /\ Len(chain) = Len(chain') + 1 /\ Len(chain') \in Nat
      /\ tip'.nullifiers \subseteq tip.nullifiers
      /\ \A r \in tip.anchors : r \in tip'.anchors \/ (r = tip.best /\ tip.best # tip'.best)
  BY Zenon, <1>1, DisconnectedTip
<1> DEFINE roots == tip'.anchors \cup {r \in {tip.best} : tip.best # tip'.best}
<1>3. tip'.anchors \subseteq roots /\ tip.anchors \subseteq roots
  BY <1>2
<1> HIDE DEF roots
<1>4. pool.mapTx \subseteq Txs
  BY DEF ExactPools, Pools
<1>5. Midway(pool, tip', ToOffer(0), roots)
  <2>1. ASSUME NEW e \in pool.mapTx, NEW out \in Inputs(e) PROVE InputMidway(pool, tip', ToOffer(0), out)
    <3>1. InputReady(pool, tip, Len(chain), out)
      BY Zenon DEF Ready
    <3>2. out \in OutPoint
      BY <1>4, TxParts
    <3>3. CASE out.hash \in pool.mapTx
      BY Zenon, <3>1, <3>2, <3>3, FromPool DEF InputReady, InputMidway
    <3>4. CASE out.hash \notin pool.mapTx
      <4>1. IsAvailable(tip.coins, out)
        BY Zenon, <3>1, <3>4 DEF InputReady
      <4>2. Spendable(out.hash, out.n) # NULL
        BY Zenon, <3>2, <4>1, TipParts
      <4>3. CASE \E m \in 1 .. Len(block) : block[m] = out.hash
        <5>1. out.hash \in ToOffer(0)
          BY <4>3 DEF ToOffer
        <5> QED BY Zenon, <3>4, <4>2, <5>1 DEF InputMidway
      <4>4. CASE \A m \in 1 .. Len(block) : block[m] # out.hash
        <5>1. IsAvailable(tip'.coins, out)
          BY Zenon, <1>1, <3>2, <4>1, <4>4, DisconnectedTip
        <5> QED BY Zenon, <3>4, <5>1 DEF InputMidway
      <4> QED BY Zenon, <4>3, <4>4
    <3> QED BY Zenon, <3>3, <3>4
  <2>2. ASSUME NEW e \in pool.mapTx PROVE Reveals[e] \cap tip'.nullifiers = {} /\ (IsShielded(e) => Anchor[e] \in roots)
    <3>1. JoinSplitsReady(tip, e)
      BY Zenon DEF Ready
    <3> QED BY <1>2, <1>3, <3>1 DEF JoinSplitsReady
  <2> QED BY Zenon, <2>1, <2>2 DEF Midway
<1>6. PICK refused : LET p == Resurrected(tip', Len(chain'), refused)
                         q == IF tip.best # tip'.best THEN removeWithAnchor(p, tip.best) ELSE p
                     IN pool' = removeCoinbaseSpends(q, tip'.coins, Len(chain))
  BY Zenon, <1>2 DEF DisconnectTip
<1> DEFINE p == Resurrected(tip', Len(chain'), refused)
           q == IF tip.best # tip'.best THEN removeWithAnchor(p, tip.best) ELSE p
<1>7. p \in ExactPools /\ Midway(p, tip', {}, roots)
  BY Zenon, <1>2, <1>3, <1>5, ResurrectedMidway
<1> HIDE DEF p
<1>8. /\ p \in Pools /\ Exact(p) /\ p.mapTx \subseteq Txs
  BY <1>7 DEF ExactPools, Pools
<1>9. /\ q \in Pools /\ Exact(q) /\ q.mapTx \subseteq p.mapTx
      /\ \A e \in q.mapTx : Parents(e) \cap p.mapTx \subseteq q.mapTx /\ (IsShielded(e) => Anchor[e] \in tip'.anchors)
  <2>1. \A e \in p.mapTx : IsShielded(e) => Anchor[e] \in roots
    BY Zenon, <1>7 DEF Midway
  <2>2. CASE tip.best # tip'.best
    <3> DEFINE S == {t \in p.mapTx \cap Shields : Anchor[t] = tip.best}
    <3>1. q = removeAll(p, S)
      BY Zenon, <2>2 DEF removeWithAnchor
    <3>2. \A e \in p.mapTx : IsShielded(e) /\ Anchor[e] = tip.best => e \in S
      BY <1>8 DEF Shields
    <3> HIDE DEF S, q
    <3>3. /\ q \in Pools /\ Exact(q) /\ q.mapTx \subseteq p.mapTx /\ q.mapTx \cap S = {}
          /\ \A e \in q.mapTx : Parents(e) \cap p.mapTx \subseteq q.mapTx
      BY <1>8, <3>1, RemoveAllExact
    <3>4. \A e \in q.mapTx : IsShielded(e) => Anchor[e] \in tip'.anchors
      BY <2>1, <3>2, <3>3 DEF roots
    <3> QED BY Zenon, <3>3, <3>4
  <2>3. CASE tip.best = tip'.best
    <3>1. q = p
      BY Zenon, <2>3
    <3>2. \A e \in p.mapTx : IsShielded(e) => Anchor[e] \in tip'.anchors
      BY <2>1, <2>3 DEF roots
    <3> HIDE DEF q
    <3> QED BY <1>8, <3>1, <3>2
  <2> QED BY Zenon, <2>2, <2>3
<1>10. pool' = removeAll(q, CoinbaseSpends(q, tip'.coins, Len(chain)))
  BY Zenon, <1>6 DEF removeCoinbaseSpends, p
<1> DEFINE S == CoinbaseSpends(q, tip'.coins, Len(chain))
<1>11. ASSUME NEW e \in q.mapTx, e \notin S, NEW h \in Parents(e), h \notin q.mapTx
       PROVE  tip'.coins[h].fCoinBase => ~(Len(chain) - tip'.coins[h].nHeight < Maturity)
  BY SMTT(30), <1>11 DEF CoinbaseSpends
<1> HIDE DEF q, S
<1>12. /\ pool' \in Pools /\ Exact(pool') /\ pool'.mapTx \subseteq q.mapTx /\ pool'.mapTx \cap S = {}
       /\ \A e \in pool'.mapTx : Parents(e) \cap q.mapTx \subseteq pool'.mapTx
  BY <1>9, <1>10, RemoveAllExact DEF S
<1>13. ASSUME NEW e \in pool'.mapTx PROVE JoinSplitsReady(tip', e) /\ \A out \in Inputs(e) : InputReady(pool', tip', Len(chain'), out)
  <2>1. e \in q.mapTx /\ e \in p.mapTx /\ e \in Txs /\ e \notin S
    BY <1>8, <1>9, <1>12
  <2>2. JoinSplitsReady(tip', e)
    BY Zenon, <1>7, <1>9, <2>1 DEF Midway, JoinSplitsReady
  <2>3. ASSUME NEW out \in Inputs(e) PROVE InputReady(pool', tip', Len(chain'), out)
    <3>1. InputMidway(p, tip', {}, out)
      BY Zenon, <1>7, <2>1 DEF Midway
    <3>2. out \in OutPoint /\ out.hash \in Txs /\ out.hash \in Parents(e)
      BY Zenon, <2>1, TxParts
    <3>3. /\ out.hash \in pool'.mapTx <=> out.hash \in q.mapTx
          /\ out.hash \in pool'.mapTx <=> out.hash \in p.mapTx
      BY <1>9, <1>12, <2>1, <3>2
    <3>4. CASE out.hash \in pool'.mapTx
      <4>1. FromTx(out.hash, 0).vout[out.n] # NULL
        BY Zenon, <3>1, <3>2, <3>3, <3>4, FromPool DEF InputMidway
      <4> QED BY Zenon, <3>4, <4>1 DEF InputReady
    <3>5. CASE out.hash \notin pool'.mapTx
      <4>1. IsAvailable(tip'.coins, out)
        BY Zenon, <3>1, <3>3, <3>5 DEF InputMidway
      <4>2. tip'.coins[out.hash].fCoinBase => ~(Len(chain) - tip'.coins[out.hash].nHeight < Maturity)
        BY Zenon, <1>11, <2>1, <3>2, <3>3, <3>5
      <4>3. tip'.coins[out.hash].nHeight \in Nat
        <5>1. BlockInv'
          BY Zenon, <1>1, BlockInvFinishDisconnect
        <5>2. tip' \in View
          BY Zenon, <5>1 DEF BlockInv, TypeOK
        <5> QED BY <3>2, <5>2 DEF View, Coin
      <4>4. tip'.coins[out.hash].fCoinBase => Len(chain') + 1 - tip'.coins[out.hash].nHeight >= Maturity
        BY SMTT(30), <1>2, <4>2, <4>3, BlockUndoAssumption
      <4> QED BY Zenon, <3>5, <4>1, <4>4 DEF InputReady
    <3> QED BY Zenon, <3>4, <3>5
  <2> QED BY Zenon, <2>2, <2>3
<1> QED BY Zenon, <1>12, <1>13 DEF Ready, ExactPools

-----------------------------------------------------------------------------
(* The theorems about the coins and the pool. *)

PoolInv == pool \in ExactPools /\ Ready(pool, tip, Len(chain))

MempoolVars == <<vars, poolVars>>

\* Every step of the composition is one of ConnectBlock or DisconnectBlock, or
\* leaves the coins alone.
LEMMA MempoolNextBlock ==
    ASSUME [MempoolNext]_MempoolVars
    PROVE  [BlockNext]_vars
<1>1. CASE work = <<>> /\ ((\E vtx \in Blocks : BeginConnect(vtx)) \/ BeginDisconnect) /\ UNCHANGED poolVars
  BY Zenon, <1>1 DEF BlockNext
<1>2. CASE BlockStep /\ UNCHANGED poolVars
  BY Zenon, <1>2 DEF BlockNext
<1>3. CASE (ConnectTip \/ DisconnectTip) /\ UNCHANGED orphanVars
  BY Zenon, <1>3 DEF BlockNext, ConnectTip, DisconnectTip
<1>4. CASE \E t \in Txs : SubmitTx(t) \/ ReceiveTx(t) \/ TryOrphan(t)
  BY <1>4 DEF SubmitTx, ReceiveTx, TryOrphan
<1>5. CASE \E t \in Txs, peer \in Peers : ReceiveOrphan(t, peer)
  BY <1>5 DEF ReceiveOrphan
<1>6. CASE NextWork \/ FinishTx \/ \E peer \in Peers : EraseOrphansFor(peer)
  BY Zenon, <1>6 DEF NextWork, FinishTx, EraseOrphansFor
<1>7. CASE UNCHANGED MempoolVars
  BY <1>7 DEF MempoolVars
<1> QED BY Zenon, <1>1, <1>2, <1>3, <1>4, <1>5, <1>6, <1>7 DEF MempoolNext

\* The pool is empty at first.
LEMMA PoolInvInit ==
    ASSUME MempoolInit
    PROVE  PoolInv
<1>1. pool.mapTx = {} /\ pool.mapNextTx = NoFunction /\ pool.mapNullifiers = NoFunction
      /\ pool = [mapTx |-> {}, mapNextTx |-> NoFunction, mapNullifiers |-> NoFunction]
  BY DEF MempoolInit
<1>2. \A A, B : NoFunction \in Maps(A, B)
  <2>1. \A A, B : NoFunction \in [{} -> B] /\ {} \in SUBSET A
    BY DEF NoFunction
  <2> QED BY Zenon, <2>1 DEF Maps
<1>3. pool \in Pools
  BY <1>1, <1>2 DEF Pools
<1>4. Exact(pool)
  BY <1>1 DEF Exact, NoFunction
<1> QED BY <1>1, <1>3, <1>4 DEF PoolInv, ExactPools, Ready

\* Accepting a transaction keeps the pool ready.
LEMMA PoolInvAccept ==
    ASSUME PoolInv, NEW t \in Txs, Acceptable(pool, tip, Len(chain), t), pool' = Accepted(pool, t), UNCHANGED vars
    PROVE  PoolInv'
<1>1. pool \in Pools /\ Exact(pool) /\ Ready(pool, tip, Len(chain))
  BY DEF PoolInv, ExactPools
<1>2. Accepted(pool, t) \in Pools /\ Exact(Accepted(pool, t))
  BY Zenon, <1>1, AcceptedExact
<1>3. Ready(Accepted(pool, t), tip, Len(chain))
  BY Zenon, <1>1, AcceptedReady
<1>4. tip' = tip /\ chain' = chain
  BY DEF vars
<1> QED BY Zenon, <1>2, <1>3, <1>4 DEF PoolInv, ExactPools

\* Every step of the handlers keeps the pool minable.
LEMMA PoolInvStep ==
    ASSUME BlockInv, PoolInv, [MempoolNext]_MempoolVars
    PROVE  PoolInv'
<1>1. ASSUME UNCHANGED <<pool, tip, chain>> PROVE PoolInv'
  <2>1. pool' = pool /\ tip' = tip /\ chain' = chain
    BY <1>1
  <2> QED BY Zenon, <2>1 DEF PoolInv
<1>2. CASE work = <<>> /\ ((\E vtx \in Blocks : BeginConnect(vtx)) \/ BeginDisconnect) /\ UNCHANGED poolVars
  BY <1>1, <1>2 DEF BeginConnect, BeginDisconnect, poolVars
<1>3. CASE BlockStep /\ UNCHANGED poolVars
  BY Zenon, <1>1, <1>3 DEF BlockStep, BeginTx, SpendInput, AddOutputs, RejectBlock, RemoveOutputs, RestoreInput, poolVars
<1>4. CASE ConnectTip
  BY Zenon, <1>4, ConnectReady DEF PoolInv
<1>5. CASE DisconnectTip
  BY Zenon, <1>5, DisconnectReady DEF PoolInv
<1>6. ASSUME NEW t \in Txs, SubmitTx(t) \/ ReceiveTx(t) \/ TryOrphan(t) PROVE PoolInv'
  <2>1. CASE SubmitTx(t)
    BY <2>1, PoolInvAccept DEF SubmitTx
  <2>2. CASE ReceiveTx(t)
    BY <2>2, PoolInvAccept DEF ReceiveTx
  <2>3. CASE TryOrphan(t)
    <3>1. UNCHANGED vars /\ UNCHANGED <<tip, chain>>
      BY <2>3 DEF TryOrphan, vars
    <3>2. CASE AcceptOrphan(t)
      BY <3>1, <3>2, PoolInvAccept DEF AcceptOrphan
    <3>3. CASE RefuseOrphan(t) \/ KeepOrphan(t)
      BY SMTT(30), <1>1, <3>1, <3>3 DEF RefuseOrphan, KeepOrphan
    <3> QED BY Zenon, <2>3, <3>2, <3>3 DEF TryOrphan
  <2> QED BY Zenon, <1>6, <2>1, <2>2, <2>3
<1>7. CASE \E t \in Txs, peer \in Peers : ReceiveOrphan(t, peer)
  BY <1>1, <1>7 DEF ReceiveOrphan, vars
<1>8. CASE NextWork \/ FinishTx \/ \E peer \in Peers : EraseOrphansFor(peer)
  BY Zenon, <1>1, <1>8 DEF NextWork, FinishTx, EraseOrphansFor, vars
<1>9. CASE UNCHANGED MempoolVars
  BY <1>1, <1>9 DEF MempoolVars, vars, poolVars
<1> QED BY Zenon, <1>2, <1>3, <1>4, <1>5, <1>6, <1>7, <1>8, <1>9 DEF MempoolNext

\* All entries together can be mined when each of them is ready.
LEMMA PoolInvMinable ==
    ASSUME PoolInv
    PROVE  PoolMinable
<1>1. pool \in Pools /\ Exact(pool) /\ Ready(pool, tip, Len(chain)) /\ pool.mapTx \subseteq Txs
  BY DEF PoolInv, ExactPools, Pools
<1>2. ASSUME NEW left \in SUBSET pool.mapTx, left # {} PROVE \E t \in left : Minable(t, left)
  <2>1. PICK t \in left : \A n \in 1 .. Len(Vin[t]) : Vin[t][n].hash \notin left
    <3>1. left \in SUBSET Txs
      BY <1>1
    <3> QED BY Zenon, <1>2, <3>1, MempoolAssumption
  <2>2. \A out \in Inputs(t) : out.hash \notin left
    BY Zenon, <2>1 DEF Inputs
  <2>3. \A out \in Inputs(t) : InputReady(pool, tip, Len(chain), out)
    BY <1>1 DEF Ready
  <2>4. Minable(t, left)
    BY Zenon, <2>2, <2>3 DEF Minable, InputReady
  <2> QED BY Zenon, <2>4
<1>3. \A t \in pool.mapTx : Reveals[t] \cap tip.nullifiers = {} /\ (IsShielded(t) => Anchor[t] \in tip.anchors)
  BY Zenon, <1>1 DEF Ready, JoinSplitsReady
<1>4. /\ \A t \in pool.mapTx : \A out \in Inputs(t) : out \in DOMAIN pool.mapNextTx /\ pool.mapNextTx[out] = t
      /\ \A t \in pool.mapTx : \A nf \in Reveals[t] : nf \in DOMAIN pool.mapNullifiers /\ pool.mapNullifiers[nf] = t
      /\ DOMAIN pool.mapNextTx = UNION {Inputs(t) : t \in pool.mapTx}
      /\ DOMAIN pool.mapNullifiers = UNION {Reveals[t] : t \in pool.mapTx}
  BY Zenon, <1>1 DEF Exact
<1> QED BY Zenon, <1>2, <1>3, <1>4 DEF PoolMinable

\* Whatever blocks are connected and disconnected, and however often, the coins,
\* nullifiers and anchors are those of the blocks, at every step of ConnectBlock
\* and DisconnectBlock; no corruption is reported and no assertion fails.
THEOREM CoinsExactAlways == MempoolSpec => []CoinsExact
<1>1. MempoolInit => BlockInv
  BY BlockInvInit DEF MempoolInit
<1>2. BlockInv /\ [MempoolNext]_<<vars, poolVars>> => BlockInv'
  BY MempoolNextBlock, BlockInvStep DEF MempoolVars
<1>3. BlockInv => CoinsExact
  BY BlockInvExact
<1> QED BY <1>1, <1>2, <1>3, PTL DEF MempoolSpec

\* What CTxMemPool::check asserts: whatever blocks come and go, all entries of the
\* pool together can be mined on top of the tip.
THEOREM PoolMinableAlways == MempoolSpec => []PoolMinable
<1>1. MempoolInit => BlockInv /\ PoolInv
  BY BlockInvInit, PoolInvInit DEF MempoolInit
<1>2. BlockInv /\ PoolInv /\ [MempoolNext]_<<vars, poolVars>> => (BlockInv /\ PoolInv)'
  BY MempoolNextBlock, BlockInvStep, PoolInvStep DEF MempoolVars
<1>3. PoolInv => PoolMinable
  BY PoolInvMinable
<1> QED BY <1>1, <1>2, <1>3, PTL DEF MempoolSpec

-----------------------------------------------------------------------------
(* The orphan transactions. *)

\* listed is the index by parent of the orphans os.
Indexed(os, listed) ==
    /\ DOMAIN listed = UNION {Parents(t) : t \in DOMAIN os}
    /\ \A h \in DOMAIN listed : listed[h] = {t \in DOMAIN os : h \in Parents(t)}

\* AddOrphanTx lists a new orphan under every parent.
LEMMA AddIndexed ==
    ASSUME NEW os, NEW listed, Indexed(os, listed), NEW t, NEW peer
    PROVE  Indexed(With(os, {t}, peer), AddOrphanTx(listed, t))
<1> DEFINE os2 == With(os, {t}, peer)
           l2 == AddOrphanTx(listed, t)
<1>1. DOMAIN os2 = DOMAIN os \cup {t}
  BY DEF With
<1>2. /\ DOMAIN l2 = DOMAIN listed \cup Parents(t)
      /\ \A h \in DOMAIN l2 : l2[h] = (IF h \in DOMAIN listed THEN listed[h] ELSE {}) \cup {o \in {t} : h \in Parents(o)}
  BY Zenon DEF AddOrphanTx, ListedUnder
<1> HIDE DEF os2, l2
<1>3. DOMAIN l2 = UNION {Parents(o) : o \in DOMAIN os2}
  BY <1>1, <1>2 DEF Indexed
<1>4. ASSUME NEW h \in DOMAIN l2 PROVE l2[h] = {o \in DOMAIN os2 : h \in Parents(o)}
  <2>1. l2[h] = (IF h \in DOMAIN listed THEN listed[h] ELSE {}) \cup {o \in {t} : h \in Parents(o)}
    BY Zenon, <1>2
  <2>2. CASE h \in DOMAIN listed
    <3>1. listed[h] = {o \in DOMAIN os : h \in Parents(o)}
      BY Zenon, <2>2 DEF Indexed
    <3> QED BY <1>1, <2>1, <2>2, <3>1
  <2>3. CASE h \notin DOMAIN listed
    <3>1. \A o \in DOMAIN os : h \notin Parents(o)
      BY <2>3 DEF Indexed
    <3> QED BY SMTT(30), <1>1, <2>1, <2>3, <3>1
  <2> QED BY Zenon, <2>2, <2>3
<1> QED BY Zenon, <1>3, <1>4 DEF Indexed, os2, l2

\* EraseOrphanTx takes orphans out from under every parent, and drops a parent
\* under which none is left.
LEMMA EraseIndexed ==
    ASSUME NEW os, NEW listed, Indexed(os, listed), NEW S
    PROVE  Indexed(Without(os, S), EraseOrphanTx(listed, S))
<1> DEFINE os2 == Without(os, S)
           left == [h \in DOMAIN listed |-> listed[h] \ {t \in S : h \in Parents(t)}]
           none == {h \in DOMAIN listed : left[h] = {}}
           l2 == EraseOrphanTx(listed, S)
<1>1. DOMAIN os2 = DOMAIN os \ S
  BY DEF Without
<1>2. ASSUME NEW h \in DOMAIN listed PROVE left[h] = {t \in DOMAIN os2 : h \in Parents(t)}
  <2>1. left[h] = listed[h] \ {t \in S : h \in Parents(t)}
    BY Zenon
  <2>2. listed[h] = {t \in DOMAIN os : h \in Parents(t)}
    BY Zenon DEF Indexed
  <2> HIDE DEF left, os2
  <2> QED BY <1>1, <2>1, <2>2
<1>3. l2 = Without(left, none)
  BY Zenon DEF EraseOrphanTx
<1>4. DOMAIN left = DOMAIN listed
  BY Zenon
<1> HIDE DEF left, os2, l2
<1>5. DOMAIN l2 = DOMAIN listed \ none /\ \A h \in DOMAIN l2 : l2[h] = left[h]
  BY <1>3, <1>4 DEF Without
<1>6. DOMAIN listed = UNION {Parents(t) : t \in DOMAIN os}
  BY Zenon DEF Indexed
<1>7. ASSUME NEW h PROVE h \in DOMAIN l2 <=> \E t \in DOMAIN os2 : h \in Parents(t)
  <2>1. h \in DOMAIN l2 => \E t \in DOMAIN os2 : h \in Parents(t)
    BY <1>2, <1>5
  <2>2. ASSUME NEW t \in DOMAIN os2, h \in Parents(t) PROVE h \in DOMAIN l2
    <3>1. h \in DOMAIN listed
      BY <1>1, <1>6, <2>2
    <3>2. left[h] # {}
      BY <1>2, <2>2, <3>1
    <3> QED BY <1>5, <3>1, <3>2
  <2> QED BY Zenon, <2>1, <2>2
<1>8. DOMAIN l2 = UNION {Parents(t) : t \in DOMAIN os2}
  BY Zenon, <1>7
<1>9. \A h \in DOMAIN l2 : l2[h] = {t \in DOMAIN os2 : h \in Parents(t)}
  BY <1>2, <1>5
<1> QED BY Zenon, <1>8, <1>9 DEF Indexed, os2, l2

OrphanInv ==
    /\ Indexed(orphans, byPrev)
    /\ IsFiniteSet(DOMAIN orphans) /\ Cardinality(DOMAIN orphans) <= MaxOrphans

\* Erasing orphans keeps the index and the limit.
LEMMA OrphanInvErase ==
    ASSUME OrphanInv, NEW S, EraseOrphans(orphans, byPrev, S)
    PROVE  OrphanInv'
<1>1. orphans' = Without(orphans, S) /\ byPrev' = EraseOrphanTx(byPrev, S)
  BY DEF EraseOrphans
<1>2. Indexed(Without(orphans, S), EraseOrphanTx(byPrev, S))
  BY Zenon, EraseIndexed DEF OrphanInv
<1>3. DOMAIN orphans' \subseteq DOMAIN orphans
  BY <1>1 DEF Without
<1>4. IsFiniteSet(DOMAIN orphans) /\ Cardinality(DOMAIN orphans) <= MaxOrphans
  BY Zenon DEF OrphanInv
<1>5. /\ IsFiniteSet(DOMAIN orphans') /\ Cardinality(DOMAIN orphans') <= Cardinality(DOMAIN orphans)
      /\ Cardinality(DOMAIN orphans') \in Nat /\ Cardinality(DOMAIN orphans) \in Nat
  BY SMTT(30), <1>3, <1>4, FS_Subset, FS_CardinalityType
<1>6. Cardinality(DOMAIN orphans') <= MaxOrphans
  BY <1>4, <1>5, MempoolAssumption
<1> QED BY Zenon, <1>1, <1>2, <1>5, <1>6 DEF OrphanInv

\* An orphan comes, and LimitOrphanTxSize evicts until the limit holds.
LEMMA OrphanInvReceive ==
    ASSUME OrphanInv, NEW t, NEW peer, ReceiveOrphan(t, peer)
    PROVE  OrphanInv'
<1> DEFINE more == With(orphans, {t}, peer)
           l2 == AddOrphanTx(byPrev, t)
<1>1. PICK S \in SUBSET DOMAIN more :
             /\ IF Cardinality(DOMAIN more) > MaxOrphans THEN Cardinality(DOMAIN more \ S) = MaxOrphans ELSE S = {}
             /\ EraseOrphans(more, l2, S)
  BY Zenon DEF ReceiveOrphan
<1>2. orphans' = Without(more, S) /\ byPrev' = EraseOrphanTx(l2, S)
  BY <1>1 DEF EraseOrphans
<1>3. Indexed(more, l2)
  BY Zenon, AddIndexed DEF OrphanInv
<1>4. DOMAIN more = DOMAIN orphans \cup {t}
  BY DEF With
<1> HIDE DEF more, l2
<1>5. Indexed(orphans', byPrev')
  BY Zenon, <1>2, <1>3, EraseIndexed
<1>6. DOMAIN orphans' = DOMAIN more \ S
  BY <1>2 DEF Without
<1>7. IsFiniteSet(DOMAIN more) /\ Cardinality(DOMAIN more) \in Nat
  <2>1. IsFiniteSet(DOMAIN orphans)
    BY Zenon DEF OrphanInv
  <2>2. IsFiniteSet(DOMAIN more)
    BY SMTT(30), <1>4, <2>1, FS_AddElement
  <2> QED BY <2>2, FS_CardinalityType
<1>8. IsFiniteSet(DOMAIN orphans')
  <2>1. DOMAIN orphans' \subseteq DOMAIN more
    BY <1>6
  <2> QED BY SMTT(30), <1>7, <2>1, FS_Subset
<1>9. Cardinality(DOMAIN orphans') <= MaxOrphans
  <2>1. CASE Cardinality(DOMAIN more) > MaxOrphans
    BY SMTT(30), <1>1, <1>6, <2>1, MempoolAssumption
  <2>2. CASE ~(Cardinality(DOMAIN more) > MaxOrphans)
    <3>1. DOMAIN orphans' = DOMAIN more
      BY <1>1, <1>6, <2>2
    <3> QED BY SMTT(30), <1>7, <2>2, <3>1, MempoolAssumption
  <2> QED BY Zenon, <2>1, <2>2
<1> QED BY Zenon, <1>5, <1>8, <1>9 DEF OrphanInv

\* There are no orphans at first.
LEMMA OrphanInvInit ==
    ASSUME MempoolInit
    PROVE  OrphanInv
<1>1. orphans = NoFunction /\ byPrev = NoFunction
  BY DEF MempoolInit
<1>2. DOMAIN NoFunction = {}
  BY DEF NoFunction
<1>3. IsFiniteSet({}) /\ Cardinality({}) = 0
  BY FS_EmptySet
<1>4. Indexed(NoFunction, NoFunction)
  BY <1>2 DEF Indexed
<1>5. 0 <= MaxOrphans
  BY MempoolAssumption
<1> QED BY SMTT(30), <1>1, <1>2, <1>3, <1>4, <1>5 DEF OrphanInv

\* Every step keeps mapOrphanTransactionsByPrev the index of the orphans.
LEMMA OrphanInvStep ==
    ASSUME OrphanInv, [MempoolNext]_MempoolVars
    PROVE  OrphanInv'
<1>1. ASSUME UNCHANGED <<orphans, byPrev>> PROVE OrphanInv'
  <2>1. orphans' = orphans /\ byPrev' = byPrev
    BY <1>1
  <2> QED BY Zenon, <2>1 DEF OrphanInv
<1>2. CASE UNCHANGED orphanVars
  BY <1>1, <1>2 DEF orphanVars
<1>3. CASE UNCHANGED poolVars
  BY <1>1, <1>3 DEF poolVars, orphanVars
<1>4. CASE \E t \in Txs : SubmitTx(t) \/ ReceiveTx(t) \/ TryOrphan(t)
  BY <1>1, <1>4 DEF SubmitTx, ReceiveTx, TryOrphan, orphanVars
<1>5. CASE \E t \in Txs, peer \in Peers : ReceiveOrphan(t, peer)
  BY Zenon, <1>5, OrphanInvReceive
<1>6. CASE NextWork
  BY <1>1, <1>6 DEF NextWork
<1>7. CASE FinishTx
  BY Zenon, <1>7, OrphanInvErase DEF FinishTx
<1>8. CASE \E peer \in Peers : EraseOrphansFor(peer)
  BY Zenon, <1>8, OrphanInvErase DEF EraseOrphansFor
<1>9. CASE UNCHANGED MempoolVars
  BY <1>3, <1>9 DEF MempoolVars
<1> QED BY Zenon, <1>2, <1>3, <1>4, <1>5, <1>6, <1>7, <1>8, <1>9 DEF MempoolNext

\* mapOrphanTransactionsByPrev is the index of mapOrphanTransactions, which never
\* has more than -maxorphantx entries.
THEOREM OrphansIndexedAlways == MempoolSpec => []OrphansIndexed
<1>1. MempoolInit => OrphanInv
  BY OrphanInvInit
<1>2. OrphanInv /\ [MempoolNext]_<<vars, poolVars>> => OrphanInv'
  BY OrphanInvStep DEF MempoolVars
<1>3. OrphanInv => OrphansIndexed
  BY Zenon DEF OrphanInv, Indexed, OrphansIndexed
<1> QED BY <1>1, <1>2, <1>3, PTL DEF MempoolSpec

-----------------------------------------------------------------------------
(* The orphans that a "tx" message resolves. *)

InWork(w, t) == \E m \in 1 .. Len(w) : w[m] = t

\* A parent of t is neither in the pool nor in the coins.
Misses(p, t) == \E h \in Parents(t) : ~ ViewHaveCoins(p, tip.coins, h)

\* The orphan t needs not be tried for the entries of work up to k: it was erased or
\* is to be tried, is left alone, or will be tried for a later entry.
Settled(t) ==
    \/ t \in erase \/ t \in pending \/ orphans[t] \in setMisbehaving \/ Misses(pool, t)
    \/ \E m \in k + 1 .. Len(work) : work[m] \in Parents(t)

\* While the handler runs no block is at work; an entry of the pool that spends
\* from what the handler has accepted was itself accepted by it.
HandlerInv ==
    /\ work \in Seq(Txs) /\ k \in 0 .. Len(work)
    /\ work = <<>> => pending = {} /\ erase = {}
    /\ work # <<>> => pc = "idle"
    /\ \A e \in pool.mapTx : (\E h \in Parents(e) : InWork(work, h)) => InWork(work, e)
    /\ \A e \in erase \cap pool.mapTx : InWork(work, e)
    /\ \A t \in pending : t \in DOMAIN orphans /\ k # 0 /\ work[k] \in Parents(t)
    /\ \A t \in DOMAIN orphans : \A m \in 1 .. k : work[m] \in Parents(t) => Settled(t)

\* No entry spends from what is just accepted: what it spends from is known.
LEMMA NoChildYet ==
    ASSUME PoolInv, NEW t \in Txs, Acceptable(pool, tip, Len(chain), t), NEW e \in pool.mapTx
    PROVE  t \notin Parents(e) /\ t \notin pool.mapTx
<1>1. t \notin pool.mapTx /\ tip.coins[t] = Pruned
  BY DEF Acceptable, ViewHaveCoins
<1>2. SUFFICES ASSUME t \in Parents(e) PROVE FALSE
  BY Zenon, <1>1
<1>3. PICK out \in Inputs(e) : out.hash = t
  BY Zenon, <1>2 DEF Parents
<1>4. e \in Txs /\ InputReady(pool, tip, Len(chain), out)
  BY DEF PoolInv, ExactPools, Pools, Ready
<1>5. out \in OutPoint
  BY <1>4, TxParts
<1>6. IsAvailable(tip.coins, out)
  BY Zenon, <1>1, <1>3, <1>4 DEF InputReady
<1> QED BY Zenon, <1>1, <1>3, <1>5, <1>6, AvailableNotPruned

\* No "tx" message is being handled at first.
LEMMA HandlerInvInit ==
    ASSUME MempoolInit
    PROVE  HandlerInv
<1>1. /\ work = <<>> /\ k = 0 /\ pending = {} /\ erase = {} /\ pool.mapTx = {} /\ DOMAIN orphans = {}
  BY DEF MempoolInit, NoFunction
<1>2. work \in Seq(Txs) /\ Len(work) = 0 /\ k \in 0 .. Len(work)
  BY <1>1
<1> QED BY Zenon, <1>1, <1>2 DEF HandlerInv

\* Without a handler at work, whatever leaves work and k alone keeps its invariant.
LEMMA HandlerInvQuiet ==
    ASSUME HandlerInv, work = <<>>, UNCHANGED <<work, k, pending, erase>>
    PROVE  HandlerInv'
<1>1. work' = <<>> /\ pending' = {} /\ erase' = {} /\ k' = k /\ Len(work') = 0 /\ work' = work /\ k = 0
  BY DEF HandlerInv
<1>2. \A t : ~ InWork(<<>>, t)
  BY DEF InWork
<1>3. \A m : m \notin 1 .. 0
  OBVIOUS
<1>4. work' \in Seq(Txs) /\ k' \in 0 .. Len(work')
  BY <1>1
<1> QED BY Zenon, <1>1, <1>2, <1>3, <1>4 DEF HandlerInv

\* A transaction is accepted from a peer.
LEMMA HandlerInvReceiveTx ==
    ASSUME HandlerInv, PoolInv, NEW t \in Txs, ReceiveTx(t)
    PROVE  HandlerInv'
<1>1. /\ pc = "idle" /\ pc' = pc /\ work = <<>> /\ work' = <<t>> /\ k' = k /\ pending' = pending /\ erase' = erase
      /\ Acceptable(pool, tip, Len(chain), t) /\ pool' = Accepted(pool, t)
  BY SMTT(30) DEF ReceiveTx, Quiet, vars
<1>2. pending = {} /\ erase = {} /\ k = 0
  BY <1>1 DEF HandlerInv
<1>3. <<t>> \in Seq(Txs) /\ <<t>> # <<>> /\ Len(<<t>>) = 1 /\ 0 \in 0 .. Len(<<t>>) /\ <<t>>[1] = t
  OBVIOUS
<1>4. \A x : InWork(<<t>>, x) <=> x = t
  BY SMTT(30), <1>3 DEF InWork
<1>5. pool'.mapTx \subseteq pool.mapTx \cup {t}
  BY <1>1, AcceptedExact DEF PoolInv, ExactPools
<1>6. \A e \in pool'.mapTx : (\E h \in Parents(e) : InWork(<<t>>, h)) => InWork(<<t>>, e)
  <2>1. \A e \in pool.mapTx : t \notin Parents(e)
    BY Zenon, <1>1, NoChildYet
  <2> QED BY <1>4, <1>5, <2>1
<1>7. \A m : m \notin 1 .. 0
  OBVIOUS
<1> HIDE DEF InWork
<1> QED BY Zenon, <1>1, <1>2, <1>3, <1>6, <1>7 DEF HandlerInv

\* The orphans of the next entry of vWorkQueue are looked up.
LEMMA HandlerInvNextWork ==
    ASSUME HandlerInv, OrphanInv, NextWork
    PROVE  HandlerInv'
<1> DEFINE h == work[k + 1]
<1>1. /\ k < Len(work) /\ pending = {} /\ k' = k + 1
      /\ pending' = IF h \in DOMAIN byPrev THEN byPrev[h] ELSE {}
      /\ pc' = pc /\ pool' = pool /\ orphans' = orphans /\ work' = work /\ erase' = erase /\ setMisbehaving' = setMisbehaving
      /\ tip' = tip
  BY Zenon DEF NextWork, vars
<1>2. /\ work \in Seq(Txs) /\ k \in 0 .. Len(work)
      /\ work # <<>> => pc = "idle"
      /\ \A e \in pool.mapTx : (\E g \in Parents(e) : InWork(work, g)) => InWork(work, e)
      /\ \A e \in erase \cap pool.mapTx : InWork(work, e)
      /\ \A t \in DOMAIN orphans : \A m \in 1 .. k : work[m] \in Parents(t) => Settled(t)
  BY Zenon DEF HandlerInv
<1>3. k + 1 \in 0 .. Len(work) /\ work # <<>> /\ k + 1 # 0 /\ k + 1 \in k + 1 .. Len(work)
  BY <1>1, <1>2
<1>4. pending' = {t \in DOMAIN orphans : h \in Parents(t)}
  <2>1. CASE h \in DOMAIN byPrev
    BY <1>1, <2>1 DEF OrphanInv, Indexed
  <2>2. CASE h \notin DOMAIN byPrev
    <3>1. \A t \in DOMAIN orphans : h \notin Parents(t)
      BY <2>2 DEF OrphanInv, Indexed
    <3> QED BY SMTT(30), <1>1, <2>2, <3>1
  <2> QED BY Zenon, <2>1, <2>2
<1>5. ASSUME NEW t \in DOMAIN orphans, NEW m \in 1 .. k + 1, work[m] \in Parents(t) PROVE Settled(t)'
  <2>1. CASE h \in Parents(t)
    <3>1. t \in pending'
      BY <1>4, <2>1
    <3> QED BY Zenon, <3>1 DEF Settled
  <2>2. CASE h \notin Parents(t)
    <3>1. m \in 1 .. k
      BY <1>2, <1>5, <2>2
    <3>2. Settled(t)
      BY Zenon, <1>2, <1>5, <3>1
    <3>3. Misses(pool, t)' <=> Misses(pool, t)
      BY Zenon, <1>1 DEF Misses
    <3>4. (\E l \in k + 1 .. Len(work) : work[l] \in Parents(t)) => \E l \in k' + 1 .. Len(work') : work'[l] \in Parents(t)
      <4>1. \A l \in k + 1 .. Len(work) : l = k + 1 \/ l \in k' + 1 .. Len(work')
        BY SMTT(30), <1>1, <1>2
      <4> QED BY Zenon, <1>1, <2>2, <4>1
    <3>5. t \notin pending
      BY <1>1
    <3> QED BY Zenon, <1>1, <3>2, <3>3, <3>4, <3>5 DEF Settled
  <2> QED BY Zenon, <2>1, <2>2
<1>6. \A t \in pending' : t \in DOMAIN orphans /\ work[k + 1] \in Parents(t)
  BY <1>4
<1> QED BY Zenon, <1>1, <1>2, <1>3, <1>5, <1>6 DEF HandlerInv

\* An orphan is tried.  When it is accepted, those that miss it are tried later.
LEMMA HandlerInvTryOrphan ==
    ASSUME HandlerInv, PoolInv, NEW t \in Txs, TryOrphan(t)
    PROVE  HandlerInv'
<1>1. /\ t \in pending /\ pending' = pending \ {t} /\ pc' = pc /\ tip' = tip /\ orphans' = orphans /\ k' = k
      /\ AcceptOrphan(t) \/ RefuseOrphan(t) \/ KeepOrphan(t)
  BY DEF TryOrphan, vars
<1>2. /\ work \in Seq(Txs) /\ k \in 0 .. Len(work)
      /\ work = <<>> => pending = {} /\ erase = {}
      /\ work # <<>> => pc = "idle"
      /\ \A e \in pool.mapTx : (\E g \in Parents(e) : InWork(work, g)) => InWork(work, e)
      /\ \A e \in erase \cap pool.mapTx : InWork(work, e)
      /\ \A o \in pending : o \in DOMAIN orphans /\ k # 0 /\ work[k] \in Parents(o)
      /\ \A o \in DOMAIN orphans : \A m \in 1 .. k : work[m] \in Parents(o) => Settled(o)
  BY Zenon DEF HandlerInv
<1>3. work # <<>> /\ pc = "idle" /\ pending' \subseteq pending
  BY <1>1, <1>2
<1>4. CASE AcceptOrphan(t)
  <2> DEFINE w == Append(work, t)
  <2>1. /\ Acceptable(pool, tip, Len(chain), t) /\ pool' = Accepted(pool, t)
        /\ work' = w /\ erase' = erase \cup {t} /\ setMisbehaving' = setMisbehaving
    BY SMTT(30), <1>4 DEF AcceptOrphan, QueuedOrphan
  <2>2. /\ w \in Seq(Txs) /\ Len(w) = Len(work) + 1 /\ w # <<>> /\ Len(w) \in 1 .. Len(w) /\ w[Len(w)] = t
        /\ \A m \in 1 .. Len(work) : m \in 1 .. Len(w) /\ w[m] = work[m]
        /\ \A m \in 1 .. Len(w) : m \in 1 .. Len(work) \/ m = Len(w)
    BY <1>2
  <2> HIDE DEF w
  <2>3. \A x : InWork(w, x) <=> InWork(work, x) \/ x = t
    BY <2>2 DEF InWork
  <2>4. pool'.mapTx \subseteq pool.mapTx \cup {t}
    BY Zenon, <2>1, AcceptedExact DEF PoolInv, ExactPools
  <2>5. \A e \in pool.mapTx : t \notin Parents(e)
    BY Zenon, <2>1, NoChildYet
  <2>6. \A e \in pool'.mapTx : (\E g \in Parents(e) : InWork(w, g)) => InWork(w, e)
    BY Zenon, <1>2, <2>3, <2>4, <2>5
  <2>7. \A e \in erase' \cap pool'.mapTx : InWork(w, e)
    BY SMTT(30), <1>2, <2>1, <2>3, <2>4
  <2>8. k \in 0 .. Len(w) /\ \A m \in 1 .. k : m \in 1 .. Len(work)
    <3>1. k \in 0 .. Len(work) /\ Len(work) \in Nat /\ Len(w) = Len(work) + 1
      BY <1>2, <2>2
    <3> QED BY <3>1
  <2>9. \A o \in pending' : o \in DOMAIN orphans /\ k # 0 /\ w[k] \in Parents(o)
    <3>1. k # 0 => k \in 1 .. Len(work)
      BY <1>2
    <3> QED BY Zenon, <1>2, <1>3, <2>2, <3>1
  <2>10. ASSUME NEW o \in DOMAIN orphans, NEW m \in 1 .. k, w[m] \in Parents(o) PROVE Settled(o)'
    <3>1. Settled(o)
      BY SMTT(30), <1>2, <2>2, <2>8, <2>10
    <3>2. CASE o \in erase \/ orphans[o] \in setMisbehaving
      BY SMTT(30), <1>1, <2>1, <3>2 DEF Settled
    <3>3. CASE o \in pending
      BY <1>1, <2>1, <3>3 DEF Settled
    <3>4. CASE Misses(pool, o)
      <4>1. PICK h \in Parents(o) : h \notin pool.mapTx /\ ~(tip.coins[h] # Pruned)
        BY Zenon, <3>4 DEF Misses, ViewHaveCoins
      <4>2. CASE h = t
        <5>1. Len(w) \in k + 1 .. Len(w) /\ w[Len(w)] \in Parents(o)
          BY SMTT(30), <1>2, <2>2, <4>1, <4>2
        <5> QED BY Zenon, <1>1, <2>1, <5>1 DEF Settled
      <4>3. CASE h # t
        <5>1. h \notin pool'.mapTx
          BY <2>4, <4>1, <4>3
        <5>2. Misses(pool, o)'
          BY Zenon, <1>1, <4>1, <5>1 DEF Misses, ViewHaveCoins
        <5> QED BY Zenon, <5>2 DEF Settled
      <4> QED BY Zenon, <4>2, <4>3
    <3>5. CASE \E l \in k + 1 .. Len(work) : work[l] \in Parents(o)
      <4>1. PICK l \in k + 1 .. Len(work) : work[l] \in Parents(o)
        BY SMTT(30), <3>5
      <4>2. l \in k + 1 .. Len(w) /\ w[l] \in Parents(o)
        BY <1>2, <2>2, <4>1
      <4> QED BY Zenon, <1>1, <2>1, <4>2 DEF Settled
    <3> QED BY Zenon, <3>1, <3>2, <3>3, <3>4, <3>5 DEF Settled
  <2> QED BY Zenon, <1>1, <1>3, <2>1, <2>2, <2>6, <2>7, <2>8, <2>9, <2>10 DEF HandlerInv
<1>5. CASE RefuseOrphan(t) \/ KeepOrphan(t)
  <2>1. /\ pool' = pool /\ work' = work /\ erase \subseteq erase' /\ erase' \subseteq erase \cup {t}
        /\ setMisbehaving \subseteq setMisbehaving'
    BY SMTT(30), <1>5 DEF RefuseOrphan, KeepOrphan
  <2>2. t \in erase' \/ orphans[t] \in setMisbehaving \/ Misses(pool, t)
    <3>1. CASE RefuseOrphan(t)
      BY <3>1 DEF RefuseOrphan
    <3>2. CASE KeepOrphan(t)
      <4>1. MissingInputs(pool, tip, t) => Misses(pool, t)
        BY Zenon DEF MissingInputs, Misses
      <4> QED BY Zenon, <3>2, <4>1 DEF KeepOrphan
    <3> QED BY Zenon, <1>5, <3>1, <3>2
  <2>3. \A e \in erase' \cap pool.mapTx : InWork(work, e)
    <3>1. t \in pool.mapTx => InWork(work, t)
      <4>1. work[k] \in Parents(t) /\ k \in 1 .. Len(work)
        BY <1>1, <1>2
      <4>2. InWork(work, work[k])
        BY Zenon, <4>1 DEF InWork
      <4> QED BY Zenon, <1>2, <4>1, <4>2
    <3> QED BY <1>2, <2>1, <3>1
  <2>4. ASSUME NEW o \in DOMAIN orphans, NEW m \in 1 .. k, work[m] \in Parents(o) PROVE Settled(o)'
    <3>1. Settled(o)
      BY <1>2, <2>4
    <3>2. Misses(pool, o)' <=> Misses(pool, o)
      BY Zenon, <1>1, <2>1 DEF Misses
    <3>3. CASE o = t
      BY SMTT(30), <1>1, <2>1, <2>2, <3>2, <3>3 DEF Settled
    <3>4. CASE o # t
      BY SMTT(30), <1>1, <2>1, <3>1, <3>2, <3>4 DEF Settled
    <3> QED BY Zenon, <3>3, <3>4
  <2>5. \A o \in pending' : o \in DOMAIN orphans /\ k # 0 /\ work[k] \in Parents(o)
    BY <1>2, <1>3
  <2> QED BY Zenon, <1>1, <1>2, <1>3, <2>1, <2>3, <2>4, <2>5 DEF HandlerInv
<1> QED BY Zenon, <1>1, <1>4, <1>5

\* Every step of the handlers keeps HandlerInv.
LEMMA HandlerInvStep ==
    ASSUME BlockInv, PoolInv, OrphanInv, HandlerInv, [MempoolNext]_MempoolVars
    PROVE  HandlerInv'
<1>1. work # <<>> => pc = "idle"
  BY Zenon DEF HandlerInv
<1>2. CASE work = <<>> /\ UNCHANGED orphanVars
  BY <1>2, HandlerInvQuiet DEF orphanVars
<1>3. CASE work = <<>> /\ ((\E vtx \in Blocks : BeginConnect(vtx)) \/ BeginDisconnect) /\ UNCHANGED poolVars
  BY <1>2, <1>3 DEF poolVars
<1>4. CASE BlockStep /\ UNCHANGED poolVars
  <2>1. work = <<>>
    BY <1>1, <1>4 DEF BlockStep, BeginTx, SpendInput, AddOutputs, RejectBlock, RemoveOutputs, RestoreInput
  <2> QED BY SMTT(30), <1>2, <1>4, <2>1 DEF poolVars
<1>5. CASE (ConnectTip \/ DisconnectTip) /\ UNCHANGED orphanVars
  <2>1. work = <<>>
    BY <1>1, <1>5 DEF ConnectTip, DisconnectTip, FinishConnect, FinishDisconnect
  <2> QED BY SMTT(30), <1>2, <1>5, <2>1
<1>6. ASSUME NEW t \in Txs, SubmitTx(t) PROVE HandlerInv'
  BY <1>2, <1>6 DEF SubmitTx, Quiet
<1>7. ASSUME NEW t \in Txs, ReceiveTx(t) PROVE HandlerInv'
  BY Zenon, <1>7, HandlerInvReceiveTx
<1>8. ASSUME NEW t \in Txs, TryOrphan(t) PROVE HandlerInv'
  BY Zenon, <1>8, HandlerInvTryOrphan
<1>9. CASE \E t \in Txs, peer \in Peers : ReceiveOrphan(t, peer)
  <2>1. work = <<>> /\ UNCHANGED <<work, k, pending, erase>>
    BY <1>9 DEF ReceiveOrphan, Quiet
  <2> QED BY Zenon, <2>1, HandlerInvQuiet
<1>10. CASE NextWork
  BY Zenon, <1>10, HandlerInvNextWork
<1>11. CASE FinishTx
  <2>1. work' = <<>> /\ k' = 0 /\ pending' = {} /\ erase' = {}
    BY <1>11 DEF FinishTx
  <2>2. work' \in Seq(Txs) /\ Len(work') = 0 /\ k' \in 0 .. Len(work')
    BY <2>1
  <2>3. \A t : ~ InWork(<<>>, t)
    BY DEF InWork
  <2>4. \A m : m \notin 1 .. 0
    BY SMTT(30)
  <2> QED BY Zenon, <2>1, <2>2, <2>3, <2>4 DEF HandlerInv
<1>12. CASE \E peer \in Peers : EraseOrphansFor(peer)
  <2>1. work = <<>> /\ UNCHANGED <<work, k, pending, erase>>
    BY <1>12 DEF EraseOrphansFor, Quiet
  <2> QED BY Zenon, <2>1, HandlerInvQuiet
<1>13. CASE UNCHANGED MempoolVars
  <2>1. /\ work' = work /\ k' = k /\ pending' = pending /\ erase' = erase /\ pc' = pc /\ pool' = pool /\ orphans' = orphans
        /\ tip' = tip /\ setMisbehaving' = setMisbehaving
    BY <1>13 DEF MempoolVars, vars, poolVars, orphanVars
  <2>2. \A t : Settled(t)' <=> Settled(t)
    BY Zenon, <2>1 DEF Settled, Misses
  <2> QED BY Zenon, <2>1, <2>2 DEF HandlerInv
<1> QED BY Zenon, <1>3, <1>4, <1>5, <1>6, <1>7, <1>8, <1>9, <1>10, <1>11, <1>12, <1>13 DEF MempoolNext

\* When the handler ends, what it left of the orphans that spend from what it has
\* accepted misses a parent or came from a peer that misbehaved.
LEMMA FinishTxResolves ==
    ASSUME HandlerInv, FinishTx
    PROVE  \A t \in DOMAIN orphans' :
              Parents(t) \cap pool.mapTx \cap (erase \cup {work[1]}) # {}
                  => orphans[t] \in setMisbehaving \/ \E h \in Parents(t) : ~ ViewHaveCoins(pool, tip.coins, h)
<1>1. work # <<>> /\ k = Len(work) /\ pending = {} /\ orphans' = Without(orphans, erase)
  BY DEF FinishTx, EraseOrphans
<1>2. SUFFICES ASSUME NEW t \in DOMAIN orphans', Parents(t) \cap pool.mapTx \cap (erase \cup {work[1]}) # {}
               PROVE  orphans[t] \in setMisbehaving \/ Misses(pool, t)
  BY Zenon DEF Misses
<1>3. t \in DOMAIN orphans /\ t \notin erase
  BY <1>1 DEF Without
<1>4. PICK h \in Parents(t) : h \in pool.mapTx /\ (h \in erase \/ h = work[1])
  BY <1>2
<1>5. InWork(work, h)
  <2>1. 1 \in 1 .. Len(work)
    BY <1>1 DEF HandlerInv
  <2> QED BY SMTT(30), <1>4, <2>1 DEF HandlerInv, InWork
<1>6. PICK m \in 1 .. Len(work) : work[m] = h
  BY Zenon, <1>5 DEF InWork
<1>7. Settled(t)
  BY Zenon, <1>1, <1>3, <1>6 DEF HandlerInv
<1>8. \A l : l \notin k + 1 .. Len(work)
  BY <1>1 DEF HandlerInv
<1>9. t \notin pending
  BY Zenon, <1>1
<1> QED BY Zenon, <1>3, <1>7, <1>8, <1>9 DEF Settled

\* The orphans that a "tx" message makes acceptable are all tried before its
\* handler ends, directly or through other orphans.
THEOREM OrphansResolvedAlways == MempoolSpec => OrphansResolved
<1> DEFINE I == BlockInv /\ PoolInv /\ OrphanInv /\ HandlerInv
<1>1. MempoolInit => I
  BY Zenon, BlockInvInit, PoolInvInit, OrphanInvInit, HandlerInvInit DEF MempoolInit
<1>2. I /\ [MempoolNext]_<<vars, poolVars>> => I'
  BY SMTT(30), MempoolNextBlock, BlockInvStep, PoolInvStep, OrphanInvStep, HandlerInvStep DEF MempoolVars
<1>3. I /\ [MempoolNext]_<<vars, poolVars>> =>
         [FinishTx =>
             \A t \in DOMAIN orphans' :
                 Parents(t) \cap pool.mapTx \cap (erase \cup {work[1]}) # {}
                     => orphans[t] \in setMisbehaving \/ \E h \in Parents(t) : ~ ViewHaveCoins(pool, tip.coins, h)
         ]_<<vars, poolVars>>
  BY FinishTxResolves
<1> HIDE DEF I
<1> QED BY <1>1, <1>2, <1>3, PTL DEF MempoolSpec, OrphansResolved

=============================================================================
