------------------------------ MODULE Mempool ------------------------------
(***************************************************************************)
(* The memory pool (src/src/txmempool.cpp) and the orphan transactions     *)
(* (src/src/main.cpp) composed with the connecting and disconnecting of    *)
(* blocks (module BlockUndo).  A connected block takes its transactions    *)
(* and whatever conflicts with them out of the pool, a disconnected one    *)
(* offers its transactions again and evicts what has lost an input, an     *)
(* anchor or the maturity of a coinbase.                                   *)
(*                                                                         *)
(* All of this runs under cs_main.  ConnectTip, DisconnectTip and the "tx" *)
(* handler are in the pool's code exactly when a block is not at work.     *)
(* Fees, priorities, scripts and the size of orphans are left out: where   *)
(* they decide, both outcomes are possible.  recentRejects, which only     *)
(* makes the "tx" handler ignore a transaction, is left out as well: any   *)
(* transaction may fail to arrive.                                         *)
(***************************************************************************)
EXTENDS BlockUndo

CONSTANTS
    Peers,
    MaxOrphans      \* -maxorphantx

\* A transaction is known by its hash, which covers the hashes of those it spends
\* from: there is always one that spends from none of the others.
ASSUME MempoolAssumption ==
    /\ MaxOrphans \in Nat
    /\ \A S \in SUBSET Txs : S # {} => \E t \in S : \A n \in 1 .. Len(Vin[t]) : Vin[t][n].hash \notin S

VARIABLES
    pool,       \* mapTx, mapNextTx and mapNullifiers
    orphans,    \* mapOrphanTransactions: the peer that sent each of them
    byPrev,     \* mapOrphanTransactionsByPrev
    work,       \* vWorkQueue of a "tx" handler; empty when none is running
    k,          \* the entries of work whose orphans have been tried
    pending,    \* the orphans of entry k that are still to be tried
    erase,      \* vEraseQueue
    setMisbehaving

orphanVars == <<orphans, byPrev, work, k, pending, erase, setMisbehaving>>

poolVars == <<pool, orphanVars>>

Inputs(t) == {Vin[t][n] : n \in 1 .. Len(Vin[t])}

Parents(t) == {out.hash : out \in Inputs(t)}

Shields == {t \in Txs : IsShielded(t)}

NoFunction == [x \in {} |-> {}]

With(f, S, v) == [x \in DOMAIN f \cup S |-> IF x \in S THEN v ELSE f[x]]

Without(f, S) == [x \in DOMAIN f \ S |-> f[x]]

MempoolInit ==
    /\ Init
    /\ pool = [mapTx |-> {}, mapNextTx |-> NoFunction, mapNullifiers |-> NoFunction]
    /\ orphans = NoFunction /\ byPrev = NoFunction
    /\ work = <<>> /\ k = 0 /\ pending = {} /\ erase = {} /\ setMisbehaving = {}

-----------------------------------------------------------------------------
(* CTxMemPool *)

addUnchecked(p, t) ==
    [mapTx         |-> p.mapTx \cup {t},
     mapNextTx     |-> With(p.mapNextTx, Inputs(t), t),
     mapNullifiers |-> With(p.mapNullifiers, Reveals[t], t)]

\* The entries that spend outputs of S
Spenders(p, S) == {p.mapNextTx[out] : out \in {o \in DOMAIN p.mapNextTx : o.hash \in S}}

\* S with the entries that spend from it, directly or through others
WithDescendants(p, S) ==
    S \cup {t \in p.mapTx :
               \A D \in SUBSET p.mapTx : Spenders(p, S \cup D) \cap p.mapTx \subseteq D => t \in D}

Erased(p, S) ==
    [mapTx         |-> p.mapTx \ S,
     mapNextTx     |-> Without(p.mapNextTx, UNION {Inputs(t) : t \in S \cap p.mapTx}),
     mapNullifiers |-> Without(p.mapNullifiers, UNION {Reveals[t] : t \in S \cap p.mapTx})]

\* remove of every transaction of S, recursive, be it in the pool or not
removeAll(p, S) == Erased(p, WithDescendants(p, S))

removeConflicts(p, t) ==
    removeAll(p, ({p.mapNextTx[out] : out \in Inputs(t) \cap DOMAIN p.mapNextTx}
                    \cup {p.mapNullifiers[nf] : nf \in Reveals[t] \cap DOMAIN p.mapNullifiers}) \ {t})

removeForBlock(p, vtx) ==
    LET q[n \in 0 .. Len(vtx)] ==
            IF n = 0 THEN p ELSE removeConflicts(Erased(q[n - 1], {vtx[n]}), vtx[n])
    IN q[Len(vtx)]

\* The entries with an input outside the pool that is not in coins, or that is a
\* coinbase and immature at the height
CoinbaseSpends(p, coins, nMemPoolHeight) ==
    {t \in p.mapTx :
        \E h \in Parents(t) \ p.mapTx :
            \/ coins[h] = Pruned
            \/ coins[h].fCoinBase /\ nMemPoolHeight - coins[h].nHeight < Maturity}

removeNoCoinbaseSpends(p, coins, nMemPoolHeight) == p    \* mutant

removeCoinbaseSpends(p, coins, nMemPoolHeight) == removeAll(p, CoinbaseSpends(p, coins, nMemPoolHeight))

removeWithAnchor(p, root) == removeAll(p, {t \in p.mapTx \cap Shields : Anchor[t] = root})

-----------------------------------------------------------------------------
(* AcceptToMemoryPool *)

\* CCoinsViewMemPool above pcoinsTip, which stands at the given height.  Coins of
\* an entry are complete: mapNextTx tells which of its outputs are spent.
ViewHaveCoins(p, coins, t) == t \in p.mapTx \/ coins[t] # Pruned

ViewAvailable(p, coins, out) ==
    IF out.hash \in p.mapTx THEN FromTx(out.hash, 0).vout[out.n] # NULL ELSE IsAvailable(coins, out)

ConflictsOf(p, t) == {p.mapNextTx[out] : out \in Inputs(t) \cap DOMAIN p.mapNextTx}

\* pool.CheckTxOverride: true only if t replaces the one entry it conflicts with,
\* and does not spend from what goes with that entry.
MayOverride(p, t) ==
    \E e \in p.mapTx :
        /\ ConflictsOf(p, t) = {e}
        /\ Parents(t) \cap WithDescendants(p, {e}) = {}

\* Is t refused because of an unknown parent (*pfMissingInputs)?
MissingInputs(p, v, t) ==
    /\ t \notin CoinBases /\ ~ ViewHaveCoins(p, v.coins, t)
    /\ ConflictsOf(p, t) = {} \/ MayOverride(p, t)
    /\ Reveals[t] \cap DOMAIN p.mapNullifiers = {}
    /\ \E h \in Parents(t) : ~ ViewHaveCoins(p, v.coins, h)

Acceptable(p, v, height, t) ==
    /\ t \notin CoinBases /\ ~ ViewHaveCoins(p, v.coins, t)
    /\ ConflictsOf(p, t) = {} \/ MayOverride(p, t)
    /\ \A out \in Inputs(t) : ViewAvailable(p, v.coins, out)
    /\ Reveals[t] \cap (v.nullifiers \cup DOMAIN p.mapNullifiers) = {}
    /\ IsShielded(t) => Anchor[t] \in v.anchors
    /\ \A h \in Parents(t) \ p.mapTx : v.coins[h].fCoinBase => height + 1 - v.coins[h].nHeight >= Maturity

\* The pool once t is accepted; an overridden entry leaves it.
Accepted(p, t) == addUnchecked(removeAll(p, ConflictsOf(p, t)), t)

-----------------------------------------------------------------------------
(* ConnectTip and DisconnectTip *)

ConnectTip == FinishConnect /\ pool' = removeForBlock(pool, block)

\* The pool once t has been offered to it; if it is not accepted, what spends
\* from it goes as well.
Offered(p, v, height, t, refused) ==
    IF t \notin refused /\ Acceptable(p, v, height, t) THEN Accepted(p, t) ELSE removeAll(p, {t})

\* Every transaction of the block is offered again.  Some may be refused for
\* their fee or as not standard whatever the state.
Resurrected(v, height, refused) ==
    LET q[n \in 0 .. Len(block)] ==
            IF n = 0 THEN pool ELSE Offered(q[n - 1], v, height, block[n], refused)
    IN q[Len(block)]

DisconnectTip ==
    /\ FinishDisconnect
    /\ IF fClean
       THEN \E p \in {Resurrected(tip', Len(chain'), refused) : refused \in SUBSET Range(block)} :
               LET q == IF tip.best # tip'.best THEN removeWithAnchor(p, tip.best) ELSE p
               IN pool' = removeCoinbaseSpends(q, tip'.coins, Len(chain))
       ELSE UNCHANGED pool

-----------------------------------------------------------------------------
(* Transactions come from the wallet, an RPC call or a peer *)

Quiet == pc = "idle" /\ work = <<>>

\* sendrawtransaction, CommitTransaction
SubmitTx(t) ==
    /\ Quiet /\ Acceptable(pool, tip, Len(chain), t)
    /\ pool' = Accepted(pool, t)
    /\ UNCHANGED <<vars, orphanVars>>

\* mutant: an orphan is listed under its first parent only
ParentsListed(t) == {Vin[t][1].hash}

ListedUnder(t) == Parents(t)

AddOrphanTx(listed, t) ==
    [h \in DOMAIN listed \cup ListedUnder(t) |->
        (IF h \in DOMAIN listed THEN listed[h] ELSE {}) \cup {o \in {t} : h \in ListedUnder(o)}]

EraseOrphanTx(listed, S) ==
    LET left == [h \in DOMAIN listed |-> listed[h] \ {t \in S : h \in Parents(t)}]
    IN Without(left, {h \in DOMAIN listed : left[h] = {}})

EraseOrphans(os, listed, S) ==
    /\ orphans' = Without(os, S)
    /\ byPrev' = EraseOrphanTx(listed, S)

AlreadyHave(t) == t \in pool.mapTx \/ t \in DOMAIN orphans \/ tip.coins[t] # Pruned

\* The "tx" message: accepted, so that orphans are tried next
ReceiveTx(t) ==
    /\ Quiet /\ ~ AlreadyHave(t) /\ Acceptable(pool, tip, Len(chain), t)
    /\ pool' = Accepted(pool, t)
    /\ work' = <<t>>
    /\ UNCHANGED <<vars, orphans, byPrev, k, pending, erase, setMisbehaving>>

\* The "tx" message: an input is missing.  LimitOrphanTxSize evicts at random.
ReceiveOrphan(t, peer) ==
    /\ Quiet /\ ~ AlreadyHave(t) /\ MissingInputs(pool, tip, t) /\ ~ IsShielded(t)
    /\ LET more == With(orphans, {t}, peer)
       IN \E S \in SUBSET DOMAIN more :
             /\ IF Cardinality(DOMAIN more) > MaxOrphans THEN Cardinality(DOMAIN more \ S) = MaxOrphans ELSE S = {}
             /\ EraseOrphans(more, AddOrphanTx(byPrev, t), S)
    /\ UNCHANGED <<vars, pool, work, k, pending, erase, setMisbehaving>>

NextWork ==
    /\ k < Len(work) /\ pending = {}
    /\ k' = k + 1
    /\ pending' = IF work[k + 1] \in DOMAIN byPrev THEN byPrev[work[k + 1]] ELSE {}
    /\ UNCHANGED <<vars, pool, orphans, byPrev, work, erase, setMisbehaving>>

UnqueuedOrphan(t) == work    \* mutant: the orphans of an accepted orphan are not tried

QueuedOrphan(t) == Append(work, t)

AcceptOrphan(t) ==
    /\ orphans[t] \notin setMisbehaving /\ Acceptable(pool, tip, Len(chain), t)
    /\ pool' = Accepted(pool, t)
    /\ work' = QueuedOrphan(t) /\ erase' = erase \cup {t}
    /\ UNCHANGED setMisbehaving

\* Refused with all its inputs, or before they are looked at (it is not final any
\* more, or overrides an entry); its peer may be punished for it.
RefuseOrphan(t) ==
    /\ orphans[t] \notin setMisbehaving
    /\ erase' = erase \cup {t}
    /\ setMisbehaving' \in {setMisbehaving, setMisbehaving \cup {orphans[t]}}
    /\ UNCHANGED <<pool, work>>

KeepOrphan(t) ==
    /\ orphans[t] \in setMisbehaving \/ MissingInputs(pool, tip, t)
    /\ UNCHANGED <<pool, work, erase, setMisbehaving>>

TryOrphan(t) ==
    /\ t \in pending /\ pending' = pending \ {t}
    /\ AcceptOrphan(t) \/ RefuseOrphan(t) \/ KeepOrphan(t)
    /\ UNCHANGED <<vars, orphans, byPrev, k>>

FinishTx ==
    /\ work # <<>> /\ k = Len(work) /\ pending = {}
    /\ EraseOrphans(orphans, byPrev, erase)
    /\ work' = <<>> /\ k' = 0 /\ erase' = {} /\ setMisbehaving' = {}
    /\ UNCHANGED <<vars, pool, pending>>

\* FinalizeNode of a peer
EraseOrphansFor(peer) ==
    /\ Quiet
    /\ EraseOrphans(orphans, byPrev, {t \in DOMAIN orphans : orphans[t] = peer})
    /\ UNCHANGED <<vars, pool, work, k, pending, erase, setMisbehaving>>

MempoolNext ==
    \/ work = <<>> /\ ((\E vtx \in Blocks : BeginConnect(vtx)) \/ BeginDisconnect) /\ UNCHANGED poolVars
    \/ BlockStep /\ UNCHANGED poolVars
    \/ (ConnectTip \/ DisconnectTip) /\ UNCHANGED orphanVars
    \/ \E t \in Txs : SubmitTx(t) \/ ReceiveTx(t) \/ TryOrphan(t)
    \/ \E t \in Txs, peer \in Peers : ReceiveOrphan(t, peer)
    \/ NextWork \/ FinishTx
    \/ \E peer \in Peers : EraseOrphansFor(peer)

MempoolSpec == MempoolInit /\ [][MempoolNext]_<<vars, poolVars>>

-----------------------------------------------------------------------------
(* Properties *)

\* Can entry t be mined when the entries of left are not mined yet?
Minable(t, left) ==
    \A out \in Inputs(t) :
        IF out.hash \in pool.mapTx
        THEN out.hash \notin left /\ FromTx(out.hash, 0).vout[out.n] # NULL
        ELSE /\ IsAvailable(tip.coins, out)
             /\ tip.coins[out.hash].fCoinBase => Len(chain) + 1 - tip.coins[out.hash].nHeight >= Maturity

\* CTxMemPool::check, called before and after every change of the tip: whatever
\* blocks come and go, all entries together could be mined on top of the tip,
\* one after the other: whichever of them are left, one of these comes next.
\* No two of them spend the same output or nullifier, every input exists and is
\* mature, no nullifier is spent and every anchor is known to the chain, and
\* mapNextTx and mapNullifiers hold the spends of the entries and nothing else.
PoolMinable ==
    /\ \A left \in SUBSET pool.mapTx : left # {} => \E t \in left : Minable(t, left)
    /\ \A t \in pool.mapTx :
          /\ \A out \in Inputs(t) : out \in DOMAIN pool.mapNextTx /\ pool.mapNextTx[out] = t
          /\ \A nf \in Reveals[t] : nf \in DOMAIN pool.mapNullifiers /\ pool.mapNullifiers[nf] = t
          /\ Reveals[t] \cap tip.nullifiers = {}
          /\ IsShielded(t) => Anchor[t] \in tip.anchors
    /\ DOMAIN pool.mapNextTx = UNION {Inputs(t) : t \in pool.mapTx}
    /\ DOMAIN pool.mapNullifiers = UNION {Reveals[t] : t \in pool.mapTx}

\* mapOrphanTransactionsByPrev lists every orphan under each transaction it
\* spends from and lists nothing else, whatever was evicted, erased with its
\* peer or accepted, and the orphans are never more than -maxorphantx.
OrphansIndexed ==
    /\ DOMAIN byPrev = UNION {Parents(t) : t \in DOMAIN orphans}
    /\ \A h \in DOMAIN byPrev : byPrev[h] = {t \in DOMAIN orphans : h \in Parents(t)}
    /\ Cardinality(DOMAIN orphans) <= MaxOrphans

\* When the "tx" handler is done, no orphan is left that spends from what it has
\* accepted, directly or through other orphans, and has all its inputs, unless
\* the peer that sent it misbehaved: the erasing at the end loses none of them.
OrphansResolved ==
    [][FinishTx =>
          \A t \in DOMAIN orphans' :
              Parents(t) \cap pool.mapTx \cap (erase \cup {work[1]}) # {}
                  => orphans[t] \in setMisbehaving \/ \E h \in Parents(t) : ~ ViewHaveCoins(pool, tip.coins, h)
      ]_<<vars, poolVars>>
=============================================================================
