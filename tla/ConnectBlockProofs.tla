------------------------- MODULE ConnectBlockProofs -------------------------
(***************************************************************************)
(* Two components that ConnectBlock works with and that share no state.    *)
(*                                                                         *)
(* The caches of coins.cpp implement CoinsSpec, for any sets of            *)
(* transactions, nullifiers, anchors and blocks.  The three maps are       *)
(* independent, and within a map so are the keys.  The first part          *)
(* therefore is about the entries of one key in the database, in pcoinsTip *)
(* and in the view: an invariant of the three and one lemma per operation, *)
(* which says that the invariant is kept and what the operation does to    *)
(* the value each level shows.  The second part lifts the lemmas to the    *)
(* actions.                                                                *)
(*                                                                         *)
(* CCheckQueue evaluates every script check of a block once and returns    *)
(* their conjunction, for any number of workers, checks and control        *)
(* objects and any batch size.  The invariant counts: nTodo, nIdle and     *)
(* nTotal are the sizes of the sets of checks and of threads that they     *)
(* stand for.                                                              *)
(***************************************************************************)
EXTENDS CoinsCache, CheckQueue, SequenceTheorems, FiniteSetTheorems, TLAPS

------------------------------------------------------------------------------
(* The coins views. *)


(* NONE is not the value or the entry of any key.                          *)
LEMMA NoneApart ==
    /\ Pruned \notin Coins
    /\ NONE \notin Coins
    /\ NONE # Pruned
    /\ NONE \notin Roots
    /\ NONE \notin CoinsEntry
    /\ NONE \notin NullifierEntry
    /\ NONE \notin AnchorEntry
BY CoinsAssumption DEF CoinsAssumption

------------------------------------------------------------------------------
(* One key of the map of coins: d in the database, t in pcoinsTip, v in    *)
(* the view.                                                               *)
CoinsOK(d, t, v) ==
    /\ t # NONE =>
          /\ "DIRTY" \notin t.flags => t.coins = d
          /\ "FRESH" \in t.flags => d = NONE
    /\ v # NONE =>
          /\ "DIRTY" \notin v.flags => v.coins = LookupCoins(t, d)
          /\ "FRESH" \in v.flags => LookupCoins(t, d) \in {NONE, Pruned}
          /\ "FRESH" \notin v.flags => t # NONE
          /\ "FRESH" \in v.flags /\ "DIRTY" \in v.flags => v.coins # Pruned

(* A read through pcoinsTip shows every level what it showed before.       *)
LEMMA TipFetchesCoins ==
    ASSUME NEW d \in Coins \cup {NONE}, NEW t \in CoinsEntry \cup {NONE},
           NEW v \in CoinsEntry \cup {NONE}, CoinsOK(d, t, v)
    PROVE  LET t2 == FetchCoins(t, d)
           IN  /\ t2 \in CoinsEntry \cup {NONE}
               /\ CoinsOK(d, t2, v)
               /\ LookupCoins(t2, d) = LookupCoins(t, d)
BY NoneApart DEF CoinsOK, FetchCoins, LookupCoins, CoinsEntry

(* The same for a read through the view.                                   *)
LEMMA ViewFetchesCoins ==
    ASSUME NEW d \in Coins \cup {NONE}, NEW t \in CoinsEntry \cup {NONE},
           NEW v \in CoinsEntry \cup {NONE}, CoinsOK(d, t, v)
    PROVE  LET t2 == FetchedBelow(v, t, FetchCoins(t, d))
               v2 == FetchCoins(v, LookupCoins(t, d))
           IN  /\ t2 \in CoinsEntry \cup {NONE}
               /\ v2 \in CoinsEntry \cup {NONE}
               /\ CoinsOK(d, t2, v2)
               /\ LookupCoins(t2, d) = LookupCoins(t, d)
               /\ LookupCoins(v2, LookupCoins(t, d)) = LookupCoins(v, LookupCoins(t, d))
BY ZenonT(60), NoneApart DEF CoinsOK, FetchCoins, FetchedBelow, LookupCoins, CoinsEntry

(* A modification changes what the view shows, and nothing below it.       *)
LEMMA ViewModifiesCoins ==
    ASSUME NEW d \in Coins \cup {NONE}, NEW t \in CoinsEntry \cup {NONE},
           NEW v \in CoinsEntry \cup {NONE}, CoinsOK(d, t, v), NEW c \in Coins \cup {Pruned}
    PROVE  LET t2 == FetchedBelow(v, t, FetchCoins(t, d))
               v2 == ModifiedCoins(v, LookupCoins(t, d), c)
           IN  /\ t2 \in CoinsEntry \cup {NONE}
               /\ v2 \in CoinsEntry \cup {NONE}
               /\ CoinsOK(d, t2, v2)
               /\ LookupCoins(t2, d) = LookupCoins(t, d)
               /\ Unspent(LookupCoins(v2, LookupCoins(t, d))) = c
BY NoneApart DEF CoinsOK, FetchCoins, FetchedBelow, ModifiedCoins, LookupCoins, CoinsEntry, Unspent

(* What the fetch of ModifyCoins leaves pcoinsTip showing.                 *)
LEMMA FetchShowsCoins ==
    ASSUME NEW d \in Coins \cup {NONE}, NEW t \in CoinsEntry \cup {NONE},
           NEW v \in CoinsEntry \cup {NONE}, CoinsOK(d, t, v)
    PROVE  LookupCoins(FetchedBelow(v, t, FetchCoins(t, d)), d) = LookupCoins(t, d)
BY NoneApart DEF CoinsOK, FetchCoins, FetchedBelow, LookupCoins, CoinsEntry

(* What ModifyCoins leaves the view showing.                               *)
LEMMA ModifyShowsCoins ==
    ASSUME NEW d \in Coins \cup {NONE}, NEW t \in CoinsEntry \cup {NONE},
           NEW v \in CoinsEntry \cup {NONE}, CoinsOK(d, t, v), NEW c \in Coins \cup {Pruned}
    PROVE  Unspent(LookupCoins(ModifiedCoins(v, LookupCoins(t, d), c), LookupCoins(t, d))) = c
BY ViewModifiesCoins

(* Written back, the view's value is the one pcoinsTip shows.              *)
LEMMA TipTakesCoins ==
    ASSUME NEW d \in Coins \cup {NONE}, NEW t \in CoinsEntry \cup {NONE},
           NEW v \in CoinsEntry \cup {NONE}, CoinsOK(d, t, v)
    PROVE  LET t2 == WriteCoins(t, v)
           IN  /\ t2 \in CoinsEntry \cup {NONE}
               /\ CoinsOK(d, t2, NONE)
               /\ Unspent(LookupCoins(t2, d)) = Unspent(LookupCoins(v, LookupCoins(t, d)))
BY NoneApart DEF CoinsOK, WriteCoins, LookupCoins, CoinsEntry, Unspent

(* Written to the database, it is the value a restart finds.               *)
LEMMA DbTakesCoins ==
    ASSUME NEW d \in Coins \cup {NONE}, NEW t \in CoinsEntry \cup {NONE}, CoinsOK(d, t, NONE)
    PROVE  LET d2 == StoredCoins(d, t)
           IN  /\ d2 \in Coins \cup {NONE}
               /\ Unspent(d2) = Unspent(LookupCoins(t, d))
BY NoneApart DEF CoinsOK, StoredCoins, LookupCoins, CoinsEntry, Unspent

------------------------------------------------------------------------------
(* One nullifier: d is {"entered"} when the database has it.               *)
NullifierOK(d, t, v) ==
    /\ t # NONE /\ "DIRTY" \notin t => t = d
    /\ v # NONE /\ "DIRTY" \notin v => v = LookupNullifier(t, d)

(* Reads through pcoinsTip or the view change no level.                    *)
LEMMA FetchesNullifier ==
    ASSUME NEW d \in {{"entered"}, {}}, NEW t \in NullifierEntry \cup {NONE},
           NEW v \in NullifierEntry \cup {NONE}, NullifierOK(d, t, v)
    PROVE  LET t1 == FetchNullifier(t, d)
               t2 == FetchedBelow(v, t, t1)
               v2 == FetchNullifier(v, LookupNullifier(t, d))
           IN  /\ t1 \in NullifierEntry \cup {NONE}
               /\ t2 \in NullifierEntry \cup {NONE}
               /\ v2 \in NullifierEntry \cup {NONE}
               /\ NullifierOK(d, t1, v)
               /\ NullifierOK(d, t2, v2)
               /\ LookupNullifier(t1, d) = LookupNullifier(t, d)
               /\ LookupNullifier(t2, d) = LookupNullifier(t, d)
               /\ LookupNullifier(v2, LookupNullifier(t, d)) = LookupNullifier(v, LookupNullifier(t, d))
BY Zenon, NoneApart DEF NullifierOK, FetchNullifier, FetchedBelow, LookupNullifier, NullifierEntry

(* Written back, the view's nullifier is the one pcoinsTip shows.          *)
LEMMA TipTakesNullifier ==
    ASSUME NEW d \in {{"entered"}, {}}, NEW t \in NullifierEntry \cup {NONE},
           NEW v \in NullifierEntry \cup {NONE}, NullifierOK(d, t, v)
    PROVE  LET t2 == WriteNullifier(t, v)
           IN  /\ t2 \in NullifierEntry \cup {NONE}
               /\ NullifierOK(d, t2, NONE)
               /\ LookupNullifier(t2, d) = LookupNullifier(v, LookupNullifier(t, d))
BY Zenon, NoneApart DEF NullifierOK, WriteNullifier, LookupNullifier, NullifierEntry

------------------------------------------------------------------------------
(* One anchor r: an entry holds the tree of r, and one that is not dirty   *)
(* is entered, here and below.                                             *)
AnchorOK(r, d, t, v) ==
    /\ d \in {r, NONE}
    /\ t # NONE =>
          /\ t.tree = r
          /\ "DIRTY" \notin t.flags => "entered" \in t.flags /\ d = r
    /\ v # NONE =>
          /\ v.tree = r
          /\ "DIRTY" \notin v.flags => "entered" \in v.flags /\ LookupAnchor(t, d) = r

(* Reads through pcoinsTip or the view change no level.                    *)
LEMMA FetchesAnchor ==
    ASSUME NEW r \in Roots, NEW d, NEW t \in AnchorEntry \cup {NONE},
           NEW v \in AnchorEntry \cup {NONE}, AnchorOK(r, d, t, v)
    PROVE  LET t1 == FetchAnchor(t, d)
               t2 == FetchedBelow(v, t, t1)
               v2 == FetchAnchor(v, LookupAnchor(t, d))
           IN  /\ t1 \in AnchorEntry \cup {NONE}
               /\ t2 \in AnchorEntry \cup {NONE}
               /\ v2 \in AnchorEntry \cup {NONE}
               /\ AnchorOK(r, d, t1, v)
               /\ AnchorOK(r, d, t2, v)
               /\ AnchorOK(r, d, t2, v2)
               /\ LookupAnchor(t1, d) = LookupAnchor(t, d)
               /\ LookupAnchor(t2, d) = LookupAnchor(t, d)
               /\ LookupAnchor(v2, LookupAnchor(t, d)) = LookupAnchor(v, LookupAnchor(t, d))
BY ZenonT(60), NoneApart DEF AnchorOK, FetchAnchor, FetchedBelow, LookupAnchor, AnchorEntry

(* What a read through the view leaves both levels showing.                *)
LEMMA FetchKeepsAnchors ==
    ASSUME NEW r \in Roots, NEW d, NEW t \in AnchorEntry \cup {NONE},
           NEW v \in AnchorEntry \cup {NONE}, AnchorOK(r, d, t, v)
    PROVE  /\ LookupAnchor(FetchedBelow(v, t, FetchAnchor(t, d)), d) = LookupAnchor(t, d)
           /\ LookupAnchor(FetchAnchor(v, LookupAnchor(t, d)), LookupAnchor(t, d))
                = LookupAnchor(v, LookupAnchor(t, d))
BY ZenonT(60), NoneApart DEF AnchorOK, FetchAnchor, FetchedBelow, LookupAnchor, AnchorEntry

(* Written back, the view's anchor is the one pcoinsTip shows.             *)
LEMMA TipTakesAnchor ==
    ASSUME NEW r \in Roots, NEW d, NEW t \in AnchorEntry \cup {NONE},
           NEW v \in AnchorEntry \cup {NONE}, AnchorOK(r, d, t, v)
    PROVE  LET t2 == WriteAnchor(t, v)
           IN  /\ t2 \in AnchorEntry \cup {NONE}
               /\ AnchorOK(r, d, t2, NONE)
               /\ LookupAnchor(t2, d) = LookupAnchor(v, LookupAnchor(t, d))
BY NoneApart DEF AnchorOK, WriteAnchor, LookupAnchor, AnchorEntry

------------------------------------------------------------------------------
(* The invariant.                                                          *)

KeysInv ==
    /\ \A x \in Txids : CoinsOK(db.coins[x], tip.coins[x], view.coins[x])
    /\ \A n \in Nullifiers : NullifierOK(DbNullifier(n), tip.nullifiers[n], view.nullifiers[n])
    /\ \A r \in Roots : AnchorOK(r, DbAnchor(r), tip.anchors[r], view.anchors[r])

(* A view that is flushed knows its best block, and its best anchor unless *)
(* it is the view of the genesis block, before which no anchor was pushed. *)
StageInv ==
    /\ TipBestBlock = NullHash => TipBestAnchor = db.hashAnchor
    /\ stage = "none" => view = NewCache
    /\ stage = "applying" => view.hashBlock = TipBestBlock /\ view.hashAnchor = NullHash
    /\ stage = "anchored" => view.hashBlock # NullHash /\ view.hashAnchor # NullHash
    /\ stage = "applied" => /\ view.hashBlock # NullHash
                            /\ view.hashAnchor = NullHash => TipBestAnchor = db.hashAnchor

(* The anchors of a level, which PushAnchor and PopAnchor use as a stack.  *)
Ordered(level) ==
    /\ level.anchors \subseteq Roots
    /\ EmptyRoot \in level.anchors
    /\ level.anchor \in level.anchors
    /\ \A a \in level.anchors : Size[a] <= Size[level.anchor]
    /\ \A a, b \in level.anchors : Size[a] = Size[b] => a = b

OrderInv == Ordered(DiskState) /\ Ordered(TipState) /\ Ordered(ViewState)

(* Every operation of the abstract view keeps the stack of anchors.        *)
LEMMA OrderKept ==
    ASSUME OrderInv, [Abstract!Next]_(Abstract!vars)
    PROVE  OrderInv'
<1> USE CoinsAssumption DEF CoinsAssumption
<1>1. ASSUME NEW x \in Txids, NEW c, Abstract!Modify(x, c) PROVE OrderInv'
  BY <1>1 DEF OrderInv, Ordered, Abstract!Modify, Abstract!Change
<1>2. ASSUME NEW n \in Nullifiers, Abstract!Spend(n) \/ Abstract!Unspend(n) PROVE OrderInv'
  <2>1. /\ ViewState'.anchors = ViewState.anchors
        /\ ViewState'.anchor = ViewState.anchor
        /\ DiskState' = DiskState /\ TipState' = TipState
    BY Zenon, <1>2 DEF Abstract!Spend, Abstract!Unspend, Abstract!Change, ViewState
  <2> QED BY <2>1 DEF OrderInv, Ordered
<1>3. ASSUME NEW b \in BlockHashes, Abstract!SetBestBlock(b) PROVE OrderInv'
  BY <1>3 DEF OrderInv, Ordered, Abstract!SetBestBlock, Abstract!Change
<1>4. ASSUME NEW r \in Roots, Abstract!Push(r) PROVE OrderInv'
  <2>1. /\ ViewState'.anchors = ViewState.anchors \cup {r}
        /\ ViewState'.anchor = r
        /\ DiskState' = DiskState /\ TipState' = TipState
    BY Zenon, <1>4 DEF Abstract!Push, Abstract!Change, ViewState
  <2>2. \A a \in ViewState.anchors : Size[a] < Size[r]
    BY Zenon, <1>4 DEF Abstract!Push
  <2> QED BY <2>1, <2>2 DEF OrderInv, Ordered
<1>5. ASSUME NEW r \in Roots, Abstract!Pop(r) PROVE OrderInv'
  <2>1. /\ ViewState'.anchors = ViewState.anchors \ {ViewState.anchor}
        /\ ViewState'.anchor = r
        /\ DiskState' = DiskState /\ TipState' = TipState
    BY Zenon, <1>5 DEF Abstract!Pop, Abstract!Change, ViewState
  <2>2. /\ r \in ViewState.anchors \ {ViewState.anchor}
        /\ \A a \in ViewState.anchors \ {ViewState.anchor} : Size[a] <= Size[r]
    BY <1>5 DEF Abstract!Pop
  <2>3. ViewState.anchor # EmptyRoot
    BY <2>2 DEF OrderInv, Ordered
  <2> QED BY <2>1, <2>2, <2>3 DEF OrderInv, Ordered
<1>6. ASSUME Abstract!Commit \/ Abstract!Discard \/ Abstract!Sync \/ Abstract!Crash PROVE OrderInv'
  BY Zenon, <1>6 DEF OrderInv, Ordered, Abstract!Commit, Abstract!Discard, Abstract!Sync, Abstract!Crash
<1>7. ASSUME UNCHANGED Abstract!vars PROVE OrderInv'
  BY <1>7 DEF OrderInv, Ordered, Abstract!vars
<1> QED BY <1>1, <1>2, <1>3, <1>4, <1>5, <1>6, <1>7 DEF Abstract!Next

(* A read of coins through pcoinsTip.                                      *)
LEMMA TipReadCoinsStep ==
    ASSUME TypeOK, KeysInv, StageInv, NEW x \in Txids, TipReadCoins(x)
    PROVE  TypeOK' /\ KeysInv' /\ StageInv' /\ UNCHANGED <<DiskState, TipState, ViewState>>
<1>1. /\ tip' = [tip EXCEPT !.coins = [tip.coins EXCEPT ![x] = FetchCoins(tip.coins[x], db.coins[x])]]
      /\ db' = db /\ view' = view /\ stage' = stage
  BY DEF TipReadCoins
<1>2. /\ FetchCoins(tip.coins[x], db.coins[x]) \in CoinsEntry \cup {NONE}
      /\ CoinsOK(db.coins[x], FetchCoins(tip.coins[x], db.coins[x]), view.coins[x])
      /\ LookupCoins(FetchCoins(tip.coins[x], db.coins[x]), db.coins[x]) = TipCoins(x)
  BY Zenon, TipFetchesCoins DEF KeysInv, TypeOK, Database, Cache, TipCoins
<1>3. TypeOK'
  BY <1>1, <1>2 DEF TypeOK, Cache
<1>4. KeysInv'
  BY <1>1, <1>2 DEF TypeOK, Cache, KeysInv, DbNullifier, DbAnchor
<1>5. StageInv'
  BY <1>1 DEF TypeOK, Cache, TipReadCoins, StageInv, TipBestBlock, TipBestAnchor
<1>6. \A y \in Txids : TipCoins(y)' = TipCoins(y) /\ ViewCoins(y)' = ViewCoins(y)
  BY <1>1, <1>2 DEF TypeOK, Cache, TipCoins, ViewCoins
<1>7. UNCHANGED <<DiskState, TipState, ViewState>>
  BY Zenon, <1>1, <1>6 DEF TypeOK, Cache, DiskState, TipState, ViewState, DbAnchor, TipAnchor, ViewAnchor,
     DbNullifier,
     TipNullifier, ViewNullifier, TipBestBlock, TipBestAnchor, ViewBestBlock, ViewBestAnchor
<1> QED BY <1>3, <1>4, <1>5, <1>7

(* A read of coins through the view.                                       *)
LEMMA ViewReadCoinsStep ==
    ASSUME TypeOK, KeysInv, StageInv, NEW x \in Txids, ViewReadCoins(x)
    PROVE  TypeOK' /\ KeysInv' /\ StageInv' /\ UNCHANGED <<DiskState, TipState, ViewState>>
<1> DEFINE t2 == FetchedBelow(view.coins[x], tip.coins[x], FetchCoins(tip.coins[x], db.coins[x]))
           v2 == FetchCoins(view.coins[x], TipCoins(x))
<1>1. /\ tip' = [tip EXCEPT !.coins = [tip.coins EXCEPT ![x] = t2]]
      /\ view' = [view EXCEPT !.coins = [view.coins EXCEPT ![x] = v2]]
      /\ db' = db /\ stage' = stage
  BY DEF ViewReadCoins
<1>2. /\ t2 \in CoinsEntry \cup {NONE}
      /\ v2 \in CoinsEntry \cup {NONE}
      /\ CoinsOK(db.coins[x], t2, v2)
      /\ LookupCoins(t2, db.coins[x]) = TipCoins(x)
      /\ LookupCoins(v2, TipCoins(x)) = ViewCoins(x)
  BY Zenon, ViewFetchesCoins DEF KeysInv, TypeOK, Database, Cache, TipCoins, ViewCoins
<1> HIDE DEF t2, v2
<1>3. TypeOK'
  BY Zenon, <1>1, <1>2 DEF TypeOK, Cache
<1>4. KeysInv'
  BY <1>1, <1>2 DEF TypeOK, Cache, KeysInv, DbNullifier, DbAnchor
<1>5. StageInv'
  BY <1>1 DEF TypeOK, Cache, ViewReadCoins, Applying, StageInv, TipBestBlock, TipBestAnchor
<1>6. \A y \in Txids : TipCoins(y)' = TipCoins(y) /\ ViewCoins(y)' = ViewCoins(y)
  BY <1>1, <1>2 DEF TypeOK, Cache, TipCoins, ViewCoins
<1>7. UNCHANGED <<DiskState, TipState, ViewState>>
  BY Zenon, <1>1, <1>6 DEF TypeOK, Cache, DiskState, TipState, ViewState, DbAnchor, TipAnchor, ViewAnchor,
     DbNullifier,
     TipNullifier, ViewNullifier, TipBestBlock, TipBestAnchor, ViewBestBlock, ViewBestAnchor
<1> QED BY <1>3, <1>4, <1>5, <1>7

(* ModifyCoins is Modify of the abstract view.                             *)
LEMMA ModifyCoinsStep ==
    ASSUME TypeOK, KeysInv, StageInv, NEW x \in Txids, NEW c \in Coins \cup {Pruned}, ModifyCoins(x, c)
    PROVE  TypeOK' /\ KeysInv' /\ StageInv' /\ Abstract!Modify(x, c)
<1> DEFINE t2 == FetchedBelow(view.coins[x], tip.coins[x], FetchCoins(tip.coins[x], db.coins[x]))
           v2 == ModifiedCoins(view.coins[x], TipCoins(x), c)
<1>1. /\ tip' = [tip EXCEPT !.coins = [tip.coins EXCEPT ![x] = t2]]
      /\ view' = [view EXCEPT !.coins = [view.coins EXCEPT ![x] = v2]]
      /\ db' = db /\ stage' = stage
  BY ZenonT(60) DEF ModifyCoins
<1>2. /\ t2 \in CoinsEntry \cup {NONE}
      /\ v2 \in CoinsEntry \cup {NONE}
      /\ CoinsOK(db.coins[x], t2, v2)
      /\ LookupCoins(t2, db.coins[x]) = TipCoins(x)
      /\ Unspent(LookupCoins(v2, TipCoins(x))) = c
  <2>1. /\ db.coins[x] \in Coins \cup {NONE}
        /\ tip.coins[x] \in CoinsEntry \cup {NONE}
        /\ view.coins[x] \in CoinsEntry \cup {NONE}
        /\ CoinsOK(db.coins[x], tip.coins[x], view.coins[x])
    BY DEF KeysInv, TypeOK, Database, Cache
  <2>2. TipCoins(x) = LookupCoins(tip.coins[x], db.coins[x])
    BY Zenon DEF TipCoins
  <2> DEFINE w2 == ModifiedCoins(view.coins[x], LookupCoins(tip.coins[x], db.coins[x]), c)
  <2>3. /\ t2 \in CoinsEntry \cup {NONE}
        /\ w2 \in CoinsEntry \cup {NONE}
        /\ CoinsOK(db.coins[x], t2, w2)
    BY ZenonT(60), <2>1, ViewModifiesCoins
  <2>4. LookupCoins(t2, db.coins[x]) = LookupCoins(tip.coins[x], db.coins[x])
    BY ZenonT(60), <2>1, FetchShowsCoins
  <2>5. Unspent(LookupCoins(w2, LookupCoins(tip.coins[x], db.coins[x]))) = c
    BY ZenonT(60), <2>1, ModifyShowsCoins
  <2> QED BY Zenon, <2>2, <2>3, <2>4, <2>5
<1> HIDE DEF t2, v2
<1>3. TypeOK'
  BY Zenon, <1>1, <1>2 DEF TypeOK, Cache
<1>4. KeysInv'
  BY <1>1, <1>2 DEF TypeOK, Cache, KeysInv, DbNullifier, DbAnchor
<1>5. StageInv'
  BY <1>1 DEF TypeOK, Cache, ModifyCoins, Applying, StageInv, TipBestBlock, TipBestAnchor
<1>6. /\ \A y \in Txids : TipCoins(y)' = TipCoins(y)
      /\ \A y \in Txids : Unspent(ViewCoins(y))' = IF y = x THEN c ELSE Unspent(ViewCoins(y))
  BY <1>1, <1>2 DEF TypeOK, Cache, TipCoins, ViewCoins, Unspent
<1>7. UNCHANGED <<DiskState, TipState>>
  BY Zenon, <1>1, <1>6 DEF TypeOK, Cache, DiskState, TipState, ViewState, DbAnchor, TipAnchor, ViewAnchor,
     DbNullifier,
     TipNullifier, ViewNullifier, TipBestBlock, TipBestAnchor, ViewBestBlock, ViewBestAnchor, Unspent
<1>8. ViewState' = [ViewState EXCEPT !.coins[x] = c]
  <2>1. [y \in Txids |-> Unspent(ViewCoins(y))]' = [ViewState.coins EXCEPT ![x] = c]
    BY Zenon, <1>6 DEF ViewState
  <2>2. /\ \A n \in Nullifiers : ViewNullifier(n)' = ViewNullifier(n)
        /\ \A r \in Roots : ViewAnchor(r)' = ViewAnchor(r)
        /\ ViewBestBlock' = ViewBestBlock
        /\ ViewBestAnchor' = ViewBestAnchor
    BY ZenonT(60), <1>1 DEF TypeOK, Cache, DiskState, TipState, ViewState, DbAnchor, TipAnchor, ViewAnchor, DbNullifier,
     TipNullifier, ViewNullifier, TipBestBlock, TipBestAnchor, ViewBestBlock, ViewBestAnchor
  <2>3. /\ ViewState'.coins = [ViewState.coins EXCEPT ![x] = c]
        /\ ViewState'.nullifiers = ViewState.nullifiers
        /\ ViewState'.anchors = ViewState.anchors
        /\ ViewState'.block = ViewState.block
        /\ ViewState'.anchor = ViewState.anchor
    BY <2>1, <2>2 DEF ViewState
  <2> QED BY ZenonT(60), <2>3 DEF ViewState
<1> QED BY <1>3, <1>4, <1>5, <1>7, <1>8 DEF Abstract!Modify, Abstract!Change

(* A read of a nullifier through pcoinsTip.                                *)
LEMMA TipReadNullifierStep ==
    ASSUME TypeOK, KeysInv, StageInv, NEW n \in Nullifiers, TipReadNullifier(n)
    PROVE  TypeOK' /\ KeysInv' /\ StageInv' /\ UNCHANGED <<DiskState, TipState, ViewState>>
<1> DEFINE t2 == FetchNullifier(tip.nullifiers[n], DbNullifier(n))
<1>1. /\ tip' = [tip EXCEPT !.nullifiers = [tip.nullifiers EXCEPT ![n] = t2]]
      /\ db' = db /\ view' = view /\ stage' = stage
  BY ZenonT(60) DEF TipReadNullifier
<1>2. /\ t2 \in NullifierEntry \cup {NONE}
      /\ NullifierOK(DbNullifier(n), t2, view.nullifiers[n])
      /\ LookupNullifier(t2, DbNullifier(n)) = TipNullifier(n)
  BY ZenonT(60), FetchesNullifier DEF KeysInv, TypeOK, Cache, DbNullifier, TipNullifier
<1> HIDE DEF t2
<1>3. TypeOK'
  BY <1>1, <1>2 DEF TypeOK, Cache
<1>4. KeysInv'
  BY <1>1, <1>2 DEF TypeOK, Cache, KeysInv, DbNullifier, DbAnchor
<1>5. StageInv'
  BY <1>1 DEF TypeOK, Cache, TipReadNullifier, StageInv, TipBestBlock, TipBestAnchor
<1>6. \A m \in Nullifiers : TipNullifier(m)' = TipNullifier(m) /\ ViewNullifier(m)' = ViewNullifier(m)
  BY <1>1, <1>2 DEF TypeOK, Cache, DbNullifier, TipNullifier, ViewNullifier
<1>7. UNCHANGED <<DiskState, TipState, ViewState>>
  BY Zenon, <1>1, <1>6 DEF TypeOK, Cache, DiskState, TipState, ViewState, TipCoins, ViewCoins, DbAnchor, TipAnchor,
     ViewAnchor,
     TipBestBlock, TipBestAnchor, ViewBestBlock, ViewBestAnchor
<1> QED BY <1>3, <1>4, <1>5, <1>7

(* A read of a nullifier through the view.                                 *)
LEMMA ViewReadNullifierStep ==
    ASSUME TypeOK, KeysInv, StageInv, NEW n \in Nullifiers, ViewReadNullifier(n)
    PROVE  TypeOK' /\ KeysInv' /\ StageInv' /\ UNCHANGED <<DiskState, TipState, ViewState>>
<1> DEFINE t2 == FetchedBelow(view.nullifiers[n], tip.nullifiers[n], FetchNullifier(tip.nullifiers[n], DbNullifier(n)))
           v2 == FetchNullifier(view.nullifiers[n], TipNullifier(n))
<1>1. /\ tip' = [tip EXCEPT !.nullifiers = [tip.nullifiers EXCEPT ![n] = t2]]
      /\ view' = [view EXCEPT !.nullifiers = [view.nullifiers EXCEPT ![n] = v2]]
      /\ db' = db /\ stage' = stage
  BY Zenon DEF ViewReadNullifier
<1>2. /\ t2 \in NullifierEntry \cup {NONE}
      /\ v2 \in NullifierEntry \cup {NONE}
      /\ NullifierOK(DbNullifier(n), t2, v2)
      /\ LookupNullifier(t2, DbNullifier(n)) = TipNullifier(n)
      /\ LookupNullifier(v2, TipNullifier(n)) = ViewNullifier(n)
  BY ZenonT(60), FetchesNullifier DEF KeysInv, TypeOK, Cache, DbNullifier, TipNullifier, ViewNullifier
<1> HIDE DEF t2, v2
<1>3. TypeOK'
  BY Zenon, <1>1, <1>2 DEF TypeOK, Cache
<1>4. KeysInv'
  BY <1>1, <1>2 DEF TypeOK, Cache, KeysInv, DbNullifier, DbAnchor
<1>5. StageInv'
  BY <1>1 DEF TypeOK, Cache, ViewReadNullifier, Applying, StageInv, TipBestBlock, TipBestAnchor
<1>6. \A m \in Nullifiers : TipNullifier(m)' = TipNullifier(m) /\ ViewNullifier(m)' = ViewNullifier(m)
  BY <1>1, <1>2 DEF TypeOK, Cache, DbNullifier, TipNullifier, ViewNullifier
<1>7. UNCHANGED <<DiskState, TipState, ViewState>>
  BY Zenon, <1>1, <1>6 DEF TypeOK, Cache, DiskState, TipState, ViewState, TipCoins, ViewCoins, DbAnchor, TipAnchor,
     ViewAnchor,
     TipBestBlock, TipBestAnchor, ViewBestBlock, ViewBestAnchor
<1> QED BY <1>3, <1>4, <1>5, <1>7

(* SetNullifier is Spend or Unspend of the abstract view.                  *)
LEMMA SetNullifierStep ==
    ASSUME TypeOK, KeysInv, StageInv, NEW n \in Nullifiers, NEW spent \in {{"entered"}, {}}, SetNullifier(n, spent)
    PROVE  TypeOK' /\ KeysInv' /\ StageInv' /\ (Abstract!Spend(n) \/ Abstract!Unspend(n))
<1>1. /\ view' = [view EXCEPT !.nullifiers = [view.nullifiers EXCEPT ![n] = spent \cup {"DIRTY"}]]
      /\ db' = db /\ tip' = tip /\ stage' = stage
  BY DEF SetNullifier
<1>2. /\ spent \cup {"DIRTY"} \in NullifierEntry
      /\ NullifierOK(DbNullifier(n), tip.nullifiers[n], spent \cup {"DIRTY"})
      /\ LookupNullifier(spent \cup {"DIRTY"}, TipNullifier(n)) = spent
  BY Zenon, NoneApart DEF KeysInv, NullifierOK, NullifierEntry, LookupNullifier
<1>3. TypeOK'
  BY Zenon, <1>1, <1>2 DEF TypeOK, Cache
<1>4. KeysInv'
  BY <1>1, <1>2 DEF TypeOK, Cache, KeysInv, DbNullifier, DbAnchor
<1>5. StageInv'
  BY <1>1 DEF TypeOK, Cache, SetNullifier, Applying, StageInv, TipBestBlock, TipBestAnchor
<1>6. /\ \A m \in Nullifiers : TipNullifier(m)' = TipNullifier(m)
      /\ \A m \in Nullifiers : ViewNullifier(m)' = IF m = n THEN spent ELSE ViewNullifier(m)
  BY <1>1, <1>2 DEF TypeOK, Cache, DbNullifier, TipNullifier, ViewNullifier
<1>7. UNCHANGED <<DiskState, TipState>>
  BY Zenon, <1>1, <1>6 DEF TypeOK, Cache, DiskState, TipState, ViewState, TipCoins, ViewCoins, DbAnchor, TipAnchor,
     ViewAnchor,
     TipBestBlock, TipBestAnchor, ViewBestBlock, ViewBestAnchor
<1>10. /\ \A x \in Txids : ViewCoins(x)' = ViewCoins(x)
       /\ \A r \in Roots : ViewAnchor(r)' = ViewAnchor(r)
       /\ ViewBestBlock' = ViewBestBlock
       /\ ViewBestAnchor' = ViewBestAnchor
  BY <1>1 DEF TypeOK, Cache, DiskState, TipState, ViewState, TipCoins, ViewCoins, DbAnchor, TipAnchor,
     ViewAnchor,
     TipBestBlock, TipBestAnchor, ViewBestBlock, ViewBestAnchor
<1>8. ASSUME spent = {"entered"} PROVE ViewState' = [ViewState EXCEPT !.nullifiers = @ \cup {n}]
  <2>1. {m \in Nullifiers : ViewNullifier(m) = {"entered"}}' = ViewState.nullifiers \cup {n}
    BY Zenon, <1>6, <1>8 DEF ViewState
  <2>2. /\ ViewState'.coins = ViewState.coins
        /\ ViewState'.nullifiers = ViewState.nullifiers \cup {n}
        /\ ViewState'.anchors = ViewState.anchors
        /\ ViewState'.block = ViewState.block
        /\ ViewState'.anchor = ViewState.anchor
    BY <1>10, <2>1 DEF ViewState
  <2> QED BY ZenonT(60), <2>2 DEF ViewState
<1>9. ASSUME spent = {} PROVE ViewState' = [ViewState EXCEPT !.nullifiers = @ \ {n}]
  <2>1. {m \in Nullifiers : ViewNullifier(m) = {"entered"}}' = ViewState.nullifiers \ {n}
    BY Zenon, <1>6, <1>9 DEF ViewState
  <2>2. /\ ViewState'.coins = ViewState.coins
        /\ ViewState'.nullifiers = ViewState.nullifiers \ {n}
        /\ ViewState'.anchors = ViewState.anchors
        /\ ViewState'.block = ViewState.block
        /\ ViewState'.anchor = ViewState.anchor
    BY <1>10, <2>1 DEF ViewState
  <2> QED BY ZenonT(60), <2>2 DEF ViewState
<1> QED BY <1>3, <1>4, <1>5, <1>7, <1>8, <1>9 DEF Abstract!Spend, Abstract!Unspend, Abstract!Change

(* A read of an anchor through pcoinsTip.                                  *)
LEMMA TipReadAnchorStep ==
    ASSUME TypeOK, KeysInv, StageInv, NEW r \in Roots, TipReadAnchor(r)
    PROVE  TypeOK' /\ KeysInv' /\ StageInv' /\ UNCHANGED <<DiskState, TipState, ViewState>>
<1> DEFINE t2 == FetchAnchor(tip.anchors[r], DbAnchor(r))
<1>1. /\ tip' = [tip EXCEPT !.anchors = [tip.anchors EXCEPT ![r] = t2]]
      /\ db' = db /\ view' = view /\ stage' = stage
  BY ZenonT(60) DEF TipReadAnchor
<1>2. /\ t2 \in AnchorEntry \cup {NONE}
      /\ AnchorOK(r, DbAnchor(r), t2, view.anchors[r])
      /\ LookupAnchor(t2, DbAnchor(r)) = TipAnchor(r)
  BY FetchesAnchor DEF KeysInv, TypeOK, Cache, TipAnchor
<1> HIDE DEF t2
<1>3. TypeOK'
  BY <1>1, <1>2 DEF TypeOK, Cache
<1>4. KeysInv'
  BY <1>1, <1>2 DEF TypeOK, Cache, KeysInv, DbNullifier, DbAnchor
<1>5. StageInv'
  BY <1>1 DEF TypeOK, Cache, TipReadAnchor, StageInv, TipBestBlock, TipBestAnchor
<1>6. \A a \in Roots : TipAnchor(a)' = TipAnchor(a) /\ ViewAnchor(a)' = ViewAnchor(a)
  BY <1>1, <1>2 DEF TypeOK, Cache, DbAnchor, TipAnchor, ViewAnchor
<1>7. UNCHANGED <<DiskState, TipState, ViewState>>
  BY Zenon, <1>1, <1>6 DEF TypeOK, Cache, DiskState, TipState, ViewState, TipCoins, ViewCoins, DbNullifier,
     TipNullifier,
     ViewNullifier, DbAnchor, TipBestBlock, TipBestAnchor, ViewBestBlock, ViewBestAnchor
<1> QED BY <1>3, <1>4, <1>5, <1>7

(* A read of an anchor through the view.                                   *)
LEMMA ViewReadAnchorStep ==
    ASSUME TypeOK, KeysInv, StageInv, NEW r \in Roots, ViewReadAnchor(r)
    PROVE  TypeOK' /\ KeysInv' /\ StageInv' /\ UNCHANGED <<DiskState, TipState, ViewState>>
<1> DEFINE t2 == FetchedBelow(view.anchors[r], tip.anchors[r], FetchAnchor(tip.anchors[r], DbAnchor(r)))
           v2 == FetchAnchor(view.anchors[r], TipAnchor(r))
<1>1. /\ tip' = [tip EXCEPT !.anchors = [tip.anchors EXCEPT ![r] = t2]]
      /\ view' = [view EXCEPT !.anchors = [view.anchors EXCEPT ![r] = v2]]
      /\ db' = db /\ stage' = stage
  BY Zenon DEF ViewReadAnchor
<1>2. /\ t2 \in AnchorEntry \cup {NONE}
      /\ v2 \in AnchorEntry \cup {NONE}
      /\ AnchorOK(r, DbAnchor(r), t2, v2)
      /\ LookupAnchor(t2, DbAnchor(r)) = TipAnchor(r)
      /\ LookupAnchor(v2, TipAnchor(r)) = ViewAnchor(r)
  <2>1. /\ tip.anchors[r] \in AnchorEntry \cup {NONE}
        /\ view.anchors[r] \in AnchorEntry \cup {NONE}
        /\ AnchorOK(r, DbAnchor(r), tip.anchors[r], view.anchors[r])
    BY DEF KeysInv, TypeOK, Cache
  <2> DEFINE w2 == FetchAnchor(view.anchors[r], LookupAnchor(tip.anchors[r], DbAnchor(r)))
  <2>2. /\ t2 \in AnchorEntry \cup {NONE}
        /\ w2 \in AnchorEntry \cup {NONE}
        /\ AnchorOK(r, DbAnchor(r), t2, w2)
    BY Zenon, FetchesAnchor, <2>1
  <2>3. /\ LookupAnchor(t2, DbAnchor(r)) = LookupAnchor(tip.anchors[r], DbAnchor(r))
        /\ LookupAnchor(w2, LookupAnchor(tip.anchors[r], DbAnchor(r)))
             = LookupAnchor(view.anchors[r], LookupAnchor(tip.anchors[r], DbAnchor(r)))
    BY ZenonT(60), FetchKeepsAnchors, <2>1
  <2>4. TipAnchor(r) = LookupAnchor(tip.anchors[r], DbAnchor(r))
    BY Zenon DEF TipAnchor
  <2>5. ViewAnchor(r) = LookupAnchor(view.anchors[r], TipAnchor(r))
    BY Zenon DEF ViewAnchor
  <2> QED BY Zenon, <2>2, <2>3, <2>4, <2>5
<1> HIDE DEF t2, v2
<1>3. TypeOK'
  BY Zenon, <1>1, <1>2 DEF TypeOK, Cache
<1>4. KeysInv'
  BY <1>1, <1>2 DEF TypeOK, Cache, KeysInv, DbNullifier, DbAnchor
<1>5. StageInv'
  BY <1>1 DEF TypeOK, Cache, ViewReadAnchor, Applying, StageInv, TipBestBlock, TipBestAnchor
<1>6. \A a \in Roots : TipAnchor(a)' = TipAnchor(a) /\ ViewAnchor(a)' = ViewAnchor(a)
  BY <1>1, <1>2 DEF TypeOK, Cache, DbAnchor, TipAnchor, ViewAnchor
<1>7. UNCHANGED <<DiskState, TipState, ViewState>>
  BY Zenon, <1>1, <1>6 DEF TypeOK, Cache, DiskState, TipState, ViewState, TipCoins, ViewCoins, DbNullifier,
     TipNullifier,
     ViewNullifier, DbAnchor, TipBestBlock, TipBestAnchor, ViewBestBlock, ViewBestAnchor
<1> QED BY <1>3, <1>4, <1>5, <1>7

(* The best anchor is known at every level.                                *)
LEMMA BestAnchorTyped ==
    ASSUME TypeOK
    PROVE  /\ TipBestAnchor \in Roots
           /\ ViewBestAnchor \in Roots
           /\ TipBestBlock \in BlockHashes \cup {NullHash}
           /\ NullHash \notin Roots
           /\ NullHash \notin BlockHashes
BY CoinsAssumption DEF CoinsAssumption, TypeOK, Database, Cache, TipBestAnchor, ViewBestAnchor, TipBestBlock,
   LookupHash

(* PushAnchor or PopAnchor of the anchor that is already the best one: the *)
(* caches remember it and show what they showed before.                    *)
LEMMA KeepAnchorStep ==
    ASSUME TypeOK, KeysInv, StageInv, Applying, UNCHANGED db, stage' = "anchored",
           tip' = TipWithBestAnchor, view' = [view EXCEPT !.hashAnchor = ViewBestAnchor]
    PROVE  TypeOK' /\ KeysInv' /\ StageInv' /\ UNCHANGED <<DiskState, TipState, ViewState>>
<1>1. /\ tip' = [tip EXCEPT !.hashAnchor = TipBestAnchor]
      /\ view' = [view EXCEPT !.hashAnchor = ViewBestAnchor]
      /\ db' = db /\ stage = "applying" /\ view.hashBlock # NullHash
  BY DEF TipWithBestAnchor, Applying
<1>2. TypeOK'
  BY <1>1, BestAnchorTyped DEF TypeOK, Cache
<1>3. KeysInv'
  BY <1>1 DEF TypeOK, Cache, KeysInv, DbNullifier, DbAnchor
<1>4. TipBestAnchor' = TipBestAnchor /\ ViewBestAnchor' = ViewBestAnchor /\ TipBestBlock' = TipBestBlock
  BY <1>1, BestAnchorTyped DEF TypeOK, Cache, TipBestAnchor, ViewBestAnchor, TipBestBlock, LookupHash
<1>5. StageInv'
  BY <1>1, <1>4, BestAnchorTyped DEF TypeOK, Cache, StageInv
<1>6. UNCHANGED <<DiskState, TipState, ViewState>>
  BY <1>1, <1>4 DEF TypeOK, Cache, DiskState, TipState, ViewState, TipCoins, ViewCoins, DbNullifier,
     TipNullifier,
     ViewNullifier, DbAnchor, TipAnchor, ViewAnchor, ViewBestBlock
<1> QED BY <1>2, <1>3, <1>5, <1>6

(* PushAnchor of a new anchor is Push of the abstract view.                *)
LEMMA PushAnchorStep ==
    ASSUME TypeOK, KeysInv, StageInv, OrderInv, NEW r \in Roots, PushAnchor(r), r # ViewBestAnchor
    PROVE  TypeOK' /\ KeysInv' /\ StageInv' /\ Abstract!Push(r)
<1>1. /\ tip' = [tip EXCEPT !.hashAnchor = TipBestAnchor]
      /\ view' = [view EXCEPT !.anchors = [view.anchors EXCEPT ![r] = Pushed(r)], !.hashAnchor = r]
      /\ db' = db /\ stage = "applying" /\ view.hashBlock # NullHash /\ stage' = "anchored"
      /\ Size[r] > Size[ViewBestAnchor]
  BY ZenonT(60) DEF TipWithBestAnchor, Applying, PushAnchor
<1>2. /\ Pushed(r) \in AnchorEntry
      /\ AnchorOK(r, DbAnchor(r), tip.anchors[r], Pushed(r))
      /\ LookupAnchor(Pushed(r), TipAnchor(r)) = r
  <2>1. Pushed(r) \in AnchorEntry /\ Pushed(r).tree = r /\ Pushed(r).flags = {"entered", "DIRTY"}
    BY DEF AnchorEntry, Pushed
  <2>2. Pushed(r) # NONE
    BY Zenon, <2>1, NoneApart
  <2>3. AnchorOK(r, DbAnchor(r), tip.anchors[r], Pushed(r))
    BY Zenon, <2>1 DEF KeysInv, AnchorOK
  <2> QED BY Zenon, <2>1, <2>2, <2>3 DEF LookupAnchor
<1>3. TypeOK'
  BY Zenon, <1>1, <1>2, BestAnchorTyped DEF TypeOK, Cache
<1>4. KeysInv'
  BY <1>1, <1>2 DEF TypeOK, Cache, KeysInv, DbNullifier, DbAnchor
<1>5. TipBestAnchor' = TipBestAnchor /\ ViewBestAnchor' = r /\ TipBestBlock' = TipBestBlock
  BY <1>1, BestAnchorTyped DEF TypeOK, Cache, TipBestAnchor, ViewBestAnchor, TipBestBlock, LookupHash
<1>6. StageInv'
  BY <1>1, <1>5, BestAnchorTyped DEF TypeOK, Cache, StageInv
<1>7. UNCHANGED <<DiskState, TipState>>
  BY <1>1, <1>5 DEF TypeOK, Cache, DiskState, TipState, TipCoins, DbNullifier, TipNullifier, DbAnchor,
     TipAnchor
<1>8. \A a \in Roots : ViewAnchor(a)' = IF a = r THEN r ELSE ViewAnchor(a)
  BY <1>1, <1>2 DEF TypeOK, Cache, DbAnchor, TipAnchor, ViewAnchor
<1>9. ViewState' = [ViewState EXCEPT !.anchors = @ \cup {r}, !.anchor = r]
  <2>1. {a \in Roots : ViewAnchor(a) # NONE}' = ViewState.anchors \cup {r}
    BY <1>8, NoneApart DEF ViewState
  <2>2. /\ \A x \in Txids : ViewCoins(x)' = ViewCoins(x)
        /\ \A n \in Nullifiers : ViewNullifier(n)' = ViewNullifier(n)
        /\ ViewBestBlock' = ViewBestBlock
    BY ZenonT(60), <1>1 DEF TypeOK, Cache, TipCoins, ViewCoins, DbNullifier, TipNullifier, ViewNullifier, ViewBestBlock,
       TipBestBlock
  <2>3. /\ ViewState'.coins = ViewState.coins
        /\ ViewState'.nullifiers = ViewState.nullifiers
        /\ ViewState'.anchors = ViewState.anchors \cup {r}
        /\ ViewState'.block = ViewState.block
        /\ ViewState'.anchor = r
    BY <2>1, <2>2, <1>5 DEF ViewState
  <2> QED BY ZenonT(60), <2>3 DEF ViewState
<1>10. \A a \in ViewState.anchors : Size[a] < Size[r]
  <2>1. ViewState.anchor = ViewBestAnchor
    BY DEF ViewState
  <2> QED BY <1>1, <2>1, CoinsAssumption, BestAnchorTyped DEF CoinsAssumption, OrderInv, Ordered
<1> QED BY <1>3, <1>4, <1>6, <1>7, <1>9, <1>10 DEF Abstract!Push, Abstract!Change

(* PopAnchor of the previous anchor is Pop of the abstract view.           *)
LEMMA PopAnchorStep ==
    ASSUME TypeOK, KeysInv, StageInv, OrderInv, NEW r \in Roots, PopAnchor(r), r # ViewBestAnchor
    PROVE  TypeOK' /\ KeysInv' /\ StageInv' /\ Abstract!Pop(r)
<1> DEFINE old == ViewBestAnchor
           t2 == FetchedBelow(view.anchors[old], tip.anchors[old], FetchAnchor(tip.anchors[old], DbAnchor(old)))
           v2 == [tree |-> ViewAnchor(old), flags |-> {"DIRTY"}]
<1>0. old \in Roots /\ ViewAnchor(old) = old
  <2>1. ViewAnchor(old) # NONE
    BY Zenon DEF OrderInv, Ordered, ViewState
  <2>2. AnchorOK(old, DbAnchor(old), tip.anchors[old], view.anchors[old])
    BY BestAnchorTyped DEF KeysInv
  <2> QED BY ZenonT(60), <2>1, <2>2, BestAnchorTyped DEF AnchorOK, ViewAnchor, TipAnchor, LookupAnchor
<1>1. /\ tip' = [tip EXCEPT !.anchors = [tip.anchors EXCEPT ![old] = t2], !.hashAnchor = TipBestAnchor]
      /\ view' = [view EXCEPT !.anchors = [view.anchors EXCEPT ![old] = v2], !.hashAnchor = r]
      /\ db' = db /\ stage = "applying" /\ view.hashBlock # NullHash /\ stage' = "anchored"
      /\ IsPreviousAnchor(r)
  BY Zenon DEF TipWithBestAnchor, Applying, PopAnchor, BestAnchorRead
<1>2. /\ t2 \in AnchorEntry \cup {NONE}
      /\ v2 \in AnchorEntry
      /\ AnchorOK(old, DbAnchor(old), t2, v2)
      /\ LookupAnchor(t2, DbAnchor(old)) = TipAnchor(old)
      /\ LookupAnchor(v2, TipAnchor(old)) = NONE
  <2>1. /\ tip.anchors[old] \in AnchorEntry \cup {NONE}
        /\ view.anchors[old] \in AnchorEntry \cup {NONE}
        /\ AnchorOK(old, DbAnchor(old), tip.anchors[old], view.anchors[old])
    BY ZenonT(60), <1>0 DEF KeysInv, TypeOK, Cache
  <2>2. /\ t2 \in AnchorEntry \cup {NONE}
        /\ AnchorOK(old, DbAnchor(old), t2, view.anchors[old])
        /\ LookupAnchor(t2, DbAnchor(old)) = TipAnchor(old)
    <3>1. t2 \in AnchorEntry \cup {NONE} /\ AnchorOK(old, DbAnchor(old), t2, view.anchors[old])
      BY ZenonT(60), <1>0, <2>1, FetchesAnchor
    <3>2. LookupAnchor(t2, DbAnchor(old)) = LookupAnchor(tip.anchors[old], DbAnchor(old))
      BY ZenonT(60), <1>0, <2>1, FetchKeepsAnchors
    <3> QED BY Zenon, <3>1, <3>2 DEF TipAnchor
  <2>3. v2 \in AnchorEntry /\ LookupAnchor(v2, TipAnchor(old)) = NONE
    BY <1>0, NoneApart DEF AnchorEntry, LookupAnchor
  <2> QED BY Zenon, <2>2, <2>3, <1>0 DEF AnchorOK
<1> HIDE DEF t2, v2
<1>3. TypeOK'
  BY Zenon, <1>1, <1>2, BestAnchorTyped DEF TypeOK, Cache
<1>4. KeysInv'
  BY <1>1, <1>2 DEF TypeOK, Cache, KeysInv, DbNullifier, DbAnchor
<1>5. TipBestAnchor' = TipBestAnchor /\ ViewBestAnchor' = r /\ TipBestBlock' = TipBestBlock
  BY SMTT(30), <1>1, BestAnchorTyped DEF TypeOK, Cache, TipBestAnchor, ViewBestAnchor, TipBestBlock, LookupHash
<1>6. StageInv'
  BY SMTT(30), <1>1, <1>5, BestAnchorTyped DEF TypeOK, Cache, StageInv
<1>7. \A a \in Roots : TipAnchor(a)' = TipAnchor(a) /\ ViewAnchor(a)' = IF a = old THEN NONE ELSE ViewAnchor(a)
  BY <1>0, <1>1, <1>2 DEF TypeOK, Cache, DbAnchor, TipAnchor, ViewAnchor
<1>8. UNCHANGED <<DiskState, TipState>>
  BY Zenon, <1>1, <1>5, <1>7 DEF TypeOK, Cache, DiskState, TipState, TipCoins, DbNullifier, TipNullifier, DbAnchor
<1>9. ViewState' = [ViewState EXCEPT !.anchors = @ \ {ViewState.anchor}, !.anchor = r]
  <2>1. {a \in Roots : ViewAnchor(a) # NONE}' = ViewState.anchors \ {ViewState.anchor}
    BY <1>7 DEF ViewState
  <2>2. /\ \A x \in Txids : ViewCoins(x)' = ViewCoins(x)
        /\ \A n \in Nullifiers : ViewNullifier(n)' = ViewNullifier(n)
        /\ ViewBestBlock' = ViewBestBlock
    BY ZenonT(60), <1>1 DEF TypeOK, Cache, TipCoins, ViewCoins, DbNullifier, TipNullifier, ViewNullifier, ViewBestBlock,
       TipBestBlock
  <2>3. /\ ViewState'.coins = ViewState.coins
        /\ ViewState'.nullifiers = ViewState.nullifiers
        /\ ViewState'.anchors = ViewState.anchors \ {ViewState.anchor}
        /\ ViewState'.block = ViewState.block
        /\ ViewState'.anchor = r
    BY <2>1, <2>2, <1>5 DEF ViewState
  <2> QED BY ZenonT(60), <2>3 DEF ViewState
<1>10. /\ r \in ViewState.anchors \ {ViewState.anchor}
       /\ \A a \in ViewState.anchors \ {ViewState.anchor} : Size[a] <= Size[r]
  BY <1>1 DEF IsPreviousAnchor, ViewState
<1> QED BY Zenon, <1>3, <1>4, <1>6, <1>8, <1>9, <1>10 DEF Abstract!Pop, Abstract!Change

(* Creating the view of a block changes no level.                          *)
LEMMA NewViewStep ==
    ASSUME TypeOK, KeysInv, StageInv, NewView
    PROVE  TypeOK' /\ KeysInv' /\ StageInv' /\ UNCHANGED <<DiskState, TipState, ViewState>>
<1>1. /\ tip' = [tip EXCEPT !.hashBlock = TipBestBlock]
      /\ view = NewCache
      /\ view' = [NewCache EXCEPT !.hashBlock = TipBestBlock]
      /\ db' = db /\ stage' = "applying"
  BY DEF NewView, StageInv
<1>2. TypeOK'
  BY <1>1, BestAnchorTyped DEF TypeOK, Cache
<1>3. KeysInv'
  BY <1>1 DEF TypeOK, Cache, KeysInv, DbNullifier, DbAnchor
<1>4. TipBestAnchor' = TipBestAnchor /\ TipBestBlock' = TipBestBlock
  BY <1>1, BestAnchorTyped DEF TypeOK, Cache, TipBestAnchor, TipBestBlock, LookupHash
<1>5. ViewBestAnchor' = ViewBestAnchor /\ ViewBestBlock' = ViewBestBlock
  BY <1>1, <1>4, BestAnchorTyped DEF NewCache, ViewBestAnchor, ViewBestBlock, LookupHash
<1>6. StageInv'
  BY <1>1, <1>4 DEF StageInv, NewCache
<1>7. UNCHANGED <<DiskState, TipState, ViewState>>
  BY SMTT(30), <1>1, <1>4, <1>5 DEF TypeOK, Cache, DiskState, TipState, ViewState, TipCoins, ViewCoins, DbNullifier,
     TipNullifier,
     ViewNullifier, DbAnchor, TipAnchor, ViewAnchor
<1> QED BY <1>2, <1>3, <1>6, <1>7

(* SetBestBlock is SetBestBlock of the abstract view.                      *)
LEMMA SetBestBlockStep ==
    ASSUME TypeOK, KeysInv, StageInv, NEW b \in BlockHashes, SetBestBlock(b)
    PROVE  TypeOK' /\ KeysInv' /\ StageInv' /\ Abstract!SetBestBlock(b)
<1>1. /\ view' = [view EXCEPT !.hashBlock = b]
      /\ db' = db /\ tip' = tip /\ stage' = "applied"
      /\ IF view.hashBlock = NullHash THEN stage = "applying" ELSE stage = "anchored"
  BY DEF SetBestBlock
<1>2. TypeOK'
  BY <1>1 DEF TypeOK, Cache
<1>3. KeysInv'
  BY <1>1 DEF TypeOK, Cache, KeysInv, DbNullifier, DbAnchor
<1>4. /\ TipBestAnchor' = TipBestAnchor /\ TipBestBlock' = TipBestBlock
      /\ ViewBestAnchor' = ViewBestAnchor /\ ViewBestBlock' = b
  BY <1>1, BestAnchorTyped DEF TypeOK, Cache, TipBestAnchor, TipBestBlock, ViewBestAnchor, ViewBestBlock,
     LookupHash
<1>5. StageInv'
  BY <1>1, <1>4, BestAnchorTyped DEF TypeOK, Cache, StageInv
<1>6. UNCHANGED <<DiskState, TipState>>
  BY <1>1, <1>4 DEF DiskState, TipState, TipCoins, DbNullifier, TipNullifier, DbAnchor, TipAnchor
<1>7. /\ \A x \in Txids : ViewCoins(x)' = ViewCoins(x)
      /\ \A n \in Nullifiers : ViewNullifier(n)' = ViewNullifier(n)
      /\ \A r \in Roots : ViewAnchor(r)' = ViewAnchor(r)
  BY ZenonT(60), <1>1 DEF TypeOK, Cache, TipCoins, ViewCoins, DbNullifier, TipNullifier, ViewNullifier, DbAnchor,
     TipAnchor, ViewAnchor
<1>8. /\ ViewState'.coins = ViewState.coins
      /\ ViewState'.nullifiers = ViewState.nullifiers
      /\ ViewState'.anchors = ViewState.anchors
      /\ ViewState'.block = b
      /\ ViewState'.anchor = ViewState.anchor
  BY <1>4, <1>7 DEF ViewState
<1>9. ViewState' = [ViewState EXCEPT !.block = b]
  BY Zenon, <1>8 DEF ViewState
<1> QED BY <1>2, <1>3, <1>5, <1>6, <1>9 DEF Abstract!SetBestBlock, Abstract!Change

(* A new cache shows what its base shows.                                  *)
LEMMA NewCacheShowsBase == view = NewCache => ViewState = TipState
<1> HAVE view = NewCache
<1> QED
  BY ZenonT(60) DEF NewCache, TipState, ViewState, ViewCoins, ViewNullifier, ViewAnchor, ViewBestBlock, ViewBestAnchor,
     LookupCoins, LookupNullifier, LookupAnchor, LookupHash

(* A new cache is well typed and keeps the invariant of every key.         *)
LEMMA NewCacheTyped == NewCache \in Cache
BY DEF NewCache, Cache

(* Dropping the view is Discard of the abstract view.                      *)
LEMMA DropViewStep ==
    ASSUME TypeOK, KeysInv, StageInv, DropView
    PROVE  TypeOK' /\ KeysInv' /\ StageInv' /\ Abstract!Discard
<1>1. view' = NewCache /\ db' = db /\ tip' = tip /\ stage' = "none"
  BY DEF DropView
<1>2. TypeOK'
  BY Zenon, <1>1, NewCacheTyped DEF TypeOK
<1>3. KeysInv'
  BY ZenonT(60), <1>1 DEF KeysInv, CoinsOK, NullifierOK, AnchorOK, DbNullifier, DbAnchor, NewCache
<1>4. TipBestAnchor' = TipBestAnchor /\ TipBestBlock' = TipBestBlock
  BY <1>1 DEF TipBestAnchor, TipBestBlock
<1>5. StageInv'
  BY Zenon, <1>1, <1>4 DEF StageInv
<1>6. UNCHANGED <<DiskState, TipState>>
  BY <1>1, <1>4 DEF DiskState, TipState, TipCoins, DbNullifier, TipNullifier, DbAnchor, TipAnchor
<1>7. ViewState' = TipState'
  <2>1. (view = NewCache => ViewState = TipState)'
    BY NewCacheShowsBase, PTL
  <2> QED BY <1>1, <2>1
<1> QED BY <1>2, <1>3, <1>5, <1>6, <1>7 DEF Abstract!Discard

(* A crash falls back on the database, as Crash of the abstract view.      *)
LEMMA CrashStep ==
    ASSUME TypeOK, KeysInv, StageInv, Crash
    PROVE  TypeOK' /\ KeysInv' /\ StageInv' /\ Abstract!Crash
<1>1. view' = NewCache /\ tip' = NewCache /\ db' = db /\ stage' = "none"
  BY DEF Crash
<1>2. TypeOK'
  BY Zenon, <1>1, NewCacheTyped DEF TypeOK
<1>3. KeysInv'
  BY Zenon, <1>1 DEF KeysInv, CoinsOK, NullifierOK, AnchorOK, DbNullifier, DbAnchor, NewCache
<1>4. TipBestAnchor' = db.hashAnchor /\ TipBestBlock' = db.hashBlock
  BY <1>1 DEF TipBestAnchor, TipBestBlock, NewCache, LookupHash
<1>5. StageInv'
  BY Zenon, <1>1, <1>4 DEF StageInv
<1>6. DiskState' = DiskState
  BY Zenon, <1>1 DEF DiskState, DbAnchor
<1>7. /\ \A x \in Txids : TipCoins(x)' = db.coins[x]
      /\ \A n \in Nullifiers : TipNullifier(n)' = DbNullifier(n)
      /\ \A r \in Roots : TipAnchor(r)' = DbAnchor(r)
  BY <1>1 DEF TipCoins, TipNullifier, TipAnchor, DbNullifier, DbAnchor, LookupCoins, LookupNullifier,
     LookupAnchor, NewCache
<1>8. {n \in Nullifiers : DbNullifier(n) = {"entered"}} = db.nullifiers
  BY DEF DbNullifier, TypeOK, Database
<1>9. TipState' = DiskState
  BY Zenon, <1>4, <1>7, <1>8 DEF TipState, DiskState
<1>10. ViewState' = TipState'
  <2>1. (view = NewCache => ViewState = TipState)'
    BY NewCacheShowsBase, PTL
  <2> QED BY <1>1, <2>1
<1> QED BY <1>2, <1>3, <1>5, <1>6, <1>9, <1>10 DEF Abstract!Crash

(* Flushing the view is Commit of the abstract view.                       *)
LEMMA FlushViewStep ==
    ASSUME TypeOK, KeysInv, StageInv, FlushView
    PROVE  TypeOK' /\ KeysInv' /\ StageInv' /\ Abstract!Commit
<1>1. /\ tip' = [coins      |-> [x \in Txids |-> WriteCoins(tip.coins[x], view.coins[x])],
                 nullifiers |-> [n \in Nullifiers |-> WriteNullifier(tip.nullifiers[n], view.nullifiers[n])],
                 anchors    |-> [r \in Roots |-> WriteAnchor(tip.anchors[r], view.anchors[r])],
                 hashBlock  |-> view.hashBlock,
                 hashAnchor |-> view.hashAnchor]
      /\ view' = NewCache /\ db' = db /\ stage = "applied" /\ stage' = "none"
  BY Zenon DEF FlushView
<1>2. ASSUME NEW x \in Txids
      PROVE  /\ tip'.coins[x] \in CoinsEntry \cup {NONE}
             /\ CoinsOK(db.coins[x], tip'.coins[x], NONE)
             /\ Unspent(TipCoins(x))' = Unspent(ViewCoins(x))
  <2>1. /\ db.coins[x] \in Coins \cup {NONE}
        /\ tip.coins[x] \in CoinsEntry \cup {NONE}
        /\ view.coins[x] \in CoinsEntry \cup {NONE}
        /\ CoinsOK(db.coins[x], tip.coins[x], view.coins[x])
    BY Zenon DEF KeysInv, TypeOK, Database, Cache
  <2>2. tip'.coins[x] = WriteCoins(tip.coins[x], view.coins[x])
    BY Zenon, <1>1
  <2>3. /\ tip'.coins[x] \in CoinsEntry \cup {NONE}
        /\ CoinsOK(db.coins[x], tip'.coins[x], NONE)
        /\ Unspent(LookupCoins(tip'.coins[x], db.coins[x])) = Unspent(ViewCoins(x))
    BY SMTT(60), <2>1, <2>2, TipTakesCoins DEF TipCoins, ViewCoins
  <2> QED BY Zenon, <1>1, <2>3 DEF TipCoins, Unspent
<1>3. ASSUME NEW n \in Nullifiers
      PROVE  /\ tip'.nullifiers[n] \in NullifierEntry \cup {NONE}
             /\ NullifierOK(DbNullifier(n), tip'.nullifiers[n], NONE)
             /\ TipNullifier(n)' = ViewNullifier(n)
  <2>1. /\ DbNullifier(n) \in {{"entered"}, {}}
        /\ tip.nullifiers[n] \in NullifierEntry \cup {NONE}
        /\ view.nullifiers[n] \in NullifierEntry \cup {NONE}
        /\ NullifierOK(DbNullifier(n), tip.nullifiers[n], view.nullifiers[n])
    BY Zenon DEF KeysInv, TypeOK, Cache, DbNullifier
  <2>2. tip'.nullifiers[n] = WriteNullifier(tip.nullifiers[n], view.nullifiers[n])
    BY <1>1
  <2>3. /\ tip'.nullifiers[n] \in NullifierEntry \cup {NONE}
        /\ NullifierOK(DbNullifier(n), tip'.nullifiers[n], NONE)
        /\ LookupNullifier(tip'.nullifiers[n], DbNullifier(n)) = ViewNullifier(n)
    BY ZenonT(60), <2>1, <2>2, TipTakesNullifier DEF TipNullifier, ViewNullifier
  <2> QED BY Zenon, <1>1, <2>3 DEF TipNullifier, DbNullifier
<1>4. ASSUME NEW r \in Roots
      PROVE  /\ tip'.anchors[r] \in AnchorEntry \cup {NONE}
             /\ AnchorOK(r, DbAnchor(r), tip'.anchors[r], NONE)
             /\ TipAnchor(r)' = ViewAnchor(r)
  <2>1. /\ tip.anchors[r] \in AnchorEntry \cup {NONE}
        /\ view.anchors[r] \in AnchorEntry \cup {NONE}
        /\ AnchorOK(r, DbAnchor(r), tip.anchors[r], view.anchors[r])
    BY DEF KeysInv, TypeOK, Cache
  <2>2. tip'.anchors[r] = WriteAnchor(tip.anchors[r], view.anchors[r])
    BY <1>1
  <2>3. /\ tip'.anchors[r] \in AnchorEntry \cup {NONE}
        /\ AnchorOK(r, DbAnchor(r), tip'.anchors[r], NONE)
        /\ LookupAnchor(tip'.anchors[r], DbAnchor(r)) = ViewAnchor(r)
    BY <2>1, <2>2, TipTakesAnchor DEF TipAnchor, ViewAnchor
  <2> QED BY <1>1, <2>3 DEF TipAnchor, DbAnchor
<1>5. TypeOK'
  BY Zenon, <1>1, <1>2, <1>3, <1>4, NewCacheTyped DEF TypeOK, Cache
<1>6. KeysInv'
  BY Zenon, <1>1, <1>2, <1>3, <1>4 DEF KeysInv, DbNullifier, DbAnchor, NewCache
<1>7. TipBestAnchor' = ViewBestAnchor /\ TipBestBlock' = ViewBestBlock /\ TipBestBlock' # NullHash
  BY ZenonT(60), <1>1 DEF StageInv, TipBestAnchor, TipBestBlock, ViewBestAnchor, ViewBestBlock, LookupHash
<1>8. StageInv'
  BY <1>1, <1>7 DEF StageInv
<1>9. TipState' = ViewState
  <2>1. [x \in Txids |-> Unspent(TipCoins(x))]' = [x \in Txids |-> Unspent(ViewCoins(x))]
    BY <1>2
  <2>2. {n \in Nullifiers : TipNullifier(n) = {"entered"}}' = {n \in Nullifiers : ViewNullifier(n) = {"entered"}}
    BY <1>3
  <2>3. {r \in Roots : TipAnchor(r) # NONE}' = {r \in Roots : ViewAnchor(r) # NONE}
    BY Zenon, <1>4
  <2> QED BY ZenonT(60), <1>7, <2>1, <2>2, <2>3 DEF TipState, ViewState
<1>10. DiskState' = DiskState
  BY ZenonT(60), <1>1 DEF DiskState, DbAnchor
<1>11. ViewState' = TipState'
  <2>1. (view = NewCache => ViewState = TipState)'
    BY NewCacheShowsBase, PTL
  <2> QED BY <1>1, <2>1
<1> QED BY Zenon, <1>5, <1>6, <1>8, <1>9, <1>10, <1>11 DEF Abstract!Commit

(* Flushing pcoinsTip is Sync of the abstract view.                        *)
LEMMA FlushTipStep ==
    ASSUME TypeOK, KeysInv, StageInv, OrderInv, FlushTip
    PROVE  TypeOK' /\ KeysInv' /\ StageInv' /\ Abstract!Sync
<1>1. /\ db' = [coins      |-> [x \in Txids |-> StoredCoins(db.coins[x], tip.coins[x])],
                nullifiers |-> StoredNullifiers,
                anchors    |-> [r \in Roots |-> StoredAnchor(db.anchors[r], tip.anchors[r])],
                hashBlock  |-> TipBestBlock,
                hashAnchor |-> TipBestAnchor]
      /\ tip' = [NewCache EXCEPT !.hashBlock = tip.hashBlock, !.hashAnchor = tip.hashAnchor]
      /\ view = NewCache /\ view' = NewCache /\ stage' = "none"
  BY ZenonT(60) DEF FlushTip, StageInv
<1>2. ASSUME NEW x \in Txids
      PROVE  db'.coins[x] \in Coins \cup {NONE} /\ Unspent(db'.coins[x]) = Unspent(TipCoins(x))
  <2>1. /\ db.coins[x] \in Coins \cup {NONE}
        /\ tip.coins[x] \in CoinsEntry \cup {NONE}
        /\ CoinsOK(db.coins[x], tip.coins[x], NONE)
    BY Zenon DEF KeysInv, CoinsOK, TypeOK, Database, Cache
  <2>2. db'.coins[x] = StoredCoins(db.coins[x], tip.coins[x])
    BY <1>1
  <2> QED BY <2>1, <2>2, DbTakesCoins DEF TipCoins
<1>3. db'.nullifiers = {n \in Nullifiers : TipNullifier(n) = {"entered"}}
  <2>1. ASSUME NEW n \in Nullifiers
        PROVE  n \in StoredNullifiers <=> TipNullifier(n) = {"entered"}
    <3>1. /\ tip.nullifiers[n] \in NullifierEntry \cup {NONE}
          /\ NullifierOK(DbNullifier(n), tip.nullifiers[n], view.nullifiers[n])
      BY DEF KeysInv, TypeOK, Cache
    <3> QED BY SMTT(60), <3>1 DEF NullifierOK, StoredNullifiers, TipNullifier, DbNullifier, LookupNullifier,
       NullifierEntry
  <2>2. StoredNullifiers \subseteq Nullifiers
    BY DEF StoredNullifiers
  <2> QED BY Zenon, <1>1, <2>1, <2>2
<1>4. ASSUME NEW r \in Roots
      PROVE  db'.anchors[r] \in Roots \cup {NONE} /\ DbAnchor(r)' = TipAnchor(r) /\ TipAnchor(r) \in {r, NONE}
  <2>1. /\ tip.anchors[r] \in AnchorEntry \cup {NONE}
        /\ db.anchors[r] \in Roots \cup {NONE}
        /\ AnchorOK(r, DbAnchor(r), tip.anchors[r], view.anchors[r])
    BY DEF KeysInv, TypeOK, Database, Cache
  <2>2. db'.anchors[r] = StoredAnchor(db.anchors[r], tip.anchors[r])
    BY SMTT(60), <1>1
  <2>3. r = EmptyRoot => TipAnchor(r) # NONE
    BY ZenonT(60) DEF OrderInv, Ordered, TipState
  <2>4. TipAnchor(r) \in {r, NONE}
    BY Zenon, <2>1 DEF AnchorOK, TipAnchor, LookupAnchor
  <2>5. db'.anchors[r] \in Roots \cup {NONE}
    BY ZenonT(60), <2>1, <2>2 DEF AnchorOK, StoredAnchor
  <2>6. r # EmptyRoot => db'.anchors[r] = TipAnchor(r)
    BY <2>1, <2>2 DEF AnchorOK, StoredAnchor, TipAnchor, DbAnchor, LookupAnchor
  <2>7. DbAnchor(r)' = IF r = EmptyRoot THEN EmptyRoot ELSE db'.anchors[r]
    BY DEF DbAnchor
  <2> QED BY ZenonT(60), <2>3, <2>4, <2>5, <2>6, <2>7
<1>5. TypeOK'
  <2>1. db' \in Database
    BY <1>1, <1>2, <1>3, <1>4, BestAnchorTyped DEF Database
  <2>2. tip' \in Cache
    BY Zenon, <1>1, NewCacheTyped DEF TypeOK, Cache, NewCache
  <2> QED BY <1>1, <2>1, <2>2, NewCacheTyped DEF TypeOK
<1>6. KeysInv'
  BY <1>1, <1>4 DEF KeysInv, CoinsOK, NullifierOK, AnchorOK, NewCache
<1>7. TipBestAnchor' = TipBestAnchor /\ TipBestBlock' = TipBestBlock
  BY <1>1 DEF TipBestAnchor, TipBestBlock, LookupHash, NewCache
<1>8. StageInv'
  BY <1>1, <1>7 DEF StageInv
<1>9. DiskState' = TipState
  <2>1. [x \in Txids |-> Unspent(db.coins[x])]' = [x \in Txids |-> Unspent(TipCoins(x))]
    BY <1>2 DEF Unspent
  <2>2. {r \in Roots : DbAnchor(r) # NONE}' = {r \in Roots : TipAnchor(r) # NONE}
    BY <1>4
  <2>3. db'.hashBlock = TipBestBlock /\ db'.hashAnchor = TipBestAnchor
    BY <1>1
  <2> QED BY Zenon, <1>3, <2>1, <2>2, <2>3 DEF DiskState, TipState
<1>10. TipState' = DiskState'
  <2>1. /\ \A x \in Txids : TipCoins(x)' = db'.coins[x]
        /\ \A n \in Nullifiers : TipNullifier(n)' = DbNullifier(n)'
        /\ \A r \in Roots : TipAnchor(r)' = DbAnchor(r)'
    BY <1>1 DEF TipCoins, TipNullifier, TipAnchor, LookupCoins, LookupNullifier, LookupAnchor, NewCache
  <2>2. {n \in Nullifiers : DbNullifier(n) = {"entered"}}' = db'.nullifiers
    BY <1>3 DEF DbNullifier
  <2>3. db'.hashBlock = TipBestBlock' /\ db'.hashAnchor = TipBestAnchor'
    BY <1>1, <1>7
  <2> QED BY Zenon, <2>1, <2>2, <2>3 DEF TipState, DiskState
<1>11. ViewState = TipState /\ ViewState' = TipState'
  <2>1. (view = NewCache => ViewState = TipState)'
    BY NewCacheShowsBase, PTL
  <2> QED BY <1>1, <2>1, NewCacheShowsBase
<1> QED BY <1>5, <1>6, <1>8, <1>9, <1>10, <1>11 DEF Abstract!Sync

------------------------------------------------------------------------------
(* Together.                                                               *)

IInv == TypeOK /\ KeysInv /\ StageInv /\ OrderInv

(* The caches start out empty above an empty database.                     *)
LEMMA InitOK == Init => IInv /\ Abstract!Init
<1> SUFFICES ASSUME Init PROVE IInv /\ Abstract!Init
  BY ZenonT(60)
<1>1. TypeOK
  BY Zenon, NewCacheTyped, CoinsAssumption DEF CoinsAssumption, Init, TypeOK, Database
<1>2. KeysInv
  BY Zenon, CoinsAssumption DEF CoinsAssumption, Init, KeysInv, CoinsOK, NullifierOK, AnchorOK, NewCache, DbAnchor
<1>3. StageInv
  BY Zenon DEF Init, StageInv, TipBestAnchor, LookupHash, NewCache
<1>4. /\ \A x \in Txids : TipCoins(x) = NONE /\ db.coins[x] = NONE
      /\ \A n \in Nullifiers : TipNullifier(n) = {}
      /\ \A r \in Roots : DbAnchor(r) = (IF r = EmptyRoot THEN EmptyRoot ELSE NONE) /\ TipAnchor(r) = DbAnchor(r)
      /\ TipBestBlock = NullHash /\ TipBestAnchor = EmptyRoot
  BY SMTT(60) DEF Init, NewCache, TipCoins, TipNullifier, DbNullifier, TipAnchor, DbAnchor, TipBestBlock,
     TipBestAnchor,
     LookupCoins, LookupNullifier, LookupAnchor, LookupHash
<1>5. {r \in Roots : DbAnchor(r) # NONE} = {EmptyRoot} /\ {r \in Roots : TipAnchor(r) # NONE} = {EmptyRoot}
  BY <1>4, CoinsAssumption DEF CoinsAssumption
<1>6. {n \in Nullifiers : TipNullifier(n) = {"entered"}} = {}
  BY Zenon, <1>4
<1>7. TipState = [coins |-> [x \in Txids |-> Pruned], nullifiers |-> {}, anchors |-> {EmptyRoot},
                  block |-> NullHash, anchor |-> EmptyRoot]
  BY Zenon, <1>4, <1>5, <1>6 DEF TipState, Unspent
<1>8. DiskState = TipState
  BY ZenonT(60), <1>4, <1>5, <1>7 DEF Init, DiskState, Unspent
<1>9. ViewState = TipState
  BY ZenonT(60), NewCacheShowsBase DEF Init
<1>10. Ordered(TipState)
  BY <1>7, CoinsAssumption DEF CoinsAssumption, Ordered
<1> QED BY <1>1, <1>2, <1>3, <1>7, <1>8, <1>9, <1>10 DEF IInv, OrderInv, Abstract!Init

(* Every step keeps the invariant and is a step of CoinsSpec or changes no *)
(* level at all.                                                           *)
LEMMA NextOK ==
    ASSUME IInv, [Next]_vars
    PROVE  IInv' /\ [Abstract!Next]_(Abstract!vars)
<1> DEFINE Good == TypeOK' /\ KeysInv' /\ StageInv' /\ [Abstract!Next]_(Abstract!vars)
<1> USE DEF IInv
<1>1. ASSUME NEW x \in Txids, TipReadCoins(x) \/ ViewReadCoins(x) PROVE Good
  BY <1>1, TipReadCoinsStep, ViewReadCoinsStep DEF Abstract!vars
<1>2. ASSUME NEW n \in Nullifiers, TipReadNullifier(n) \/ ViewReadNullifier(n) PROVE Good
  BY <1>2, TipReadNullifierStep, ViewReadNullifierStep DEF Abstract!vars
<1>3. ASSUME NEW r \in Roots, TipReadAnchor(r) \/ ViewReadAnchor(r) PROVE Good
  BY <1>3, TipReadAnchorStep, ViewReadAnchorStep DEF Abstract!vars
<1>4. ASSUME NEW r \in Roots, PushAnchor(r) PROVE Good
  <2>1. CASE r = ViewBestAnchor
    <3>1. /\ Applying /\ UNCHANGED db /\ stage' = "anchored"
          /\ tip' = TipWithBestAnchor /\ view' = [view EXCEPT !.hashAnchor = ViewBestAnchor]
      BY <1>4, <2>1 DEF PushAnchor
    <3> QED BY <3>1, KeepAnchorStep DEF Abstract!vars
  <2>2. CASE r # ViewBestAnchor
    BY <1>4, <2>2, PushAnchorStep DEF Abstract!Next
  <2> QED BY <2>1, <2>2
<1>5. ASSUME NEW r \in Roots, PopAnchor(r) PROVE Good
  <2>1. CASE r = ViewBestAnchor
    <3>1. /\ Applying /\ UNCHANGED db /\ stage' = "anchored"
          /\ tip' = TipWithBestAnchor /\ view' = [view EXCEPT !.hashAnchor = ViewBestAnchor]
      BY <1>5, <2>1 DEF PopAnchor
    <3> QED BY <3>1, KeepAnchorStep DEF Abstract!vars
  <2>2. CASE r # ViewBestAnchor
    BY <1>5, <2>2, PopAnchorStep DEF Abstract!Next
  <2> QED BY <2>1, <2>2
<1>6. ASSUME NEW x \in Txids, NEW c \in Coins \cup {Pruned}, ModifyCoins(x, c) PROVE Good
  BY <1>6, ModifyCoinsStep DEF Abstract!Next
<1>7. ASSUME NEW n \in Nullifiers, NEW spent \in {{"entered"}, {}}, SetNullifier(n, spent) PROVE Good
  BY ZenonT(60), <1>7, SetNullifierStep DEF Abstract!Next
<1>8. ASSUME NEW b \in BlockHashes, SetBestBlock(b) PROVE Good
  BY <1>8, SetBestBlockStep DEF Abstract!Next
<1>9. ASSUME NewView PROVE Good
  BY <1>9, NewViewStep DEF Abstract!vars
<1>10. ASSUME FlushView PROVE Good
  BY <1>10, FlushViewStep DEF Abstract!Next
<1>11. ASSUME DropView PROVE Good
  BY <1>11, DropViewStep DEF Abstract!Next
<1>12. ASSUME FlushTip PROVE Good
  BY <1>12, FlushTipStep DEF Abstract!Next
<1>13. ASSUME Crash PROVE Good
  BY <1>13, CrashStep DEF Abstract!Next
<1>14. ASSUME UNCHANGED vars PROVE Good
  <2>1. db' = db /\ tip' = tip /\ view' = view /\ stage' = stage
    BY ZenonT(60), <1>14 DEF vars
  <2>2. TypeOK' /\ KeysInv' /\ StageInv'
    BY ZenonT(60), <2>1 DEF TypeOK, KeysInv, StageInv, DbNullifier, DbAnchor, TipBestAnchor, TipBestBlock
  <2>3. UNCHANGED <<DiskState, TipState, ViewState>>
    BY Zenon, <2>1 DEF DiskState, TipState, ViewState, TipCoins, ViewCoins, DbNullifier, TipNullifier, ViewNullifier,
       DbAnchor, TipAnchor, ViewAnchor, TipBestBlock, TipBestAnchor, ViewBestBlock, ViewBestAnchor
  <2> QED BY <2>2, <2>3 DEF Abstract!vars
<1>15. Good
  <2> HIDE DEF Good, IInv
  <2> QED BY SMTT(30), <1>1, <1>2, <1>3, <1>4, <1>5, <1>6, <1>7, <1>8, <1>9, <1>10, <1>11, <1>12, <1>13, <1>14 DEF Next
<1>16. OrderInv'
  BY <1>15, OrderKept
<1> QED BY <1>15, <1>16

(* The invariant holds of every state of every behaviour.                  *)
LEMMA Invariant == Spec => []IInv
<1>1. IInv /\ [Next]_vars => IInv'
  BY NextOK
<1> QED BY InitOK, <1>1, PTL DEF Spec

(* The caches and the database keep their types: no missing anchor is ever *)
(* cached as a tree, no pruned coins reach the database.                   *)
THEOREM TypeCorrect == Spec => []TypeOK
BY Invariant, PTL DEF IInv

(* The assertion of BatchWrite never fails (coins.cpp:284).                *)
THEOREM FreshTheorem == Spec => []FreshWhenMovedUp
<1>1. IInv => FreshWhenMovedUp
  BY DEF IInv, KeysInv, CoinsOK, FreshWhenMovedUp
<1> QED BY Invariant, <1>1, PTL

(* DIRTY and FRESH mean what coins.h says.                                 *)
THEOREM FlagsTheorem == Spec => []FlagsTruthful
<1>1. ASSUME IInv PROVE FlagsTruthful
  <2>1. ASSUME NEW x \in Txids
        PROVE  /\ tip.coins[x] # NONE =>
                     /\ "DIRTY" \notin tip.coins[x].flags => tip.coins[x].coins = db.coins[x]
                     /\ "FRESH" \in tip.coins[x].flags => db.coins[x] = NONE
               /\ view.coins[x] # NONE =>
                     /\ "DIRTY" \notin view.coins[x].flags => view.coins[x].coins = TipCoins(x)
                     /\ "FRESH" \in view.coins[x].flags => TipCoins(x) \in {NONE, Pruned}
    BY Zenon, <1>1 DEF IInv, KeysInv, CoinsOK, TipCoins
  <2>2. ASSUME NEW n \in Nullifiers
        PROVE  /\ tip.nullifiers[n] # NONE /\ "DIRTY" \notin tip.nullifiers[n] => tip.nullifiers[n] = DbNullifier(n)
               /\ view.nullifiers[n] # NONE /\ "DIRTY" \notin view.nullifiers[n] => view.nullifiers[n] = TipNullifier(n)
    BY Zenon, <1>1 DEF IInv, KeysInv, NullifierOK, TipNullifier
  <2>3. ASSUME NEW r \in Roots
        PROVE  /\ tip.anchors[r] # NONE /\ "DIRTY" \notin tip.anchors[r].flags =>
                     TipAnchor(r) = DbAnchor(r) /\ DbAnchor(r) # NONE
               /\ view.anchors[r] # NONE /\ "DIRTY" \notin view.anchors[r].flags =>
                     ViewAnchor(r) = TipAnchor(r) /\ TipAnchor(r) # NONE
    <3>1. AnchorOK(r, DbAnchor(r), tip.anchors[r], view.anchors[r])
      BY ZenonT(60), <1>1 DEF IInv, KeysInv
    <3> QED BY Zenon, <3>1, NoneApart DEF AnchorOK, TipAnchor, ViewAnchor, LookupAnchor
  <2> QED BY Zenon, <2>1, <2>2, <2>3 DEF FlagsTruthful
<1> QED BY Invariant, <1>1, PTL

(* GetAnchorAt returns the tree of the root it is asked for.               *)
THEOREM TreesTheorem == Spec => []TreesExact
<1>1. IInv => TreesExact
  BY ZenonT(60) DEF IInv, KeysInv, AnchorOK, TreesExact, TipAnchor, ViewAnchor, LookupAnchor
<1> QED BY Invariant, <1>1, PTL

(* The tree of the best anchor can be read at every level.                 *)
THEOREM BestAnchorTheorem == Spec => []BestAnchorHeld
<1>1. IInv => BestAnchorHeld
  BY Zenon DEF IInv, OrderInv, Ordered, DiskState, TipState, ViewState, BestAnchorHeld
<1> QED BY Invariant, <1>1, PTL

(* The caches implement CoinsSpec.                                         *)
THEOREM Refinement == Spec => CachesTransparent
<1>1. IInv /\ [Next]_vars => [Abstract!Next]_(Abstract!vars)
  BY NextOK
<1> QED BY InitOK, Invariant, <1>1, PTL DEF Spec, CachesTransparent, Abstract!Spec

------------------------------------------------------------------------------
(* The queue of script checks. *)

\* The places a thread can be in
Labels == {"none", "open", "top", "locked", "wait", "woken", "work"}

AllTrue(s) == \A i \in 1 .. Len(s) : s[i]

CheckTypeOK ==
    /\ queue \in Seq(BOOLEAN) /\ added \in Seq(BOOLEAN)
    /\ nIdle \in Int /\ nTotal \in Int /\ nTodo \in Int
    /\ fAllOk \in BOOLEAN /\ result \in BOOLEAN
    /\ pc \in [Threads -> Labels]
    /\ vChecks \in [Threads -> Seq(BOOLEAN)]
    /\ fOk \in [Threads -> BOOLEAN]

\* One thread at a time is in the critical section, and a thread that is not
\* evaluating a batch, or about to account for one, holds none.
Places ==
    /\ \A t, u \in Threads : pc[t] = "locked" /\ pc[u] = "locked" => t = u
    /\ \A t \in Threads : /\ vChecks[t] # <<>> => pc[t] \in {"work", "top"}
                          /\ pc[t] = "work" => vChecks[t] # <<>>
    /\ \A t \in Workers : pc[t] \notin {"none", "open"}

\* The checks in the batches of all threads
HeldIn(batches) == UNION {{t} \X (1 .. Len(batches[t])) : t \in Threads}
Held == HeldIn(vChecks)

Idle == {t \in Threads : pc[t] \in {"wait", "woken"}}
Registered ==
    {t \in Threads : pc[t] \in {"locked", "wait", "woken", "work"} \/ (pc[t] = "top" /\ vChecks[t] # <<>>)}

\* The counters count what their comments say.
Counters ==
    /\ IsFiniteSet(Held) /\ nTodo = Len(queue) + Cardinality(Held)
    /\ nIdle = Cardinality(Idle) /\ nTotal = Cardinality(Registered)

\* The outcomes that are in a thread's batch or, once evaluated, in its fOk,
\* and all that Wait() has not returned yet
BatchOk(t) ==
    /\ pc[t] = "work" => AllTrue(vChecks[t])
    /\ pc[t] = "top" /\ vChecks[t] # <<>> => fOk[t]
Pending == fAllOk /\ AllTrue(queue) /\ \A t \in Threads : BatchOk(t)

\* No outcome is lost.  A thread that skips its batch does so because another
\* outcome made fAllOk false.
Outcomes ==
    /\ \A t \in Threads : pc[t] = "work" => fOk[t] \/ ~fAllOk
    /\ pc[Master] # "none" => (AllTrue(added) <=> Pending)
    /\ pc[Master] = "none" => nTodo = 0 /\ fAllOk /\ (result <=> AllTrue(added))

Inv == CheckTypeOK /\ Places /\ Counters /\ Outcomes

-----------------------------------------------------------------------------
(* Batches *)

\* The batch a thread takes is not empty and not longer than the queue: the
\* std::max and std::min of Loop() keep nNow in range.
LEMMA BatchInRange ==
    ASSUME CheckTypeOK, nTotal >= 0, nIdle >= 0, queue # <<>>
    PROVE  nNow \in 1 .. Len(queue)
<1> DEFINE d == Len(queue) \div (nTotal + nIdle + 1)
<1>1. Len(queue) \in Nat \ {0}
  BY EmptySeq, LenProperties DEF CheckTypeOK
<1>2. d \in Nat /\ d <= Len(queue)
  <2>1. nTotal + nIdle + 1 \in Nat \ {0}
    BY DEF CheckTypeOK
  <2>2. \A k, l \in Nat \ {0} : l \div k \in Nat /\ l \div k <= l
    OBVIOUS
  <2> QED BY <1>1, <2>1, <2>2
<1> HIDE DEF d
<1>3. \A a, b \in Int : Min({a, b}) \in {a, b} /\ Min({a, b}) <= a /\ Min({a, b}) <= b
  <2> TAKE a, b \in Int
  <2>1. \E x \in {a, b} : \A y \in {a, b} : x =< y
    OBVIOUS
  <2> QED BY Zenon, <2>1 DEF Min
<1>4. \A a, b \in Int : Max({a, b}) \in {a, b} /\ Max({a, b}) >= a /\ Max({a, b}) >= b
  <2> TAKE a, b \in Int
  <2>1. \E x \in {a, b} : \A y \in {a, b} : x >= y
    OBVIOUS
  <2> QED BY ZenonT(60), <2>1 DEF Max
<1> DEFINE m == Min({nBatchSize, d})
<1>5. m \in Int /\ m <= d
  <2>1. nBatchSize \in Int
    BY CheckQueueAssumption
  <2>2. d \in Int
    BY <1>2
  <2> QED BY Zenon, <1>3, <2>1, <2>2
<1> HIDE DEF m
<1>6. Max({1, m}) \in {1, m} /\ Max({1, m}) >= 1
  <2>1. 1 \in Int
    OBVIOUS
  <2> QED BY <2>1, <1>4, <1>5, Zenon
<1>7. nNow = Max({1, m})
  BY DEF nNow, m, d
<1> QED BY SMTT(30), <1>1, <1>2, <1>5, <1>6, <1>7

\* A thread that had no batch and takes s adds Len(s) checks to those held.
LEMMA HeldGrows ==
    ASSUME NEW f \in [Threads -> Seq(BOOLEAN)], NEW t \in Threads, NEW s \in Seq(BOOLEAN),
           f[t] = <<>>, IsFiniteSet(HeldIn(f))
    PROVE  /\ IsFiniteSet(HeldIn([f EXCEPT ![t] = s]))
           /\ Cardinality(HeldIn([f EXCEPT ![t] = s])) = Cardinality(HeldIn(f)) + Len(s)
<1> DEFINE g == [f EXCEPT ![t] = s]
           S == {t} \X (1 .. Len(s))
<1>1. Len(s) \in Nat
  BY LenProperties
<1>2. IsFiniteSet(S) /\ Cardinality(S) = Len(s)
  <2>1. IsFiniteSet({t}) /\ Cardinality({t}) = 1
    BY Zenon, FS_Singleton
  <2>2. IsFiniteSet(1 .. Len(s)) /\ Cardinality(1 .. Len(s)) = Len(s)
    <3>1. 1 \in Int /\ Len(s) \in Int
      BY <1>1
    <3>2. IsFiniteSet(1 .. Len(s)) /\ Cardinality(1 .. Len(s)) = IF 1 > Len(s) THEN 0 ELSE Len(s) - 1 + 1
      BY <3>1, FS_Interval, Zenon
    <3> QED BY <1>1, <3>2
  <2> DEFINE n == Len(s)
             T == 1 .. n
  <2> HIDE DEF n, T
  <2>3. IsFiniteSet({t} \X T) /\ Cardinality({t} \X T) = Cardinality({t}) * Cardinality(T)
    BY <2>1, <2>2, FS_Product, Zenon DEF n, T
  <2>4. Cardinality({t} \X T) = 1 * n
    BY <2>1, <2>2, <2>3, Zenon DEF n, T
  <2>5. n \in Nat
    BY SMTT(30), <1>1 DEF n
  <2>6. Cardinality({t} \X T) = n
    BY SMTT(30), <2>4, <2>5
  <2> QED BY Zenon, <2>3, <2>6 DEF n, T
<1>3. HeldIn(g) = HeldIn(f) \cup S
  <2>1. \A u \in Threads \ {t} : g[u] = f[u]
    OBVIOUS
  <2>2. g[t] = s
    OBVIOUS
  <2>3. 1 .. Len(f[t]) = {}
    OBVIOUS
  <2> HIDE DEF g
  <2>4. ASSUME NEW x \in HeldIn(g) PROVE x \in HeldIn(f) \cup S
    <3>1. PICK u \in Threads : x \in {u} \X (1 .. Len(g[u]))
      BY <2>4, Zenon DEF HeldIn
    <3>2. CASE u = t
      BY <3>1, <3>2, <2>2, Zenon
    <3>3. CASE u # t
      BY <3>1, <3>3, <2>1, Zenon DEF HeldIn
    <3> QED BY <3>2, <3>3, Zenon
  <2>5. ASSUME NEW x \in HeldIn(f) PROVE x \in HeldIn(g)
    <3>1. PICK u \in Threads : x \in {u} \X (1 .. Len(f[u]))
      BY <2>5, Zenon DEF HeldIn
    <3>2. u # t
      <4>1. ASSUME u = t PROVE FALSE
        <5>1. x[2] \in 1 .. Len(f[t])
          BY <3>1, <4>1
        <5> QED BY <5>1, <2>3, Zenon
      <4> QED BY <4>1, Zenon
    <3> QED BY <3>1, <3>2, <2>1, Zenon DEF HeldIn
  <2>6. S \subseteq HeldIn(g)
    BY <2>2, Zenon DEF HeldIn
  <2> QED BY <2>4, <2>5, <2>6, Zenon
<1>4. HeldIn(f) \cap S = {}
  <2>1. ASSUME NEW x \in HeldIn(f), x \in S PROVE FALSE
    <3>1. PICK u \in Threads : x \in {u} \X (1 .. Len(f[u]))
      BY <2>1 DEF HeldIn
    <3>2. x[1] = u /\ x[1] = t /\ x[2] \in 1 .. Len(f[u])
      BY <2>1, <3>1
    <3> QED BY <3>2
  <2> QED BY <2>1
<1>5. Cardinality(HeldIn(f) \cap S) = 0
  BY Zenon, <1>4, FS_EmptySet
<1>6. Cardinality(HeldIn(f)) \in Nat
  BY FS_CardinalityType
<1> HIDE DEF S
<1>7. IsFiniteSet(HeldIn(f) \cup S) /\ Cardinality(HeldIn(f) \cup S) = Cardinality(HeldIn(f)) + Cardinality(S) - Cardinality(HeldIn(f) \cap S)
  BY Zenon, <1>2, FS_Union
<1>8. Cardinality(HeldIn(f) \cup S) = Cardinality(HeldIn(f)) + Len(s)
  BY <1>1, <1>2, <1>5, <1>6, <1>7
<1> QED BY <1>3, <1>7, <1>8, Zenon

\* A thread that gives its batch up takes its checks from those held.
LEMMA HeldShrinks ==
    ASSUME NEW f \in [Threads -> Seq(BOOLEAN)], NEW t \in Threads, IsFiniteSet(HeldIn(f))
    PROVE  /\ IsFiniteSet(HeldIn([f EXCEPT ![t] = <<>>]))
           /\ Cardinality(HeldIn(f)) = Cardinality(HeldIn([f EXCEPT ![t] = <<>>])) + Len(f[t])
<1> DEFINE g == [f EXCEPT ![t] = <<>>]
<1>1. /\ g \in [Threads -> Seq(BOOLEAN)] /\ g[t] = <<>>
      /\ f = [g EXCEPT ![t] = f[t]] /\ f[t] \in Seq(BOOLEAN)
  <2>1. g[t] = <<>> /\ f[t] \in Seq(BOOLEAN) /\ <<>> \in Seq(BOOLEAN)
    BY EmptySeq
  <2>2. g \in [Threads -> Seq(BOOLEAN)]
    BY <2>1, Zenon
  <2>3. f = [g EXCEPT ![t] = f[t]]
    BY Zenon
  <2> QED BY <2>1, <2>2, <2>3
<1>2. HeldIn(g) \subseteq HeldIn(f)
  <2>1. \A u \in Threads \ {t} : g[u] = f[u]
    OBVIOUS
  <2>2. 1 .. Len(g[t]) = {}
    OBVIOUS
  <2> HIDE DEF g
  <2> SUFFICES ASSUME NEW x \in HeldIn(g) PROVE x \in HeldIn(f)
    OBVIOUS
  <2>3. PICK u \in Threads : x \in {u} \X (1 .. Len(g[u]))
    BY Zenon DEF HeldIn
  <2>4. u # t
    <3>1. ASSUME u = t PROVE FALSE
      <4>1. x[2] \in 1 .. Len(g[t])
        BY <2>3, <3>1
      <4> QED BY <4>1, <2>2, Zenon
    <3> QED BY <3>1, Zenon
  <2> QED BY <2>1, <2>3, <2>4, Zenon DEF HeldIn
<1>3. IsFiniteSet(HeldIn(g))
  BY Zenon, <1>2, FS_Subset
<1> HIDE DEF g
<1>4. Cardinality(HeldIn([g EXCEPT ![t] = f[t]])) = Cardinality(HeldIn(g)) + Len(f[t])
  BY Zenon, <1>1, <1>3, HeldGrows
<1> QED BY Zenon, <1>1, <1>3, <1>4 DEF g

\* Where nothing is held, every batch is empty.
LEMMA NothingHeld ==
    ASSUME CheckTypeOK, IsFiniteSet(Held), Cardinality(Held) = 0
    PROVE  \A t \in Threads : vChecks[t] = <<>>
<1>1. Held = {}
  BY SMTT(30), FS_EmptySet
<1> SUFFICES ASSUME NEW t \in Threads, vChecks[t] # <<>> PROVE FALSE
  OBVIOUS
<1>2. vChecks[t] \in Seq(BOOLEAN)
  BY DEF CheckTypeOK
<1>3. 1 \in 1 .. Len(vChecks[t])
  BY SMTT(30), <1>2, EmptySeq, LenProperties
<1>4. <<t, 1>> \in {t} \X (1 .. Len(vChecks[t]))
  BY <1>3
<1> QED BY <1>1, <1>4, Zenon DEF Held, HeldIn

-----------------------------------------------------------------------------
(* The invariant holds initially. *)

\* A CCheckQueue starts with no checks and no registered thread.
LEMMA InvInit == CheckInit => Inv
<1> SUFFICES ASSUME CheckInit PROVE Inv
  OBVIOUS
<1>0. /\ \A t \in Threads : vChecks[t] = <<>>
      /\ \A t \in Threads : pc[t] = IF t = Master THEN "none" ELSE "top"
  BY Zenon DEF CheckInit
<1>1. CheckTypeOK
  <2>1. <<>> \in Seq(BOOLEAN)
    BY EmptySeq
  <2>2. vChecks \in [Threads -> Seq(BOOLEAN)] /\ fOk \in [Threads -> BOOLEAN]
    BY <2>1, Zenon DEF CheckInit
  <2>3. pc \in [Threads -> Labels]
    BY Zenon DEF CheckInit, Labels
  <2> QED BY SMTT(30), <2>1, <2>2, <2>3 DEF CheckInit, CheckTypeOK
<1>2. Places
  BY <1>0, CheckQueueAssumption, Zenon DEF Places, Threads
<1>3. Counters
  <2>1. Idle = {} /\ Registered = {}
    BY <1>0, Zenon DEF Idle, Registered
  <2>2. Held = {}
    <3>1. 1 .. Len(<<>>) = {}
      OBVIOUS
    <3>2. ASSUME NEW x \in Held PROVE FALSE
      <4>1. PICK u \in Threads : x \in {u} \X (1 .. Len(vChecks[u]))
        BY <3>2, Zenon DEF Held, HeldIn
      <4>2. x[2] \in 1 .. Len(vChecks[u])
        BY <4>1
      <4> QED BY <4>2, <1>0, <3>1, Zenon
    <3> QED BY <3>2, Zenon
  <2>3. nTodo = Len(queue) + 0 /\ nIdle = 0 /\ nTotal = 0
    BY DEF CheckInit
  <2> QED BY SMTT(30), <2>1, <2>2, <2>3, FS_EmptySet DEF Counters
<1>4. Outcomes
  <2>1. Master \in Threads /\ pc[Master] = "none"
    BY <1>0, Zenon DEF Threads
  <2>2. nTodo = 0 /\ fAllOk /\ result /\ AllTrue(added)
    BY DEF CheckInit, AllTrue
  <2>3. \A t \in Threads : pc[t] # "work"
    BY <1>0, Zenon
  <2> QED BY <2>1, <2>2, <2>3, Zenon DEF Outcomes
<1> QED BY <1>1, <1>2, <1>3, <1>4, Zenon DEF Inv

-----------------------------------------------------------------------------
(* What a step moves: one thread to a new place, and its batch. *)

\* Thread t goes from one place to another; a notify may wake others.
Goes(t, from, to) ==
    /\ pc[t] = from /\ pc'[t] = to
    /\ \A u \in Threads \ {t} : pc'[u] = pc[u] \/ (pc[u] = "wait" /\ pc'[u] = "woken")

\* A move by EXCEPT moves one thread only.
LEMMA PcMoves ==
    ASSUME CheckTypeOK, NEW t \in Threads, NEW l \in Labels,
           pc' = [pc EXCEPT ![t] = l]
    PROVE  /\ pc' \in [Threads -> Labels]
           /\ Goes(t, pc[t], l)
BY Zenon DEF CheckTypeOK, Goes

\* The counted sets of threads are finite, and their sizes are naturals.
LEMMA CountsNat ==
    ASSUME Counters
    PROVE  /\ IsFiniteSet(Threads) /\ IsFiniteSet(Idle) /\ IsFiniteSet(Registered)
           /\ nIdle \in Nat /\ nTotal \in Nat /\ Cardinality(Held) \in Nat
<1>1. IsFiniteSet(Threads)
  BY CheckQueueAssumption, FS_AddElement DEF Threads
<1>2. Idle \subseteq Threads /\ Registered \subseteq Threads
  BY Zenon DEF Idle, Registered
<1>3. IsFiniteSet(Idle) /\ IsFiniteSet(Registered)
  BY <1>1, <1>2, FS_Subset
<1> QED BY SMTT(30), <1>1, <1>3, FS_CardinalityType DEF Counters

\* A move changes the number of sleeping threads by the mover alone.
LEMMA IdleMoves ==
    ASSUME Counters, NEW t \in Threads, NEW from, NEW to, Goes(t, from, to)
    PROVE  /\ (from \in {"wait", "woken"} <=> to \in {"wait", "woken"}) => Cardinality(Idle') = nIdle
           /\ from \notin {"wait", "woken"} /\ to \in {"wait", "woken"} => Cardinality(Idle') = nIdle + 1
           /\ from \in {"wait", "woken"} /\ to \notin {"wait", "woken"} => Cardinality(Idle') = nIdle - 1
<1>0. IsFiniteSet(Idle) /\ nIdle = Cardinality(Idle) /\ nIdle \in Nat
  BY CountsNat DEF Counters
<1>1. \A u \in Threads \ {t} : u \in Idle' <=> u \in Idle
  BY Zenon DEF Goes, Idle
<1>2. /\ t \in Idle <=> from \in {"wait", "woken"}
      /\ t \in Idle' <=> to \in {"wait", "woken"}
      /\ Idle \subseteq Threads /\ Idle' \subseteq Threads
  BY Zenon DEF Goes, Idle
<1>3. CASE from \in {"wait", "woken"} <=> to \in {"wait", "woken"}
  <2>1. Idle' = Idle
    BY <1>1, <1>2, <1>3
  <2> QED BY <1>0, <1>3, <2>1, Zenon
<1>4. CASE from \notin {"wait", "woken"} /\ to \in {"wait", "woken"}
  <2>1. Idle' = Idle \cup {t} /\ t \notin Idle
    BY <1>1, <1>2, <1>4, Zenon
  <2>2. Cardinality(Idle') = nIdle + 1
    BY Zenon, <1>0, <2>1, FS_AddElement
  <2> QED BY <1>4, <2>2, Zenon
<1>5. CASE from \in {"wait", "woken"} /\ to \notin {"wait", "woken"}
  <2>1. Idle' = Idle \ {t} /\ t \in Idle
    BY <1>1, <1>2, <1>5, Zenon
  <2>2. Cardinality(Idle') = nIdle - 1
    BY ZenonT(60), <1>0, <2>1, FS_RemoveElement
  <2> QED BY <1>5, <2>2, Zenon
<1> QED BY <1>3, <1>4, <1>5, Zenon

\* A move changes the number of registered threads by the mover alone.
LEMMA RegisteredMoves ==
    ASSUME Counters, NEW t \in Threads, NEW from, NEW to, Goes(t, from, to),
           \A u \in Threads \ {t} : vChecks'[u] = vChecks[u]
    PROVE  /\ (t \in Registered <=> t \in Registered') => Cardinality(Registered') = nTotal
           /\ t \notin Registered /\ t \in Registered' => Cardinality(Registered') = nTotal + 1
           /\ t \in Registered /\ t \notin Registered' => Cardinality(Registered') = nTotal - 1
<1>0. IsFiniteSet(Registered) /\ nTotal = Cardinality(Registered) /\ nTotal \in Nat
  BY CountsNat DEF Counters
<1>1. \A u \in Threads \ {t} : u \in Registered' <=> u \in Registered
  BY Zenon DEF Goes, Registered
<1>2. Registered \subseteq Threads /\ Registered' \subseteq Threads
  BY Zenon DEF Registered
<1>3. CASE t \in Registered <=> t \in Registered'
  <2>1. Registered' = Registered
    BY <1>1, <1>2, <1>3
  <2> QED BY <1>0, <1>3, <2>1, Zenon
<1>4. CASE t \notin Registered /\ t \in Registered'
  <2>1. Registered' = Registered \cup {t}
    BY <1>1, <1>2, <1>4, Zenon
  <2>2. Cardinality(Registered') = nTotal + 1
    BY <1>0, <1>4, <2>1, FS_AddElement
  <2> QED BY <1>4, <2>2, Zenon
<1>5. CASE t \in Registered /\ t \notin Registered'
  <2>1. Registered' = Registered \ {t}
    BY <1>1, <1>2, <1>5, Zenon
  <2>2. Cardinality(Registered') = nTotal - 1
    BY ZenonT(60), <1>0, <1>5, <2>1, FS_RemoveElement
  <2> QED BY <1>5, <2>2, Zenon
<1> QED BY <1>3, <1>4, <1>5, Zenon

\* A move keeps Places when the mover enters the critical section alone and
\* has a batch exactly where it may.
LEMMA BatchesMove ==
    ASSUME Places, NEW t \in Threads, NEW from, NEW to, Goes(t, from, to),
           \A u \in Threads \ {t} : vChecks'[u] = vChecks[u],
           to = "locked" => MutexFree,
           vChecks'[t] # <<>> => to \in {"work", "top"},
           to = "work" => vChecks'[t] # <<>>,
           t \in Workers => to \notin {"none", "open"}
    PROVE  Places'
<1>1. \A u, v \in Threads : pc'[u] = "locked" /\ pc'[v] = "locked" => u = v
  BY ZenonT(60) DEF Places, Goes, MutexFree
<1>2. \A u \in Threads : /\ vChecks'[u] # <<>> => pc'[u] \in {"work", "top"}
                         /\ pc'[u] = "work" => vChecks'[u] # <<>>
  BY Zenon DEF Places, Goes
<1>3. \A u \in Workers : pc'[u] \notin {"none", "open"}
  BY Zenon DEF Places, Goes, Threads
<1> QED BY <1>1, <1>2, <1>3, Zenon DEF Places

\* A move keeps what the batches of the other threads say.
LEMMA OthersOk ==
    ASSUME NEW t \in Threads, NEW from, NEW to, Goes(t, from, to),
           \A u \in Threads \ {t} : vChecks'[u] = vChecks[u] /\ fOk'[u] = fOk[u]
    PROVE  \A u \in Threads \ {t} : BatchOk(u)' <=> BatchOk(u)
BY Zenon DEF Goes, BatchOk, AllTrue

\* When nothing is to do, nothing is queued, held or evaluated: the outcome is
\* in fAllOk.
LEMMA NothingToDo ==
    ASSUME Inv, nTodo = 0
    PROVE  /\ queue = <<>> /\ \A t \in Threads : vChecks[t] = <<>> /\ pc[t] # "work" /\ BatchOk(t)
           /\ Pending <=> fAllOk
<1>1. Len(queue) \in Nat /\ Cardinality(Held) \in Nat
  BY SMTT(30), CountsNat, LenProperties DEF Inv, CheckTypeOK
<1>2. Len(queue) = 0 /\ Cardinality(Held) = 0
  BY <1>1 DEF Inv, Counters
<1>3. queue = <<>>
  BY <1>2, EmptySeq DEF Inv, CheckTypeOK
<1>4. \A t \in Threads : vChecks[t] = <<>>
  BY <1>2, NothingHeld DEF Inv, Counters
<1>5. \A t \in Threads : pc[t] # "work" /\ BatchOk(t)
  BY <1>4, Zenon DEF Inv, Places, BatchOk
<1>6. AllTrue(queue)
  BY <1>3 DEF AllTrue
<1> QED BY <1>3, <1>4, <1>5, <1>6, Zenon DEF Pending

-----------------------------------------------------------------------------
(* The master's steps preserve the invariant. *)

\* Constructing a control object: the queue is as Wait() left it.
LEMMA NewControlStep == Inv /\ NewControl => Inv'
<1> SUFFICES ASSUME Inv, NewControl PROVE Inv'
  OBVIOUS
<1>m. Master \in Threads
  BY Zenon DEF Threads
<1>0. /\ Goes(Master, "none", "open") /\ pc' \in [Threads -> Labels] /\ pc[Master] = "none"
      /\ queue' = queue /\ nIdle' = nIdle /\ nTotal' = nTotal /\ fAllOk' = fAllOk /\ nTodo' = nTodo
      /\ vChecks' = vChecks /\ fOk' = fOk /\ result' = result /\ added' = <<>>
  BY <1>m, PcMoves, Zenon DEF NewControl, Inv, Labels
<1>1. CheckTypeOK'
  <2>1. <<>> \in Seq(BOOLEAN)
    BY EmptySeq
  <2> QED BY <1>0, <2>1, Zenon DEF Inv, CheckTypeOK
<1>q. nTodo = 0 /\ fAllOk
  BY <1>0, Zenon DEF Inv, Outcomes
<1>2. \A t \in Threads : vChecks[t] = <<>> /\ pc[t] # "work" /\ BatchOk(t)
  BY <1>q, NothingToDo, Zenon
<1>3. Places'
  BY <1>0, <1>2, <1>m, BatchesMove, CheckQueueAssumption, Zenon DEF Inv
<1>4. Counters'
  <2>1. Held' = Held
    BY <1>0, Zenon DEF Held
  <2>2. Cardinality(Idle') = nIdle
    BY <1>0, <1>m, IdleMoves DEF Inv
  <2>3. Master \notin Registered /\ Master \notin Registered'
    BY <1>0, <1>m, Zenon DEF Registered, Goes
  <2>4. Cardinality(Registered') = nTotal
    BY <1>0, <1>m, <2>3, RegisteredMoves, Zenon DEF Inv
  <2> QED BY <1>0, <2>1, <2>2, <2>4, Zenon DEF Inv, Counters
<1>5. Outcomes'
  <2>1. Pending'
    <3>1. AllTrue(queue') /\ fAllOk'
      BY <1>0, <1>q, NothingToDo, Zenon DEF Pending
    <3>2. \A t \in Threads : BatchOk(t)'
      BY <1>0, <1>2, Zenon DEF BatchOk, Goes
    <3> QED BY <3>1, <3>2, Zenon DEF Pending
  <2>2. AllTrue(added')
    BY <1>0 DEF AllTrue
  <2>3. \A t \in Threads : pc'[t] # "work"
    BY <1>0, <1>2, Zenon DEF Goes
  <2>4. pc'[Master] # "none"
    BY <1>0, Zenon DEF Goes
  <2> QED BY <2>1, <2>2, <2>3, <2>4, Zenon DEF Outcomes, AllTrue
<1> QED BY <1>1, <1>3, <1>4, <1>5, Zenon DEF Inv

\* All outcomes of a concatenation hold when those of both parts do.
LEMMA AllTrueConcat ==
    ASSUME NEW s \in Seq(BOOLEAN), NEW u \in Seq(BOOLEAN)
    PROVE  AllTrue(s \o u) <=> AllTrue(s) /\ AllTrue(u)
<1>0. /\ Len(s) \in Nat /\ Len(u) \in Nat /\ Len(s \o u) = Len(s) + Len(u)
      /\ \A i \in 1 .. Len(s) + Len(u) : (s \o u)[i] = IF i <= Len(s) THEN s[i] ELSE u[i - Len(s)]
  BY LenProperties, ConcatProperties
<1>1. ASSUME AllTrue(s \o u) PROVE AllTrue(s) /\ AllTrue(u)
  <2>1. \A i \in 1 .. Len(s) : s[i]
    BY <1>0, <1>1 DEF AllTrue
  <2>2. ASSUME NEW i \in 1 .. Len(u) PROVE u[i]
    <3>1. i + Len(s) \in 1 .. Len(s) + Len(u) /\ ~ (i + Len(s) <= Len(s)) /\ (i + Len(s)) - Len(s) = i
      BY <1>0
    <3>2. (s \o u)[i + Len(s)]
      BY SMTT(30), <1>0, <1>1, <3>1 DEF AllTrue
    <3> QED BY <1>0, <3>1, <3>2
  <2> QED BY <2>1, <2>2 DEF AllTrue
<1>2. ASSUME AllTrue(s), AllTrue(u) PROVE AllTrue(s \o u)
  BY <1>0, <1>2 DEF AllTrue
<1> QED BY <1>1, <1>2

\* Add: the new checks count and their outcomes are pending.
LEMMA AddStep == ASSUME Inv, NEW checks \in Batches, Add(checks) PROVE Inv'
<1>m. Master \in Threads
  BY Zenon DEF Threads
<1>s. checks \in Seq(BOOLEAN)
  BY DEF Batches
<1>0. /\ Goes(Master, "open", "open") /\ pc' \in [Threads -> Labels] /\ pc[Master] = "open" /\ pc'[Master] = "open"
      /\ nIdle' = nIdle /\ nTotal' = nTotal /\ fAllOk' = fAllOk
      /\ vChecks' = vChecks /\ fOk' = fOk /\ result' = result
      /\ queue' = queue \o checks /\ nTodo' = nTodo + Len(checks) /\ added' = added \o checks
  <2>1. PICK W \in Woken(Len(checks)) : pc' = [t \in Threads |-> IF t \in W THEN "woken" ELSE pc[t]]
    BY Zenon DEF Add
  <2>2. W \subseteq Waiting(Workers)
    BY <2>1 DEF Woken
  <2>3. Master \notin W /\ \A t \in W : pc[t] = "wait"
    BY <2>2, CheckQueueAssumption, Zenon DEF Waiting
  <2>4. pc[Master] = "open" /\ \A t \in Threads : pc[t] \in Labels
    BY Zenon DEF Add, Inv, CheckTypeOK
  <2>5. pc' \in [Threads -> Labels]
    BY <2>1, <2>4, Zenon DEF Labels
  <2>6. Goes(Master, "open", "open")
    BY <1>m, <2>1, <2>3, <2>4, Zenon DEF Goes
  <2> QED BY <2>4, <2>5, <2>6, Zenon DEF Add, Goes
<1>n. Len(checks) \in Nat /\ Len(queue) \in Nat /\ Len(queue') = Len(queue) + Len(checks)
  BY <1>0, <1>s, LenProperties, ConcatProperties DEF Inv, CheckTypeOK
<1>1. CheckTypeOK'
  <2>1. queue' \in Seq(BOOLEAN) /\ added' \in Seq(BOOLEAN)
    BY SMTT(30), <1>0, <1>s, ConcatProperties DEF Inv, CheckTypeOK
  <2>2. nTodo' \in Int
    BY <1>0, <1>n DEF Inv, CheckTypeOK
  <2> QED BY <1>0, <2>1, <2>2, Zenon DEF Inv, CheckTypeOK
<1>2. vChecks[Master] = <<>>
  BY <1>0, <1>m, Zenon DEF Inv, Places
<1>3. Places'
  BY <1>0, <1>2, <1>m, BatchesMove, CheckQueueAssumption, Zenon DEF Inv
<1>4. Counters'
  <2>1. Held' = Held
    BY <1>0, Zenon DEF Held
  <2>2. Cardinality(Idle') = nIdle
    BY <1>0, <1>m, IdleMoves, Zenon DEF Inv
  <2>3. Master \notin Registered /\ Master \notin Registered'
    BY <1>0, <1>m, Zenon DEF Registered, Goes
  <2>4. Cardinality(Registered') = nTotal
    BY <1>0, <1>m, <2>3, RegisteredMoves, Zenon DEF Inv
  <2>5. Cardinality(Held) \in Nat /\ nTodo = Len(queue) + Cardinality(Held)
    BY CountsNat DEF Inv, Counters
  <2>6. nTodo' = Len(queue') + Cardinality(Held)
    BY <1>0, <1>n, <2>5
  <2> QED BY <1>0, <2>1, <2>2, <2>4, <2>6, Zenon DEF Inv, Counters
<1>5. Outcomes'
  <2>1. \A t \in Threads : BatchOk(t)' <=> BatchOk(t)
    BY <1>0, Zenon DEF BatchOk, Goes, AllTrue
  <2>2. AllTrue(queue') <=> AllTrue(queue) /\ AllTrue(checks)
    BY <1>0, <1>s, AllTrueConcat, Zenon DEF Inv, CheckTypeOK
  <2>3. AllTrue(added') <=> AllTrue(added) /\ AllTrue(checks)
    BY <1>0, <1>s, AllTrueConcat, Zenon DEF Inv, CheckTypeOK
  <2>4. AllTrue(added) <=> Pending
    BY <1>0, Zenon DEF Inv, Outcomes
  <2>5. AllTrue(added') <=> Pending'
    BY <1>0, <2>1, <2>2, <2>3, <2>4, Zenon DEF Pending
  <2>6. \A t \in Threads : pc'[t] = "work" => fOk'[t] \/ ~fAllOk'
    BY <1>0, Zenon DEF Goes, Inv, Outcomes
  <2> QED BY <1>0, <2>5, <2>6, Zenon DEF Outcomes, AllTrue
<1> QED BY <1>1, <1>3, <1>4, <1>5, Zenon DEF Inv

-----------------------------------------------------------------------------
(* The steps of Loop() preserve the invariant. *)

\* A thread without a batch moves, and the counters of sleeping and registered
\* threads follow it.
LEMMA EmptyHandedMove ==
    ASSUME Inv, NEW t \in Threads, NEW from, NEW to, Goes(t, from, to), pc' \in [Threads -> Labels],
           vChecks[t] = <<>>, from # "none", to \in {"top", "locked", "wait", "woken"},
           to = "locked" => MutexFree,
           queue' = queue /\ fAllOk' = fAllOk /\ nTodo' = nTodo /\ added' = added /\ result' = result,
           vChecks' = vChecks /\ fOk' = fOk,
           nIdle' = Cardinality(Idle') /\ nTotal' = Cardinality(Registered'), nIdle' \in Int, nTotal' \in Int
    PROVE  Inv'
<1>0. pc[t] = from /\ pc'[t] = to /\ to \notin {"none", "open", "work"}
  BY DEF Goes
<1>1. CheckTypeOK'
  BY Zenon DEF Inv, CheckTypeOK
<1>2. Places'
  BY <1>0, BatchesMove, Zenon DEF Inv
<1>3. Counters'
  <2>1. Held' = Held
    BY Zenon DEF Held
  <2> QED BY <2>1, Zenon DEF Inv, Counters
<1>4. Outcomes'
  <2>1. pc[t] # "work"
    BY <1>0, Zenon DEF Inv, Places
  <2>2. BatchOk(t) /\ BatchOk(t)'
    BY <1>0, <2>1, Zenon DEF BatchOk
  <2>3. \A u \in Threads : BatchOk(u)' <=> BatchOk(u)
    BY <2>2, OthersOk, Zenon
  <2>4. Pending' <=> Pending
    BY <2>3, Zenon DEF Pending, AllTrue
  <2>5. \A u \in Threads : pc'[u] = "work" => pc[u] = "work"
    BY <1>0, Zenon DEF Goes
  <2>6. pc'[Master] = "none" <=> pc[Master] = "none"
    <3>1. Master \in Threads
      BY Zenon DEF Threads
    <3> QED BY <3>1, <1>0, Zenon DEF Goes
  <2> QED BY <2>4, <2>5, <2>6, Zenon DEF Inv, Outcomes, AllTrue
<1> QED BY <1>1, <1>2, <1>3, <1>4, Zenon DEF Inv

\* Wait() sends the master into Loop() with an empty batch.
LEMMA WaitStep == Inv /\ Wait => Inv'
<1> SUFFICES ASSUME Inv, Wait PROVE Inv'
  OBVIOUS
<1>m. Master \in Threads
  BY Zenon DEF Threads
<1>1. pc[Master] = "open" /\ vChecks[Master] = <<>>
  BY <1>m, Zenon DEF Wait, Inv, Places
<1>2. vChecks' = vChecks
  BY <1>1, Zenon DEF Wait, Inv, CheckTypeOK
<1>3. Goes(Master, "open", "top") /\ pc' \in [Threads -> Labels]
  BY <1>1, <1>m, PcMoves, Zenon DEF Wait, Inv, Labels
<1>4. Cardinality(Idle') = nIdle
  BY <1>3, <1>m, IdleMoves DEF Inv
<1>5. Master \notin Registered /\ Master \notin Registered'
  BY <1>1, <1>2, <1>3, <1>m, Zenon DEF Registered, Goes
<1>6. Cardinality(Registered') = nTotal
  BY <1>2, <1>3, <1>m, <1>5, RegisteredMoves, Zenon DEF Inv
<1>7. nIdle' = nIdle /\ nTotal' = nTotal /\ nIdle \in Int /\ nTotal \in Int
  BY Zenon DEF Wait, Inv, CheckTypeOK
<1>8. /\ queue' = queue /\ fAllOk' = fAllOk /\ nTodo' = nTodo /\ added' = added /\ result' = result
      /\ fOk' = fOk
  BY Zenon DEF Wait
<1> QED BY <1>m, <1>1, <1>2, <1>3, <1>4, <1>6, <1>7, <1>8, EmptyHandedMove, Zenon

\* A first iteration registers the thread.
LEMMA RegisterStep ==
    ASSUME Inv, NEW t \in Threads, pc[t] = "top", MutexFree, Register(t),
           UNCHANGED <<queue, nIdle, fOk, added, result, rounds>>
    PROVE  Inv'
<1>1. vChecks[t] = <<>> /\ vChecks' = vChecks
  BY Zenon DEF Register
<1>2. Goes(t, "top", "locked") /\ pc' \in [Threads -> Labels]
  BY PcMoves, Zenon DEF Register, Inv, Labels
<1>3. Cardinality(Idle') = nIdle
  BY <1>2, IdleMoves DEF Inv
<1>4. t \notin Registered /\ t \in Registered'
  BY <1>1, <1>2, Zenon DEF Registered, Goes
<1>5. Cardinality(Registered') = nTotal + 1
  BY <1>1, <1>2, <1>4, RegisteredMoves, Zenon DEF Inv
<1>6. nIdle' = nIdle /\ nTotal' = nTotal + 1 /\ nIdle \in Int /\ nTotal \in Int
  BY DEF Register, Inv, CheckTypeOK
<1>7. nTotal + 1 \in Int
  BY <1>6
<1>8. /\ queue' = queue /\ fAllOk' = fAllOk /\ nTodo' = nTodo /\ added' = added /\ result' = result
      /\ fOk' = fOk
  BY Zenon DEF Register
<1>9. nIdle' = Cardinality(Idle') /\ nTotal' = Cardinality(Registered') /\ nIdle' \in Int /\ nTotal' \in Int
  BY <1>3, <1>5, <1>6, <1>7, Zenon
<1> QED BY <1>1, <1>2, <1>8, <1>9, EmptyHandedMove, Zenon

\* A waiting thread wakes with or without a notify, takes the mutex, or goes to
\* sleep on an empty queue.
LEMMA SleepWakeStep ==
    ASSUME Inv, NEW t \in Threads, Wake(t) \/ SpuriousWake(t) \/ Sleep(t)
    PROVE  Inv'
<1>0. /\ queue' = queue /\ fAllOk' = fAllOk /\ nTodo' = nTodo /\ added' = added /\ result' = result
      /\ fOk' = fOk /\ vChecks' = vChecks /\ nTotal' = nTotal
  BY Zenon DEF Wake, SpuriousWake, Sleep
<1>1. pc[t] \in {"wait", "woken", "locked"} /\ vChecks[t] = <<>>
  BY Zenon DEF Wake, SpuriousWake, Sleep, Inv, Places
<1>2. PICK to \in {"wait", "woken", "locked"} :
         /\ Goes(t, pc[t], to) /\ pc' \in [Threads -> Labels]
         /\ to = "locked" => MutexFree
         /\ \/ pc[t] = "woken" /\ to = "locked" /\ nIdle' = nIdle - 1
            \/ pc[t] = "wait" /\ to = "woken" /\ nIdle' = nIdle
            \/ pc[t] = "locked" /\ to = "wait" /\ nIdle' = nIdle + 1
  <2>1. CASE Wake(t)
    <3>1. Goes(t, pc[t], "locked") /\ pc' \in [Threads -> Labels]
      BY <2>1, PcMoves, Zenon DEF Wake, Inv, Labels
    <3> QED BY <2>1, <3>1, Zenon DEF Wake
  <2>2. CASE SpuriousWake(t)
    <3>1. Goes(t, pc[t], "woken") /\ pc' \in [Threads -> Labels]
      BY <2>2, PcMoves, Zenon DEF SpuriousWake, Inv, Labels
    <3> QED BY <2>2, <3>1, Zenon DEF SpuriousWake
  <2>3. CASE Sleep(t)
    <3>1. Goes(t, pc[t], "wait") /\ pc' \in [Threads -> Labels]
      BY <2>3, PcMoves, Zenon DEF Sleep, Inv, Labels
    <3> QED BY <2>3, <3>1, Zenon DEF Sleep
  <2> QED BY <2>1, <2>2, <2>3, Zenon
<1>3. nIdle' = Cardinality(Idle')
  BY <1>2, IdleMoves DEF Inv
<1>4. nIdle' \in Int /\ nTotal' \in Int
  BY <1>0, <1>2 DEF Inv, CheckTypeOK
<1>5. t \in Registered /\ t \in Registered'
  BY <1>1, <1>2, Zenon DEF Registered, Goes
<1>6. nTotal' = Cardinality(Registered')
  BY <1>0, <1>2, <1>5, RegisteredMoves, Zenon DEF Inv
<1>7. pc[t] # "none" /\ to \in {"top", "locked", "wait", "woken"}
  BY <1>1, <1>2
<1> QED BY <1>0, <1>1, <1>2, <1>3, <1>4, <1>6, <1>7, EmptyHandedMove, Zenon

\* While Wait() has not been called or has returned, no thread has a batch.
LEMMA BatchMeansOpen ==
    ASSUME Inv, NEW t \in Threads, vChecks[t] # <<>>
    PROVE  pc[Master] # "none"
BY NothingToDo, Zenon DEF Inv, Outcomes

\* A later iteration accounts for the batch: its outcome goes from fOk to
\* fAllOk and its checks are no longer to do.
LEMMA AccountStep ==
    ASSUME Inv, NEW t \in Threads, pc[t] = "top", MutexFree, Account(t),
           UNCHANGED <<queue, nIdle, fOk, added, result, rounds>>
    PROVE  Inv'
<1>0. /\ queue' = queue /\ nIdle' = nIdle /\ fOk' = fOk /\ added' = added /\ result' = result
      /\ nTotal' = nTotal /\ vChecks[t] # <<>> /\ fAllOk' = (fAllOk /\ fOk[t])
      /\ nTodo' = nTodo - Len(vChecks[t]) /\ vChecks' = [vChecks EXCEPT ![t] = <<>>]
  BY Zenon DEF Account
<1>1. Goes(t, "top", "locked") /\ pc' \in [Threads -> Labels] /\ pc'[t] = "locked"
  <2>1. \A u \in Threads : pc[u] \in Labels
    BY Zenon DEF Inv, CheckTypeOK
  <2>2. pc' \in [Threads -> Labels]
    BY <2>1, Zenon DEF Account, Labels
  <2>3. Goes(t, "top", "locked")
    BY Zenon DEF Account, Goes
  <2> QED BY <2>2, <2>3, Zenon DEF Goes
<1>2. /\ vChecks' \in [Threads -> Seq(BOOLEAN)] /\ vChecks'[t] = <<>>
      /\ \A u \in Threads \ {t} : vChecks'[u] = vChecks[u]
  <2>1. <<>> \in Seq(BOOLEAN)
    BY EmptySeq
  <2> QED BY <1>0, <2>1, Zenon DEF Inv, CheckTypeOK
<1>3. Len(vChecks[t]) \in Nat
  BY LenProperties DEF Inv, CheckTypeOK
<1>4. CheckTypeOK'
  <2>1. nTodo' \in Int
    BY SMTT(30), <1>0, <1>3 DEF Inv, CheckTypeOK
  <2>2. fAllOk' \in BOOLEAN
    BY SMTT(30), <1>0 DEF Inv, CheckTypeOK
  <2> QED BY <1>0, <1>1, <1>2, <2>1, <2>2, Zenon DEF Inv, CheckTypeOK
<1>5. Places'
  BY <1>1, <1>2, BatchesMove DEF Inv
<1>6. Counters'
  <2>1. /\ IsFiniteSet(Held') /\ Cardinality(Held) = Cardinality(Held') + Len(vChecks[t])
    BY <1>0, HeldShrinks, Zenon DEF Inv, CheckTypeOK, Counters, Held
  <2>2. Cardinality(Held') \in Nat
    BY SMTT(30), <2>1, FS_CardinalityType
  <2>3. nTodo = Len(queue) + Cardinality(Held) /\ Len(queue) \in Nat
    BY SMTT(30), LenProperties DEF Inv, Counters, CheckTypeOK
  <2>4. nTodo' = Len(queue) + Cardinality(Held')
    BY SMTT(30), <1>0, <1>3, <2>1, <2>2, <2>3
  <2>5. Cardinality(Idle') = nIdle
    BY <1>1, IdleMoves DEF Inv
  <2>6. t \in Registered /\ t \in Registered'
    BY <1>0, <1>1, Zenon DEF Registered
  <2>7. Cardinality(Registered') = nTotal
    BY <1>1, <1>2, <2>6, RegisteredMoves, Zenon DEF Inv
  <2> QED BY <1>0, <2>1, <2>4, <2>5, <2>7, Zenon DEF Counters
<1>7. Outcomes'
  <2>1. pc[Master] # "none" /\ pc'[Master] # "none"
    <3>1. Master \in Threads /\ pc[Master] # "none"
      BY <1>0, BatchMeansOpen, Zenon DEF Threads
    <3> QED BY <1>1, <3>1, Zenon DEF Goes
  <2>2. \A u \in Threads \ {t} : BatchOk(u)' <=> BatchOk(u)
    BY <1>0, <1>1, <1>2, OthersOk, Zenon
  <2>3. BatchOk(t)' /\ (BatchOk(t) <=> fOk[t])
    BY <1>0, <1>1, <1>2, Zenon DEF BatchOk
  <2>4. Pending' <=> Pending
    BY <1>0, <2>2, <2>3, Zenon DEF Pending, AllTrue
  <2>5. AllTrue(added') <=> AllTrue(added)
    BY <1>0, Zenon DEF AllTrue
  <2>6. \A u \in Threads : pc'[u] = "work" => fOk'[u] \/ ~fAllOk'
    BY <1>0, <1>1, Zenon DEF Goes, Inv, Outcomes
  <2> QED BY <2>1, <2>4, <2>5, <2>6, Zenon DEF Inv, Outcomes
<1> QED BY <1>4, <1>5, <1>6, <1>7, Zenon DEF Inv

\* Taking a batch cuts the stack in two and loses no check.
LEMMA Cut ==
    ASSUME NEW s \in Seq(BOOLEAN), NEW n \in 1 .. Len(s)
    PROVE  LET top == SubSeq(s, Len(s) - n + 1, Len(s))
               rest == SubSeq(s, 1, Len(s) - n)
           IN  /\ top \in Seq(BOOLEAN) /\ rest \in Seq(BOOLEAN) /\ top # <<>>
               /\ Len(top) = n /\ Len(rest) = Len(s) - n
               /\ AllTrue(s) <=> AllTrue(rest) /\ AllTrue(top)
<1> DEFINE l == Len(s)
           top == SubSeq(s, l - n + 1, l)
           rest == SubSeq(s, 1, l - n)
<1>0. l \in Nat /\ n \in 1 .. l
  BY LenProperties
<1>1. top \in Seq(BOOLEAN) /\ Len(top) = n /\ \A i \in 1 .. n : top[i] = s[l - n + i]
  <2> DEFINE m == l - n + 1
  <2>1. \A i \in 1 .. l : s[i] \in BOOLEAN
    BY ElementOfSeq
  <2> HIDE DEF l
  <2>2. m \in Int /\ l \in Int /\ m <= l /\ l - m + 1 = n /\ m .. l \subseteq 1 .. l
    BY <1>0
  <2>3. \A i \in 1 .. n : m + i - 1 = l - n + i
    BY <1>0
  <2> HIDE DEF m
  <2>4. /\ SubSeq(s, m, l) \in Seq(BOOLEAN)
        /\ Len(SubSeq(s, m, l)) = IF m <= l THEN l - m + 1 ELSE 0
        /\ \A i \in 1 .. l - m + 1 : SubSeq(s, m, l)[i] = s[m + i - 1]
    BY ZenonT(60), <2>1, <2>2, SubSeqProperties
  <2>5. top = SubSeq(s, m, l)
    BY Zenon DEF m
  <2> QED BY Zenon, <2>2, <2>3, <2>4, <2>5
<1>2. rest \in Seq(BOOLEAN) /\ Len(rest) = l - n /\ \A i \in 1 .. l - n : rest[i] = s[i]
  <2>1. l - n \in Nat /\ l - n <= l
    BY <1>0
  <2> HIDE DEF l
  <2>3. /\ \A i \in 1 .. l : s[i] \in BOOLEAN
        /\ l = Len(s)
    BY SMTT(30), ElementOfSeq DEF l
  <2> QED BY <1>0, <2>1, <2>3
<1>3. top # <<>>
  BY <1>0, <1>1, EmptySeq
<1> HIDE DEF top, rest
<1>4. ASSUME AllTrue(s) PROVE AllTrue(rest) /\ AllTrue(top)
  <2>1. \A i \in 1 .. l - n : rest[i]
    BY <1>0, <1>2, <1>4 DEF AllTrue
  <2>2. \A i \in 1 .. n : l - n + i \in 1 .. l
    BY <1>0
  <2>3. \A i \in 1 .. n : top[i]
    BY <1>1, <1>4, <2>2, Zenon DEF AllTrue
  <2> QED BY <1>1, <1>2, <2>1, <2>3, Zenon DEF AllTrue
<1>5. ASSUME AllTrue(rest), AllTrue(top), NEW i \in 1 .. l PROVE s[i]
  <2>1. CASE i <= l - n
    <3>1. i \in 1 .. l - n
      BY <1>0, <1>5, <2>1
    <3> QED BY <1>2, <1>5, <3>1, Zenon DEF AllTrue
  <2>2. CASE ~ (i <= l - n)
    <3>1. i - (l - n) \in 1 .. n /\ l - n + (i - (l - n)) = i
      BY <1>0, <1>5, <2>2
    <3>2. top[i - (l - n)]
      BY <1>1, <1>5, <3>1, Zenon DEF AllTrue
    <3> QED BY <1>1, <3>1, <3>2, Zenon
  <2> QED BY <2>1, <2>2, Zenon
<1>6. AllTrue(s) <=> AllTrue(rest) /\ AllTrue(top)
  BY <1>4, <1>5, Zenon DEF AllTrue
<1> QED BY <1>1, <1>2, <1>3, <1>6, Zenon DEF top, rest

\* Taking a batch moves checks from the queue to a thread.
LEMMA TakeStep == ASSUME Inv, NEW t \in Threads, Take(t) PROVE Inv'
<1> DEFINE top == SubSeq(queue, Len(queue) - nNow + 1, Len(queue))
           rest == SubSeq(queue, 1, Len(queue) - nNow)
<1>0. /\ pc[t] = "locked" /\ queue # <<>> /\ queue' = rest
      /\ vChecks' = [vChecks EXCEPT ![t] = top] /\ fOk' = [fOk EXCEPT ![t] = fAllOk]
      /\ nIdle' = nIdle /\ nTotal' = nTotal /\ fAllOk' = fAllOk /\ nTodo' = nTodo
      /\ added' = added /\ result' = result
  BY Zenon DEF Take
<1>1. nNow \in 1 .. Len(queue)
  <2>1. nTotal >= 0 /\ nIdle >= 0
    BY CountsNat DEF Inv
  <2> QED BY <1>0, <2>1, BatchInRange DEF Inv
<1>2. /\ top \in Seq(BOOLEAN) /\ rest \in Seq(BOOLEAN) /\ top # <<>>
      /\ Len(top) = nNow /\ Len(rest) = Len(queue) - nNow
      /\ AllTrue(queue) <=> AllTrue(rest) /\ AllTrue(top)
  <2>1. queue \in Seq(BOOLEAN)
    BY Zenon DEF Inv, CheckTypeOK
  <2> QED BY <1>1, <2>1, Cut, Zenon
<1> HIDE DEF top, rest
<1>3. Goes(t, "locked", "work") /\ pc' \in [Threads -> Labels] /\ pc'[t] = "work" /\ vChecks[t] = <<>>
  <2>1. Goes(t, "locked", "work") /\ pc' \in [Threads -> Labels]
    BY <1>0, PcMoves, Zenon DEF Take, Inv, Labels
  <2>2. vChecks[t] = <<>>
    BY <1>0, Zenon DEF Inv, Places
  <2> QED BY <2>1, <2>2, Zenon DEF Goes
<1>4. /\ vChecks' \in [Threads -> Seq(BOOLEAN)] /\ vChecks'[t] = top
      /\ fOk' \in [Threads -> BOOLEAN] /\ fOk'[t] = fAllOk
      /\ \A u \in Threads \ {t} : vChecks'[u] = vChecks[u] /\ fOk'[u] = fOk[u]
  BY <1>0, <1>2, Zenon DEF Inv, CheckTypeOK
<1>5. CheckTypeOK'
  BY <1>0, <1>2, <1>3, <1>4, Zenon DEF Inv, CheckTypeOK
<1>6. Places'
  BY <1>2, <1>3, <1>4, BatchesMove DEF Inv
<1>7. Counters'
  <2>1. IsFiniteSet(Held') /\ Cardinality(Held') = Cardinality(Held) + nNow
    BY <1>0, <1>2, <1>3, HeldGrows, Zenon DEF Inv, CheckTypeOK, Counters, Held
  <2>2. Cardinality(Held) \in Nat /\ nTodo = Len(queue) + Cardinality(Held) /\ Len(queue) \in Nat
    BY CountsNat, LenProperties DEF Inv, Counters, CheckTypeOK
  <2>3. nTodo' = Len(queue') + Cardinality(Held')
    BY SMTT(30), <1>0, <1>1, <1>2, <2>1, <2>2
  <2>4. Cardinality(Idle') = nIdle
    BY <1>3, IdleMoves DEF Inv
  <2>5. t \in Registered /\ t \in Registered'
    BY <1>0, <1>3, Zenon DEF Registered
  <2>6. Cardinality(Registered') = nTotal
    BY <1>3, <1>4, <2>5, RegisteredMoves, Zenon DEF Inv
  <2> QED BY <1>0, <2>1, <2>3, <2>4, <2>6, Zenon DEF Counters
<1>8. Outcomes'
  <2>1. pc[Master] # "none" /\ pc'[Master] # "none"
    <3>1. Master \in Threads /\ pc[Master] # "none"
      BY <1>0, NothingToDo, Zenon DEF Threads, Inv, Outcomes
    <3> QED BY <1>3, <3>1 DEF Goes
  <2>2. \A u \in Threads \ {t} : BatchOk(u)' <=> BatchOk(u)
    BY <1>3, <1>4, OthersOk, Zenon
  <2>3. BatchOk(t) /\ (BatchOk(t)' <=> AllTrue(top))
    BY <1>0, <1>3, <1>4, Zenon DEF BatchOk, AllTrue
  <2>4. AllTrue(queue') <=> AllTrue(rest)
    BY <1>0, Zenon DEF AllTrue
  <2>5. Pending' <=> Pending
    BY <1>0, <1>2, <2>2, <2>3, <2>4, Zenon DEF Pending
  <2>6. AllTrue(added') <=> AllTrue(added)
    BY <1>0, Zenon DEF AllTrue
  <2>7. \A u \in Threads : pc'[u] = "work" => fOk'[u] \/ ~fAllOk'
    BY <1>0, <1>3, <1>4, ZenonT(60) DEF Goes, Inv, Outcomes
  <2> QED BY <2>1, <2>5, <2>6, <2>7, Zenon DEF Inv, Outcomes
<1> QED BY <1>5, <1>6, <1>7, <1>8, Zenon DEF Inv

\* Evaluating a batch puts its outcome in fOk.  A batch that is skipped is one
\* whose outcome no longer matters.
LEMMA EvaluateStep == ASSUME Inv, NEW t \in Threads, Evaluate(t) PROVE Inv'
<1>0. /\ pc[t] = "work" /\ fOk' = [fOk EXCEPT ![t] = fOk[t] /\ AllTrue(vChecks[t])]
      /\ queue' = queue /\ nIdle' = nIdle /\ nTotal' = nTotal /\ fAllOk' = fAllOk /\ nTodo' = nTodo
      /\ vChecks' = vChecks /\ added' = added /\ result' = result
  BY Zenon DEF Evaluate, AllTrue
<1>1. Goes(t, "work", "top") /\ pc' \in [Threads -> Labels] /\ pc'[t] = "top" /\ vChecks[t] # <<>>
  <2>1. Goes(t, "work", "top") /\ pc' \in [Threads -> Labels]
    BY <1>0, PcMoves, Zenon DEF Evaluate, Inv, Labels
  <2>2. vChecks[t] # <<>>
    BY <1>0, Zenon DEF Inv, Places
  <2> QED BY <2>1, <2>2, Zenon DEF Goes
<1>2. /\ fOk' \in [Threads -> BOOLEAN] /\ fOk'[t] = (fOk[t] /\ AllTrue(vChecks[t]))
      /\ \A u \in Threads \ {t} : fOk'[u] = fOk[u]
  BY <1>0, Zenon DEF Inv, CheckTypeOK
<1>3. CheckTypeOK'
  BY <1>0, <1>1, <1>2, Zenon DEF Inv, CheckTypeOK
<1>4. Places'
  BY <1>0, <1>1, BatchesMove DEF Inv
<1>5. Counters'
  <2>1. Held' = Held
    BY <1>0, Zenon DEF Held
  <2>2. Cardinality(Idle') = nIdle
    BY <1>1, IdleMoves DEF Inv
  <2>3. t \in Registered /\ t \in Registered'
    BY <1>0, <1>1, Zenon DEF Registered
  <2>4. Cardinality(Registered') = nTotal
    BY <1>0, <1>1, <2>3, RegisteredMoves, Zenon DEF Inv
  <2> QED BY <1>0, <2>1, <2>2, <2>4, Zenon DEF Inv, Counters
<1>6. Outcomes'
  <2>1. pc[Master] # "none" /\ pc'[Master] # "none"
    <3>1. Master \in Threads /\ pc[Master] # "none"
      BY <1>1, BatchMeansOpen, Zenon DEF Threads
    <3> QED BY <1>1, <3>1 DEF Goes
  <2>2. \A u \in Threads \ {t} : BatchOk(u)' <=> BatchOk(u)
    BY <1>0, <1>1, <1>2, OthersOk, Zenon
  <2>3. BatchOk(t) <=> AllTrue(vChecks[t])
    BY <1>0, Zenon DEF BatchOk
  <2>4. BatchOk(t)' <=> fOk[t] /\ AllTrue(vChecks[t])
    BY <1>0, <1>1, <1>2, Zenon DEF BatchOk
  <2>5. fOk[t] \/ ~fAllOk
    BY <1>0, Zenon DEF Inv, Outcomes
  <2>6. AllTrue(queue') <=> AllTrue(queue)
    BY <1>0, Zenon DEF AllTrue
  <2>7. Pending' <=> Pending
    BY <1>0, <2>2, <2>3, <2>4, <2>5, <2>6, Zenon DEF Pending
  <2>8. AllTrue(added') <=> AllTrue(added)
    BY <1>0, Zenon DEF AllTrue
  <2>9. \A u \in Threads : pc'[u] = "work" => fOk'[u] \/ ~fAllOk'
    BY <1>0, <1>1, <1>2, Zenon DEF Goes, Inv, Outcomes
  <2> QED BY <2>1, <2>7, <2>8, <2>9, Zenon DEF Inv, Outcomes
<1> QED BY <1>3, <1>4, <1>5, <1>6, Zenon DEF Inv

\* The master returns fAllOk and resets it: nothing is pending any more.
LEMMA ReturnStep == Inv /\ Return => Inv'
<1> SUFFICES ASSUME Inv, Return PROVE Inv'
  OBVIOUS
<1>m. Master \in Threads
  BY Zenon DEF Threads
<1>0. /\ pc[Master] = "locked" /\ nTodo = 0 /\ nTotal' = nTotal - 1 /\ result' = fAllOk /\ fAllOk' = TRUE
      /\ queue' = queue /\ nIdle' = nIdle /\ nTodo' = nTodo /\ vChecks' = vChecks /\ fOk' = fOk /\ added' = added
  BY Zenon DEF Return
<1>1. Goes(Master, "locked", "none") /\ pc' \in [Threads -> Labels]
  BY <1>0, <1>m, PcMoves, Zenon DEF Return, Inv, Labels
<1>2. /\ \A t \in Threads : vChecks[t] = <<>> /\ pc[t] # "work"
      /\ Pending <=> fAllOk
  BY <1>0, NothingToDo, Zenon
<1>3. CheckTypeOK'
  <2>1. nTotal' \in Int /\ fAllOk' \in BOOLEAN /\ result' \in BOOLEAN
    BY SMTT(30), <1>0 DEF Inv, CheckTypeOK
  <2> QED BY <1>0, <1>1, <2>1, Zenon DEF Inv, CheckTypeOK
<1>4. Places'
  <2>1. Master \notin Workers
    BY CheckQueueAssumption, Zenon
  <2> QED BY SMTT(30), <1>0, <1>1, <1>2, <1>m, <2>1, BatchesMove DEF Inv
<1>5. Counters'
  <2>1. Held' = Held
    BY <1>0, Zenon DEF Held
  <2>2. Cardinality(Idle') = nIdle
    BY <1>1, <1>m, IdleMoves DEF Inv
  <2>3. Master \in Registered /\ Master \notin Registered'
    BY <1>0, <1>1, <1>m, Zenon DEF Registered, Goes
  <2>4. Cardinality(Registered') = nTotal - 1
    BY <1>0, <1>1, <1>m, <2>3, RegisteredMoves, Zenon DEF Inv
  <2> QED BY <1>0, <2>1, <2>2, <2>4, Zenon DEF Inv, Counters
<1>6. Outcomes'
  <2>1. pc'[Master] = "none" /\ pc[Master] # "none"
    BY <1>0, <1>1 DEF Goes
  <2>2. result' <=> AllTrue(added)
    BY <1>0, <1>2, <2>1, Zenon DEF Inv, Outcomes
  <2>3. \A t \in Threads : pc'[t] # "work"
    BY <1>1, <1>2 DEF Goes
  <2> QED BY <1>0, <2>1, <2>2, <2>3, Zenon DEF Outcomes, AllTrue
<1> QED BY <1>3, <1>4, <1>5, <1>6, Zenon DEF Inv

\* The invariant survives every step of every thread.
LEMMA InvStep == Inv /\ [CheckNext]_checkVars => Inv'
<1> SUFFICES ASSUME Inv, [CheckNext]_checkVars PROVE Inv'
  OBVIOUS
<1>1. CASE NewControl
  BY <1>1, NewControlStep, Zenon
<1>2. CASE \E checks \in Batches : Add(checks)
  BY <1>2, AddStep, Zenon
<1>3. CASE Wait
  BY <1>3, WaitStep, Zenon
<1>4. ASSUME NEW t \in Threads, Loop(t) \/ SpuriousWake(t) PROVE Inv'
  <2>1. CASE Enter(t)
    <3>1. CASE Register(t)
      BY <2>1, <3>1, RegisterStep, Zenon DEF Enter
    <3>2. CASE Account(t)
      BY <2>1, <3>2, AccountStep, Zenon DEF Enter
    <3> QED BY <2>1, <3>1, <3>2, Zenon DEF Enter
  <2>2. CASE Wake(t) \/ SpuriousWake(t) \/ Sleep(t)
    BY <2>2, SleepWakeStep, Zenon
  <2>3. CASE Take(t)
    BY <2>3, TakeStep, Zenon
  <2>4. CASE Evaluate(t)
    BY <2>4, EvaluateStep, Zenon
  <2>5. CASE t = Master /\ Return
    BY <2>5, ReturnStep, Zenon
  <2> QED BY <1>4, <2>1, <2>2, <2>3, <2>4, <2>5, Zenon DEF Loop
<1>5. CASE UNCHANGED checkVars
  <2>0. /\ queue' = queue /\ nIdle' = nIdle /\ nTotal' = nTotal /\ fAllOk' = fAllOk /\ nTodo' = nTodo
        /\ pc' = pc /\ vChecks' = vChecks /\ fOk' = fOk /\ added' = added /\ result' = result
    BY <1>5 DEF checkVars
  <2>1. CheckTypeOK' /\ Places'
    BY <2>0, Zenon DEF Inv, CheckTypeOK, Places
  <2>2. Held' = Held /\ Idle' = Idle /\ Registered' = Registered
    BY <2>0, Zenon DEF Held, Idle, Registered
  <2>3. Counters'
    BY <2>0, <2>2, Zenon DEF Inv, Counters
  <2>4. \A t \in Threads : BatchOk(t)' <=> BatchOk(t)
    BY <2>0, Zenon DEF BatchOk, AllTrue
  <2>5. Pending' <=> Pending
    BY <2>0, <2>4, Zenon DEF Pending, AllTrue
  <2>6. Outcomes'
    BY <2>0, <2>5, Zenon DEF Inv, Outcomes, AllTrue
  <2> QED BY <2>1, <2>3, <2>6, Zenon DEF Inv
<1> QED BY <1>1, <1>2, <1>3, <1>4, <1>5, Zenon DEF CheckNext

\* The invariant holds in every behaviour.
LEMMA Invariance == CheckSpec => []Inv
BY InvInit, InvStep, PTL DEF CheckSpec

-----------------------------------------------------------------------------
(* The properties. *)

\* CCheckQueueControl::Wait returns the conjunction of the checks added under
\* its control object, with nothing queued or still in a batch.
THEOREM WaitCorrect == CheckSpec => []WaitReturnsConjunction
<1>1. Inv => WaitReturnsConjunction
  <2> SUFFICES ASSUME Inv, pc[Master] = "none"
               PROVE  /\ queue = <<>> /\ \A t \in Threads : vChecks[t] = <<>>
                      /\ result <=> AllTrue(added)
    BY Zenon DEF WaitReturnsConjunction, AllTrue
  <2>1. nTodo = 0 /\ (result <=> AllTrue(added))
    BY Zenon DEF Inv, Outcomes
  <2> QED BY <2>1, NothingToDo, Zenon
<1> QED BY <1>1, Invariance, PTL

\* The assertion of CCheckQueueControl's constructor, IsIdle(), holds whenever
\* a control object can be made.
THEOREM ControlCorrect == CheckSpec => []ControlFindsQueueIdle
<1>1. Inv => ControlFindsQueueIdle
  <2> SUFFICES ASSUME Inv, pc[Master] = "none", MutexFree PROVE IsIdle
    BY Zenon DEF ControlFindsQueueIdle
  <2>1. nTodo = 0 /\ fAllOk
    BY Zenon DEF Inv, Outcomes
  <2>2. \A t \in Threads : vChecks[t] = <<>> /\ pc[t] # "work" /\ pc[t] # "locked"
    BY <2>1, NothingToDo, Zenon DEF MutexFree
  <2>3. \A t : t \in Registered <=> t \in Idle
    BY <2>2, Zenon DEF Registered, Idle
  <2>4. Registered = Idle
    BY <2>3
  <2> QED BY <2>1, <2>4, Zenon DEF IsIdle, Inv, Counters
<1> QED BY <1>1, Invariance, PTL

=============================================================================
