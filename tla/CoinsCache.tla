----------------------------- MODULE CoinsCache ------------------------------
(***************************************************************************)
(* The stack of coins views of src/src/coins.cpp: the coin database        *)
(* (CCoinsViewDB, src/src/txdb.cpp), the cache pcoinsTip above it, and the *)
(* cache "view" that ConnectTip and DisconnectTip put above pcoinsTip for  *)
(* one block and flush into it, or drop, when the block is done.           *)
(*                                                                         *)
(* A cache holds at most one entry per key, with the flags of              *)
(* CCoinsCacheEntry, CAnchorsCacheEntry and CNullifiersCacheEntry; NONE is *)
(* a key without an entry.  "entered" is kept among the flags.  A tree is  *)
(* identified by its root, so an entry whose tree does not belong to its   *)
(* key is one whose tree was never read.                                   *)
(*                                                                         *)
(* All of it is protected by cs_main, so the actions of a block's view     *)
(* follow one another; reads by RPC calls and the memory pool go to        *)
(* pcoinsTip between blocks.                                               *)
(***************************************************************************)
EXTENDS Integers

CONSTANTS Txids, Coins, Pruned, Nullifiers, Roots, EmptyRoot, Size, BlockHashes, NullHash, NONE

VARIABLES
    db,         \* CCoinsViewDB
    tip,        \* *pcoinsTip
    view,       \* the CCoinsViewCache of ConnectTip or DisconnectTip
    stage       \* how far the block of that view is: "none" when there is no view

vars == <<db, tip, view, stage>>

CoinsEntry == [coins : Coins \cup {Pruned}, flags : SUBSET {"DIRTY", "FRESH"}]

NullifierEntry == SUBSET {"entered", "DIRTY"}

AnchorEntry == [tree : Roots, flags : SUBSET {"entered", "DIRTY"}]

ASSUME CoinsAssumption ==
    /\ Pruned \notin Coins
    /\ NONE \notin Coins \cup {Pruned} \cup Roots
    /\ \A e \in CoinsEntry : e # NONE
    /\ \A e \in NullifierEntry : e # NONE
    /\ \A e \in AnchorEntry : e # NONE
    /\ NullHash \notin BlockHashes \cup Roots
    /\ EmptyRoot \in Roots
    /\ Size \in [Roots -> Nat]
    /\ \A r \in Roots \ {EmptyRoot} : Size[r] > Size[EmptyRoot]

Database ==
    [coins      : [Txids -> Coins \cup {NONE}],
     nullifiers : SUBSET Nullifiers,
     anchors    : [Roots -> Roots \cup {NONE}],
     hashBlock  : BlockHashes \cup {NullHash},
     hashAnchor : Roots]

Cache ==
    [coins      : [Txids -> CoinsEntry \cup {NONE}],
     nullifiers : [Nullifiers -> NullifierEntry \cup {NONE}],
     anchors    : [Roots -> AnchorEntry \cup {NONE}],
     hashBlock  : BlockHashes \cup {NullHash},
     hashAnchor : Roots \cup {NullHash}]

TypeOK ==
    /\ db \in Database
    /\ tip \in Cache
    /\ view \in Cache
    /\ stage \in {"none", "applying", "anchored", "applied"}

(* A newly constructed CCoinsViewCache.                                    *)
NewCache ==
    [coins      |-> [x \in Txids |-> NONE],
     nullifiers |-> [n \in Nullifiers |-> NONE],
     anchors    |-> [r \in Roots |-> NONE],
     hashBlock  |-> NullHash,
     hashAnchor |-> NullHash]

Init ==
    /\ db = [coins      |-> [x \in Txids |-> NONE],
             nullifiers |-> {},
             anchors    |-> [r \in Roots |-> NONE],
             hashBlock  |-> NullHash,
             hashAnchor |-> EmptyRoot]
    /\ tip = NewCache
    /\ view = NewCache
    /\ stage = "none"

------------------------------------------------------------------------------
(* Lookups: what a cache returns for a key, given its entry for the key    *)
(* and what its base returns.                                              *)

LookupCoins(entry, below) == IF entry = NONE THEN below ELSE entry.coins

LookupNullifier(entry, below) == IF entry = NONE THEN below ELSE entry \cap {"entered"}

LookupAnchor(entry, below) ==
    IF entry = NONE THEN below
    ELSE IF "entered" \in entry.flags THEN entry.tree ELSE NONE

LookupHash(hash, below) == IF hash = NullHash THEN below ELSE hash

TipCoins(x) == LookupCoins(tip.coins[x], db.coins[x])

ViewCoins(x) == LookupCoins(view.coins[x], TipCoins(x))

DbNullifier(n) == IF n \in db.nullifiers THEN {"entered"} ELSE {}

TipNullifier(n) == LookupNullifier(tip.nullifiers[n], DbNullifier(n))

ViewNullifier(n) == LookupNullifier(view.nullifiers[n], TipNullifier(n))

DbAnchor(r) == IF r = EmptyRoot THEN EmptyRoot ELSE db.anchors[r]

TipAnchor(r) == LookupAnchor(tip.anchors[r], DbAnchor(r))

ViewAnchor(r) == LookupAnchor(view.anchors[r], TipAnchor(r))

TipBestBlock == LookupHash(tip.hashBlock, db.hashBlock)

ViewBestBlock == LookupHash(view.hashBlock, TipBestBlock)

TipBestAnchor == LookupHash(tip.hashAnchor, db.hashAnchor)

ViewBestAnchor == LookupHash(view.hashAnchor, TipBestAnchor)

------------------------------------------------------------------------------
(* Reading fills the caches it passes through: the entry after a read that *)
(* finds below in the base.                                                *)

FetchCoins(entry, below) ==
    IF entry # NONE \/ below = NONE THEN entry
    ELSE [coins |-> below, flags |-> IF below = Pruned THEN {"FRESH"} ELSE {}]

FetchNullifier(entry, below) == IF entry # NONE THEN entry ELSE below

FetchAnchor(entry, below) ==
    IF entry # NONE \/ below = NONE THEN entry
    ELSE [tree |-> below, flags |-> {"entered"}]

TipReadCoins(x) ==
    /\ stage = "none"
    /\ tip' = [tip EXCEPT !.coins[x] = FetchCoins(@, db.coins[x])]
    /\ UNCHANGED <<db, view, stage>>

TipReadNullifier(n) ==
    /\ stage = "none"
    /\ tip' = [tip EXCEPT !.nullifiers[n] = FetchNullifier(@, DbNullifier(n))]
    /\ UNCHANGED <<db, view, stage>>

TipReadAnchor(r) ==
    /\ stage = "none"
    /\ tip' = [tip EXCEPT !.anchors[r] = FetchAnchor(@, DbAnchor(r))]
    /\ UNCHANGED <<db, view, stage>>

(* The genesis block is connected without its transactions.                *)
Applying == stage = "applying" /\ view.hashBlock # NullHash

(* Mutant: the base answers without keeping the entry in its own cache.    *)
NothingFetched(entry, mine, fetched) == mine

(* The view asks pcoinsTip only for a key it has no entry for itself.      *)
FetchedBelow(entry, mine, fetched) == IF entry = NONE THEN fetched ELSE mine

ViewReadCoins(x) ==
    /\ Applying
    /\ tip' = [tip EXCEPT !.coins[x] = FetchedBelow(view.coins[x], @, FetchCoins(@, db.coins[x]))]
    /\ view' = [view EXCEPT !.coins[x] = FetchCoins(@, TipCoins(x))]
    /\ UNCHANGED <<db, stage>>

ViewReadNullifier(n) ==
    /\ Applying
    /\ tip' = [tip EXCEPT !.nullifiers[n] =
                   FetchedBelow(view.nullifiers[n], @, FetchNullifier(@, DbNullifier(n)))]
    /\ view' = [view EXCEPT !.nullifiers[n] = FetchNullifier(@, TipNullifier(n))]
    /\ UNCHANGED <<db, stage>>

ViewReadAnchor(r) ==
    /\ Applying
    /\ tip' = [tip EXCEPT !.anchors[r] = FetchedBelow(view.anchors[r], @, FetchAnchor(@, DbAnchor(r)))]
    /\ view' = [view EXCEPT !.anchors[r] = FetchAnchor(@, TipAnchor(r))]
    /\ UNCHANGED <<db, stage>>

------------------------------------------------------------------------------
(* ConnectTip or DisconnectTip creates the view of a block; ConnectBlock   *)
(* and DisconnectBlock first compare GetBestBlock with the block's hash.   *)
NewView ==
    /\ stage = "none"
    /\ tip' = [tip EXCEPT !.hashBlock = TipBestBlock]
    /\ view' = [NewCache EXCEPT !.hashBlock = TipBestBlock]
    /\ stage' = "applying"
    /\ UNCHANGED db

(* ModifyCoins, the change made to *c, and ~CCoinsModifier, which drops an *)
(* entry that is pruned here and absent or pruned below.                   *)
ModifiedCoins(entry, below, c) ==
    LET flags == IF entry # NONE THEN entry.flags
                 ELSE IF below \in {NONE, Pruned} THEN {"FRESH"} ELSE {}
    IN  IF "FRESH" \in flags /\ c = Pruned THEN NONE ELSE [coins |-> c, flags |-> flags \cup {"DIRTY"}]

ModifyCoins(x, c) ==
    /\ Applying
    /\ tip' = [tip EXCEPT !.coins[x] = FetchedBelow(view.coins[x], @, FetchCoins(@, db.coins[x]))]
    /\ view' = [view EXCEPT !.coins[x] = ModifiedCoins(@, TipCoins(x), c)]
    /\ UNCHANGED <<db, stage>>

SetNullifier(n, spent) ==
    /\ Applying
    /\ view' = [view EXCEPT !.nullifiers[n] = spent \cup {"DIRTY"}]
    /\ UNCHANGED <<db, tip, stage>>

(* GetBestAnchor remembers the root in every cache it passes through.      *)
TipWithBestAnchor == [tip EXCEPT !.hashAnchor = TipBestAnchor]

(* Mutant: the new root is entered but not marked to be written back.      *)
PushedClean(r) == [tree |-> r, flags |-> {"entered"}]

Pushed(r) == [tree |-> r, flags |-> {"entered", "DIRTY"}]

(* ConnectBlock pushes the tree of the best anchor with the block's        *)
(* commitments appended, the same tree when there are none.                *)
PushAnchor(r) ==
    /\ Applying
    /\ r = ViewBestAnchor \/ Size[r] > Size[ViewBestAnchor]
    /\ tip' = TipWithBestAnchor
    /\ view' = IF r = ViewBestAnchor THEN [view EXCEPT !.hashAnchor = r]
               ELSE [view EXCEPT !.anchors[r] = Pushed(r), !.hashAnchor = r]
    /\ stage' = "anchored"
    /\ UNCHANGED db

(* The anchor of the block below: old_tree_root of the undo data.          *)
IsPreviousAnchor(r) ==
    /\ ViewAnchor(r) # NONE
    /\ Size[r] < Size[ViewBestAnchor]
    /\ \A a \in Roots : ViewAnchor(a) # NONE => Size[a] <= Size[r] \/ a = ViewBestAnchor

(* PopAnchor first reads the best anchor, so that the caches hold its tree *)
(* in the entry that is marked as removed.                                 *)
BestAnchorRead(old) ==
    [tip  |-> FetchedBelow(view.anchors[old], tip.anchors[old], FetchAnchor(tip.anchors[old], DbAnchor(old))),
     tree |-> ViewAnchor(old)]

PopAnchor(r) ==
    /\ Applying
    /\ r = ViewBestAnchor \/ IsPreviousAnchor(r)
    /\ stage' = "anchored"
    /\ UNCHANGED db
    /\ IF r = ViewBestAnchor
       THEN tip' = TipWithBestAnchor /\ view' = [view EXCEPT !.hashAnchor = r]
       ELSE LET old == ViewBestAnchor
                read == BestAnchorRead(old)
            IN  /\ tip' = [tip EXCEPT !.anchors[old] = read.tip, !.hashAnchor = TipBestAnchor]
                /\ view' = [view EXCEPT !.anchors[old] = [tree |-> read.tree, flags |-> {"DIRTY"}],
                                        !.hashAnchor = r]

SetBestBlock(b) ==
    /\ IF view.hashBlock = NullHash THEN stage = "applying" ELSE stage = "anchored"
    /\ b # view.hashBlock
    /\ view' = [view EXCEPT !.hashBlock = b]
    /\ stage' = "applied"
    /\ UNCHANGED <<db, tip>>

------------------------------------------------------------------------------
(* BatchWrite of a cache: the entry of a key after its child's entry for   *)
(* the key is written back.                                                *)

(* Mutant: an entry pruned by the child is erased although the base still  *)
(* has it.                                                                 *)
EraseCoins(mine, child) ==
    IF child = NONE \/ "DIRTY" \notin child.flags THEN mine
    ELSE IF child.coins = Pruned THEN NONE
    ELSE IF mine = NONE THEN [coins |-> child.coins, flags |-> {"DIRTY", "FRESH"}]
    ELSE [coins |-> child.coins, flags |-> mine.flags \cup {"DIRTY"}]

(* Mutant: coins moved into an entry that was clean leave it clean.        *)
WriteCoinsUnmarked(mine, child) ==
    IF child = NONE \/ "DIRTY" \notin child.flags THEN mine
    ELSE IF mine = NONE
    THEN IF child.coins = Pruned THEN NONE ELSE [coins |-> child.coins, flags |-> {"DIRTY", "FRESH"}]
    ELSE IF "FRESH" \in mine.flags /\ child.coins = Pruned THEN NONE
    ELSE [coins |-> child.coins, flags |-> mine.flags]

WriteCoins(mine, child) ==
    IF child = NONE \/ "DIRTY" \notin child.flags THEN mine
    ELSE IF mine = NONE
    THEN IF child.coins = Pruned THEN NONE ELSE [coins |-> child.coins, flags |-> {"DIRTY", "FRESH"}]
    ELSE IF "FRESH" \in mine.flags /\ child.coins = Pruned THEN NONE
    ELSE [coins |-> child.coins, flags |-> mine.flags \cup {"DIRTY"}]

WriteNullifier(mine, child) ==
    IF child = NONE \/ "DIRTY" \notin child THEN mine
    ELSE IF mine = NONE \/ mine \cap {"entered"} # child \cap {"entered"} THEN child
    ELSE mine

(* The tree of an entry that is already there is kept.                     *)
WriteAnchor(mine, child) ==
    IF child = NONE \/ "DIRTY" \notin child.flags THEN mine
    ELSE IF mine = NONE THEN child
    ELSE IF mine.flags \cap {"entered"} # child.flags \cap {"entered"}
    THEN [tree |-> mine.tree, flags |-> child.flags]
    ELSE mine

FlushView ==
    /\ stage = "applied"
    /\ tip' = [coins      |-> [x \in Txids |-> WriteCoins(tip.coins[x], view.coins[x])],
               nullifiers |-> [n \in Nullifiers |-> WriteNullifier(tip.nullifiers[n], view.nullifiers[n])],
               anchors    |-> [r \in Roots |-> WriteAnchor(tip.anchors[r], view.anchors[r])],
               hashBlock  |-> view.hashBlock,
               hashAnchor |-> view.hashAnchor]
    /\ view' = NewCache
    /\ stage' = "none"
    /\ UNCHANGED db

(* The block failed, or was only checked: the view is destroyed.           *)
DropView ==
    /\ stage # "none"
    /\ view' = NewCache
    /\ stage' = "none"
    /\ UNCHANGED <<db, tip>>

(* BatchWrite of the database, which erases what is pruned or removed.     *)
StoredCoins(mine, child) ==
    IF child = NONE \/ "DIRTY" \notin child.flags THEN mine
    ELSE IF child.coins = Pruned THEN NONE ELSE child.coins

StoredAnchor(mine, child) ==
    IF child = NONE \/ "DIRTY" \notin child.flags THEN mine
    ELSE IF "entered" \in child.flags THEN child.tree ELSE NONE

StoredNullifiers ==
    {n \in Nullifiers : IF tip.nullifiers[n] = NONE \/ "DIRTY" \notin tip.nullifiers[n]
                        THEN n \in db.nullifiers
                        ELSE "entered" \in tip.nullifiers[n]}

(* FlushStateToDisk: Flush of pcoinsTip, written as one batch.             *)
FlushTip ==
    /\ stage = "none"
    /\ db' = [coins      |-> [x \in Txids |-> StoredCoins(db.coins[x], tip.coins[x])],
              nullifiers |-> StoredNullifiers,
              anchors    |-> [r \in Roots |-> StoredAnchor(db.anchors[r], tip.anchors[r])],
              hashBlock  |-> TipBestBlock,
              hashAnchor |-> TipBestAnchor]
    /\ tip' = [NewCache EXCEPT !.hashBlock = tip.hashBlock, !.hashAnchor = tip.hashAnchor]
    /\ UNCHANGED <<view, stage>>

(* The process dies and is started again.                                  *)
Crash ==
    /\ tip' = NewCache
    /\ view' = NewCache
    /\ stage' = "none"
    /\ UNCHANGED db

Next ==
    \/ \E x \in Txids : TipReadCoins(x) \/ ViewReadCoins(x)
    \/ \E n \in Nullifiers : TipReadNullifier(n) \/ ViewReadNullifier(n)
    \/ \E r \in Roots : TipReadAnchor(r) \/ ViewReadAnchor(r) \/ PushAnchor(r) \/ PopAnchor(r)
    \/ \E x \in Txids, c \in Coins \cup {Pruned} : ModifyCoins(x, c)
    \/ \E n \in Nullifiers, spent \in {{"entered"}, {}} : SetNullifier(n, spent)
    \/ \E b \in BlockHashes : SetBestBlock(b)
    \/ NewView
    \/ FlushView
    \/ DropView
    \/ FlushTip
    \/ Crash

Spec == Init /\ [][Next]_vars

------------------------------------------------------------------------------
(* Properties.                                                             *)

(* The assertion of BatchWrite (coins.cpp:284): when the view would move   *)
(* unspent coins up to a parent that has no entry for them, they are       *)
(* marked FRESH, so that marking them FRESH in the parent forgets nothing. *)
FreshWhenMovedUp ==
    \A x \in Txids :
        /\ view.coins[x] # NONE
        /\ "DIRTY" \in view.coins[x].flags
        /\ view.coins[x].coins # Pruned
        /\ tip.coins[x] = NONE
        => "FRESH" \in view.coins[x].flags

(* The meaning of the flags (coins.h:293-294 and 307, 319): an entry that  *)
(* is not DIRTY is the parent's version, and the parent of a FRESH entry   *)
(* has no unspent coins for it.  Writing back only dirty entries, and      *)
(* erasing fresh ones, relies on it.                                       *)
FlagsTruthful ==
    /\ \A x \in Txids :
          /\ tip.coins[x] # NONE =>
                /\ "DIRTY" \notin tip.coins[x].flags => tip.coins[x].coins = db.coins[x]
                /\ "FRESH" \in tip.coins[x].flags => db.coins[x] = NONE
          /\ view.coins[x] # NONE =>
                /\ "DIRTY" \notin view.coins[x].flags => view.coins[x].coins = TipCoins(x)
                /\ "FRESH" \in view.coins[x].flags => TipCoins(x) \in {NONE, Pruned}
    /\ \A n \in Nullifiers :
          /\ tip.nullifiers[n] # NONE /\ "DIRTY" \notin tip.nullifiers[n] => tip.nullifiers[n] = DbNullifier(n)
          /\ view.nullifiers[n] # NONE /\ "DIRTY" \notin view.nullifiers[n] =>
                view.nullifiers[n] = TipNullifier(n)
    /\ \A r \in Roots :
          /\ tip.anchors[r] # NONE /\ "DIRTY" \notin tip.anchors[r].flags =>
                TipAnchor(r) = DbAnchor(r) /\ DbAnchor(r) # NONE
          /\ view.anchors[r] # NONE /\ "DIRTY" \notin view.anchors[r].flags =>
                ViewAnchor(r) = TipAnchor(r) /\ TipAnchor(r) # NONE

(* GetAnchorAt returns the tree whose root was asked for, at every level:  *)
(* ConnectBlock appends to it and HaveJoinSplitRequirements rebuilds       *)
(* intermediate trees from it.  An entry survives removal and re-entry of  *)
(* its anchor across reorganisations, with the tree it was made with.      *)
TreesExact ==
    \A r \in Roots :
        /\ DbAnchor(r) \in {r, NONE}
        /\ TipAnchor(r) \in {r, NONE}
        /\ ViewAnchor(r) \in {r, NONE}

(* The assertions of PopAnchor (coins.cpp:184), ConnectBlock (main.cpp:    *)
(* 2500), DisconnectTip (2836) and ConnectTip (2870): the tree of the best *)
(* anchor can be read at every level, also after a crash.                  *)
BestAnchorHeld ==
    /\ DbAnchor(db.hashAnchor) # NONE
    /\ TipAnchor(TipBestAnchor) # NONE
    /\ ViewAnchor(ViewBestAnchor) # NONE

(* What the three levels amount to, caches and flags aside.                *)
Unspent(c) == IF c = NONE THEN Pruned ELSE c

DiskState ==
    [coins      |-> [x \in Txids |-> Unspent(db.coins[x])],
     nullifiers |-> db.nullifiers,
     anchors    |-> {r \in Roots : DbAnchor(r) # NONE},
     block      |-> db.hashBlock,
     anchor     |-> db.hashAnchor]

TipState ==
    [coins      |-> [x \in Txids |-> Unspent(TipCoins(x))],
     nullifiers |-> {n \in Nullifiers : TipNullifier(n) = {"entered"}},
     anchors    |-> {r \in Roots : TipAnchor(r) # NONE},
     block      |-> TipBestBlock,
     anchor     |-> TipBestAnchor]

ViewState ==
    [coins      |-> [x \in Txids |-> Unspent(ViewCoins(x))],
     nullifiers |-> {n \in Nullifiers : ViewNullifier(n) = {"entered"}},
     anchors    |-> {r \in Roots : ViewAnchor(r) # NONE},
     block      |-> ViewBestBlock,
     anchor     |-> ViewBestAnchor]

Abstract == INSTANCE CoinsSpec WITH disk <- DiskState, tip <- TipState, work <- ViewState

(* The caches implement CoinsSpec: no read changes what any level shows,   *)
(* a block's changes reach pcoinsTip all at once or not at all, and a      *)
(* flush or a crash leaves a state that some finished block produced.      *)
CachesTransparent == Abstract!Spec

=============================================================================
