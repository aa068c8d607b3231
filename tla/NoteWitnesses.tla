--------------------------- MODULE NoteWitnesses ---------------------------
(***************************************************************************)
(* The wallet's cache of witnesses for its notes (src/src/wallet/          *)
(* wallet.cpp).  A note can be spent with a witness of the current tree of *)
(* note commitments; the wallet keeps the witnesses of the last            *)
(* WITNESS_CACHE_SIZE blocks, so that blocks can be disconnected.          *)
(*                                                                         *)
(* The wallet hears of transactions of the memory pool, and of blocks that *)
(* ConnectTip and DisconnectTip (src/src/main.cpp) connect and disconnect; *)
(* an import of keys may scan the chain again.  All of it runs under       *)
(* cs_main.  A tree stands for the commitments that were appended to it,   *)
(* and a witness for the tree it belongs to.  Nothing is read from disk:   *)
(* init.cpp starts with an empty wallet that is not file backed.           *)
(***************************************************************************)
EXTENDS Integers, SequencesExt

CONSTANTS
    Txs, Keys,
    Notes,              \* the commitments, by JSOutPoint
    TxNotes,            \* those of a transaction, in their order
    Owner,              \* the key that decrypts a note, or NULL
    NULL,
    Transparent,        \* transactions with inputs or outputs of the wallet
    Blocks,             \* the transactions of blocks
    WITNESS_CACHE_SIZE,
    MaxHeight,          \* bound: the height of the chain
    StartHeight,        \* bound: its height when the wallet is created
    MaxScans            \* bound: the scans

ASSUME NoteWitnessesAssumption ==
    /\ TxNotes \in [Txs -> Seq(Notes)] /\ Owner \in [Notes -> Keys \cup {NULL}]
    /\ Transparent \subseteq Txs /\ Blocks \subseteq Seq(Txs)
    /\ WITNESS_CACHE_SIZE \in Nat \ {0}
    /\ MaxHeight \in Nat /\ StartHeight \in 0 .. MaxHeight /\ MaxScans \in Nat

VARIABLES
    chain,      \* the transactions of the active blocks above the genesis block
    keys,
    wallet,     \* mapWallet, mapNoteData, nWitnessCacheSize
    scans,
    failed      \* the assertion that has ended the process, or NULL

vars == <<chain, keys, wallet, scans, failed>>

BlockAt(h) == IF h = 0 THEN <<>> ELSE chain[h]

CommitmentsOf(vtx) == FlattenSeq([m \in 1 .. Len(vtx) |-> TxNotes[vtx[m]]])

\* The tree after block h of the active chain
TreeAt(h) == CommitmentsOf(FlattenSeq(SubSeq(chain, 1, h)))

Mined(t) == \E h \in 1 .. Len(chain) : t \in ToSet(chain[h])

Appendable(vtx) == IsInjective(vtx) /\ \A t \in ToSet(vtx) : ~ Mined(t)

Init ==
    /\ chain \in UNION {[1 .. h -> Blocks] : h \in 0 .. StartHeight}
    /\ IsInjective(FlattenSeq(chain))
    /\ keys = {} /\ scans = 0 /\ failed = NULL
    /\ wallet = [mapWallet |-> {}, notes |-> [n \in {} |-> NULL], nWitnessCacheSize |-> 0, ok |-> TRUE]

-----------------------------------------------------------------------------
(* Transactions *)

FindMyNotes(ks, t) == {n \in ToSet(TxNotes[t]) : Owner[n] \in ks}

\* Notes that are known keep their witnesses.
UpdatedNoteData(notes, mine) ==
    [n \in DOMAIN notes \cup mine |->
        IF n \in DOMAIN notes THEN notes[n] ELSE [witnesses |-> <<>>, witnessHeight |-> -1]]

AddToWalletIfInvolvingMe(w, ks, t, fUpdate) ==
    LET mine == FindMyNotes(ks, t)
    IN IF (t \in w.mapWallet /\ ~ fUpdate) \/ (t \notin w.mapWallet \cup Transparent /\ mine = {}) THEN w
       ELSE [w EXCEPT !.mapWallet = @ \cup {t}, !.notes = UpdatedNoteData(@, mine)]

SyncTransactions(w, ks, vtx, fUpdate) ==
    FoldLeft(LAMBDA v, t : AddToWalletIfInvolvingMe(v, ks, t, fUpdate), w, vtx)

-----------------------------------------------------------------------------
(* IncrementNoteWitnesses *)

Behind(nd, nHeight) == nd.witnessHeight < nHeight

\* The notes that a block at the height has something to add to
NotesBehind(w, nHeight) == {n \in DOMAIN w.notes : Behind(w.notes[n], nHeight)}

\* nWitnessCacheSize >= witnesses.size() compares as unsigned numbers.
Covers(size, witnesses) == size < 0 \/ size >= Len(witnesses)

\* Every note: are the asserted facts true of those behind the height?
CacheValid(w, nHeight) ==
    \A n \in DOMAIN w.notes :
        LET nd == w.notes[n]
        IN Behind(nd, nHeight) => /\ Covers(w.nWitnessCacheSize, nd.witnesses)
                                  /\ nd.witnessHeight \in {-1, nHeight - 1}

\* mutant: no witness leaves the cache
UntrimmedFront(nd) ==
    IF nd.witnesses = <<>> THEN nd ELSE [nd EXCEPT !.witnesses = <<@[1]>> \o @]

CopiedFront(nd) ==
    IF nd.witnesses = <<>> THEN nd
    ELSE LET all == <<nd.witnesses[1]>> \o nd.witnesses
         IN [nd EXCEPT !.witnesses = SubSeq(all, 1, Min({Len(all), WITNESS_CACHE_SIZE}))]

GrownSize(size) == size + 1    \* mutant: the size counts all blocks

IncrementedSize(size) == IF size < WITNESS_CACHE_SIZE THEN size + 1 ELSE size

\* One commitment c, appended to the tree already: existing witnesses grow, and
\* our note, if it is one, gets its first.
Witnessed(w, nHeight, c, tree) ==
    LET Grown(n, nd) ==
            IF n = c THEN [witnesses |-> <<tree>>, witnessHeight |-> nHeight - 1]
            ELSE IF nd.witnesses = <<>> THEN nd
            ELSE [nd EXCEPT !.witnesses[1] = Append(@, c)]
    IN [w EXCEPT !.notes = [n \in NotesBehind(w, nHeight) |-> Grown(n, @[n])] @@ @]

IncrementNoteWitnesses(w, nHeight, vtx, tree) ==
    LET cs     == CommitmentsOf(vtx)
        copied == [w EXCEPT !.notes = [n \in NotesBehind(w, nHeight) |-> CopiedFront(@[n])] @@ @,
                            !.nWitnessCacheSize = IncrementedSize(@)]
        seen   == FoldLeftDomain(LAMBDA v, m : Witnessed(v, nHeight, cs[m], tree \o SubSeq(cs, 1, m)), copied, cs)
        last   == [seen EXCEPT !.notes = [n \in NotesBehind(seen, nHeight) |-> [seen.notes[n] EXCEPT !.witnessHeight = nHeight]] @@ @]
    IN [last EXCEPT !.ok = @ /\ CacheValid(w, nHeight)
                             /\ \A n \in DOMAIN last.notes :
                                   Behind(seen.notes[n], nHeight)
                                       => Covers(last.nWitnessCacheSize, last.notes[n].witnesses)]

-----------------------------------------------------------------------------
(* DecrementNoteWitnesses *)

\* mutant: the witness of the disconnected block stays
KeptFront(nd) == nd.witnesses

PoppedFront(nd) == IF nd.witnesses = <<>> THEN <<>> ELSE Tail(nd.witnesses)

DecrementNoteWitnesses(w, nHeight) ==
    LET AtMost(nd) == nd.witnessHeight <= nHeight
        notes == [n \in DOMAIN w.notes |->
                     IF AtMost(w.notes[n])
                     THEN [witnesses |-> PoppedFront(w.notes[n]), witnessHeight |-> nHeight - 1]
                     ELSE w.notes[n]]
        size  == w.nWitnessCacheSize - 1
    IN [w EXCEPT !.notes = notes, !.nWitnessCacheSize = size,
                 !.ok = @ /\ \A n \in DOMAIN notes :
                                /\ AtMost(w.notes[n]) => /\ Covers(w.nWitnessCacheSize, w.notes[n].witnesses)
                                                         /\ w.notes[n].witnessHeight \in {-1, nHeight}
                                /\ notes[n].witnessHeight < nHeight => Covers(size, notes[n].witnesses)]

-----------------------------------------------------------------------------
(* Events *)

\* The wallet after a handler; an assertion ends the process.  The last one of
\* DecrementNoteWitnesses says that the cache is not used up.
Becomes(w) ==
    /\ wallet' = w
    /\ failed' = IF ~ w.ok THEN "cache" ELSE IF w.nWitnessCacheSize <= 0 /\ Len(chain') < Len(chain) THEN "used up" ELSE NULL

\* AcceptToMemoryPool
ReceiveTx(t) ==
    /\ failed = NULL /\ ~ Mined(t)
    /\ UNCHANGED <<chain, keys, scans>>
    /\ Becomes(AddToWalletIfInvolvingMe(wallet, keys, t, TRUE))

ConnectTip(vtx) ==
    /\ failed = NULL /\ Len(chain) < MaxHeight /\ Appendable(vtx)
    /\ chain' = Append(chain, vtx) /\ UNCHANGED <<keys, scans>>
    /\ Becomes(IncrementNoteWitnesses(SyncTransactions(wallet, keys, vtx, TRUE),
                                      Len(chain'), vtx, TreeAt(Len(chain))))

DisconnectTip ==
    /\ failed = NULL /\ chain # <<>>
    /\ chain' = Front(chain) /\ UNCHANGED <<keys, scans>>
    /\ Becomes(DecrementNoteWitnesses(SyncTransactions(wallet, keys, Last(chain), TRUE), Len(chain)))

\* From nStart, which follows from the birthday of the wallet or of the keys
ScanForWalletTransactions(w, ks, nStart, fUpdate) ==
    FoldLeft(LAMBDA v, h : IncrementNoteWitnesses(SyncTransactions(v, ks, BlockAt(h), fUpdate),
                                                  h, BlockAt(h), TreeAt(h - 1)),
             w, [m \in 1 .. Len(chain) + 1 - nStart |-> nStart + m - 1])

ImportAndScan(ks, fUpdate) ==
    /\ failed = NULL /\ scans < MaxScans
    /\ scans' = scans + 1 /\ keys' = keys \cup ks /\ UNCHANGED chain
    /\ \E nStart \in 0 .. Len(chain) : Becomes(ScanForWalletTransactions(wallet, keys', nStart, fUpdate))

\* The key of a transparent address decrypts no notes; importaddress does the same.
importprivkey == ImportAndScan({}, TRUE)

importwallet(ks) == ImportAndScan(ks, FALSE)

z_importkey(key, fRescan) ==
    /\ failed = NULL /\ key \notin keys
    /\ \/ fRescan /\ ImportAndScan({key}, TRUE)
       \/ ~ fRescan /\ keys' = keys \cup {key} /\ UNCHANGED <<chain, wallet, scans, failed>>

Next ==
    \/ \E t \in Txs : ReceiveTx(t)
    \/ \E vtx \in Blocks : ConnectTip(vtx)
    \/ DisconnectTip
    \/ importprivkey
    \/ \E ks \in SUBSET Keys : importwallet(ks)
    \/ \E key \in Keys, fRescan \in BOOLEAN : z_importkey(key, fRescan)

Spec == Init /\ [][Next]_vars

-----------------------------------------------------------------------------
(* Properties *)

\* The height of the block with note n
HeightOf(n) == CHOOSE h \in 1 .. Len(chain) : n \in ToSet(CommitmentsOf(chain[h]))

\* Whatever blocks come and go and whenever keys are imported and the chain is
\* scanned again, every witness in the cache is the witness of the tree after its
\* block of the active chain, the current one first, and of no block before the
\* one with the note.  A wrong one would make the wallet create JoinSplits that
\* the network refuses.
WitnessesRight ==
    failed = NULL =>
        \A n \in DOMAIN wallet.notes :
            LET ws == wallet.notes[n].witnesses
            IN ws # <<>> =>
                  /\ n \in ToSet(TreeAt(Len(chain)))
                  /\ Len(ws) <= Len(chain) + 1 - HeightOf(n)
                  /\ \A m \in 1 .. Len(ws) : ws[m] = TreeAt(Len(chain) + 1 - m)

\* As long as the chain is not scanned again, every mined note can be spent: it
\* has as many witnesses as nWitnessCacheSize and its depth allow, and the
\* process ends before the last of them is lost.  After a scan this is not so:
\* the scan raises nWitnessCacheSize, but not the witnesses of known notes.
NotesSpendable ==
    failed = NULL /\ scans = 0 =>
        \A n \in DOMAIN wallet.notes \cap ToSet(TreeAt(Len(chain))) :
            /\ wallet.nWitnessCacheSize > 0
            /\ Len(wallet.notes[n].witnesses) = Min({wallet.nWitnessCacheSize, Len(chain) + 1 - HeightOf(n)})

\* The assertions about nWitnessCacheSize and witnessHeight hold, scans included:
\* only a chain that goes back further than the cache ends the process.
CacheAssertionsHold == failed # "cache"
=============================================================================
