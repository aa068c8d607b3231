--------------------------- MODULE BlockDownload ---------------------------
(***************************************************************************)
(* How a node fetches blocks from its peers (src/src/main.cpp,             *)
(* src/src/net.cpp): what every peer is known to have, which block is in   *)
(* flight from which peer, the download window, and what is done about     *)
(* peers that do not answer.                                               *)
(*                                                                         *)
(* Three parties interleave.  The message thread copies vNodes and takes a *)
(* reference to every node of the copy, then handles the messages of these *)
(* nodes and sends to them (under cs_main).  The socket thread takes a     *)
(* node marked fDisconnect out of vNodes, and deletes it once nobody holds *)
(* a reference: FinalizeNode.  The peers announce, answer late, wrongly or *)
(* not at all, and go away.                                                *)
(*                                                                         *)
(* Time is left out: a request that is in flight may time out at any       *)
(* moment, and the best header may be recent or not.  The headers that a   *)
(* peer owes fit one message.  Left out are what is not about blocks, the  *)
(* choice of preferred peers (every peer is one to download from) and      *)
(* misbehaviour other than blocks that fail CheckBlock, since a peer may   *)
(* go away at any time.  Blocks that fail ConnectBlock have no descendants *)
(* here; module ChainState has the general case.                           *)
(***************************************************************************)
EXTENDS BlockTree, FiniteSets, Sequences, Functions

CONSTANTS
    Nodes,          \* node ids; each is used by one connection
    Prompt,         \* the peers that stay and answer before a timeout
    Best,           \* the best block that these peers have
    Announced,      \* the blocks that each peer may announce; a prompt one, its best
    HeadersUpTo,    \* the last of the headers that each peer may send, likewise
    Bad,            \* the blocks that fail ConnectBlock
    MaxInTransit,   \* MAX_BLOCKS_IN_TRANSIT_PER_PEER
    Window,         \* BLOCK_DOWNLOAD_WINDOW
    MinBlocksToKeep \* MIN_BLOCKS_TO_KEEP

ASSUME BlockDownloadAssumption ==
    /\ Prompt \subseteq Nodes /\ NULL \notin Nodes
    /\ Best \in Blocks /\ Bad \subseteq Blocks \ Ancestors[Best]
    /\ Announced \in [Nodes -> SUBSET Blocks] /\ HeadersUpTo \in [Nodes -> SUBSET Blocks]
    /\ \A n \in Prompt : Announced[n] = {Best} /\ HeadersUpTo[n] = {Best}
    /\ \A b \in Blocks \ {Best} : Ancestors[b] \cap Bad = {} => Work[b] < Work[Best]
    /\ \A b \in Bad : Children(b) = {}
    /\ MaxInTransit \in Nat \ {0} /\ Window \in Nat \ {0} /\ MinBlocksToKeep \in Nat
    /\ \A b, c \in Blocks : Work[b] = Work[c] => b = c

VARIABLES
    index,          \* mapBlockIndex
    data,           \* blocks with BLOCK_HAVE_DATA
    failed,         \* blocks with BLOCK_FAILED_VALID
    net,            \* mapNodeState, mapBlocksInFlight and nQueuedValidatedHeaders
    vNodes,
    vNodesDisconnected,
    fDisconnect,    \* the nodes marked so
    copy,           \* vNodesCopy of the message thread
    used,           \* the node ids given away
    getheaders,     \* the prompt peers that owe headers
    fSyncStarted,   \* the nodes marked so
    nSyncStarted

chainVars == <<index, data, failed>>

connVars == <<vNodes, vNodesDisconnected, fDisconnect, copy, used>>

syncVars == <<getheaders, fSyncStarted, nSyncStarted>>

downloadVars == <<chainVars, net, connVars, syncVars>>

NewNodeState ==
    [pindexBestKnownBlock |-> NULL, hashLastUnknownBlock |-> NULL, pindexLastCommonBlock |-> NULL,
     fStalling |-> FALSE, fShouldBan |-> FALSE, vBlocksInFlight |-> <<>>]

NoFunction == [x \in {} |-> NULL]

Without(f, S) == [x \in DOMAIN f \ S |-> f[x]]

With(f, x, v) == [y \in DOMAIN f \cup {x} |-> IF y = x THEN v ELSE f[y]]

DownloadInit ==
    /\ index = {Genesis} /\ data = {Genesis} /\ failed = {}
    /\ net = [nodes |-> NoFunction, inFlight |-> NoFunction, nQueuedValidatedHeaders |-> 0]
    /\ vNodes = {} /\ vNodesDisconnected = {} /\ fDisconnect = {} /\ copy = {} /\ used = {}
    /\ getheaders = {} /\ fSyncStarted = {} /\ nSyncStarted = 0

-----------------------------------------------------------------------------
(* The block index *)

Highest(S) == CHOOSE b \in S : \A c \in S : Work[c] <= Work[b]

Lowest(S) == CHOOSE b \in S : \A c \in S : Height[b] <= Height[c]

Linked(b) == Ancestors[b] \subseteq data

Invalid(b) == Ancestors[b] \cap failed # {}

\* ActivateBestChain: the block on the way to the most work that fails to connect
\* is marked, until the way is clear.
Failing(have, failing) ==
    LET ways(bad) == {b \in have : Ancestors[b] \subseteq have /\ Ancestors[b] \cap bad = {}}
        met(bad)  == Ancestors[Highest(ways(bad))] \cap Bad
        Marked[bad \in SUBSET Bad] == IF met(bad) = {} THEN bad ELSE Marked[bad \cup {Lowest(met(bad))}]
    IN Marked[failing]

\* chainActive.Tip()
Tip == Highest({b \in data : Linked(b) /\ ~ Invalid(b)})

-----------------------------------------------------------------------------
(* Blocks in flight; s is the state net *)

\* Where the iterator in mapBlocksInFlight for block b points to in the list queue
Position(queue, b) == CHOOSE m \in 1 .. Len(queue) : queue[m].hash = b

\* The list without the request at position m
Erased(queue, m) == [l \in 1 .. Len(queue) - 1 |-> IF l < m THEN queue[l] ELSE queue[l + 1]]

Counted(request) == IF request.fValidatedHeaders THEN 1 ELSE 0

\* mutant: a request for a block without a header is taken off the count as well
MarkBlockAsReceivedMiscounted(s, b) ==
    IF b \in DOMAIN s.inFlight
    THEN LET queue == s.nodes[s.inFlight[b]].vBlocksInFlight
         IN [nodes    |-> [s.nodes EXCEPT ![s.inFlight[b]] =
                             [@ EXCEPT !.vBlocksInFlight = Erased(queue, Position(queue, b)), !.fStalling = FALSE]],
             inFlight |-> Without(s.inFlight, {b}), nQueuedValidatedHeaders |-> s.nQueuedValidatedHeaders - 1]
    ELSE s

MarkBlockAsReceived(s, b) ==
    IF b \in DOMAIN s.inFlight
    THEN LET n     == s.inFlight[b]
             queue == s.nodes[n].vBlocksInFlight
             m     == Position(queue, b)
         IN [nodes    |-> [s.nodes EXCEPT ![n] = [@ EXCEPT !.vBlocksInFlight = Erased(queue, m), !.fStalling = FALSE]],
             inFlight |-> Without(s.inFlight, {b}),
             nQueuedValidatedHeaders |-> s.nQueuedValidatedHeaders - Counted(queue[m])]
    ELSE s

MarkBlockAsInFlight(s, n, b, fValidatedHeaders) ==
    LET r       == MarkBlockAsReceived(s, b)
        request == [hash |-> b, fValidatedHeaders |-> fValidatedHeaders]
    IN [nodes    |-> [r.nodes EXCEPT ![n].vBlocksInFlight = Append(@, request)],
        inFlight |-> With(r.inFlight, b, n),
        nQueuedValidatedHeaders |-> r.nQueuedValidatedHeaders + Counted(request)]

\* Is b at least as good as what the peer is known to have?
Better(state, b) ==
    state.pindexBestKnownBlock = NULL \/ Work[b] >= Work[state.pindexBestKnownBlock]

ProcessBlockAvailability(state, known) ==
    LET b == state.hashLastUnknownBlock
    IN IF b = NULL \/ b \notin known THEN state
       ELSE [state EXCEPT !.hashLastUnknownBlock = NULL,
                          !.pindexBestKnownBlock = IF Better(state, b) THEN b ELSE @]

UpdateBlockAvailability(old, b, known) ==
    LET state == ProcessBlockAvailability(old, known)
    IN IF b \notin known THEN [state EXCEPT !.hashLastUnknownBlock = b]
       ELSE [state EXCEPT !.pindexBestKnownBlock = IF Better(state, b) THEN b ELSE @]

LastCommonAncestor(a, b) == Highest(Ancestors[a] \cap Ancestors[b])

\* The last common block to start from: at first the fork from the active chain
CommonBlock(state) ==
    LET best  == state.pindexBestKnownBlock
        guess == CHOOSE b \in Ancestors[Tip] :
                    Height[b] = IF Height[best] < Height[Tip] THEN Height[best] ELSE Height[Tip]
    IN LastCommonAncestor(IF state.pindexLastCommonBlock = NULL THEN guess ELSE state.pindexLastCommonBlock, best)

BeforeWindowEnd(b, nWindowEnd) == Height[b] < nWindowEnd    \* mutant

InWindow(b, nWindowEnd) == Height[b] <= nWindowEnd

\* The blocks of S, which are of one chain, by their height
ByHeight(S) == [m \in 1 .. Cardinality(S) |-> CHOOSE b \in S : Cardinality({c \in S : Height[c] < Height[b]}) = m - 1]

\* FindNextBlocksToDownload for node n, from the last common block onwards: the
\* new last common block, the blocks to fetch and the node that stalls the
\* download.  The walk ends after the last block to fetch, or one block after the
\* window, or before a block that failed.
FindNextBlocksToDownload(state, n, common) ==
    LET nWindowEnd == Height[common] + Window
        count   == MaxInTransit - Len(state.vBlocksInFlight)
        walk    == {b \in Ancestors[state.pindexBestKnownBlock] \ Ancestors[common] :
                       Height[b] <= nWindowEnd + 1 /\ ~ Invalid(b)}
        have    == data \cup Ancestors[Tip]
        missing == walk \ (have \cup DOMAIN net.inFlight)
        fetch   == {b \in missing : /\ InWindow(b, nWindowEnd)
                                    /\ Cardinality({c \in missing : Height[c] < Height[b]}) < count}
        seen    == IF Cardinality(fetch) < count THEN walk
                   ELSE {b \in walk : \E c \in fetch : Height[b] <= Height[c]}
        waiting == (seen \cap DOMAIN net.inFlight) \ have
    IN [common  |-> Highest({common} \cup {b \in seen \cap have : Linked(b)}),
        fetch   |-> ByHeight(fetch),
        staller |-> IF fetch = {} /\ missing # {} /\ waiting # {} THEN net.inFlight[Lowest(waiting)] ELSE n]

-----------------------------------------------------------------------------
(* Connections *)

InitializeNode(n) ==
    /\ n \notin used
    /\ used' = used \cup {n} /\ vNodes' = vNodes \cup {n}
    /\ net' = [net EXCEPT !.nodes = With(@, n, NewNodeState)]
    /\ UNCHANGED <<chainVars, vNodesDisconnected, fDisconnect, copy, syncVars>>

\* The peer closes the connection, or an RPC call does.
CloseSocketDisconnect(n) ==
    /\ n \in vNodes \ (fDisconnect \cup Prompt)
    /\ fDisconnect' = fDisconnect \cup {n}
    /\ UNCHANGED <<chainVars, net, vNodes, vNodesDisconnected, copy, used, syncVars>>

\* ThreadSocketHandler: "Disconnect nodes"
RemoveNode(n) ==
    /\ n \in vNodes \cap fDisconnect
    /\ vNodes' = vNodes \ {n} /\ vNodesDisconnected' = vNodesDisconnected \cup {n}
    /\ UNCHANGED <<chainVars, net, fDisconnect, copy, used, syncVars>>

\* mutant: the requests to the node stay in mapBlocksInFlight
StillInFlight(n) == {}

InFlightFrom(n) == {q.hash : q \in Range(net.nodes[n].vBlocksInFlight)}

\* ThreadSocketHandler: "Delete disconnected nodes".  nQueuedValidatedHeaders
\* keeps the requests of the node.
FinalizeNode(n) ==
    /\ n \in vNodesDisconnected /\ n \notin copy
    /\ vNodesDisconnected' = vNodesDisconnected \ {n} /\ fDisconnect' = fDisconnect \ {n}
    /\ net' = [net EXCEPT !.nodes = Without(@, {n}), !.inFlight = Without(@, InFlightFrom(n))]
    /\ fSyncStarted' = fSyncStarted \ {n}
    /\ nSyncStarted' = IF n \in fSyncStarted THEN nSyncStarted - 1 ELSE nSyncStarted
    /\ UNCHANGED <<chainVars, vNodes, copy, used, getheaders>>

\* ThreadMessageHandler
BeginLoop ==
    /\ copy = {} /\ copy' = vNodes
    /\ UNCHANGED <<chainVars, net, vNodes, vNodesDisconnected, fDisconnect, used, syncVars>>

EndLoop ==
    /\ copy # {} /\ copy' = {}
    /\ UNCHANGED <<chainVars, net, vNodes, vNodesDisconnected, fDisconnect, used, syncVars>>

-----------------------------------------------------------------------------
(* Messages from node n *)

\* pindexBestHeader
BestHeader == Highest(index)

\* Node n is asked for the headers after the locator of block b.  A prompt peer
\* owes those up to Best.  An answer without headers changes nothing, and what
\* the other peers send may come without a request.
PushGetheaders(n, b) ==
    getheaders' = getheaders \cup {m \in {n} \cap Prompt : Best \notin Ancestors[b]}

\* "inv" of block b; for an unknown block the headers are asked for, and the block
\* as well when the tip is recent, unless it is in flight already.
ReceiveInv(n, b) ==
    /\ n \in copy /\ UNCHANGED <<chainVars, connVars, fSyncStarted, nSyncStarted>>
    /\ IF b \in index \cup DOMAIN net.inFlight THEN UNCHANGED getheaders ELSE PushGetheaders(n, BestHeader)
    /\ LET s == [net EXCEPT !.nodes[n] = UpdateBlockAvailability(@, b, index)]
       IN \/ net' = s
          \/ /\ b \notin index /\ b \notin DOMAIN s.inFlight
             /\ Len(s.nodes[n].vBlocksInFlight) < MaxInTransit
             /\ net' = MarkBlockAsInFlight(s, n, b, FALSE)

\* "headers" up to block b, from a block that is known onwards; a prompt peer sends
\* them when it is asked.
ReceiveHeaders(n, b) ==
    /\ n \in copy /\ (n \in Prompt => n \in getheaders)
    /\ getheaders' = getheaders \ {n}
    /\ UNCHANGED <<data, failed, connVars, fSyncStarted, nSyncStarted>>
    /\ index' = index \cup {c \in Ancestors[b] : ~ Invalid(c)}
    /\ net' = IF Invalid(b) THEN net ELSE [net EXCEPT !.nodes[n] = UpdateBlockAvailability(@, b, index')]

AcceptBlockHeader(b) == ~ Invalid(b) /\ (b \in index \/ Parent[b] \in index)

\* AcceptBlock: an unrequested block must promise more work.
Wanted(b, fRequested) ==
    fRequested \/ (Work[b] > Work[Tip] /\ Height[b] <= Height[Tip] + MinBlocksToKeep)

\* "block" b: from any node, asked for or not, in flight from this node or another
ReceiveBlock(n, b) ==
    /\ n \in copy /\ UNCHANGED <<connVars, syncVars>>
    /\ net' = MarkBlockAsReceived(net, b)
    /\ index' = IF AcceptBlockHeader(b) THEN index \cup {b} ELSE index
    /\ data' = IF AcceptBlockHeader(b) /\ Wanted(b, b \in DOMAIN net.inFlight) THEN data \cup {b} ELSE data
    /\ failed' = Failing(data', failed)

\* "block" with the header of b and other transactions: CheckBlock fails
ReceiveCorruptBlock(n, b) ==
    /\ n \in copy /\ UNCHANGED <<chainVars, connVars, syncVars>>
    /\ net' = [MarkBlockAsReceived(net, b) EXCEPT !.nodes[n].fShouldBan = TRUE]

-----------------------------------------------------------------------------
(* SendMessages to node n *)

Disconnect(n) ==
    /\ n \in copy \ fDisconnect
    /\ fDisconnect' = fDisconnect \cup {n}
    /\ UNCHANGED <<chainVars, vNodes, vNodesDisconnected, copy, used, syncVars>>

\* "Start block sync": headers are asked of one node, or of every node when the best
\* header is recent.
StartSync(n, recent) ==
    /\ n \in copy \ fSyncStarted /\ (nSyncStarted = 0 \/ recent)
    /\ fSyncStarted' = fSyncStarted \cup {n} /\ nSyncStarted' = nSyncStarted + 1
    /\ PushGetheaders(n, IF BestHeader = Genesis THEN Genesis ELSE Parent[BestHeader])
    /\ UNCHANGED <<chainVars, net, connVars>>

BanNode(n) ==
    /\ n \in copy /\ net.nodes[n].fShouldBan
    /\ net' = [net EXCEPT !.nodes[n].fShouldBan = FALSE]
    /\ Disconnect(n)

\* The oldest request, or the stalling of the others, lasts too long.
TimeOut(n) ==
    /\ n \in copy \ Prompt /\ ~ net.nodes[n].fShouldBan
    /\ net.nodes[n].fStalling \/ net.nodes[n].vBlocksInFlight # <<>>
    /\ Disconnect(n)
    /\ UNCHANGED net

\* The state after the first m requests of queue to node n
Requested(s, n, queue) ==
    LET f[m \in 0 .. Len(queue)] ==
            IF m = 0 THEN s ELSE MarkBlockAsInFlight(f[m - 1], n, queue[m], TRUE)
    IN f[Len(queue)]

\* FindNextBlocksToDownload and the requests.  A node whose best block is behind
\* the tip has nothing to fetch.
FetchBlocks(n) ==
    /\ n \in copy \ fDisconnect /\ ~ net.nodes[n].fShouldBan
    /\ Len(net.nodes[n].vBlocksInFlight) < MaxInTransit
    /\ UNCHANGED <<chainVars, connVars, syncVars>>
    /\ \E state \in {ProcessBlockAvailability(net.nodes[n], index)} :
          \/ /\ state.pindexBestKnownBlock \in Blocks => Work[state.pindexBestKnownBlock] < Work[Tip]
             /\ net' = [net EXCEPT !.nodes[n] = state]
          \/ /\ state.pindexBestKnownBlock \in Blocks /\ Work[state.pindexBestKnownBlock] >= Work[Tip]
             /\ \E common \in {CommonBlock(state)} :
                \E found \in {FindNextBlocksToDownload(state, n, common)} :
                \E s \in {Requested([net EXCEPT !.nodes[n] = [state EXCEPT !.pindexLastCommonBlock = found.common]],
                                    n, found.fetch)} :
                   net' = IF s.nodes[n].vBlocksInFlight = <<>> /\ found.staller # n
                          THEN [s EXCEPT !.nodes[found.staller].fStalling = TRUE] ELSE s

\* A prompt peer answers in order, "getheaders" before "getdata".
Answers(n) == IF n \in Prompt THEN InFlightFrom(n) \cap index ELSE Blocks \ {Genesis}

MessageThread ==
    \/ BeginLoop \/ EndLoop
    \/ \E n \in copy :
          \/ \E b \in Announced[n] : ReceiveInv(n, b)
          \/ \E b \in HeadersUpTo[n] : ReceiveHeaders(n, b)
          \/ \E b \in Answers(n) : ReceiveBlock(n, b)
          \/ n \notin Prompt /\ \E b \in Blocks \ {Genesis} : ReceiveCorruptBlock(n, b)
          \/ BanNode(n) \/ TimeOut(n) \/ FetchBlocks(n)
          \/ \E recent \in BOOLEAN : StartSync(n, recent)

SocketThread ==
    \E n \in Nodes : InitializeNode(n) \/ CloseSocketDisconnect(n) \/ RemoveNode(n) \/ FinalizeNode(n)

DownloadNext == MessageThread \/ SocketThread

\* The two threads loop for ever, and every loop of the message thread comes to
\* every node.  The clock runs, so what can time out does if it can again and
\* again.  Prompt peers answer what they are asked for; whether they connect, and
\* whether they ever announce a block, is left open.
Fairness ==
    /\ WF_downloadVars(BeginLoop \/ EndLoop)
    /\ \A n \in Nodes \ Prompt : WF_downloadVars(RemoveNode(n) \/ FinalizeNode(n)) /\ SF_downloadVars(BanNode(n) \/ TimeOut(n))
    /\ \A n \in Prompt :
          /\ SF_downloadVars(StartSync(n, FALSE)) /\ SF_downloadVars(FetchBlocks(n))
          /\ SF_downloadVars(ReceiveHeaders(n, Best))
          /\ SF_downloadVars(n \in copy /\ \E b \in Answers(n) : ReceiveBlock(n, b))

DownloadSpec == DownloadInit /\ [][DownloadNext]_downloadVars /\ Fairness

-----------------------------------------------------------------------------
(* Properties *)

\* mapBlocksInFlight and the lists of the nodes agree, so that a block is in
\* flight from one node at most; the iterators and node ids that the map holds
\* are good although nodes are finalized while others wait for their blocks, and
\* no node has more than MAX_BLOCKS_IN_TRANSIT_PER_PEER requests.  The node state
\* of every node that the message thread works on exists.  nSyncStarted is the
\* "number of nodes with fSyncStarted".
RequestsConsistent ==
    /\ nSyncStarted = Cardinality(fSyncStarted)
    /\ copy \subseteq DOMAIN net.nodes
    /\ \A b \in DOMAIN net.inFlight : net.inFlight[b] \in DOMAIN net.nodes
    /\ \A n \in DOMAIN net.nodes :
          LET queue == net.nodes[n].vBlocksInFlight
          IN /\ \A m \in 1 .. Len(queue) : queue[m].hash \in DOMAIN net.inFlight /\ net.inFlight[queue[m].hash] = n
             /\ Len(queue) = Cardinality({b \in DOMAIN net.inFlight : net.inFlight[b] = n})
             /\ Len(queue) <= MaxInTransit

\* The number of requests that the timeout of a block allows for is never less
\* than those that are in flight: no peer is given less time than the comment
\* in SendMessages promises it.  (It may be more: FinalizeNode forgets to count.)
TimeoutLongEnough ==
    net.nQueuedValidatedHeaders >=
        Cardinality({b \in DOMAIN net.inFlight :
                        \E q \in Range(net.nodes[net.inFlight[b]].vBlocksInFlight) : q.hash = b /\ q.fValidatedHeaders})

\* Is n asked for its headers, or known to have Best?
Approached(n) ==
    n \in getheaders \/ (n \in DOMAIN net.nodes /\ net.nodes[n].pindexBestKnownBlock = Best)

\* When a prompt peer is asked for headers, or is known to have its best block, or
\* when it is connected and the others are all gone, although one of them was the
\* one to sync from, the best chain is downloaded and becomes active at last,
\* whatever the others announce, keep back, corrupt or send unasked.
BestChainDownloaded ==
    []<>(\E n \in Prompt : Approached(n) \/ DOMAIN net.nodes = Prompt) => <>[](Tip = Best)
=============================================================================
