---------------------------- MODULE BlockDownload ----------------------------
(***************************************************************************)
(* How a node fetches the chain of a peer: getblocks, inv, getdata, block  *)
(* (main.cpp: ProcessMessage, SendMessages, ProcessBlock; net.h, net.cpp:  *)
(* AskFor, PushGetBlocks, PushInventory; mruset.h).                        *)
(*                                                                         *)
(* One client, one server and the TCP connection between them, a queue of  *)
(* messages each way.  The server's chain grows; a block is its height.    *)
(* The client's own announcements, of blocks the server has, are left out. *)
(* Trickling concerns transactions only and so does mapRelay: see TxRelay. *)
(***************************************************************************)
EXTENDS Integers, FiniteSets, SequencesExt

CONSTANTS
    StartHeight,    \* the server's height at the start
    MaxHeight,      \* bound: the server's height at the end
    PowChains,      \* the chains: sets of heights of proof-of-work blocks
    BatchLimit,     \* nLimit of getblocks: 500
    InvMax,         \* items of one inv message: 1000
    KnownMax,       \* size of setInventoryKnown: 1000
    YoungSpan,      \* nStakeMinAge, in blocks
    MaxReconnects   \* bound: lost connections

ASSUME DownloadAssumption ==
    /\ StartHeight \in Nat /\ MaxHeight \in Nat /\ StartHeight <= MaxHeight
    /\ \A pow \in PowChains : pow \subseteq 0 .. MaxHeight /\ 0 \in pow
    /\ BatchLimit \in Nat \ {0} /\ InvMax \in Nat \ {0} /\ KnownMax \in Nat \ {0}
    /\ YoungSpan \in Nat /\ MaxReconnects \in Nat

VARIABLES
    client,         \* see Connect
    server,
    pow,            \* heights of the proof-of-work blocks of the server's chain
    reconnects,
    stalled         \* history: the client's height when the last new block found
                    \* it behind with nothing under way

vars == <<client, server, pow, reconnects, stalled>>

Height == 0 .. MaxHeight
None == -1          \* no hashContinue, no stalled height
NoStop == 0         \* uint256(0) as hashStop; the genesis block is never one
-----------------------------------------------------------------------------
GetBlocks(begin, stop) == [type |-> "getblocks", begin |-> begin, stop |-> stop]
Inv(v) == [type |-> "inv", v |-> v]
GetData(v) == [type |-> "getdata", v |-> v]
TheBlock(b) == [type |-> "block", b |-> b]

\* SendMessages: the inventory v as messages of InvMax items.
InvMessages(v) ==
    [i \in 1 .. (Len(v) + InvMax - 1) \div InvMax |->
        Inv(SubSeq(v, (i - 1) * InvMax + 1, IF i * InvMax < Len(v) THEN i * InvMax ELSE Len(v)))]

\* CNode::PushGetBlocks, for some requests in a row: one that repeats the request
\* before it is not sent.
PushGetBlocks(c, requests) ==
    LET all == c.lastGetBlocks \o requests
        Repeats(i) == i > 1 /\ all[i] = all[i - 1]
        sent == SelectSeq([i \in DOMAIN all |-> i], LAMBDA i : i > Len(c.lastGetBlocks) /\ ~Repeats(i))
    IN  [c EXCEPT !.lastGetBlocks = IF all = <<>> THEN <<>> ELSE <<Last(all)>>,
                  !.vSend = @ \o [i \in DOMAIN sent |-> all[sent[i]]]]

\* CNode::AskFor, for some blocks in a row: at once, or two minutes after the last
\* request for the block.
AskFor(c, v) ==
    [c EXCEPT !.mapAskFor = @ \o SelectSeq(v, LAMBDA b : b \notin c.mapAlreadyAskedFor),
              !.delayed = @ \o SelectSeq(v, LAMBDA b : b \in c.mapAlreadyAskedFor),
              !.mapAlreadyAskedFor = @ \cup Range(v)]

\* GetOrphanRoot of an orphan; WantedByOrphan is the block before it.
GetOrphanRoot(orphans, b) ==
    CHOOSE r \in orphans : r <= b /\ r - 1 \notin orphans /\ r .. b \subseteq orphans

\* CNode::PushInventory, for some blocks in a row.
PushInventory(s, v) ==
    [s EXCEPT !.vInventoryToSend = @ \o SelectSeq(v, LAMBDA b : b \notin Range(s.setInventoryKnown))]

\* mruset::insert: the oldest element leaves a full set.
Remember(known, b) ==
    IF b \in Range(known) THEN known
    ELSE Append(IF Len(known) = KnownMax THEN Tail(known) ELSE known, b)

\* The state of a connection made when the client has the blocks up to best: the
\* handshake sends the first getblocks.  mapAlreadyAskedFor and the orphans are the
\* process's, the rest is CNode's.
Connect(best, orphans, asked) ==
    PushGetBlocks([best |-> best, mapOrphanBlocks |-> orphans, mapAlreadyAskedFor |-> asked,
                   mapAskFor |-> <<>>, delayed |-> <<>>, lastGetBlocks |-> <<>>, vSend |-> <<>>],
                  <<GetBlocks(best, NoStop)>>)
Accepted(best) ==
    [best |-> best, setInventoryKnown |-> <<>>, vInventoryToSend |-> <<>>,
     hashContinue |-> None, vSend |-> <<>>]

Init ==
    /\ client = Connect(0, {}, {})
    /\ server = Accepted(StartHeight)
    /\ pow \in PowChains
    /\ reconnects = 0
    /\ stalled = None
-----------------------------------------------------------------------------
\* Something is left to handle, on either side.
Busy ==
    \/ client.vSend # <<>> \/ client.mapAskFor # <<>> \/ client.delayed # <<>>
    \/ server.vSend # <<>> \/ server.vInventoryToSend # <<>>

Received(from, type) == from.vSend # <<>> /\ Head(from.vSend).type = type
Taken(from) == [from EXCEPT !.vSend = Tail(@)]

\* Mutant: the end of a batch is taken for the last block before the limit.
GetBlocksServedShort(s, begin, stop) ==
    LET last == begin + BatchLimit
        stopped == stop \in begin + 1 .. last /\ stop <= s.best
        end == IF stopped THEN stop - 1 ELSE IF last < s.best THEN last ELSE s.best
    IN  [PushInventory(s, [i \in 1 .. end - begin |-> begin + i])
         EXCEPT !.hashContinue = IF ~stopped /\ last < s.best THEN last + 1 ELSE @]

\* The "getblocks" handler: the blocks after begin up to hashStop, to the limit
\* or to the end.
GetBlocksServed(s, begin, stop) ==
    LET last == begin + BatchLimit
        stopped == stop \in begin + 1 .. last /\ stop <= s.best
        end == IF stopped THEN stop - 1 ELSE IF last < s.best THEN last ELSE s.best
        latest == IF stopped /\ stop # s.best /\ s.best - stop < YoungSpan THEN <<s.best>> ELSE <<>>
    IN  [PushInventory(s, [i \in 1 .. end - begin |-> begin + i] \o latest)
         EXCEPT !.hashContinue = IF ~stopped /\ last <= s.best THEN last ELSE @]

ServeGetBlocks ==
    /\ Received(client, "getblocks")
    /\ LET m == Head(client.vSend) IN server' = GetBlocksServed(server, m.begin, m.stop)
    /\ client' = Taken(client)
    /\ UNCHANGED <<pow, reconnects, stalled>>

\* GetLastBlockIndex(pindexBest, false).
LastPow(best) == CHOOSE p \in pow : p <= best /\ \A q \in pow : q <= best => q <= p

\* The "getdata" handler: the blocks, and after the last one of a batch the
\* inventory that is to trigger the next getblocks.
GetDataServed(s, v) ==
    LET found == SelectSeq(v, LAMBDA b : b <= s.best)
        Answer(b) == IF b # s.hashContinue THEN <<TheBlock(b)>>
                     ELSE <<TheBlock(b), Inv(<<LastPow(s.best)>>)>>
    IN  [s EXCEPT !.vSend = @ \o FlattenSeq([i \in DOMAIN found |-> Answer(found[i])]),
                  !.hashContinue = IF @ \in Range(found) THEN None ELSE @]

ServeGetData ==
    /\ Received(client, "getdata")
    /\ server' = GetDataServed(server, Head(client.vSend).v)
    /\ client' = Taken(client)
    /\ UNCHANGED <<pow, reconnects, stalled>>

\* SendMessages to the client: what it does not know yet, in order.
SendInventory ==
    /\ server.vInventoryToSend # <<>>
    /\ LET r == FoldLeft(LAMBDA a, b :
                    IF b \in Range(a.known) THEN a
                    ELSE [known |-> Remember(a.known, b), v |-> Append(a.v, b)],
                    [known |-> server.setInventoryKnown, v |-> <<>>], server.vInventoryToSend)
       IN  server' = [server EXCEPT !.setInventoryKnown = r.known, !.vInventoryToSend = <<>>,
                                    !.vSend = @ \o InvMessages(r.v)]
    /\ UNCHANGED <<client, pow, reconnects, stalled>>

\* The server accepts a new best block (AcceptBlock relays it).
NewBlock ==
    /\ server.best < MaxHeight
    /\ server' = PushInventory([server EXCEPT !.best = @ + 1], <<server.best + 1>>)
    /\ stalled' = IF ~Busy /\ client.best < server.best THEN client.best ELSE stalled
    /\ UNCHANGED <<client, pow, reconnects>>
-----------------------------------------------------------------------------
\* The "inv" handler: what the client lacks is asked for; an orphan, and the last
\* block when it is known, lead to a getblocks.
InvReceived(c, v) ==
    LET Request(i) ==
            IF v[i] \in c.mapOrphanBlocks THEN <<GetBlocks(c.best, GetOrphanRoot(c.mapOrphanBlocks, v[i]))>>
            ELSE IF v[i] <= c.best /\ i = Len(v) THEN <<GetBlocks(v[i], NoStop)>>
            ELSE <<>>
        new == SelectSeq(v, LAMBDA b : b > c.best /\ b \notin c.mapOrphanBlocks)
    IN  PushGetBlocks(AskFor(c, new), FlattenSeq([i \in DOMAIN v |-> Request(i)]))

ReceiveInv ==
    /\ Received(server, "inv")
    /\ client' = InvReceived(client, Head(server.vSend).v)
    /\ server' = Taken(server)
    /\ UNCHANGED <<pow, reconnects, stalled>>

\* ProcessBlock of the next block: it and the orphans after it join the chain.
ExtendChain(c, b) ==
    LET run == {h \in Height : h >= b /\ b + 1 .. h \subseteq c.mapOrphanBlocks}
        top == CHOOSE h \in run : \A g \in run : g <= h
    IN  [c EXCEPT !.best = top, !.mapOrphanBlocks = @ \ (b .. top), !.mapAlreadyAskedFor = @ \ {b}]

\* Mutant: an orphan is held without asking for what is missing.
HoldOrphanSilent(c, b, initial) ==
    [c EXCEPT !.mapOrphanBlocks = @ \cup {b}, !.mapAlreadyAskedFor = @ \ {b}]

\* ProcessBlock of an orphan: "ask this guy to fill in what we're missing".
HoldOrphan(c, b, initial) ==
    LET held == [c EXCEPT !.mapOrphanBlocks = @ \cup {b}]
        root == GetOrphanRoot(held.mapOrphanBlocks, b)
        pushed == PushGetBlocks(held, <<GetBlocks(c.best, root)>>)
    IN  [(IF initial THEN pushed ELSE AskFor(pushed, <<root - 1>>))
         EXCEPT !.mapAlreadyAskedFor = @ \ {b}]

\* The "block" handler.  initial is IsInitialBlockDownload, which the clock decides.
ReceiveBlock(initial) ==
    /\ Received(server, "block")
    /\ LET b == Head(server.vSend).b
       IN  client' = IF b <= client.best \/ b \in client.mapOrphanBlocks THEN client
                     ELSE IF b = client.best + 1 THEN ExtendChain(client, b)
                     ELSE HoldOrphan(client, b, initial)
    /\ server' = Taken(server)
    /\ UNCHANGED <<pow, reconnects, stalled>>

\* SendMessages to the server: what is asked for and still missing.
SendGetData ==
    /\ client.mapAskFor # <<>>
    /\ LET Missing(b) == b > client.best /\ b \notin client.mapOrphanBlocks
           v == SelectSeq(client.mapAskFor, Missing)
       IN  client' = [client EXCEPT !.mapAskFor = <<>>,
                                    !.mapAlreadyAskedFor = @ \cup Range(v),
                                    !.vSend = @ \o (IF v = <<>> THEN <<>> ELSE <<GetData(v)>>)]
    /\ UNCHANGED <<server, pow, reconnects, stalled>>

\* Mutant: a request that was due stays queued.
RetryDueAgain ==
    /\ client.delayed # <<>>
    /\ client' = [client EXCEPT !.delayed = Append(Tail(@), Head(@)),
                                !.mapAskFor = Append(@, Head(client.delayed))]
    /\ UNCHANGED <<server, pow, reconnects, stalled>>

\* Two minutes after the last request a repeated one is due.
RetryDue ==
    /\ client.delayed # <<>>
    /\ client' = [client EXCEPT !.delayed = Tail(@), !.mapAskFor = Append(@, Head(client.delayed))]
    /\ UNCHANGED <<server, pow, reconnects, stalled>>

\* The connection breaks, with what is under way, and is made again.
Reconnect ==
    /\ reconnects < MaxReconnects
    /\ reconnects' = reconnects + 1
    /\ client' = Connect(client.best, client.mapOrphanBlocks, client.mapAlreadyAskedFor)
    /\ server' = Accepted(server.best)
    /\ stalled' = None
    /\ UNCHANGED pow

\* The steps of the two message handler threads.
Deliver ==
    \/ ServeGetBlocks \/ ServeGetData \/ SendInventory
    \/ ReceiveInv \/ (\E initial \in BOOLEAN : ReceiveBlock(initial)) \/ SendGetData
    \/ RetryDue

Next == Deliver \/ NewBlock \/ Reconnect

\* Weak fairness of Deliver, written out so that TLC need not compute ENABLED:
\* Deliver is enabled when there is something to handle, and its steps are those
\* that neither lengthen the server's chain nor break the connection.
Handled == server'.best = server.best /\ reconnects' = reconnects
Fairness == []<>~Busy \/ []<><<Handled>>_vars

Spec == Init /\ [][Next]_vars /\ Fairness
-----------------------------------------------------------------------------
\* Type invariant of the two ends of the connection.
TypeOK ==
    /\ client.best \in Height /\ server.best \in Height
    /\ client.mapOrphanBlocks \subseteq Height
    /\ client.mapAskFor \in Seq(Height) /\ client.delayed \in Seq(Height)
    /\ Len(server.setInventoryKnown) <= KnownMax
    /\ Range(server.vInventoryToSend) \subseteq Height
    /\ server.hashContinue \in Height \cup {None}
    /\ reconnects \in 0 .. MaxReconnects

\* On one connection, batch after batch ("trigger them to send a getblocks request
\* for the next batch of inventory"), the client gets the whole chain while it ends
\* in proof of work, whatever new blocks are announced in the meantime.
ChainDownloaded == <>[](pow = Height /\ reconnects = 0 => client.best = server.best)

\* A client that was left behind gets on with the next block announced to it; and
\* setInventoryKnown keeps to its limit, as the rest of the state to its types.
AnnouncementAdvances == TypeOK /\ (stalled # None /\ ~Busy => client.best > stalled)

\* Each getblocks that answers an inv, and each inv that answers a getblocks, gets
\* somewhere: the exchange ends, also when setInventoryKnown is too small.
Quiesces == <>[]~Busy
=============================================================================
