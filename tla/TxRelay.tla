------------------------------- MODULE TxRelay -------------------------------
(***************************************************************************)
(* How a transaction spreads: RelayTransaction, PushInventory, AskFor and  *)
(* the handlers of inv, getdata and tx (main.cpp, net.cpp, net.h), for one *)
(* transaction and a few nodes, with connections that break, requests that *)
(* are never answered and the two minutes a second request waits.          *)
(*                                                                         *)
(* Times are relative: what is due in 0 ticks is due now.  A node accepts  *)
(* the transaction when it gets it (Mempool has the other verdicts).       *)
(* setInventoryKnown is taken to be large enough for this transaction.     *)
(***************************************************************************)
EXTENDS Integers, FiniteSets, Sequences

CONSTANTS
    Node,
    Origin,         \* the node whose wallet made the transaction
    Links,          \* pairs <<n, m>> of neighbours, both ways
    RetryTicks,     \* two minutes
    MaxBreaks       \* bound: connections that break

ASSUME RelayAssumption ==
    /\ IsFiniteSet(Node) /\ Origin \in Node
    /\ Links \subseteq Node \X Node
    /\ \A l \in Links : l[1] # l[2] /\ <<l[2], l[1]>> \in Links
    /\ RetryTicks \in Nat \ {0} /\ MaxBreaks \in Nat

VARIABLES
    tx,             \* tx[n]: "none", in the "pool", in the "chain"
    inRelay,        \* inRelay[n]: it is in mapRelay
    wait,           \* wait[n]: ticks from now to mapAlreadyAskedFor + 2 minutes, at least 0
    peer,           \* peer[l]: what l[1] keeps about l[2], see NewPeer
    vSend,          \* vSend[l]: the messages under way from l[1] to l[2]
    up,             \* the links that are connected
    since,          \* history: links connected since before l[1] got the transaction
    breaks

vars == <<tx, inRelay, wait, peer, vSend, up, since, breaks>>

None == -1
Back(l) == <<l[2], l[1]>>
LinksOf(n) == {l \in up : l[1] = n}

\* CNode: setInventoryKnown has the transaction, vInventoryToSend has it, and the
\* ticks to its entry in mapAskFor.
NewPeer == [known |-> FALSE, toSend |-> FALSE, askFor |-> None]

AlreadyHave(n) == tx[n] # "none"
-----------------------------------------------------------------------------
\* RelayTransaction by n, whose peers are p: into mapRelay, and PushInventory to
\* every peer that does not know it.
Offered(n, p) == [l \in Links |->
    IF l \in LinksOf(n) /\ ~p[l].known THEN [p[l] EXCEPT !.toSend = TRUE] ELSE p[l]]

Init ==
    /\ tx = [n \in Node |-> IF n = Origin THEN "pool" ELSE "none"]
    /\ inRelay = [n \in Node |-> n = Origin]
    /\ wait = [n \in Node |-> 0]
    /\ peer = [l \in Links |-> [NewPeer EXCEPT !.toSend = l[1] = Origin]]
    /\ vSend = [l \in Links |-> <<>>]
    /\ up = Links /\ since = Links
    /\ breaks = 0

\* SendMessages, the inventory; trickling is the choice of when.
SendInv(l) ==
    /\ l \in up /\ peer[l].toSend
    /\ peer' = [peer EXCEPT ![l].toSend = FALSE, ![l].known = TRUE]
    /\ vSend' = [vSend EXCEPT ![l] = IF peer[l].known THEN @ ELSE Append(@, "inv")]
    /\ UNCHANGED <<tx, inRelay, wait, up, since, breaks>>

\* Mutant: what was asked of one peer is not asked of another.
AskForOnce(n, l) ==
    IF wait[n] = 0
    THEN /\ peer' = [peer EXCEPT ![l].known = TRUE, ![l].askFor = 0]
         /\ wait' = [wait EXCEPT ![n] = RetryTicks]
    ELSE /\ peer' = [peer EXCEPT ![l].known = TRUE]
         /\ UNCHANGED wait

\* CNode::AskFor: the request to the peer on link l waits until two minutes after
\* the one before, whichever peer that was for.
AskFor(n, l) ==
    /\ peer' = [peer EXCEPT ![l].known = TRUE, ![l].askFor = wait[n]]
    /\ wait' = [wait EXCEPT ![n] = @ + RetryTicks]

Received(l, type) == vSend[l] # <<>> /\ Head(vSend[l]) = type
Take(l) == vSend' = [vSend EXCEPT ![l] = Tail(@)]

\* The "inv" handler of l[2].
ReceiveInv(l) ==
    /\ Received(l, "inv") /\ Take(l)
    /\ IF AlreadyHave(l[2])
       THEN peer' = [peer EXCEPT ![Back(l)].known = TRUE] /\ UNCHANGED wait
       ELSE AskFor(l[2], Back(l))
    /\ UNCHANGED <<tx, inRelay, up, since, breaks>>

\* SendMessages, the requests that are due.
SendGetData(l) ==
    /\ l \in up /\ peer[l].askFor = 0
    /\ peer' = [peer EXCEPT ![l].askFor = None]
    /\ IF AlreadyHave(l[1]) THEN UNCHANGED <<vSend, wait>>
       ELSE /\ vSend' = [vSend EXCEPT ![l] = Append(@, "getdata")]
            /\ wait' = [wait EXCEPT ![l[1]] = RetryTicks]
    /\ UNCHANGED <<tx, inRelay, up, since, breaks>>

\* The "getdata" handler of l[2]: from mapRelay, or else from the pool.
ServeGetData(l) ==
    /\ Received(l, "getdata")
    /\ vSend' = [vSend EXCEPT ![l] = Tail(@),
                              ![Back(l)] = IF inRelay[l[2]] \/ tx[l[2]] = "pool"
                                           THEN Append(@, "tx") ELSE @]
    /\ UNCHANGED <<tx, inRelay, wait, peer, up, since, breaks>>

\* The "tx" handler of n when it accepts the transaction that came over link l.
AcceptTx(n, l) ==
    /\ tx' = [tx EXCEPT ![n] = "pool"]
    /\ inRelay' = [inRelay EXCEPT ![n] = TRUE]
    /\ wait' = [wait EXCEPT ![n] = 0]
    /\ peer' = Offered(n, [peer EXCEPT ![Back(l)].known = TRUE])
    /\ since' = since \ {k \in Links : k[1] = n /\ k \notin up}

ReceiveTx(l) ==
    /\ Received(l, "tx") /\ Take(l)
    /\ IF AlreadyHave(l[2])
       THEN /\ peer' = [peer EXCEPT ![Back(l)].known = TRUE]
            /\ UNCHANGED <<tx, inRelay, wait, since>>
       ELSE AcceptTx(l[2], l)
    /\ UNCHANGED <<up, breaks>>

Ticked(t) == IF t > 0 THEN t - 1 ELSE t

\* A unit of time passes.
Tick ==
    /\ \/ \E n \in Node : wait[n] > 0
       \/ \E l \in up : peer[l].askFor > 0
    /\ wait' = [n \in Node |-> Ticked(wait[n])]
    /\ peer' = [l \in Links |-> [peer[l] EXCEPT !.askFor = Ticked(@)]]
    /\ UNCHANGED <<tx, inRelay, vSend, up, since, breaks>>
-----------------------------------------------------------------------------
\* The transaction is in a block of n's best chain and leaves its pool.
Confirm(n) ==
    /\ tx[n] = "pool"
    /\ tx' = [tx EXCEPT ![n] = "chain"]
    /\ UNCHANGED <<inRelay, wait, peer, vSend, up, since, breaks>>

\* The next RelayTransaction after 15 minutes, of whatever transaction, erases the
\* message from mapRelay.
Expire(n) ==
    /\ inRelay[n]
    /\ inRelay' = [inRelay EXCEPT ![n] = FALSE]
    /\ UNCHANGED <<tx, wait, peer, vSend, up, since, breaks>>

\* ResendWalletTransactions at the origin, while the transaction is unconfirmed.
Resend ==
    /\ tx[Origin] = "pool"
    /\ inRelay' = [inRelay EXCEPT ![Origin] = TRUE]
    /\ peer' = Offered(Origin, peer)
    /\ since' = since \cup LinksOf(Origin)
    /\ UNCHANGED <<tx, wait, vSend, up, breaks>>

\* A connection breaks: what is under way is lost, CNode goes.
Break(l) ==
    /\ l \in up /\ breaks < MaxBreaks
    /\ breaks' = breaks + 1
    /\ up' = up \ {l, Back(l)}
    /\ since' = since \ {l, Back(l)}
    /\ peer' = [peer EXCEPT ![l] = NewPeer, ![Back(l)] = NewPeer]
    /\ vSend' = [vSend EXCEPT ![l] = <<>>, ![Back(l)] = <<>>]
    /\ UNCHANGED <<tx, inRelay, wait>>

\* It is made again.
Remake(l) ==
    /\ l \in Links \ up
    /\ up' = up \cup {l, Back(l)}
    /\ since' = since \cup {k \in {l, Back(l)} : ~AlreadyHave(k[1])}
    /\ UNCHANGED <<tx, inRelay, wait, peer, vSend, breaks>>

\* The steps of the message handler threads, and of time.
Handle ==
    \/ \E l \in Links : \/ SendInv(l) \/ ReceiveInv(l) \/ SendGetData(l)
                        \/ ServeGetData(l) \/ ReceiveTx(l)
    \/ Tick

Next ==
    \/ Handle
    \/ \E n \in Node : Confirm(n) \/ Expire(n)
    \/ Resend
    \/ \E l \in Links : Break(l) \/ Remake(l)

Spec == Init /\ [][Next]_vars /\ WF_vars(Handle)
-----------------------------------------------------------------------------
\* Type invariant of the nodes and the links.  Each announcement postpones the next
\* request by two minutes, so the wait is bounded by the number of connections.
MaxWait == RetryTicks * (Cardinality(Node) - 1 + MaxBreaks)
TypeOK ==
    /\ tx \in [Node -> {"none", "pool", "chain"}]
    /\ inRelay \in [Node -> BOOLEAN]
    /\ wait \in [Node -> 0 .. MaxWait]
    /\ \A l \in Links : /\ peer[l].askFor \in None .. MaxWait
                        /\ l \notin up => peer[l] = NewPeer /\ vSend[l] = <<>>
    /\ since \subseteq up /\ up \subseteq Links /\ breaks \in 0 .. MaxBreaks

\* An announced transaction is fetched, from one peer or, when that one is lost,
\* from another after the wait: in the end no node lacks it whose connection to a
\* node that has it in its pool has held since that node got it.  Meanwhile the
\* wait of AskFor stays bounded and the state keeps its types.
Relayed ==
    /\ []TypeOK
    /\ <>[](\A l \in since : tx[l[1]] = "pool" => AlreadyHave(l[2]))
=============================================================================
