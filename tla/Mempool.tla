------------------------------ MODULE Mempool ------------------------------
(***************************************************************************)
(* The memory pool and the orphan transactions (main.cpp): the "tx"        *)
(* message handler, sendrawtransaction, and what SetBestChainInner and     *)
(* Reorganize do to the pool.  Everything runs under cs_main, so a handler *)
(* is never interleaved with another; the handler's work-queue loop is     *)
(* stepped through here because each turn of it may accept or refuse.      *)
(* The chain is abstracted to the transactions of each of its blocks.      *)
(***************************************************************************)
EXTENDS TxPool, Sequences

CONSTANTS
    Gen,            \* coinbase and coinstake transactions
    Nonstandard,    \* transactions CheckTransaction, IsStandard or nLockTime refuse
    MaxOrphans,     \* MAX_ORPHAN_TRANSACTIONS
    MaxChain        \* bound: blocks on top of the base of the chain

ASSUME PoolAssumption ==
    /\ Gen \subseteq Tx /\ Nonstandard \subseteq Tx
    /\ MaxOrphans \in Nat
    /\ MaxChain \in Nat

VARIABLES
    pool,           \* mempool: [mapTx, mapNextTx]
    chain,          \* the best chain above the base: a sequence of sets of Tx
    orphans,        \* mapOrphanTransactions
    byPrev,         \* mapOrphanTransactionsByPrev (an absent entry is {})
    vWorkQueue, pos,\* the running "tx" handler's queue, the entry it works on
    todo,           \* orphans of that entry the inner loop has still to try
    vEraseQueue,    \* the orphans it erases at the end
    walletTold      \* transactions passed to SyncWithWallets

vars == <<pool, chain, orphans, byPrev, vWorkQueue, pos, todo, vEraseQueue, walletTold>>
handler == <<vWorkQueue, pos, todo, vEraseQueue>>

\* The transactions of the blocks of c, and of the best chain.
ConfirmedIn(c) == UNION {c[i] : i \in DOMAIN c}
Confirmed == ConfirmedIn(chain)
SpentBy(S) == UNION {Ins[t] : t \in S}

\* cs_main is free when no handler is running.
Idle == vWorkQueue = <<>>

Init ==
    /\ pool = EmptyPool
    /\ chain = <<>>
    /\ orphans = {}
    /\ byPrev = [t \in Tx |-> {}]
    /\ vWorkQueue = <<>> /\ pos = 1 /\ todo = {} /\ vEraseQueue = {}
    /\ walletTold = {}
-----------------------------------------------------------------------------
\* FetchInputs(fBlock = false): the transactions an input refers to are looked
\* up in the index, then in the pool.
Found(h) == h \in Coin \/ h \in Confirmed \/ h \in pool.mapTx

\* A prevout.n beyond the outputs of the transaction it names.
InRange(o) == o[1] \in Tx => o[2] < NOut[o[1]]

\* The early returns of accept(): not a loose transaction, known, or in
\* conflict with the pool.
RefusedEarly(t) ==
    \/ t \in Gen \cup Nonstandard
    \/ t \in pool.mapTx
    \/ t \in Confirmed
    \/ Ins[t] \cap DOMAIN pool.mapNextTx # {}

\* accept() leaves *pfMissingInputs set.
MissingInputs(t) == ~RefusedEarly(t) /\ \E o \in Ins[t] : ~Found(o[1])

\* accept() succeeds when ok stands for the checks that are not modelled (fees,
\* the free-transaction rate limit, signatures, maturity, timestamps).
Accepts(t, ok) ==
    /\ ok
    /\ ~RefusedEarly(t)
    /\ \A o \in Ins[t] : Found(o[1]) /\ InRange(o)
    /\ Ins[t] \cap SpentBy(Confirmed) = {}

\* The hashes t's inputs name.
Prevs(t) == {o[1] : o \in Ins[t]} \cap Tx
-----------------------------------------------------------------------------
\* Mutant: LimitOrphanTxSize is not called.
StoreOrphanUnlimited(t) ==
    /\ t \notin orphans
    /\ orphans' = orphans \cup {t}
    /\ byPrev' = [h \in Tx |-> byPrev[h] \cup IF h \in Prevs(t) THEN {t} ELSE {}]

\* AddOrphanTx followed by LimitOrphanTxSize: random evictions until the map
\* fits, the newcomer not excluded.  (A transaction above 5000 bytes is not
\* stored: no step.)
StoreOrphan(t) ==
    /\ t \notin orphans
    /\ \E gone \in SUBSET (orphans \cup {t}) :
          /\ Cardinality((orphans \cup {t}) \ gone) <= MaxOrphans
          /\ \A g \in gone : Cardinality((orphans \cup {t}) \ (gone \ {g})) > MaxOrphans
          /\ orphans' = (orphans \cup {t}) \ gone
          /\ byPrev' = [h \in Tx |-> (byPrev[h] \cup IF h \in Prevs(t) THEN {t} ELSE {})
                                     \ {g \in gone : h \in Prevs(g)}]

\* Mutant: an orphan is dropped without its entries in the index.
EraseOrphansUnindexed(S) ==
    /\ orphans' = orphans \ S
    /\ UNCHANGED byPrev

\* EraseOrphanTx for every hash of S.
EraseOrphans(S) ==
    /\ orphans' = orphans \ S
    /\ byPrev' = [h \in Tx |-> byPrev[h] \ {g \in S \cap orphans : h \in Prevs(g)}]

\* "tx" message, accepted: the handler starts its work queue.
ReceiveAccepted(t) ==
    /\ Idle
    /\ Accepts(t, TRUE)
    /\ pool' = AddUnchecked(pool, t)
    /\ walletTold' = walletTold \cup {t}
    /\ vWorkQueue' = <<t>> /\ pos' = 1 /\ todo' = byPrev[t] /\ vEraseQueue' = {t}
    /\ UNCHANGED <<chain, orphans, byPrev>>

\* "tx" message, some input unknown.
ReceiveOrphan(t) ==
    /\ Idle
    /\ MissingInputs(t)
    /\ StoreOrphan(t)
    /\ UNCHANGED <<pool, chain, handler, walletTold>>

\* One turn of the inner loop: the orphan enters the pool, ...
\* (the handler passes tx, the message's transaction, to SyncWithWallets here).
OrphanAccepted(o) ==
    /\ ~Idle /\ o \in todo
    /\ Accepts(o, TRUE)
    /\ pool' = AddUnchecked(pool, o)
    /\ walletTold' = walletTold \cup {vWorkQueue[1]}
    /\ vWorkQueue' = Append(vWorkQueue, o)
    /\ vEraseQueue' = vEraseQueue \cup {o}
    /\ todo' = todo \ {o}
    /\ UNCHANGED <<chain, orphans, byPrev, pos>>

\* ... or is refused: for good, unless it still misses an input.
OrphanRefused(o, ok) ==
    /\ ~Idle /\ o \in todo
    /\ ~Accepts(o, ok)
    /\ vEraseQueue' = IF MissingInputs(o) THEN vEraseQueue ELSE vEraseQueue \cup {o}
    /\ todo' = todo \ {o}
    /\ UNCHANGED <<pool, chain, orphans, byPrev, vWorkQueue, pos, walletTold>>

\* Mutant: the index of the outer loop stays.
NextEntryStuck ==
    /\ ~Idle /\ todo = {} /\ pos < Len(vWorkQueue)
    /\ todo' = byPrev[vWorkQueue[pos]]
    /\ UNCHANGED <<pool, chain, orphans, byPrev, vWorkQueue, pos, vEraseQueue, walletTold>>

\* The outer loop moves on to the next entry of the queue ...
NextEntry ==
    /\ ~Idle /\ todo = {} /\ pos < Len(vWorkQueue)
    /\ pos' = pos + 1
    /\ todo' = byPrev[vWorkQueue[pos + 1]]
    /\ UNCHANGED <<pool, chain, orphans, byPrev, vWorkQueue, vEraseQueue, walletTold>>

\* Mutant: the queue's size is read once, before the loop.
FinishHandlerEarly ==
    /\ ~Idle /\ todo = {}
    /\ EraseOrphans(vEraseQueue)
    /\ vWorkQueue' = <<>> /\ pos' = 1 /\ vEraseQueue' = {}
    /\ UNCHANGED <<pool, chain, todo, walletTold>>

\* ... and after the last one erases what is settled.
FinishHandler ==
    /\ ~Idle /\ todo = {} /\ pos = Len(vWorkQueue)
    /\ EraseOrphans(vEraseQueue)
    /\ vWorkQueue' = <<>> /\ pos' = 1 /\ vEraseQueue' = {}
    /\ UNCHANGED <<pool, chain, todo, walletTold>>

\* sendrawtransaction: the pool and the wallets, not the orphans.
SendRawTransaction(t) ==
    /\ Idle
    /\ Accepts(t, TRUE)
    /\ pool' = AddUnchecked(pool, t)
    /\ walletTold' = walletTold \cup {t}
    /\ UNCHANGED <<chain, orphans, byPrev, handler>>
-----------------------------------------------------------------------------
\* The transactions of a block can be connected on top of the transactions S.
Connectable(S, B) ==
    /\ B \cap S = {}
    /\ \A t \in B : \A o \in Ins[t] : (o[1] \in Tx => o[1] \in S \cup B) /\ InRange(o)
    /\ SpentBy(B) \cap SpentBy(S) = {}
    /\ \A t, u \in B : t # u => Ins[t] \cap Ins[u] = {}

\* SetBestChainInner: a block extends the best chain; its own transactions
\* leave the pool, their conflicts do not.
ExtendChain(B) ==
    /\ Idle /\ Len(chain) < MaxChain
    /\ Connectable(Confirmed, B)
    /\ chain' = Append(chain, B)
    /\ pool' = RemoveTx(pool, B)
    /\ walletTold' = walletTold \cup B
    /\ UNCHANGED <<orphans, byPrev, handler>>

\* Mutant: Reorganize forgets the second half of its deletion loop.
PoolAfterReorganizeNoConflicts(p, old, new) ==
    RemoveTx(Resurrect(p, old \ (Gen \cup Nonstandard)), new)

\* Mutant: Reorganize deletes first and resurrects last.
PoolAfterReorganizeLate(p, old, new) ==
    Resurrect(RemoveConflicts(RemoveTx(p, new), new), old \ (Gen \cup Nonstandard))

\* Mutant: nothing is resurrected.
PoolAfterReorganizeNoResurrect(p, old, new) == RemoveConflicts(RemoveTx(p, new), new)

\* Reorganize: the loose transactions of the disconnected branch come back
\* without input checks, then those of the connected branch are deleted with
\* everything that conflicts with them.
PoolAfterReorganize(p, old, new) ==
    RemoveConflicts(RemoveTx(Resurrect(p, old \ (Gen \cup Nonstandard)), new), new)

\* Reorganize: the blocks above height k give way to block B.
Reorganize(k, B) ==
    /\ Idle /\ k < Len(chain)
    /\ LET kept == SubSeq(chain, 1, k)
           old  == ConfirmedIn(SubSeq(chain, k + 1, Len(chain)))
       IN  /\ Connectable(ConfirmedIn(kept), B)
           /\ chain' = Append(kept, B)
           /\ pool' = PoolAfterReorganize(pool, old, B)
    /\ walletTold' = walletTold \cup B
    /\ UNCHANGED <<orphans, byPrev, handler>>

HandlerStep ==
    \/ \E o \in Tx : OrphanAccepted(o)
    \/ \E o \in Tx, ok \in BOOLEAN : OrphanRefused(o, ok)
    \/ NextEntry
    \/ FinishHandler

Next ==
    \/ \E t \in Tx : ReceiveAccepted(t) \/ ReceiveOrphan(t) \/ SendRawTransaction(t)
    \/ HandlerStep
    \/ \E B \in SUBSET Tx : ExtendChain(B)
    \/ \E k \in 0 .. MaxChain, B \in SUBSET Tx : Reorganize(k, B)

\* The thread that holds cs_main keeps running.
Fairness == WF_vars(HandlerStep)

Spec == Init /\ [][Next]_vars /\ Fairness
-----------------------------------------------------------------------------
\* Type invariant of the pool, the chain, the orphans and the handler's queues.
TypeOK ==
    /\ pool.mapTx \subseteq Tx
    /\ pool.mapNextTx \in [DOMAIN pool.mapNextTx -> Tx]
    /\ chain \in Seq(SUBSET Tx)
    /\ orphans \subseteq Tx
    /\ byPrev \in [Tx -> SUBSET Tx]
    /\ vWorkQueue \in Seq(Tx) /\ pos \in Nat /\ todo \subseteq Tx /\ vEraseQueue \subseteq Tx
    /\ walletTold \subseteq Tx

\* mapNextTx is the inverse of the pool's inputs after any history of accepts,
\* confirmations and reorganisations: the pool never holds a double spend.
PoolConsistent == Consistent(pool)

\* A transaction is never both in the pool and in the best chain, whatever
\* SetBestChainInner and Reorganize connected, disconnected and resurrected.
PoolNotConfirmed == pool.mapTx \cap Confirmed = {}

\* mapOrphanTransactionsByPrev lists each orphan under exactly its parents
\* (AddOrphanTx, EraseOrphanTx, LimitOrphanTxSize, the erase queue).
OrphansIndexed ==
    \A h \in Tx : byPrev[h] = {o \in orphans : h \in Prevs(o)}

\* mapOrphanTransactions stays within MAX_ORPHAN_TRANSACTIONS.
OrphansBounded == Cardinality(orphans) <= MaxOrphans

\* When the "tx" handler returns, no orphan that depends on a transaction it
\* accepted is left with all its inputs known: the work queue has found them.
OrphansResolved ==
    [][FinishHandler =>
        \A o \in orphans', i \in DOMAIN vWorkQueue :
            vWorkQueue[i] \in Prevs(o) => \E h \in Prevs(o) : ~Found(h)]_vars

\* The step replaces the tip, or more, of the best chain.
Reorganizes == chain' # chain /\ Len(chain') <= Len(chain)

\* A reorganisation leaves no transaction in the pool that spends what the new
\* branch spends (the resurrected ones included).
ReorganizeClearsConflicts ==
    [][Reorganizes =>
        \A t \in pool'.mapTx : Ins[t] \cap SpentBy(chain'[Len(chain')]) = {}]_vars

\* A reorganisation loses a loose transaction of the old branch only to the new
\* branch or to a conflict: with the new branch, with the pool as it was, or of
\* a transaction it depends on.
ReorganizeKeepsTransactions ==
    [][Reorganizes =>
        \A t \in Confirmed \ (Confirmed' \cup Gen \cup Nonstandard) :
            \/ t \in pool'.mapTx
            \/ Ins[t] \cap SpentBy(chain'[Len(chain')]) # {}
            \/ Ins[t] \cap DOMAIN pool.mapNextTx # {}
            \/ \E h \in Prevs(t) : h \notin pool'.mapTx \cup Confirmed']_vars

\* The work-queue loop of the "tx" handler ends, so cs_main is released.
HandlerTerminates == ~Idle ~> Idle
=============================================================================
