------------------------------- MODULE Wallet -------------------------------
(***************************************************************************)
(* The wallet's record of what it owns (wallet.cpp, wallet.h) against the  *)
(* best chain and the pool: mapWallet with each transaction's hashBlock,   *)
(* the spent flags vfSpent, the ancestors vtxPrev saved with a payment, the *)
(* best-block locator, if any, from which a start rescans, a backup of the *)
(* wallet file.  Every change is written to the   *)
(* file as it is made, so a crash loses nothing of the wallet; ConnectBlock *)
(* and DisconnectBlock tell the wallet before the block database commits.  *)
(* Chain trust is height; the postponed blocks of SetBestChain are further *)
(* Extend steps (see ChainState for how they are chosen).                  *)
(***************************************************************************)
EXTENDS TxPool, BlockTree, SequencesExt

CONSTANTS
    None,
    Txs,            \* Txs[b]: the transactions of block b, in order (vtx); what
                    \* Genesis and the blocks below it paid is in Coin
    Bad,            \* blocks ConnectBlock refuses whatever the chain
    Stake,          \* coinstakes
    Mine,           \* the outpoints that pay a key of the wallet (IsMine)
    Own,            \* the transactions this wallet creates
    Vin,            \* Vin[t]: the inputs of t in order (vin)
    CopyDepth,      \* COPY_DEPTH
    Maturity,       \* nCoinbaseMaturity + 10
    MaxFail,        \* bound: connects that fail after the wallet was told
    MaxStart        \* bound: starts of the program

ASSUME WalletAssumption ==
    /\ None \notin Block
    /\ Txs \in [Block -> Seq(Tx)] /\ Bad \subseteq Block
    /\ IsFiniteSet(Tx) /\ Txs[Genesis] = <<>>
    /\ Stake \subseteq Tx /\ Own \subseteq Tx \ Stake
    /\ Mine \subseteq Outpoint
    /\ \A t \in Tx : Vin[t] \in Seq(Outpoint) /\ Range(Vin[t]) = Ins[t]
    /\ CopyDepth \in Nat \ {0}
    /\ Maturity \in Nat /\ MaxFail \in Nat /\ MaxStart \in Nat

VARIABLES
    best,           \* pindexBest
    pool,           \* mempool
    w,              \* the wallet: [hashBlock, spent]
    vtxPrev,        \* vtxPrev[t]: the supporting transactions saved with t
    locator,        \* bestblock, as SetBestChain wrote it, or None
    backup,         \* None, or a copy of the wallet file and its history
    made,           \* the transactions of Own signed so far
    fails, starts,
    early,          \* history: told of a change that was not committed, and
                    \* not put right by a start or a repair since
    lost,           \* history: the same for coins flagged by such a change
    misplaced,      \* history: told of a change that was not committed, or
                    \* restored with a locator off its chain or none, and not
                    \* rescanned since
    unscanned       \* history: restored without a locator, and not rescanned since
                    \* (with its locator, if it has one by then, on the chain)

history == <<early, lost, misplaced, unscanned>>
vars == <<best, pool, w, vtxPrev, locator, backup, made, fails, starts, history>>
-----------------------------------------------------------------------------
\* The transactions and the spends of the chain that ends in b.
ChainTx == [b \in Block |-> UNION {Range(Txs[a]) : a \in Ancestors[b]}]
ChainSpent == [b \in Block |-> UNION {Ins[t] : t \in ChainTx[b]}]

\* An output that the transactions of S, or one below the model, have.
IsOutputOf(o, S) == o[1] \in Coin \/ (o[1] \in S /\ o \in Outs(o[1]))

\* ConnectBlock finds b good on top of its parent.
Connectable ==
    [b \in Block \ {Genesis} |->
        /\ b \notin Bad
        /\ \A i \in DOMAIN Txs[b] :
              LET t == Txs[b][i]
                  before == ChainTx[Prev[b]] \cup {Txs[b][j] : j \in 1 .. i - 1}
              IN  /\ t \notin before
                  /\ \A o \in Ins[t] : /\ IsOutputOf(o, before)
                                       /\ \A u \in before : o \notin Ins[u]]

\* CTxMemPool::accept.
Accepts(p, t) ==
    /\ t \notin Stake \cup p.mapTx \cup ChainTx[best]
    /\ Ins[t] \cap (DOMAIN p.mapNextTx \cup ChainSpent[best]) = {}
    /\ \A o \in Ins[t] : IsOutputOf(o, p.mapTx \cup ChainTx[best])

TryAccept(p, t) == IF Accepts(p, t) THEN AddUnchecked(p, t) ELSE p
-----------------------------------------------------------------------------
\* The inputs of t that are outputs of wallet transactions and pay the wallet.
Debits(v, t) == {o \in Ins[t] \cap Mine : o[1] \in DOMAIN v.hashBlock}

IsFromMe(v, t) == Debits(v, t) # {}

\* WalletUpdateSpent: the coins t spends are spent; in a block, its own
\* outputs are unspent.
WalletUpdateSpent(v, t, fBlock) ==
    [v EXCEPT !.spent = (@ \cup Debits(v, t)) \ (IF fBlock THEN Outs(t) \cap Mine ELSE {})]

\* Mutant: the block of a known transaction is not merged.
AddToWalletOnce(v, t, b) ==
    LET known == DOMAIN v.hashBlock
        merged == [x \in known \cup {t} |-> IF x \in known THEN v.hashBlock[x] ELSE b]
    IN  WalletUpdateSpent([v EXCEPT !.hashBlock = merged], t, b # None)

\* AddToWallet: insert t, or merge the block it is now in.
AddToWallet(v, t, b) ==
    LET known == DOMAIN v.hashBlock
        merged == [x \in known \cup {t} |->
                      IF x \in known /\ (x # t \/ b = None) THEN v.hashBlock[x] ELSE b]
    IN  WalletUpdateSpent([v EXCEPT !.hashBlock = merged], t, b # None)

\* AddToWalletIfInvolvingMe.
AddIfInvolvingMe(v, t, b, fUpdate) ==
    IF t \in DOMAIN v.hashBlock /\ ~fUpdate THEN v
    ELSE IF t \in DOMAIN v.hashBlock \/ Outs(t) \cap Mine # {} \/ IsFromMe(v, t)
         THEN AddToWallet(v, t, b)
         ELSE WalletUpdateSpent(v, t, FALSE)

\* The transactions of b told to the wallet, one after the other.
TellBlock(v, b, fUpdate) ==
    LET told[n \in 0 .. Len(Txs[b])] ==
            IF n = 0 THEN v ELSE AddIfInvolvingMe(told[n - 1], Txs[b][n], b, fUpdate)
    IN  told[Len(Txs[b])]

\* The blocks of path in order (ConnectBlock, ScanForWalletTransactions).
TellBlocks(v, path, fUpdate) ==
    LET told[n \in 0 .. Len(path)] ==
            IF n = 0 THEN v ELSE TellBlock(told[n - 1], path[n], fUpdate)
    IN  told[Len(path)]

\* Mutant: coinstakes are told like any other transaction, that is not at all.
DisableNothing(v, S) == v

\* DisconnectBlock: the inputs of the coinstakes among S are refunded.  The order
\* of the blocks does not matter: no transaction leaves mapWallet.
DisableTransaction(v, S) ==
    [v EXCEPT !.spent = @ \ UNION {Debits(v, t) : t \in S \cap Stake}]

\* GetDepthInMainChain.
Depth(t) ==
    CASE w.hashBlock[t] \in Ancestors[best] -> nHeight(best) - nHeight(w.hashBlock[t]) + 1
      [] w.hashBlock[t] \notin Ancestors[best] /\ t \in pool.mapTx -> 0
      [] OTHER -> -1

\* AvailableCoins(fOnlyConfirmed = FALSE).
AvailableCoins ==
    {o \in Mine \ w.spent : /\ o[1] \in DOMAIN w.hashBlock
                            /\ Depth(o[1]) >= IF o[1] \in Stake THEN Maturity ELSE 0}

\* What CreateTransaction may choose from: confirmed coins and its own change
\* (whether IsTrusted finds the latter's ancestors is left open).
Selectable == {o \in AvailableCoins : Depth(o[1]) >= 1 \/ o[1] \in Own}
-----------------------------------------------------------------------------
\* The hashes that the inputs of t refer to, in order.
PrevHashes(t) == [i \in DOMAIN Vin[t] |-> Vin[t][i][1]]

\* SetMerkleBranch: the depth of t in the best chain, 0 outside it.
SetMerkleBranch(t) ==
    IF t \notin ChainTx[best] THEN 0
    ELSE nHeight(best) - nHeight(CHOOSE b \in Ancestors[best] : t \in Range(Txs[b])) + 1

\* AddSupportingTransactions can get hold of h: it is in mapWallet, among the
\* vtxPrev of a wallet transaction visited before (mapWalletPrev), or on disk.
Found(done, h) ==
    h \in DOMAIN w.hashBlock \cup ChainTx[best] \cup UNION {Range(vtxPrev[x]) : x \in done}

\* The first hash of vWorkQueue that is not in setAlreadyDone: kept if it is found,
\* its inputs queued unless it is deep in the chain.  (What is below the model is
\* deeper still, and never offered again.)
Visit(q) ==
    LET todo == {i \in DOMAIN q.vWorkQueue : q.vWorkQueue[i] \in Tx \ q.setAlreadyDone}
        h == q.vWorkQueue[CHOOSE i \in todo : \A j \in todo : i <= j]
        found == Found(q.setAlreadyDone, h)
    IN  IF todo = {} THEN q
        ELSE [vWorkQueue     |-> q.vWorkQueue \o IF found /\ SetMerkleBranch(h) < CopyDepth
                                                 THEN PrevHashes(h) ELSE <<>>,
              setAlreadyDone |-> q.setAlreadyDone \cup {h},
              vtxPrev        |-> q.vtxPrev \o IF found THEN <<h>> ELSE <<>>]

\* AddSupportingTransactions of a new transaction (depth 0): its ancestors, each
\* once, those met last first.
SupportingTransactions(t) ==
    LET walk[n \in 0 .. Cardinality(Tx)] ==
            IF n = 0 THEN [vWorkQueue |-> PrevHashes(t), setAlreadyDone |-> {}, vtxPrev |-> <<>>]
            ELSE Visit(walk[n - 1])
    IN  Reverse(walk[Cardinality(Tx)].vtxPrev)

\* CreateTransaction and CommitTransaction: created from selectable coins and
\* signed, its ancestors saved with it, recorded, its coins marked, and offered
\* to the pool, which may refuse it.
CommitTransaction(t) ==
    /\ t \in Own \ made /\ Ins[t] \subseteq Selectable
    /\ made' = made \cup {t}
    /\ vtxPrev' = [vtxPrev EXCEPT ![t] = SupportingTransactions(t)]
    /\ w' = [AddToWallet(w, t, None) EXCEPT !.spent = @ \cup Ins[t]]
    /\ pool' = TryAccept(pool, t)
    /\ UNCHANGED <<best, locator, backup, fails, starts, history>>

\* The transactions of the wallet that exist.
Exists(S) == S \cap Own \subseteq made

\* A tx message: accepted and told to the wallet.  An orphan accepted after its
\* parent is not told: the handler tells the parent once more.
ReceiveTx(t, fOrphan) ==
    /\ Exists({t}) /\ Accepts(pool, t)
    /\ fOrphan => \E o \in Ins[t] : o[1] \in pool.mapTx
    /\ pool' = AddUnchecked(pool, t)
    /\ w' = IF fOrphan THEN w ELSE AddIfInvolvingMe(w, t, None, TRUE)
    /\ UNCHANGED <<best, vtxPrev, locator, backup, made, fails, starts, history>>

\* Outside the initial download SetBestChain has the wallets write a locator.
WriteLocator(b) == locator' \in {locator, b}

\* The wallet was told v, and the change to the chain came to nothing.
ToldInVain(v) ==
    /\ fails < MaxFail /\ fails' = fails + 1
    /\ w' = v
    /\ early' = TRUE /\ lost' = TRUE /\ misplaced' = TRUE
    /\ UNCHANGED <<best, pool, locator, unscanned>>

\* SetBestChain of a child of the best block.
Extend(b, ok) ==
    /\ b # Genesis /\ Prev[b] = best /\ Connectable[b] /\ Exists(Range(Txs[b]))
    /\ \/ /\ ok /\ best' = b /\ WriteLocator(b)
          /\ w' = TellBlocks(w, <<b>>, TRUE)
          /\ pool' = RemoveTx(pool, Range(Txs[b]))
          /\ UNCHANGED <<fails, history>>
       \/ ~ok /\ ToldInVain(TellBlocks(w, <<b>>, TRUE))
    /\ UNCHANGED <<vtxPrev, backup, made, starts>>

\* Reorganize to the first block with more trust: the disconnected blocks from
\* the tip down, the new ones up to the first that fails.
Reorganize(b, ok) ==
    /\ b # Genesis /\ Prev[b] # best /\ nHeight(b) = nHeight(best) + 1
    /\ LET f == Fork(best, b)
           down == After(f, best)
           up == After(f, b)
           good == {n \in 0 .. Len(up) : \A i \in 1 .. n : Connectable[up[i]]}
           connected == SubSeq(up, 1, CHOOSE n \in good : n + 1 \notin good)
           vDelete == UNION {Range(Txs[c]) : c \in Range(up)}
           vDisconnect == UNION {Range(Txs[c]) : c \in Range(down)}
           vResurrect == vDisconnect \ Stake
           told == TellBlocks(DisableTransaction(w, vDisconnect), connected, TRUE)
       IN  /\ Exists(vDelete)
           /\ \/ /\ ok /\ connected = up
                 /\ best' = b /\ WriteLocator(b)
                 /\ w' = told
                 /\ pool' = RemoveConflicts(RemoveTx(Resurrect(pool, vResurrect), vDelete), vDelete)
                 /\ UNCHANGED <<fails, history>>
              \/ ~(ok /\ connected = up) /\ ToldInVain(told)
    /\ UNCHANGED <<vtxPrev, backup, made, starts>>
-----------------------------------------------------------------------------
\* The outputs that the index says are spent, of a wallet transaction in it.
IndexSpent(t) == IF t \in ChainTx[best] THEN Outs(t) \cap Mine \cap ChainSpent[best]
                    ELSE IF t \in Coin THEN {o \in Mine \cap ChainSpent[best] : o[1] = t}
                    ELSE {}

\* ReacceptWalletTransactions passes over coinstakes whose first stake is spent.
Skipped(v) == {t \in DOMAIN v.hashBlock \cap Stake : <<t, 1>> \in v.spent}

\* Mutant: the index is not looked at.
MarkByIndexNever(v) == v

\* One pass over mapWallet: outputs the index says are spent are flagged.
MarkByIndex(v) ==
    [v EXCEPT !.spent = @ \cup UNION {IndexSpent(t) : t \in DOMAIN v.hashBlock \ Skipped(v)}]

\* The transactions of a sequence offered to the pool in order; those it has, the
\* confirmed ones and coinstakes are passed over.
OfferAll(p, order) ==
    LET offered[n \in 0 .. Len(order)] ==
            IF n = 0 THEN p ELSE TryAccept(offered[n - 1], order[n])
    IN  offered[Len(order)]

\* Mutant: only the transaction itself is offered.
AcceptWalletTransactionAlone(p, t, prev) == TryAccept(p, t)

\* AcceptWalletTransaction: the supporting transactions, as saved, then t.
AcceptWalletTransaction(p, t, prev) == TryAccept(OfferAll(p, prev[t]), t)

\* The transactions of the wallet that are in no block put back into the pool.
Resubmit(p, order, prev) ==
    LET offered[n \in 0 .. Len(order)] ==
            IF n = 0 THEN p ELSE AcceptWalletTransaction(offered[n - 1], order[n], prev)
    IN  offered[Len(order)]

\* One turn of the loop: when a pass flagged anything the whole chain is scanned
\* for missing transactions, and the loop goes on if there were any.
ReacceptPass(q, order, prev) ==
    LET m == MarkByIndex(q.w)
        v == IF m = q.w THEN m ELSE TellBlocks(m, PathTo[best], FALSE)
    IN  IF ~q.fRepeat THEN q
        ELSE [w |-> v, pool |-> Resubmit(q.pool, order, prev),
              fRepeat |-> DOMAIN v.hashBlock # DOMAIN m.hashBlock]

\* ReacceptWalletTransactions of a wallet v, with the empty pool of a start.
Reaccepted(v, order, prev) ==
    LET pass[n \in 0 .. Cardinality(Tx) + 1] ==
            IF n = 0 THEN [w |-> v, pool |-> EmptyPool, fRepeat |-> TRUE]
            ELSE ReacceptPass(pass[n - 1], order, prev)
    IN  pass[Cardinality(Tx) + 1]

\* What a start rescans: from the last block of the locator that is in the best
\* chain, that block included; nothing if the file has no locator.
RescanFrom(loc) ==
    LET f == Fork(loc, best)
    IN  IF loc = None THEN <<>>
        ELSE IF f = best THEN <<>> ELSE After(IF f = Genesis THEN f ELSE Prev[f], best)

\* What a copy of the wallet file holds, with the history of the wallet.
WalletFile == [w |-> w, vtxPrev |-> vtxPrev, locator |-> locator, tip |-> best,
               early |-> early, lost |-> lost, misplaced |-> misplaced, unscanned |-> unscanned]

\* The file has no locator, and the best block is not the one it was written with.
NotRescanned(file) == file.locator = None /\ file.tip # best

\* The blocks of the file's locator that are in the best chain now have left the
\* chain the file was written with, so that a rescan begins too late.
OffItsChain(file) == file.locator # None /\ Fork(file.locator, best) \notin Ancestors[file.tip]

\* The program ends and starts again, with the wallet file as it was or with
\* the backup, and perhaps -rescan; ReacceptWalletTransactions goes over
\* mapWallet in the order of the hashes.
Start(old, fRescan) ==
    LET file == IF old THEN backup ELSE WalletFile
        scanned == TellBlocks(file.w, IF fRescan THEN PathTo[best] ELSE RescanFrom(file.locator), TRUE)
        loose == (DOMAIN scanned.hashBlock \cap Tx) \ (ChainTx[best] \cup Stake)
        stale == NotRescanned(file) \/ OffItsChain(file)
    IN  /\ starts < MaxStart /\ starts' = starts + 1
        /\ \E order \in SetToSeqs(loose) :
              LET q == Reaccepted(scanned, order, file.vtxPrev)
              IN  w' = q.w /\ pool' = q.pool
        /\ vtxPrev' = file.vtxPrev
        /\ locator' = file.locator
        /\ unscanned' = IF fRescan THEN file.unscanned /\ file.locator \notin Ancestors[best] \cup {None}
                        ELSE file.unscanned \/ NotRescanned(file)
        /\ misplaced' = (unscanned' \/ (~fRescan /\ (file.misplaced \/ stale)))
        /\ early' = /\ ~fRescan
                    /\ \/ (file.early \/ stale) /\ Skipped(scanned) # {}
                       \/ unscanned' /\ Skipped(w') # {}
        /\ lost' = (file.lost \/ file.tip \notin Ancestors[best])
        /\ UNCHANGED <<best, backup, made, fails>>

RestoreBackup(fRescan) == backup # None /\ Start(TRUE, fRescan)

\* BackupWallet.
BackupWallet ==
    /\ backup = None
    /\ backup' = WalletFile
    /\ UNCHANGED <<best, pool, w, vtxPrev, locator, made, fails, starts, history>>

\* FixSpentCoins (repairwallet): confirmed coins get the flag of the index.
FixSpentCoins ==
    LET unconfirmed == {o \in w.spent : o[1] \notin Coin \cup ChainTx[best]}
    IN  /\ w' = [w EXCEPT !.spent = unconfirmed \cup UNION {IndexSpent(t) : t \in DOMAIN w.hashBlock}]
        /\ early' = FALSE
        /\ lost' = (unscanned \/ (lost /\ unconfirmed # {}))
        /\ UNCHANGED <<best, pool, vtxPrev, locator, backup, made, fails, starts, misplaced, unscanned>>
-----------------------------------------------------------------------------
\* The wallet begins with its coins below the model, all unspent; no locator is
\* written before the end of the initial download.
Init ==
    /\ best = Genesis /\ locator = None
    /\ pool = EmptyPool
    /\ w = [hashBlock |-> [c \in {o[1] : o \in Mine} \cap Coin |-> Genesis], spent |-> {}]
    /\ vtxPrev = [t \in Tx |-> <<>>]
    /\ backup = None
    /\ made = {} /\ fails = 0 /\ starts = 0
    /\ early = FALSE /\ lost = FALSE /\ misplaced = FALSE /\ unscanned = FALSE

Next ==
    \/ \E t \in Own : CommitTransaction(t)
    \/ \E t \in Tx, fOrphan \in BOOLEAN : ReceiveTx(t, fOrphan)
    \/ \E b \in Block, ok \in BOOLEAN : Extend(b, ok) \/ Reorganize(b, ok)
    \/ \E fRescan \in BOOLEAN : Start(FALSE, fRescan) \/ RestoreBackup(fRescan)
    \/ BackupWallet
    \/ FixSpentCoins

Spec == Init /\ [][Next]_vars
-----------------------------------------------------------------------------
\* Wallet transactions are known ones, in known blocks, and every flag is on an
\* output of the wallet's that mapWallet holds.
TypeOK ==
    /\ best \in Block /\ locator \in Block \cup {None}
    /\ Consistent(pool) /\ pool.mapTx \subseteq Tx \ ChainTx[best]
    /\ DOMAIN w.hashBlock \subseteq Tx \cup Coin
    /\ \A t \in DOMAIN w.hashBlock : w.hashBlock[t] \in Block \cup {None}
    /\ w.spent \subseteq Mine /\ {o[1] : o \in w.spent} \subseteq DOMAIN w.hashBlock
    /\ made \subseteq Own /\ fails \in 0 .. MaxFail /\ starts \in 0 .. MaxStart
    /\ vtxPrev \in [Tx -> Seq(Tx)]
    /\ {early, lost, misplaced, unscanned} \subseteq BOOLEAN

\* AvailableCoins never offers a coin that the best chain has spent, whatever
\* reorganisations, restarts, restored backups and spends by copies of the
\* wallet file came before; only what ConnectBlock and DisconnectBlock said of
\* a change that was not committed, or a backup whose locator had left its chain
\* or was never written, can break it, until a start (ReacceptWalletTransactions)
\* or repair.
OffersUnspentCoins == early \/ AvailableCoins \cap ChainSpent[best] = {}

\* No coin is lost: a flagged coin has a spender in the wallet that is in the
\* best chain or may still get there, so never only a coinstake whose block was
\* disconnected (DisableTransaction).  A change told and not committed breaks
\* it, a backup of a branch since abandoned, and the repair of a wallet that lacks
\* transactions (unscanned); starts do not mend it.
FlagsJustified ==
    lost \/ \A o \in w.spent :
                \E t \in DOMAIN w.hashBlock \cap Tx :
                    o \in Ins[t] /\ (t \in ChainTx[best] \/ t \notin Stake)

\* Every transaction of the best chain that pays or spends the wallet is in
\* mapWallet under its block there, after reorganisations and with a restored
\* backup rescanned from its own locator; a wallet told of a block that was not
\* committed, or restored with a locator off its chain, may keep the wrong block
\* until it is rescanned, but has the transaction.  Only a file restored with no
\* locator at all, which a start takes as it is, can lack one until -rescan (and
\* the locator it may have got since is on the chain rescanned).
\* The maps keep their types.
ChainKnown ==
    /\ TypeOK
    /\ \A b \in Ancestors[best] : \A t \in Range(Txs[b]) :
          (Outs(t) \cup Ins[t]) \cap Mine # {} =>
              /\ unscanned \/ t \in DOMAIN w.hashBlock
              /\ misplaced \/ w.hashBlock[t] = b

\* t or one of its ancestors has lost a coin to the chain or to another
\* transaction of the pool p, or spends a coinstake that is in no block.
LostCoin(S, p) ==
    \E u \in S : \E o \in Ins[u] :
        \/ \E x \in ChainTx[best] \cup p.mapTx : x # u /\ o \in Ins[x]
        \/ o[1] \in Stake \ ChainTx[best]

\* l lists the unconfirmed parents of each of its unconfirmed members before it.
ParentsFirst(l) ==
    \A i \in DOMAIN l : l[i] \notin ChainTx[best] =>
        \A o \in Ins[l[i]] : o[1] \in Tx \ ChainTx[best] => \E j \in 1 .. i - 1 : l[j] = o[1]

\* After a start an unconfirmed transaction of the wallet's own is in the pool
\* again, in whatever order mapWallet holds them, if the ancestors saved with it
\* are all it needs and in an order the pool accepts (AcceptWalletTransaction); it
\* is left out only when it, or one of those, has lost a coin.  Of a transaction
\* that spends its grandparent before its parent they are not in such an order.
Resubmitted ==
    [][starts' # starts =>
        \A t \in Own \cap DOMAIN w'.hashBlock :
            LET l == Append(vtxPrev'[t], t)
            IN  \/ t \in pool'.mapTx \cup ChainTx[best]
                \/ ~ParentsFirst(l)
                \/ LostCoin(Range(l), pool')]_vars

\* What the comment in CommitTransaction asks of AcceptToMemoryPool: "This must
\* not fail. The transaction has already been signed and recorded."
CommitAccepted == [][\A t \in made' \ made : t \in pool'.mapTx]_vars
=============================================================================
