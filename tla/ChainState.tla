----------------------------- MODULE ChainState -----------------------------
(***************************************************************************)
(* The block index, the transaction index and the choice of the best chain *)
(* (main.cpp: AddToBlockIndex, SetBestChain, Reorganize, ConnectBlock,     *)
(* DisconnectBlock, ConnectInputs, DisconnectInputs; txdb-leveldb.cpp:     *)
(* LoadBlockIndex), with crashes between any two database commits.         *)
(*                                                                         *)
(* The database is a value that a batch transforms and a commit installs:  *)
(* TxDB shows that CTxDB behaves so.  cs_main is held throughout           *)
(* SetBestChain; its steps are separate actions because each of them ends  *)
(* with a commit that a crash leaves behind.                               *)
(***************************************************************************)
EXTENDS TxPool, BlockTree, SequencesExt

CONSTANTS
    Txs,            \* Txs[b]: vtx, coinbase first
    Bad,            \* blocks ConnectBlock rejects whatever the chain: scripts, sigops,
                    \* money range, minimum fee, timestamps
    Gen, CoinBase,  \* coinbases and coinstakes; the coinbases among them
    Vin,            \* Vin[t]: the inputs of t in order (vin)
    Val,            \* Val[t][n]: nValue of output n
    Maturity,       \* nCoinbaseMaturity
    Premine,        \* the subsidy of height 1
    AgeReward,      \* AgeReward[b]: what the coin age of b's coinstake earns
    hashPostmine, PostmineValue, PostmineBlock,
                    \* the transaction whose outputs are worth PostmineValue more
                    \* than they say, in fees from height PostmineBlock on
    None,
    MaxCrash,       \* bound: crashes in a behaviour
    MaxFail         \* bound: database commits and block file reads that fail

ASSUME ChainAssumption ==
    /\ Bad \subseteq Block
    /\ CoinBase \subseteq Gen /\ Gen \subseteq Tx
    /\ None \notin Block
    /\ Txs \in [Block -> Seq(Tx)]
    /\ \A t \in Tx : IsFiniteSet(Ins[t]) /\ \A n \in 0 .. NOut[t] - 1 : Val[t][n] \in Nat
    /\ \A t \in Tx : IsInjective(Vin[t]) /\ Range(Vin[t]) = Ins[t]
    /\ AgeReward \in [Block -> Nat] /\ PostmineValue \in Nat /\ PostmineBlock \in Nat
    /\ MaxCrash \in Nat /\ MaxFail \in Nat

\* What the checks before SetBestChain see to: no transaction is twice in a block
\* (CheckBlock), a coinbase states the height of its block (AcceptBlock), other
\* transactions have inputs (CheckTransaction).  A position is not the null position.
ASSUME BlockAssumption ==
    /\ \A b \in Block : IsInjective(Txs[b])
    /\ \A a, b \in Block : Range(Txs[a]) \cap Range(Txs[b]) \cap CoinBase # {} => nHeight(a) = nHeight(b)
    /\ \A t \in Tx \ CoinBase : Ins[t] # {}
    /\ \A b \in Block, t \in Tx : <<b, t>> # None

VARIABLES
    db,             \* LevelDB: [idx, best, tx], see InitDB
    mapBlockIndex,  \* blocks indexed in memory
    pnext,          \* CBlockIndex::pnext
    nMoneySupply,   \* CBlockIndex::nMoneySupply
    pindexBest,     \* and with it hashBestChain, nBestHeight, nBestChainTrust
    pool,           \* mempool
    job,            \* the running SetBestChain: its target and vpindexSecondary
    crashes, fails,
    strayed         \* history: a postponed block has failed, see SecondaryFails

mem == <<mapBlockIndex, pnext, nMoneySupply, pindexBest, pool>>
vars == <<db, mem, job, crashes, fails, strayed>>

NoJob == [target |-> None, secondary |-> <<>>, begun |-> FALSE]
Idle == job.target = None
-----------------------------------------------------------------------------
BlockTxs(bs) == UNION {Range(Txs[b]) : b \in Range(bs)}

\* f with value v at x, and f laid over g.
Put(f, x, v) == [y \in DOMAIN f \cup {x} |-> IF y = x THEN v ELSE f[y]]
Over(f, g) == [x \in DOMAIN f \cup DOMAIN g |-> IF x \in DOMAIN f THEN f[x] ELSE g[x]]

\* GetValueIn of the inputs, GetValueOut of the outputs (sets of outpoints).
ValueOf(S) == FoldSet(LAMBDA o, s : s + Val[o[1]][o[2]], 0, S)

\* GetValueIn(fObservePostmine = TRUE): what counts for the fees of t.
FeeValueIn(t, nBestHeight) ==
    ValueOf(Ins[t]) + IF /\ nBestHeight >= PostmineBlock
                         /\ Len(Vin[t]) = 1 /\ Vin[t][1][1] = hashPostmine
                      THEN PostmineValue ELSE 0

\* nValueIn of ConnectInputs, what the outputs of t may be worth: at any height,
\* an input from the postmine replaces what the inputs before it add up to.
ConnectValueIn(t) ==
    FoldLeft(LAMBDA v, o : Val[o[1]][o[2]] + IF o[1] = hashPostmine THEN PostmineValue ELSE v,
             0, Vin[t])

\* IsProofOfStake: the second transaction is a coinstake.
IsProofOfStake(b) == Len(Txs[b]) > 1 /\ Txs[b][2] \in Gen \ CoinBase

\* On disk: idx[b] = [next, supply] for an indexed block, best = hashBestChain,
\* tx[t] = [pos, vSpent] (CTxIndex) for a transaction of the best chain.  A
\* position is a pair <<block, transaction>>; None is the null position.
InitDB == [idx  |-> [b \in {Genesis} |-> [next |-> None, supply |-> 0]],
           best |-> Genesis,
           tx   |-> [t \in {} |-> t]]

Init ==
    /\ db = InitDB
    /\ mapBlockIndex = {Genesis}
    /\ pnext = [b \in Block |-> None]
    /\ nMoneySupply = [b \in Block |-> 0]
    /\ pindexBest = Genesis
    /\ pool = EmptyPool
    /\ job = NoJob
    /\ crashes = 0 /\ fails = 0 /\ strayed = FALSE
-----------------------------------------------------------------------------
\* Mutant: a spent output can be spent again.
InputsOKDoubleSpend(txi, t, b) ==
    \A o \in Ins[t] : o[1] \in DOMAIN txi /\ o[2] \in DOMAIN txi[o[1]].vSpent

\* FetchInputs and ConnectInputs for transaction t on top of block b: the inputs
\* are indexed, mature, unspent, and worth the outputs.  txi is the transaction
\* index as the inputs see it: the database overridden by mapQueuedChanges.
InputsOK(txi, t, b) ==
    /\ \A o \in Ins[t] :
        /\ o[1] \in DOMAIN txi /\ o[2] \in DOMAIN txi[o[1]].vSpent
        /\ o[1] \in Gen =>
             \A a \in Block : OnPath(a, b) /\ nHeight(b) - nHeight(a) < Maturity
                             => txi[o[1]].pos[1] # a
        /\ txi[o[1]].vSpent[o[2]] = None
    /\ t \notin Gen => ConnectValueIn(t) >= ValueOf(Outs(t))

\* CTxIndex of a transaction no output of which is spent.
TxIndex(pos, t) == [pos |-> pos, vSpent |-> [n \in 0 .. NOut[t] - 1 |-> None]]

\* The index entries that spending the inputs of t rewrites, and t's own.
SpendInputs(txi, t, b) ==
    [h \in {t} \cup {o[1] : o \in Ins[t]} |->
        IF h = t THEN TxIndex(<<b, t>>, t)
        ELSE [txi[h] EXCEPT !.vSpent =
                [n \in DOMAIN @ |-> IF <<h, n>> \in Ins[t] THEN <<b, t>> ELSE @[n]]]]

\* One turn of ConnectBlock's loop: BIP30 against the database, inputs against
\* the database and the queued changes, values tallied.
ConnectTx(tx, s, t, b) ==
    LET txi == Over(s.queued, tx)
        bip30 == t \in DOMAIN tx => \A n \in DOMAIN tx[t].vSpent : tx[t].vSpent[n] # None
        ok == s.ok /\ bip30 /\ InputsOK(txi, t, b)
    IN  IF ~ok THEN [s EXCEPT !.ok = FALSE]
        ELSE [ok     |-> TRUE,
              queued |-> Over(SpendInputs(txi, t, b), s.queued),
              in     |-> s.in + ValueOf(Ins[t]),
              out    |-> s.out + ValueOf(Outs(t)),
              fees   |-> s.fees + IF t \in Gen THEN 0
                                  ELSE FeeValueIn(t, nHeight(pindexBest)) - ValueOf(Outs(t))]

\* The loop over the transactions of b.
ConnectTxs(tx, b) ==
    LET after[n \in 0 .. Len(Txs[b])] ==
            IF n = 0 THEN [ok |-> TRUE, queued |-> [t \in {} |-> t], in |-> 0, out |-> 0, fees |-> 0]
            ELSE ConnectTx(tx, after[n - 1], Txs[b][n], b)
    IN  after[Len(Txs[b])]

\* GetProofOfWorkReward: the height is the one after the current best block.
GetProofOfWorkReward(nFees) ==
    (IF nHeight(pindexBest) + 1 = 1 THEN Premine ELSE 0) + nFees

\* GetProofOfStakeReward of the coin age, and what the coinstake takes (nStakeReward).
GetProofOfStakeReward(b, nFees) == AgeReward[b] + nFees
StakeReward(b) == ValueOf(Outs(Txs[b][2])) - ValueOf(Ins[Txs[b][2]])

\* Mutant: nMint is added to the money supply.
AddMintToSupply(prev, r) == prev + r.out - r.in + r.fees

\* nMoneySupply after the tally r, on top of the previous block's.
AddToSupply(prev, r) == prev + r.out - r.in

\* The end of ConnectBlock, after its loop with result r: s carries [ok, db, supply],
\* the batch and the memory it changes.
Recorded(s, r, b) ==
    LET ok == /\ s.ok /\ b \notin Bad /\ r.ok
              /\ IF IsProofOfStake(b)
                 THEN StakeReward(b) <= GetProofOfStakeReward(b, r.fees)
                 ELSE ValueOf(Outs(Txs[b][1])) <= GetProofOfWorkReward(r.fees)
        supply == [s.supply EXCEPT ![b] = AddToSupply(s.supply[Prev[b]], r)]
    IN  IF ~ok THEN [s EXCEPT !.ok = FALSE]
        ELSE [ok |-> TRUE, supply |-> supply,
              db |-> [idx  |-> Put(Put(s.db.idx, b, [next |-> pnext[b], supply |-> supply[b]]),
                                   Prev[b], [next |-> b, supply |-> supply[Prev[b]]]),
                      best |-> s.db.best,
                      tx   |-> Over(r.queued, s.db.tx)]]

\* A block that fails leaves the supply of those connected before it.
ConnectBlock(s, b) == Recorded(s, ConnectTxs(s.db.tx, b), b)

\* The blocks of a branch, from the fork up.
ConnectBranch(s, branch) ==
    LET after[n \in 0 .. Len(branch)] ==
            IF n = 0 THEN s ELSE ConnectBlock(after[n - 1], branch[n])
    IN  after[Len(branch)]

\* Mutant: the transaction stays in the index.
DisconnectTxKept(s, t) ==
    [s EXCEPT !.db.tx = [h \in DOMAIN s.db.tx |->
        [s.db.tx[h] EXCEPT !.vSpent = [n \in DOMAIN @ |-> IF <<h, n>> \in Ins[t] THEN None ELSE @[n]]]]]

\* DisconnectInputs: unspend the inputs, drop the transaction from the index.
DisconnectTx(s, t) ==
    LET spent == {o[1] : o \in Ins[t]}
        ok == /\ s.ok
              /\ \A o \in Ins[t] : o[1] \in DOMAIN s.db.tx /\ o[2] \in DOMAIN s.db.tx[o[1]].vSpent
        unspent == [h \in DOMAIN s.db.tx \ {t} |->
                       IF h \notin spent THEN s.db.tx[h]
                       ELSE [s.db.tx[h] EXCEPT !.vSpent = [n \in DOMAIN @ |->
                               IF <<h, n>> \in Ins[t] THEN None ELSE @[n]]]]
    IN  IF ~ok THEN [s EXCEPT !.ok = FALSE]
        ELSE [s EXCEPT !.db = [idx |-> s.db.idx, best |-> s.db.best, tx |-> unspent]]

\* The end of DisconnectBlock, after its loop with result r: the previous block's entry.
Unlinked(s, r, b) ==
    IF ~r.ok THEN r
    ELSE [r EXCEPT !.db = [idx  |-> Put(r.db.idx, Prev[b], [next |-> None, supply |-> s.supply[Prev[b]]]),
                           best |-> r.db.best, tx |-> r.db.tx]]

\* DisconnectBlock: the transactions in reverse.
DisconnectBlock(s, b) ==
    LET before[n \in 0 .. Len(Txs[b])] ==
            IF n = 0 THEN s ELSE DisconnectTx(before[n - 1], Txs[b][Len(Txs[b]) + 1 - n])
    IN  Unlinked(s, before[Len(Txs[b])], b)

\* The blocks of a branch, from the tip down.
DisconnectBranch(s, branch) ==
    LET before[n \in 0 .. Len(branch)] ==
            IF n = 0 THEN s ELSE DisconnectBlock(before[n - 1], branch[Len(branch) + 1 - n])
    IN  before[Len(branch)]

View == [ok |-> TRUE, db |-> db, supply |-> nMoneySupply]

\* WriteHashBestChain.
WithBest(r, b) ==
    [ok |-> r.ok, supply |-> r.supply, db |-> [idx |-> r.db.idx, best |-> b, tx |-> r.db.tx]]

\* Reorganize, up to the commit.
Reorganized(new) ==
    LET f == Fork(pindexBest, new)
        down == DisconnectBranch(View, After(f, pindexBest))
    IN  WithBest(ConnectBranch(down, After(f, new)), new)

\* accept(fCheckInputs = FALSE) of a transaction of the disconnected branch.
ResurrectTx(p, t) ==
    IF t \in Gen \cup p.mapTx \/ Ins[t] \cap DOMAIN p.mapNextTx # {} THEN p
    ELSE AddUnchecked(p, t)

\* The loop over vResurrect: the transactions of a branch, the last block's first.
ResurrectBlock(p, b) ==
    LET after[n \in 0 .. Len(Txs[b])] ==
            IF n = 0 THEN p ELSE ResurrectTx(after[n - 1], Txs[b][n])
    IN  after[Len(Txs[b])]
ResurrectBranch(p, branch) ==
    LET after[n \in 0 .. Len(branch)] ==
            IF n = 0 THEN p ELSE ResurrectBlock(after[n - 1], branch[Len(branch) + 1 - n])
    IN  after[Len(branch)]

\* Mutant: the deletions come first.
PoolReorganizedLate(new) ==
    LET f == Fork(pindexBest, new)
        vDelete == BlockTxs(After(f, new))
    IN  ResurrectBranch(RemoveConflicts(RemoveTx(pool, vDelete), vDelete), After(f, pindexBest))

\* What Reorganize makes of the pool once committed: the disconnected blocks'
\* transactions come back, then the deletions (see Mempool).
PoolReorganized(new) ==
    LET f == Fork(pindexBest, new)
        vDelete == BlockTxs(After(f, new))
    IN  RemoveConflicts(RemoveTx(ResurrectBranch(pool, After(f, pindexBest)), vDelete), vDelete)

\* Mutant: the links of the disconnected branch stay.
PnextReorganizedUp(new) ==
    LET up == Range(After(Fork(pindexBest, new), new))
    IN  [b \in Block |-> IF \E c \in up : Prev[c] = b
                         THEN CHOOSE c \in up : Prev[c] = b ELSE pnext[b]]

\* The links: cut along the disconnected branch, set along the connected one.
PnextReorganized(new) ==
    LET f == Fork(pindexBest, new)
        down == {Prev[b] : b \in Range(After(f, pindexBest))}
        up == Range(After(f, new))
    IN  [b \in Block |-> IF \E c \in up : Prev[c] = b
                         THEN CHOOSE c \in up : Prev[c] = b
                         ELSE IF b \in down THEN None ELSE pnext[b]]

\* Mutant: all but the first block after the fork is postponed.
IntermediateFirst(target) == After(Fork(pindexBest, target), target)[1]

\* The first block on the way to target with more trust than the best chain,
\* and those that SetBestChain connects one by one after it.
Intermediate(target) ==
    LET better == {b \in Range(PathTo[target]) : nChainTrust[b] > nChainTrust[pindexBest]}
    IN  CHOOSE b \in better \cup {target} : \A c \in better : OnPath(b, c)
-----------------------------------------------------------------------------
\* A commit goes through, or fails within the bound.
Commits(ok) == ok \/ (fails < MaxFail)
CountFail(ok) == fails' = IF ok THEN fails ELSE fails + 1

\* AcceptBlock and AddToBlockIndex, up to the commit of the index entry.
AcceptBlock(b, ok) ==
    /\ Idle
    /\ b \notin mapBlockIndex /\ Prev[b] \in mapBlockIndex
    /\ Commits(ok) /\ CountFail(ok)
    /\ mapBlockIndex' = mapBlockIndex \cup {b}
    /\ db' = IF ok THEN [db EXCEPT !.idx = Put(@, b, [next |-> None, supply |-> 0])] ELSE db
    /\ job' = IF ok /\ nChainTrust[b] > nChainTrust[pindexBest]
              THEN [NoJob EXCEPT !.target = b] ELSE NoJob
    /\ UNCHANGED <<pnext, nMoneySupply, pindexBest, pool, crashes, strayed>>

\* SetBestChainInner for block b: connect, commit, link, clean the pool.
ConnectTip(b) ==
    LET r == ConnectBlock(View, b)
    IN  /\ r.ok
        /\ db' = [idx |-> r.db.idx, best |-> b, tx |-> r.db.tx]
        /\ nMoneySupply' = r.supply
        /\ pnext' = [pnext EXCEPT ![Prev[b]] = b]
        /\ pool' = RemoveTx(pool, Range(Txs[b]))

\* SetBestChain of a child of the best block.
ExtendBest(ok) ==
    /\ ~Idle /\ ~job.begun /\ Prev[job.target] = pindexBest
    /\ Commits(ok) /\ CountFail(ok)
    /\ \/ ok /\ ConnectTip(job.target) /\ pindexBest' = job.target
       \/ /\ ~ok \/ ~ConnectBlock(View, job.target).ok
          /\ nMoneySupply' = ConnectBlock(View, job.target).supply
          /\ UNCHANGED <<db, pnext, pool, pindexBest>>
    /\ job' = NoJob
    /\ UNCHANGED <<mapBlockIndex, crashes, strayed>>

\* SetBestChain across a fork: Reorganize to the intermediate block.
ReorganizeBest(ok) ==
    /\ ~Idle /\ ~job.begun /\ Prev[job.target] # pindexBest
    /\ Commits(ok) /\ CountFail(ok)
    /\ LET mid == Intermediate(job.target)
           r == Reorganized(mid)
           rest == After(mid, job.target)
       IN  /\ nMoneySupply' = r.supply
           /\ \/ /\ ok /\ r.ok
                 /\ db' = r.db
                 /\ pnext' = PnextReorganized(mid)
                 /\ pool' = PoolReorganized(mid)
                 /\ pindexBest' = IF rest = <<>> THEN mid ELSE pindexBest
                 /\ job' = IF rest = <<>> THEN NoJob
                           ELSE [target |-> job.target, secondary |-> rest, begun |-> TRUE]
              \/ /\ ~(ok /\ r.ok)
                 /\ job' = NoJob
                 /\ UNCHANGED <<db, pnext, pool, pindexBest>>
    /\ UNCHANGED <<mapBlockIndex, crashes, strayed>>

\* The next of the postponed blocks is connected; after the last one the
\* target becomes the best block in memory.
ConnectSecondary ==
    /\ ~Idle /\ job.begun
    /\ ConnectTip(Head(job.secondary))
    /\ LET rest == Tail(job.secondary)
       IN  /\ pindexBest' = IF rest = <<>> THEN job.target ELSE pindexBest
           /\ job' = IF rest = <<>> THEN NoJob
                     ELSE [target |-> job.target, secondary |-> rest, begun |-> TRUE]
    /\ UNCHANGED <<mapBlockIndex, crashes, fails, strayed>>

\* One of them fails: the loop ends, the target becomes the best block all the
\* same ("errors now are not fatal").
SecondaryFails(ok) ==
    /\ ~Idle /\ job.begun
    /\ Commits(ok) /\ CountFail(ok)
    /\ LET r == ConnectBlock(View, Head(job.secondary))
       IN  ~(ok /\ r.ok) /\ nMoneySupply' = r.supply
    /\ pindexBest' = job.target
    /\ job' = NoJob
    /\ strayed' = TRUE
    /\ UNCHANGED <<db, mapBlockIndex, pnext, pool, crashes>>

\* The process dies and starts again: LoadBlockIndex rebuilds memory from disk.
\* (An index with a child whose parent's write failed is not followed further.)
Restart ==
    /\ crashes < MaxCrash
    /\ \A b \in DOMAIN db.idx \ {Genesis} : Prev[b] \in DOMAIN db.idx
    /\ crashes' = crashes + 1
    /\ mapBlockIndex' = DOMAIN db.idx
    /\ pnext' = [b \in Block |-> IF b \in DOMAIN db.idx THEN db.idx[b].next ELSE None]
    /\ nMoneySupply' = [b \in Block |-> IF b \in DOMAIN db.idx THEN db.idx[b].supply ELSE 0]
    /\ pindexBest' = db.best
    /\ pool' = EmptyPool
    /\ job' = NoJob
    /\ UNCHANGED <<db, fails, strayed>>

\* CTxMemPool::accept of a loose transaction (see Mempool for its callers).  Its
\* fees are those of the block it would be in, so the postmine waits for its height.
AcceptToMemoryPool(t) ==
    /\ Idle
    /\ t \notin Gen \cup pool.mapTx \cup DOMAIN db.tx
    /\ Ins[t] \cap DOMAIN pool.mapNextTx = {}
    /\ InputsOK(Over(db.tx, [u \in pool.mapTx |-> TxIndex(<<None, u>>, u)]), t, pindexBest)
    /\ FeeValueIn(t, nHeight(pindexBest)) >= ValueOf(Outs(t))
    /\ pool' = AddUnchecked(pool, t)
    /\ UNCHANGED <<db, mapBlockIndex, pnext, nMoneySupply, pindexBest, job, crashes, fails, strayed>>

SetBestChainStep ==
    \/ \E ok \in BOOLEAN : ExtendBest(ok) \/ ReorganizeBest(ok) \/ SecondaryFails(ok)
    \/ ConnectSecondary

Next ==
    \/ \E b \in Block \ {Genesis}, ok \in BOOLEAN : AcceptBlock(b, ok)
    \/ SetBestChainStep
    \/ Restart
    \/ \E t \in Tx : AcceptToMemoryPool(t)

Spec == Init /\ [][Next]_vars
-----------------------------------------------------------------------------
\* Reference definitions: the transactions of the chain that ends in b, in
\* order, as pairs <<block, transaction>> ...
Ledger(b) ==
    FlattenSeq([i \in DOMAIN PathTo[b] |->
        [j \in DOMAIN Txs[PathTo[b][i]] |-> <<PathTo[b][i], Txs[PathTo[b][i]][j]>>]])

\* ... as a set ...
Entries(b) == {e \in Range(PathTo[b]) \X Tx : e[2] \in Range(Txs[e[1]])}

\* ... the transaction index they should have ...
IndexOf(b) ==
    LET l == Entries(b)
        Spender(t, n) == {e \in l : <<t, n>> \in Ins[e[2]]}
    IN  [t \in {e[2] : e \in l} |->
            [pos    |-> CHOOSE e \in l : e[2] = t,
             vSpent |-> [n \in 0 .. NOut[t] - 1 |->
                            IF Spender(t, n) = {} THEN None ELSE CHOOSE e \in Spender(t, n) : TRUE]]]

\* ... and the blocks whose chain follows the rules: every input refers to an
\* earlier, mature, unspent output, no value is created beyond the rewards and
\* the postmine.
ValidLedger(l) ==
    \A i \in DOMAIN l :
        LET b == l[i][1]
            t == l[i][2]
        IN  /\ \A j \in 1 .. i - 1 : l[j][2] # t /\ Ins[l[j][2]] \cap Ins[t] = {}
            /\ \A o \in Ins[t] : \E j \in 1 .. i - 1 :
                  /\ o \in Outs(l[j][2])
                  /\ o[1] \in Gen => nHeight(b) - nHeight(l[j][1]) >= Maturity
            /\ t \notin Gen => ConnectValueIn(t) >= ValueOf(Outs(t))

\* Block b claims no more than the fees, the premine and the stake's due when it is
\* connected by a node whose best height is h.
PaysReward(b, h) ==
    LET loose == Range(Txs[b]) \ Gen
        fees == FoldSet(LAMBDA t, s : s + FeeValueIn(t, h) - ValueOf(Outs(t)), 0, loose)
    IN  IF IsProofOfStake(b)
        THEN ValueOf(Outs(Txs[b][2])) <= ValueOf(Ins[Txs[b][2]]) + AgeReward[b] + fees
        ELSE ValueOf(Outs(Txs[b][1])) <= fees + IF h = 0 THEN Premine ELSE 0

\* The heights nBestHeight can have when b is connected: its parent's, as a rule;
\* in a reorganisation that of the tip the node comes from.
BestHeights(b) == {nHeight(x) : x \in {y \in Block : ~OnPath(b, y)}}

\* The blocks that a node may connect, and those that every node does.
ConnectableBlocks ==
    {b \in Block : /\ ValidLedger(Ledger(b))
                   /\ \A a \in Range(PathTo[b]) :
                         a \notin Bad /\ \E h \in BestHeights(a) : PaysReward(a, h)}
ValidBlocks ==
    {b \in ConnectableBlocks : \A a \in Range(PathTo[b]) : \A h \in BestHeights(a) : PaysReward(a, h)}

\* Successor of b on the chain that ends in best.
NextOn(best, b) ==
    IF \E c \in Range(PathTo[best]) : Prev[c] = b
    THEN CHOOSE c \in Range(PathTo[best]) : Prev[c] = b ELSE None
-----------------------------------------------------------------------------
\* Type invariant of the database, the block index, the pool and the job.
TypeOK ==
    /\ DOMAIN db.idx \subseteq Block /\ db.best \in DOMAIN db.idx /\ DOMAIN db.tx \subseteq Tx
    /\ mapBlockIndex \subseteq Block
    /\ pnext \in [Block -> Block \cup {None}]
    /\ nMoneySupply \in [Block -> Int]
    /\ pindexBest \in mapBlockIndex
    /\ pool.mapTx \subseteq Tx
    /\ job.target \in mapBlockIndex \cup {None}
    /\ Range(job.secondary) \subseteq mapBlockIndex
    /\ crashes \in 0 .. MaxCrash /\ fails \in 0 .. MaxFail /\ strayed \in BOOLEAN

\* After any connects, disconnects, rejected branches, failing commits and
\* crashes, the transaction index on disk is the one the chain of hashBestChain
\* implies: its transactions, where they are, and who spends each output.
TxIndexMatchesChain == ~strayed => db.tx = IndexOf(db.best)

\* "Make sure it's successfully written to disk before changing memory
\* structure": whenever SetBestChain returns, memory is on the block that is best
\* on disk.
BestIsOnDisk == Idle => pindexBest = db.best

\* "pnext will only point forward to the longest branch, or will be null if the
\* block is not part of the longest chain".  "The memory index structure will be
\* changed after the db commits": whenever SetBestChain returns, memory and disk
\* agree on every link, failures included.  The state keeps its types.
PnextIsBestChain ==
    /\ TypeOK
    /\ Idle => \A b \in mapBlockIndex \cap DOMAIN db.idx : pnext[b] = db.idx[b].next
    /\ Idle /\ ~strayed => \A b \in mapBlockIndex : pnext[b] = NextOn(pindexBest, b)

\* The money supply of the best block is the value of the unspent outputs.
MoneySupplyIsUnspent ==
    Idle /\ ~strayed => nMoneySupply[pindexBest] =
        ValueOf({o \in UNION {Outs(t) : t \in DOMAIN db.tx} : db.tx[o[1]].vSpent[o[2]] = None})

\* The chain that SetBestChain settled on follows the rules, and no valid chain
\* the node has indexed has more trust, however many invalid branches it was
\* shown before; the second while nothing failed or crashed between the commit
\* of an index entry and the choice of the best chain.  The fees of a block that
\* spends the postmine depend on nBestHeight, so on the branch a node comes from:
\* the first is about blocks valid for some node, the second about those valid
\* for every node.
BestIsMostTrusted ==
    /\ Idle /\ ~strayed => pindexBest \in ConnectableBlocks
    /\ Idle /\ crashes = 0 /\ fails = 0 =>
         \A b \in mapBlockIndex \cap ValidBlocks : nChainTrust[b] <= nChainTrust[pindexBest]

\* Every commit that moves hashBestChain moves it to more trust: splitting a
\* reorganisation at the intermediate block never leaves, at a crash, a worse
\* chain than before.
DiskTrustGrows ==
    [][db'.best # db.best => nChainTrust[db'.best] > nChainTrust[db.best]]_vars

\* No transaction is in the pool and in the transaction index, whichever parts
\* of a reorganisation failed.
PoolNotIndexed == Idle => pool.mapTx \cap DOMAIN db.tx = {}
=============================================================================
