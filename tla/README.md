# NoLimitCoin core: TLA+ models

NoLimitCoin (`src/src`) is a proof-of-stake coin derived from Peercoin and
Novacoin: a block chain kept in LevelDB, a memory pool, a peer-to-peer network,
a wallet that stakes, and RPC and Qt front ends. This directory holds TLA+
models of its core, the TLC runs that check them on small instances, and TLAPS
proofs of what matters most for every value of the constants.

## The system: inventory

| Part | State | Operations | What is hard | What makes it correct |
|---|---|---|---|---|
| Block database, `txdb-leveldb.*` | the LevelDB contents; one `activeBatch` per `CTxDB` object | Read, Write, Erase, Exists, TxnBegin, TxnCommit, TxnAbort | reads inside a transaction scan a log; commits fail; crashes | reads see the handle's own writes, commits are atomic |
| Memory pool, `main.cpp` `CTxMemPool` | `mapTx`, `mapNextTx` | accept, addUnchecked, remove, removeConflicts | reorganisations put transactions back without checks and then take others out, recursively | the maps agree, no double spend, nothing both pooled and confirmed |
| Orphan transactions, the `tx` message | `mapOrphanTransactions`, `mapOrphanTransactionsByPrev`, the handler's queues | AddOrphanTx, EraseOrphanTx, LimitOrphanTxSize, the work queue | the queue grows while it is walked; eviction at the limit | the index is exact, the map bounded, every orphan that became complete is found, the loop ends |
| Block index and best chain, `main.cpp` | `mapBlockIndex` with `pnext`, `nMoneySupply`, `nChainTrust`; `pindexBest`; on disk the block index, the transaction index and `hashBestChain` | AddToBlockIndex, SetBestChain, Reorganize, ConnectBlock, DisconnectBlock, LoadBlockIndex | several commits per reorganisation, crashes between them, invalid blocks in the middle of a branch | the indexes describe the best chain, the best chain is valid and the most trusted |
| Block intake, `ProcessBlock`, `AcceptBlock`, `CheckBlock` | `mapOrphanBlocks`, `setStakeSeen`, `setStakeSeenOrphan` | blocks in any order, duplicates, duplicate stakes | a chain of orphans resolved by one arrival, or lost with it | every valid block of a known chain is indexed |
| Synchronised checkpoints, `checkpoints.cpp` | `hashSyncCheckpoint`, `hashPendingCheckpoint`, the invalid one | ProcessSyncCheckpoint, AcceptPendingSyncCheckpoint, ResetSyncCheckpoint | a checkpoint before its block, on a side branch, or older than the current one | the checkpoint only moves forward, the best chain contains it |
| Kernel, `kernel.cpp` | stake modifiers in the block index | ComputeNextStakeModifier, CheckStakeKernelHash | selection intervals, ties, overflow | the modifier is a function of the chain |
| Difficulty and rewards, `main.cpp` | none | GetNextTargetRequired, GetCoinAge, GetProofOfStakeReward, ComputeMaxBits | 64-bit and 256-bit arithmetic, negative spacings | bounded, monotone |
| Peer messages, `main.cpp`, `net.*` | per-node inventories, `mapAlreadyAskedFor`, `mapRelay` | inv, getdata, getblocks, AskFor | losses, retries after two minutes, duplicates | an announced item is eventually fetched |
| Connections and bans, `net.*` | `vNodes`, reference counts, `setBanned` | connect, accept, disconnect, Misbehaving | several threads over `vNodes` | slots are bounded, no use after release |
| Address manager, `addrman.*` | tried and new tables, reference counts | Add, Good, Attempt, MakeTried, Shrink | collisions and evictions in full buckets | tables and counts agree |
| Wallet, `wallet.*`, `walletdb.*`, `db.*` | `mapWallet`, spent flags, key pool, BDB use counts | AddToWalletIfInvolvingMe, DisableTransaction, CommitTransaction, key pool, flush | told before the chain commits; keys reserved and returned; the flush thread | the balance follows the chain, no key is handed out twice |
| Key store, `keystore.*`, `crypter.*` | plain or encrypted keys, the master key | Lock, Unlock, EncryptKeys | one wrong key among many | never both plain and encrypted |
| Staking, `miner.*` | the block being built | CreateNewBlock, CheckStake | the tip moves while a block is built | no block on a stale tip is processed |
| Alerts, `alert.*` | `mapAlerts` | ProcessAlert | cancellation order | a cancelled alert does not come back |
| Script, RPC, start-up, IRC, utilities, cryptography, Qt | | | | not modelled; see the end |

`cs_main` is held by the message handler while it processes a message and by
the RPC commands that change the chain or the pool. The parts above therefore
interleave at the granularity of messages, with two exceptions that the models
keep apart: a database commit is a point a crash may follow, and the wallet is
called before the commit.

## Plan

1. `TxDB` against the abstract `KVStore`: every other part rests on it. *Done,
   refinement proved.*
2. `TxPool` and `Mempool`: pool, orphans, reorganisations. *Done, proved.*
3. `ChainState`: index, best chain, crashes. *Done; all but the choice of the most
   trusted chain proved.*
4. `BlockIntake` and `SyncCheckpoint`, composed with the interface of
   `ChainState` (which blocks are indexed, which is best). *Done, proved.*
5. `AddrMan`, the peer protocol as `BlockDownload` and `TxRelay`, `Wallet`
   (composed with the pool and the block tree) and `KeyPool`. *Done for TLC;
   `AddrMan`, `KeyPool` and the safety of `Wallet` proved.*
6. Theorems next: the types and the announcements of `BlockDownload`.
7. Open: `Retarget`, `StakeReward` and `Kernel` as pure operators over bounded
   inputs; `Nodes` (slots, bans, reference counts); `CryptoKeyStore`; `DbEnv`
   (BDB use counts and the flush thread); `StakeMiner`; `Alerts`.

## Modules

### KVStore, TxDB, TxDB_proofs

`KVStore` is what callers of `CTxDB` rely on: a map, and per handle an optional
transaction whose writes only the handle sees until an atomic commit. `TxDB` is
the code: `activeBatch[h]` is the log of the `leveldb::WriteBatch` (a `Delete`
is an entry with value `NotFound`), `ReadResult` scans it with `ScanBatch` and
falls back on the database, `TxnCommit(h, ok)` applies it or loses it. The two
assertions of the code (no nested transaction, no write through a read-only
object) are guards. A write outside a transaction that LevelDB refuses changes
nothing and needs no action. `call`, the last call with its answer, is a
history variable of both: without it a lost write could pass for a stutter. The
refinement mapping reads the log as a partial map, `PendOf`.

### TxPool, Mempool, MCMempool, Mempool_proofs

`TxPool` holds the pool's operations as operators on a value `[mapTx,
mapNextTx]`, so that `Mempool` and `ChainState` share them. Transactions are
constants with their inputs; a transaction is its hash. `remove(tx, true)` is
written as a set (the smallest set closed under "spends an output of"), which
provers can use; `MCMempool` has the recursion and the loops as the code has
them, and the run compares the two from every reachable pool, for every
order of `vResurrect` and `vDelete`.

`Mempool` steps through the `tx` handler: `ReceiveAccepted` starts the work
queue, `OrphanAccepted` and `OrphanRefused` are one turn of the inner loop,
`NextEntry` of the outer, `FinishHandler` erases what is settled. Fees, the
rate limit, scripts and timestamps are a verdict `ok`: the code may refuse
anything. The chain is the sequence of its blocks' sets of transactions;
`ExtendChain` is `SetBestChainInner`'s effect on the pool, `Reorganize` that of
`Reorganize`.

### ChainState, MCChainState, ChainState_proofs

`db` is the database as one value: `idx` (block index: link and money supply),
`best` (`hashBestChain`), `tx` (transaction index). `ConnectBlock`,
`DisconnectBlock` and `Reorganized` are functions from a batch to a batch with
an `ok` flag, translated loop by loop (a loop is a recursive function of the
number of turns): BIP30 against the database,
inputs against the database overridden by `mapQueuedChanges`, maturity counted
from the block being connected, the reward at the height of `pindexBest`. That
a batch may be treated as a value is what `TxDB` shows.

One `SetBestChain` is several actions, because it commits several times:
`AcceptBlock` (index entry), `ExtendBest` or `ReorganizeBest` (up to the
intermediate block), `ConnectSecondary` and `SecondaryFails` (the postponed
blocks). `Restart` may come between any two: memory becomes what
`LoadBlockIndex` reads. A commit or a block file read fails when `ok` is
`FALSE`. `Bad` stands for the checks whose outcome depends on the block alone
(scripts, signature counts, money range, minimum fee, timestamps); what the coin
age of a coinstake earns is a constant of its block (`AgeReward`).

Values follow the code's three tallies. The money supply counts inputs at what they
say (`ValueOf`). Fees count an output of the transaction `hashPostmine` at
`POSTMINE_VALUE` (389 million coins) more, if it is the only input and `nBestHeight`
has reached `POSTMINE_BLOCK` (`FeeValueIn`, `main.cpp:1317-1324`). `ConnectInputs`
adds it at any height, and an input from the postmine replaces the sum of those before
it (`ConnectValueIn`, `main.cpp:1383-1386`). So value is created by the premine, the
coin age and the postmine, and by each of several spends of the postmine's outputs.
`nBestHeight` is the node's, not the block's: it is the parent's height when a
block extends the chain, and that of the branch being left in a reorganisation. A block
that spends the postmine near `POSTMINE_BLOCK` may therefore connect for one node and
not for another. `BestIsMostTrusted` says what remains: the chain settled on is
one that some node connects (`ConnectableBlocks`), and it has no less trust than any
chain that every node connects (`ValidBlocks`). Block `p3` of the instance is of the
first kind only.

After a postponed block has failed, memory follows a block that the disk does
not have (`chain_secondary`), and what is said of memory's best chain no longer
holds; the history variable `strayed` records it, and the invariants that would
only repeat the finding are stated for executions in which it has not happened.
`PoolNotIndexed`, `DiskTrustGrows` and the agreement of memory and disk on the
links (in `PnextIsBestChain`) hold in all.

The reference the index is compared with is declarative: `Ledger(b)` lists the
transactions of the chain that ends in `b`, `IndexOf(b)` is the index they
imply (`Entries` says which they are), `ValidLedger` and `PaysReward` are the rules,
and `ValidBlocks` the blocks whose chain follows them for every node. `BlockAssumption` is what a block has passed before it gets here: it has no
transaction twice (`CheckBlock`, `main.cpp:2114`), its coinbase names its height
(`AcceptBlock`, `main.cpp:2206`) and every other transaction spends something
(`CheckTransaction`, `main.cpp:484`).

### BlockTree, BlockTree_proofs, SyncCheckpoint, BlockIntake, MCBlockIntake, BlockIntake_proofs

`BlockTree` has the tree of blocks that `ChainState` shares: `Ancestors[b]` is
the smallest set that holds `b` and is closed under `pprev`. `PathTo` and
`nChainTrust` are recursive functions on the tree. `SyncCheckpoint` has the checkpoint state and the tests on it
(`CheckSync`, `ValidateSyncCheckpoint`, `CheckHardened`), and what `SetBestChain`
does as seen from outside: it succeeds, it fails, or it leaves memory ahead of
the disk when a postponed block fails (the case `chain_secondary` exhibits).

`BlockIntake` has the handlers. A handler is split at its commits and `job.pc`
says where it stands: `best` (the index entry is written, `SetBestChain` is
next), `pending` (`AcceptPendingSyncCheckpoint` is next), `write` (its write is
next), `queue` (between two blocks of the work queue of orphans), `adopt` (the
write of a checkpoint just received), `key`, `reset` and `resetwrite` (the start
under a new master key), `stopped` (that start failed). `Restart` may come at any
of them. `hashBestChain` is the best block in memory, `dbBest` the one on disk.
After a postponed block has failed they differ, and from there only the write
that follows and the restart are modelled (`Sound`).

The constants are verdicts. `Bad` blocks fail in `ConnectBlock`, `Refused` ones
in `AcceptBlock`, `Light` ones have too little work since the checkpoint, equal
`Stake` values are one stake used twice, `Checkpoint` are the blocks the master
key signs and `Hardened[v]` the checkpoints compiled into version `v`. `strict`
is `CheckpointsMode`, fixed by `-cppolicy`: either value, the same at every
start. `delivered` and `resetDone` are history variables. `Init` is the state
after the very first start. A checkpoint the node itself sends as the master
passes through `ProcessSyncCheckpoint` and is an ordinary message. Failures of
single reads and commits are `ChainState`'s subject and are left out here.

### AddrMan, MCAddrMan, AddrMan_proofs

`am` is the `CAddrMan` object as one record, and each public operation, which
holds `cs` for its whole length, one action: `AddNew` and `AddAgain` (the two
branches of `Add_`), `Good` with `MakeTried`, `SelectTried`, `Evict`,
`ShrinkNew`, and `GetAddr`, which shuffles `vRandom`. `Dump` and `Load` are the
two directions of the serialisation, with the renumbering of `mapUnkIds`, and
`Reload` a restart from peers.dat. Random draws are choices, bucket hashes are
constant functions, times are left out but for the order of last successes.
`Check` is the code's own `Check_`, which is compiled only with `DEBUG_ADDRMAN`.

### BlockDownload, MCBlockDownload

One client, one server, a queue of messages each way. A block is its height;
`pow` says which blocks are proof of work, because the trigger for the next batch
announces the last of those. `InvReceived`, `GetBlocksServed`, `GetDataServed`,
`ExtendChain` and `HoldOrphan` are the handlers, `PushGetBlocks` with its filter
of repeated requests, `AskFor` with the two minutes of a repeated request
(`delayed`), `Remember` is `mruset::insert`. `Reconnect` drops the queues and
everything kept in `CNode`, not `mapAlreadyAskedFor` and the orphans. `stalled`
is a history variable: the client's height when a new block found it behind and
nothing was under way.

### TxRelay, MCTxRelay

One transaction among a few nodes: `SendInv`, `ReceiveInv`, `SendGetData`,
`ServeGetData`, `ReceiveTx`, with `mapRelay` (`inRelay`), `mapAlreadyAskedFor`
(`wait`, relative to now), `mapAskFor`, connections that break and are made
again, confirmation, expiry after 15 minutes and the wallet's resend. `Tick` is
time. `since`, a history variable, has the links that were up when their first
node got the transaction: only over those was it offered.

### Wallet, MCWallet, Wallet_proofs

`Wallet` composes the wallet with the operations of `TxPool` and `BlockTree`:
`w.hashBlock` is `mapWallet` with each transaction's block, `w.spent` the spent
flags, `vtxPrev` the ancestors saved with a payment, `locator` what
`::SetBestChain` last wrote or `None`, `backup` a copy of the wallet file. `Extend` and
`Reorganize` tell the wallet block by block, as `ConnectBlock` and `DisconnectBlock` do,
and commit afterwards or fail (`ToldInVain`). `CommitTransaction` spends only what
`AvailableCoins` offers and `IsTrusted` may allow. Payments by a copy of the wallet file
are transactions outside `Own` that spend coins in `Mine`. A loop is a recursive function
of the number of turns (`TellBlock`, `TellBlocks`, `SupportingTransactions`, `OfferAll`,
`Resubmit`, `Reaccepted`).

`Start` is a restart: rescan (`RescanFrom`), then `ReacceptWalletTransactions`, whose loop
is `Reaccepted` and goes through `mapWallet` in any order. The rescan is from the
locator, or over the whole chain with `-rescan`. A file without a locator is not rescanned
at all (`init.cpp:865-874`): none is written by a first start or during the initial
download, so `Init` has none and `WriteLocator` may leave it so. The wallet in use has
heard of every block, and needs no rescan; a copy taken then and restored later
(`RestoreBackup`) lacks what the chain has done since.

`SupportingTransactions` is the work queue of `AddSupportingTransactions` (`Visit` is one
turn that does something): inputs in order, each hash once, the inputs of an ancestor
`CopyDepth` blocks deep not followed, the list reversed at the end.
`AcceptWalletTransaction` offers the list and then the transaction.

Four history variables say what a wrong answer may be put down to. `early`, `lost` and
`misplaced` record that the wallet was told of a change that came to nothing, and until
when that excuses a coin offered, a coin withheld, or a transaction under the wrong block.
So does a backup whose locator is off the chain it was written with (`OffItsChain`): the
locator is only written outside the initial download, so it may name a branch that the
chain had left when the backup was taken and has come back to since; a rescan from it
then begins above blocks whose transactions the backup has under others.
The instance does not reach that case, the proof covers it. `unscanned` records that a
file without a locator was restored on another tip than its own (`NotRescanned`). It ends
with `-rescan`, unless the wallet has got a locator since that is off the chain rescanned:
the wallet may then lack transactions of that locator's branch, and a later restart on
it would rescan too little. `ReacceptWalletTransactions` corrects the flags of an
unscanned wallet all the same, but for the coinstakes it skips; a repair may flag a coin
whose spender the wallet does not have (`FixSpentCoins` sets `lost`).

### KeyPool, MCKeyPool, KeyPool_proofs

`setKeyPool`, the pool records on file, the `CReserveKey` objects and the locked
and encrypted states of the wallet. `GetReservedKey`, `KeepKey` (which takes no
lock), `ReturnKey`, `GetKeyFromPool`, `TopUpKeyPool`, and `EncryptWallet` in two
steps, `EncryptKeys` and `NewKeyPool`, so that `Restart` may come between them.
Keys are numbered as they are generated. `collided` records that an index was
given to a new key while a reservation held it, which `IndexGivenOnce` excludes
for an unencrypted wallet and which happens when a locked wallet is drained, with
`-keypool=0`, and when a wallet is encrypted while a reservation is out.

## Runs

| Run | States | Shows |
|---|---|---|
| `txdb` | 14692 | `TxDB` keeps its types and implements `KVStore` (two handles, two keys, batches of two) |
| `mempool` | 27339 | seven transactions (a conflict, a chain, a diamond, a coinstake, a missing output, a nonstandard one), two orphans at most, two blocks: consistency, bounds, resolution of orphans, reorganisations, termination; recursion and loop order against the set definitions |
| `chain` | 102364 | two valid branches with a spend inside a block, a coinstake and a spend of the postmine, a block that spends the postmine too early for most nodes, a double spend with a block on top, an immature spend; three crashes and one failing commit: index, links, money supply, trust and pool against the best chain, which is valid and the most trusted |
| `chain_secondary` | violation | a postponed block fails and memory follows it all the same |
| `intake` | 241630 | blocks and checkpoints in any order, two crashes, upgrades with a new master key, strict and advisory policy: the best chain contains the checkpoint, the checkpoint moves forward only, no orphan or valid block is lost, a pending checkpoint is settled, handlers end |
| `intake_newkey` | violation | a crash between the commit of the new master key and the reset leaves the old checkpoint for good |
| `addrman` | 115181 | four addresses, two buckets of each kind, full: `Check_` passes, sizes hold, tried entries survive, peers.dat loses nothing |
| `download` | 386809 | seven blocks in batches of two, new blocks, one lost connection; an all-proof-of-work chain and one with a proof-of-stake tail: fetched whole, no lasting stall, the exchange ends |
| `relay` | 156164 | three nodes, two broken connections: an announced transaction is fetched |
| `wallet` | 189759 | three payments, two coinstakes, a spend by a copy, six blocks on two branches with two ends each, one vain notification, one start, with or without a locator: flags, known transactions, what the saved ancestors support gets back into the pool |
| `wallet_commit` | violation | confirmation clears the flag of a coin a pool transaction spends, and the next payment is refused after it was recorded |
| `keypool` | 612152 | two reservations, refills, encryption, two restarts: records exist, no key twice, no index twice |

`TypeOK` is checked by itself where a theorem states it (`TxDB`, `Mempool`,
`BlockIntake`); in the other modules it is a conjunct of the first invariant or
property of the run (`PnextIsBestChain`, `Check`, `AnnouncementAdvances`,
`Relayed`, `ChainKnown`, `PoolOnDisk`).

Bounds. `MaxBatch` 2 lets a key be put and deleted in one batch, which is what
scanning can get wrong. Two orphans and seven transactions let an orphan wait
for another orphan and be evicted. In `MCChainState` three crashes let three
blocks in a row be indexed and not connected, so that a later one postpones two;
the branches fork above the premine block and spend the same output, one has a
spend of an output of its own block, the rival one a coinstake, a block of double trust
and a spend of the postmine; `PostmineBlock` is the height at which one of the two
blocks that spend it is due. In `MCBlockIntake` eight blocks
are two valid branches that share a stake, of three and of two blocks, and a bad
block with a child; checkpoints are signed on each. Two crashes allow one inside
the reset that the other, the upgrade, began; one of the two newer versions
hardens the bad block, so that the reset fails.

In `MCAddrMan` three addresses share a tried bucket of two and the new buckets
hold one entry, so that every move meets a full bucket, and an address heard from
two sources is in two buckets; four ids between two starts let an address be
deleted and added again. In `MCBlockDownload` batches of two and inventories of
four keep the code's proportions (500 and 1000) on a chain of three batches and a
bit, and `setInventoryKnown` of four overflows. In `MCTxRelay` the triangle lets a
node be offered the transaction by both others and lose the one it asked; the wait
is one tick, since only its being positive matters. In `MCWallet` the branches
are: a block with two payments, followed by an empty block or by a bad one, and a block
with a coinstake of a coin that the second payment spends, followed by the first payment
or by a coinstake and a payment, the latter by a copy of the wallet file, of the first
coinstake's outputs. They force each of the rescans, refunds and conflicts, the move of a
payment to another block, its return to the pool and failed reorganisations. For the
resubmission, `t2` spends `t1`'s change and `d` an output of `t1` and then one of `t2`, so that the ancestors saved with `d` are
not parents first: without its case `~ParentsFirst` TLC refutes `Resubmitted`. `CopyDepth`
is 1 (3 in the code), so that the cut-off is met with a payment just confirmed.
One backup is a bound of the model which the proofs do not use. In `MCKeyPool` a pool of one or two keys is drained by two
reservations; seven keys suffice for a drained, encrypted and refilled pool.

Deadlock is not checked in the chain, intake, download, relay and key pool runs:
once every block is known, every message delivered or every bounded resource (crashes,
connections, keys) used up nothing happens, and a node whose start failed, or
whose memory has left the disk, waits for a restart.

Fairness. `Mempool` and `BlockIntake` need it, for `HandlerTerminates` and
`HandlerEnds`: weak fairness of the handler's own steps, since the thread that
holds `cs_main` keeps running. No message and no restart is assumed to come.
`BlockDownload` and `TxRelay` assume that messages under way on a connection that
stays up are delivered and handled and that time passes: TCP and the message
handler threads see to the first. In `TxRelay` it is weak fairness of `Handle`; in
`BlockDownload` the same of `Deliver`, written out as a formula because computing
`ENABLED` of it is costly. New blocks, reconnections and resends are never assumed.

## Proofs

`TxDB_proofs`: `TypeCorrect` and `ImplementsKVStore`, from the assumptions that
the sentinels are none of the values and `MaxBatch` is a natural number. The
inductive invariant adds to `TypeOK` that every batch is a sequence whose hits
on a key have a last one (`BatchesScannable`): `ScanBatch` is a `CHOOSE` of the
last hit, and the lemmas `ScanLast`, `ScanMiss` and `ScanAppend` say what
appending an entry does to it. `StepRefines` maps each action to an action of
`KVStore` or to a stutter.

`Mempool_proofs`: types, consistency of the pool's maps, disjointness from the
chain, exactness and bound of the orphan index, and `ReorganizeIsClean`, for
any transactions, limits and chain length. The inductive invariant `IInv` joins
the checked invariants with the finiteness of the orphan map (for cardinality)
and `ChainOK`: no two transactions of the chain spend the same output. The
last is what makes `Resurrect` well defined: the transactions put back come
from one chain, so they conflict with the pool only, never with each other.

Two action properties follow. `NoOrphanLeftBehind` speaks of the moment the work queue is
empty, so it needs what holds while it is walked (`QueueInv`): of an entry that has
been dealt with, every orphan that waits for it is `Settled`: queued itself, erased
at the end, short of another input, or waiting for an entry still to come.
`LostOnlyToConflicts` rests on `DependentsDepend`: the smallest closed set that
`remove(tx, true)` takes out holds only the rivals and what depends on them, shown by
taking out of it whatever does not.

`BlockTree_proofs` has no theorem of its own; it is what the two chain proofs
rest on. The assumptions are that the tree is finite and rooted at genesis and
that every block has positive trust (`AcceptBlock` demands the `nBits` of
`GetNextTargetRequired`, whose target is positive). From them: ancestors form a
chain and are ordered by height, a proper ancestor has less trust (`TrustGrows`),
the fork of two chains is their last common block (`ForkIsLast`), the recursive
functions on the tree have a solution (`TreeRecursion`), `PathTo[b]` lists the
ancestors by height, and `After(f, b)` is the branch from `f` to `b`
(`AfterIsBranch`, `AfterTail`).

`BlockIntake_proofs`: for any finite tree of blocks, any bad blocks, hardened
checkpoints and policy, any number of crashes, from the assumptions on the
constants. First `TypeCorrect`, `CheckpointOnBestChain` and
`CheckpointOnlyAdvances`. `SyncOnBestChain` speaks of a node between two messages;
the inductive invariant `IInv` says what holds inside a handler: the index is
closed under parents (`IndexClosed`), the disk has every good block of the chain
memory calls best (`DiskFollows`), a handler about to move the best chain or the
checkpoint moves it to a descendant of the checkpoint (`JobFollows`), a start
that must reset has not done so (`ResetPending`, `KeyPending`), and the best
chain contains the checkpoint all along (`SyncInBest`). `CheckSyncDescends` is
the heart of it: a new block that passes `CheckSync` descends from the
checkpoint, since one below it is refused unless it was known before.
`SetBestChainEffect` says what the three outcomes of `SetBestChain` leave.

Then `NoOrphanForgotten`, `NoCheckpointForgotten` and `EveryDeliveryCounts`, from a
second inductive invariant, `OInv`, on top of the first. Its parts follow a block
through the handler: every block of the work queue is indexed and the one being
stored waited for its head (`QueueInv`); `mapOrphanBlocksByPrev` has every orphan
and those just taken up (`FiledInv`); an orphan whose parent is indexed waits for
the block in hand or one in the queue (`OrphanInv`); a pending checkpoint whose
block has been stored is about to be looked at (`PendingInv`); and a delivered
block that is neither indexed nor an orphan breaks a rule, and goes on breaking it
(`DeliveryInv`). The last is the hard one: the rule may be a checkpoint that has
moved since, and it is `CheckpointOnlyAdvances` that keeps the objection valid.

`KeyPool_proofs`: `PoolStaysOnDisk`, `KeysHandedOutOnce` and `IndexesGivenOnce`, for
any number of reservations, keys and starts and any `-keypool`; the one assumption
beyond the types is that the default key is not a key of the pool. Indexes
are reused once the pool is empty, so the records must be told apart by key:
`RecordsDistinct` (no key has two records, or one after it was kept) holds always,
`IndexesOwned` (an index is in the set or in one reservation, whose key its record
has) until an index is given out twice, and `LaterIndexKept` is why that does not
happen to an unencrypted wallet: a refill leaves an index above every reserved one.

`ChainState_proofs`: first `CommittedTrustGrows`, `LinksAreBestChain` and
`PoolStaysUnindexed`, for any tree of blocks, transactions, rejected blocks and
values, any number of crashes and failing commits. The assumptions beyond those on
the tree: blocks are sequences of transactions with finitely many inputs, and values are
natural numbers. None of the three properties is inductive: they speak of a
`SetBestChain` that has returned. `IInv` adds what holds between its commits. The
target has more trust than memory's best block, and the postponed blocks are
exactly the way from the block that is best on disk to the target (`JobOK`);
memory's best block has no less trust than the one on disk, also after a postponed
block has failed (`BestOK`); the links in memory are those on disk, those of the
chain that is best on disk, and none for a block memory does not have (`LinksOK`:
the last is what lets `AcceptBlock` write an entry without a link); memory has
what the disk has, and is closed under `pprev` (`StateOK`); and the pool is
disjoint from the index at every commit (`PoolOK`). The effects of the loops come
first: `ConnectBlockEffect`, `DisconnectBlockEffect`, `ConnectBranchEffect`,
`DisconnectBranchEffect` and `ResurrectBranchEffect` say which links are set and cut
and which transactions come and go, and `ReorganizedEffect` puts them together:
what is committed has the links that memory is given after the commit.
`IntermediateIs` is why splitting a reorganisation is safe: the first block with
more trust is on the way to the target.

Then `IndexFollowsChain` and `SupplyIsUnspent`, with `BlockAssumption` besides. The
invariant says of the chain that is best on disk that its ledger stands: the index is
exactly `IndexOf` it, no transaction is in it twice, every input is an output of an
earlier one, and every ancestor has its supply, in memory and on disk. Each part is
needed by another. A transaction that is new to the index has no output spent,
because everything spent is in the ledger; it is new in general because its inputs
were unspent until now, and a coinbase, which has none, because it names a height no
ancestor has; and disconnecting is the inverse of connecting because no output
has two spenders. A branch that fails changes the supply of blocks that are
not on the best chain only. The supply is a sum over a set: its two laws (`ValueUnion`
and what a step adds) are proved by adding the elements one at a time.

`Wallet_proofs`: `WalletKnowsChain`, `NoSpentCoinOffered` and `NoCoinLost`, for any tree
of blocks, transactions, owned outputs, rejected blocks, any number of vain notifications
and starts, files with and without a locator. The assumptions beyond those on tree and
transactions: there are finitely many transactions and none in the genesis block (what it
paid is in `Coin`). The invariant speaks of wallet files (`FileOK`), since a backup becomes
the wallet again. The file's wallet has every transaction that involves it of the chain it
was written with and of the chain its locator names (`Heard`), unless it was restored
without a locator (`unscanned`); those of the former are under their blocks (`Placed`),
what they spend of the wallet's transactions is flagged (`Flagged`), and each flag has a
spender (`Justified`), each unless the history says otherwise. To it come that the best
chain is one `ConnectBlock` accepted (`ChainValid`), so that it has no transaction and no
spend twice, that the pool holds nothing of it, and that what it has of the wallet's own
was signed.

A wallet that may lack transactions makes the three parts independent: `TellRight` shows
that telling blocks keeps flags right and justified whatever the wallet has heard, since
the outputs of a transaction are marked unspent when it is told and nothing
below it in the chain spends them; `TellTold` is the part about the transactions and their
blocks. `DisableKeeps` is their counterpart for disconnected blocks. The loop of
`ReacceptWalletTransactions` is followed to its end (`ReacceptedKeeps`): each turn but the
last finds a transaction that was missing (`CountGrows`), so the number of
transactions bounds it; at the end another pass would flag nothing, and every flag the
index set has had its spender found by the scan (`ScanJustifies`). When nothing is missing
it is one pass. The proof corrected the model twice: the restored backup with a locator off
its chain had been forgotten as an excuse, and a `-rescan` does not end `unscanned` when
the locator is elsewhere. The lemmas about the pool's operations are those of
`Mempool_proofs` again, which is about another state.

`AddrMan_proofs`: `CheckAlways`, `BoundedAlways`, `TriedKeptAlways` and
`ReloadLosesNothing`, for any addresses and sources, any bucket functions and sizes,
from the assumptions that the buckets of the new table are finitely many naturals (they are
indexes of `vvNew`) and the sizes positive. The inductive invariant `IInv` is
`Check` and more, said of an object rather than of the variable, since each
operation is a chain of calls: `AddrOK` and `RandomOK` make `mapAddr` and `vRandom`
inverses of the entries' fields, `RefOK` counts the buckets an entry is in,
`TriedOK` puts every tried entry once into the bucket of its address, and
`CountOK` and `Bounded` give the counters and sizes. Two things make it more than
bookkeeping. Inside an operation the invariant does not hold of the object. `Add_`
counts a reference before it puts the entry into the bucket, so the lemmas about
`ShrinkNew` and the placing of an entry take the new buckets as a parameter, what
`vvNew` is about to be; `MakeTried` takes an entry out of the new table before it is tried,
so it is described as a whole: the entry finds place (`Appended`) or changes places with a
tried one (`Exchanged`). And `Reload` gives every entry another id:
what is read is what was written renumbered by a bijection (`Renumbered`),
because `BucketsRead` and `TriedRead` refuse nothing when `RefOK` and `Bounded` held.
The loops of `SelectTried` and `GetAddr_` only permute (`Permuted`, `SameEntries`).

Induction over data. The library's induction theorems cannot be instantiated here,
so the inductions that these proofs need are done as arguments by least counterexample
(`LeastNat`, `UpTo`, `UpToSet`, `FirstOnChain`) or with a set closed under `pprev` (`TreeInduction`),
and that a recursive function is well defined is proved each time (`TreeRecursion`,
`Iterates`, `ConnectTxsRuns` and its companions, `ValueType`).

Only model-checked: liveness (`HandlerTerminates`, `HandlerEnds`,
`ChainDownloaded`, `Quiesces`, `Relayed`), which needs fairness; the agreement with
the recursive definitions (`LoopsAgree`), which needs `RECURSIVE`; `Resubmitted`, which
follows transactions through every order of `mapWallet`; and so
far all of `BlockDownload` and `TxRelay`. `BestIsMostTrusted` is not a theorem: the
reward of a proof-of-work block is that of the height of `pindexBest`
(`main.cpp:986-990`), and the fees of a spend of the postmine depend on it too
(`main.cpp:1318`), so whether a block connects depends on the best block at the time and
not on the chain alone. For the premine it holds where the branches fork above its
block, as they do in the instance; for the postmine the property is stated with both
sets of blocks.

## Findings

- the best block in memory after a failing postponed block (`chain_secondary`).
- the master key is committed before the checkpoint is reset, so that a crash in
  between skips the reset at every later start (`intake_newkey`).
- a confirmed transaction's outputs are all marked unspent, although a pool
  transaction of the wallet spends one of them; a payment that reuses it fails
  where "this must not fail" (`wallet_commit`).

Seen while modelling, without a run:

- `Exists` (`txdb-leveldb.h:144`) does not see a `Delete` of its own batch.
- `SyncWithWallets(tx, ...)` for an accepted orphan (`main.cpp:3341`) names the
  parent; `ReceiveTx(t, TRUE)` of `Wallet` has it so. Until the orphan is in a block the
  wallet may offer a coin that it spends; no property speaks of that interval.
- a spend of the postmine is worth 389 million coins more than its inputs, every time one
  of the outputs of `hashPostmine` is spent; `ConnectInputs` grants it before
  `POSTMINE_BLOCK` too, and the fee test that has the height takes the node's.
- `AddSupportingTransactions` keeps an ancestor where it was first met (`wallet.cpp:774`)
  and reverses the list (`wallet.cpp:812`), so a payment whose first input is of its
  grandparent and whose second is of its parent has them saved child first. A start that
  comes to its hash first has the parent and then the payment refused and does not offer
  it again, although it has lost no coin; the comments say "Re-accept any txes of ours that
  aren't already in a block" (`wallet.cpp:906`) and "Add previous supporting transactions
  first" (`main.cpp:861`). `Resubmitted` excepts exactly these (`~ParentsFirst`).
- a wallet file without a locator is not rescanned when an old copy of it is restored
  (`init.cpp:872`); its balance stays behind until `-rescan`.
- an orphan block that is erased takes its stake out of `setStakeSeenOrphan` even
  when another orphan has the same one (`main.cpp:2354`).
- `SelectTried` (`addrman.cpp:142`) returns the position at which it found the
  oldest entry, after it has moved that entry elsewhere.
- a chain with a proof-of-stake tail is not fetched to the end in one go: the
  trigger announces a block the client may know, and the client waits for the next
  new block (`main.cpp:3182`). That is why `ChainDownloaded` is stated for chains
  of proof-of-work blocks. It is also not promised after a lost connection, since
  `mapAlreadyAskedFor` of the old one delays the requests of the new.
- `SendMessages` overwrites the time by which `AskFor` spaces the requests
  (`main.cpp:3796`), so a repeated request may come before the two minutes are over.
- an emptied key pool begins at index 1 again (`wallet.cpp:2043`), and
  `EncryptWallet` leaves the records of reserved keys and, after a crash before
  `NewKeyPool`, the old pool.
- a wallet told of a reorganisation that fails may keep a coin flagged with no
  spender, or a transaction under the wrong block, until `repairwallet` or a
  rescan; a backup taken on a branch since abandoned likewise, and one whose locator
  names a branch it had left.
- a block that extends the best chain takes its own transactions out of the pool
  and leaves those that conflict with them (`main.cpp:1787`).
- an orphan transaction whose parent comes in a block or by RPC waits until
  another parent comes by message (`main.cpp:3361`).
- a failed commit in `AddToBlockIndex` leaves the block in `mapBlockIndex`; its
  child can then be on disk without it (`main.cpp:2030`).
- a pending hardened checkpoint is only in memory and forgotten at a restart
  (`checkpoints.cpp:268`); a checkpoint that forces a branch does not look for a
  descendant with more trust (`checkpoints.cpp:171`).
- the genesis block is committed before the first checkpoint, and a crash between
  the two makes every later start fail (`main.cpp:2622`).

## Not modelled

Scripts and signatures, hashing, serialisation and the byte formats, the Qt
interface, IRC seeding, argument handling and socket I/O are outside the models;
where they decide something (a transaction is refused, a block is bad) the
models leave the verdict open or make it a constant. `InvalidChainFound` only
records a number for display. The consistency checks of `LoadBlockIndex`
(`-checklevel`) and block files damaged on disk are not modelled, and a restart
after the index entry of a parent failed to be written is cut off by a guard of
`Restart`. In the wallet, amounts, fees and coin selection, accounts, the address
book and the making of coinstakes are left out; erasing and refilling the pool in
`NewKeyPool` is one step; of `Check_` in the address manager the tests of times are left out; of the peer protocol the version
handshake, `getheaders`, `addr`, `mempool`, `ping` and `alert`. The translation
files under `src/qt/locale` are data. A reorganisation that replaces the premine
block is not in the instances: `GetProofOfWorkReward` uses the height of the old
tip (`main.cpp:990`), so it is always refused. The parts of the
plan that are still open are listed in `PROJECT.json` with status `not_modelled`.
