--------------------------- MODULE Wallet_proofs ---------------------------
(***************************************************************************)
(* The wallet against the best chain, for every tree of blocks and         *)
(* transactions, every reorganisation, restart, backup and failing change: *)
(* it has the chain's transactions under their blocks, it offers no coin   *)
(* the chain has spent, and every coin it withholds has a spender, each    *)
(* but for the exceptions that the history variables record (a change told *)
(* and not committed, a backup whose locator left its chain, a backup that *)
(* has no locator and is not rescanned at all).                            *)
(***************************************************************************)
EXTENDS Wallet, BlockTree_proofs

-----------------------------------------------------------------------------
\* A transaction that pays or spends the wallet.
Involves(t) == (Outs(t) \cup Ins[t]) \cap Mine # {}

\* A wallet: the coins below the model are always in mapWallet, and so is the
\* transaction of every flagged output.
WalletType(v) ==
    /\ v = [hashBlock |-> v.hashBlock, spent |-> v.spent]
    /\ v.hashBlock \in [DOMAIN v.hashBlock -> Block \cup {None}]
    /\ DOMAIN v.hashBlock \subseteq Tx \cup Coin
    /\ {o[1] : o \in Mine} \cap Coin \subseteq DOMAIN v.hashBlock
    /\ v.spent \subseteq Mine /\ \A o \in v.spent : o[1] \in DOMAIN v.hashBlock

\* The inputs of t that pay the wallet are outputs of transactions it has.
Sourced(v, t) == \A o \in Ins[t] \cap Mine : o[1] \in DOMAIN v.hashBlock

\* fUpdate, which tells an update from a scan for missing transactions.
Updates(fUpdate) == fUpdate = TRUE
-----------------------------------------------------------------------------
\* What WalletUpdateSpent leaves.
LEMMA UpdateSpentIs ==
    ASSUME NEW v, WalletType(v), NEW t, NEW fBlock \in BOOLEAN
    PROVE  WalletUpdateSpent(v, t, fBlock) =
              [hashBlock |-> v.hashBlock,
               spent     |-> (v.spent \cup Debits(v, t)) \ (IF fBlock THEN Outs(t) \cap Mine ELSE {})]
  <1> DEFINE X == (v.spent \cup Debits(v, t)) \ (IF fBlock THEN Outs(t) \cap Mine ELSE {})
  <1>1. WalletUpdateSpent(v, t, fBlock) = [v EXCEPT !.spent = X]
    BY DEF WalletUpdateSpent
  <1>2. v = [hashBlock |-> v.hashBlock, spent |-> v.spent]
    BY DEF WalletType
  <1> HIDE DEF X
  <1>3. [v EXCEPT !.spent = X] = [hashBlock |-> v.hashBlock, spent |-> X]
    BY <1>2
  <1> QED
    BY <1>1, <1>3 DEF X

\* The same for a transaction without a block.
LEMMA UpdateSpentLoose ==
    ASSUME NEW v, WalletType(v), NEW t
    PROVE  LET u == WalletUpdateSpent(v, t, FALSE)
           IN  /\ u = [hashBlock |-> u.hashBlock, spent |-> u.spent]
               /\ u.hashBlock = v.hashBlock /\ u.spent = v.spent \cup Debits(v, t)
               /\ WalletType(u)
  <1> DEFINE u == WalletUpdateSpent(v, t, FALSE)
             X == (v.spent \cup Debits(v, t)) \ (IF FALSE THEN Outs(t) \cap Mine ELSE {})
  <1>1. u = [hashBlock |-> v.hashBlock, spent |-> X]
    BY UpdateSpentIs
  <1>2. X = v.spent \cup Debits(v, t)
    OBVIOUS
  <1> HIDE DEF u, X
  <1>3. u.hashBlock = v.hashBlock /\ u.spent = X /\ u = [hashBlock |-> u.hashBlock, spent |-> u.spent]
    BY <1>1
  <1>4. WalletType(u)
    BY <1>2, <1>3 DEF WalletType, Debits
  <1> QED
    BY <1>2, <1>3, <1>4 DEF u

\* AddToWallet: t is in mapWallet, under b if it is told with a block; its coins are
\* flagged, and in a block its outputs are not.
LEMMA AddToWalletEffect ==
    ASSUME NEW v, WalletType(v), NEW t \in Tx, NEW b \in Block \cup {None}
    PROVE  LET u == AddToWallet(v, t, b)
           IN  /\ WalletType(u)
               /\ DOMAIN u.hashBlock = DOMAIN v.hashBlock \cup {t}
               /\ \A x \in DOMAIN v.hashBlock : x # t \/ b = None => u.hashBlock[x] = v.hashBlock[x]
               /\ b # None => u.hashBlock[t] = b
               /\ u.spent = (v.spent \cup {o \in Ins[t] \cap Mine : o[1] \in DOMAIN u.hashBlock})
                                \ (IF b # None THEN Outs(t) \cap Mine ELSE {})
  <1> DEFINE D == DOMAIN v.hashBlock \cup {t}
             hb == [x \in D |-> IF x \in DOMAIN v.hashBlock /\ (x # t \/ b = None)
                                THEN v.hashBlock[x] ELSE b]
             x0 == [v EXCEPT !.hashBlock = hb]
             deb == {o \in Ins[t] \cap Mine : o[1] \in D}
             u == AddToWallet(v, t, b)
  <1>1. x0 = [hashBlock |-> hb, spent |-> v.spent]
    BY DEF WalletType
  <1>2. Debits(x0, t) = deb
    BY <1>1 DEF Debits
  <1>3. WalletType(x0)
    BY <1>1 DEF WalletType
  <1>4. u = WalletUpdateSpent(x0, t, b # None)
    BY DEF AddToWallet
  <1>5. u = [hashBlock |-> hb, spent |-> (v.spent \cup deb) \ (IF b # None THEN Outs(t) \cap Mine ELSE {})]
    <2>1. x0.hashBlock = hb /\ x0.spent = v.spent
      BY <1>1
    <2> HIDE DEF x0, hb, deb, u
    <2> QED
      BY <1>2, <1>3, <1>4, <2>1, UpdateSpentIs
  <1>6. DOMAIN hb = D
    OBVIOUS
  <1>7. /\ u.hashBlock = hb
        /\ u.spent = (v.spent \cup deb) \ (IF b # None THEN Outs(t) \cap Mine ELSE {})
        /\ u = [hashBlock |-> u.hashBlock, spent |-> u.spent]
    BY <1>5
  <1> HIDE DEF u, x0
  <1>8. WalletType(u)
    <2>1. u.spent \subseteq Mine /\ \A o \in u.spent : o[1] \in D
      BY <1>7 DEF WalletType
    <2>2. hb \in [D -> Block \cup {None}]
      BY DEF WalletType
    <2>3. D \subseteq Tx \cup Coin /\ {o[1] : o \in Mine} \cap Coin \subseteq D
      BY DEF WalletType
    <2> QED
      BY <1>6, <1>7, <2>1, <2>2, <2>3 DEF WalletType
  <1>9. \A x \in DOMAIN v.hashBlock : x # t \/ b = None => hb[x] = v.hashBlock[x]
    OBVIOUS
  <1>10. b # None => hb[t] = b
    OBVIOUS
  <1> QED
    BY <1>6, <1>7, <1>8, <1>9, <1>10 DEF u

\* A transaction of block b told, known to spend outputs the wallet has: it is in
\* mapWallet under b if it involves the wallet, its coins are flagged, its outputs not.
LEMMA AddEffect ==
    ASSUME NEW v, WalletType(v), NEW t \in Tx, NEW b \in Block, Sourced(v, t),
           NEW fUpdate \in BOOLEAN, Updates(fUpdate)
    PROVE  LET u == AddIfInvolvingMe(v, t, b, fUpdate)
           IN  /\ WalletType(u)
               /\ DOMAIN v.hashBlock \subseteq DOMAIN u.hashBlock
               /\ DOMAIN u.hashBlock \subseteq DOMAIN v.hashBlock \cup {t}
               /\ Involves(t) => t \in DOMAIN u.hashBlock
               /\ t \in DOMAIN u.hashBlock => u.hashBlock[t] = b
               /\ \A x \in DOMAIN v.hashBlock : x # t => u.hashBlock[x] = v.hashBlock[x]
               /\ u.spent = (v.spent \cup (Ins[t] \cap Mine)) \ Outs(t)
  <1> DEFINE u == AddIfInvolvingMe(v, t, b, fUpdate)
             a == AddToWallet(v, t, b)
             told == t \in DOMAIN v.hashBlock \/ Outs(t) \cap Mine # {} \/ IsFromMe(v, t)
  <1>1. b # None /\ v.spent \subseteq Mine
    BY WalletAssumption DEF WalletType
  <1>2. Debits(v, t) = Ins[t] \cap Mine
    BY DEF Debits, Sourced
  <1>3. u = IF told THEN a ELSE WalletUpdateSpent(v, t, FALSE)
    BY DEF AddIfInvolvingMe, Updates
  <1>4. CASE told
    <2>1. u = a
      BY <1>3, <1>4
    <2>2. /\ WalletType(a)
          /\ DOMAIN a.hashBlock = DOMAIN v.hashBlock \cup {t}
          /\ \A x \in DOMAIN v.hashBlock : x # t => a.hashBlock[x] = v.hashBlock[x]
          /\ a.hashBlock[t] = b
          /\ a.spent = (v.spent \cup {o \in Ins[t] \cap Mine : o[1] \in DOMAIN a.hashBlock}) \ (Outs(t) \cap Mine)
      BY <1>1, AddToWalletEffect
    <2> HIDE DEF u, a, told
    <2>3. {o \in Ins[t] \cap Mine : o[1] \in DOMAIN a.hashBlock} = Ins[t] \cap Mine
      BY <2>2 DEF Sourced
    <2>4. a.spent = (v.spent \cup (Ins[t] \cap Mine)) \ Outs(t)
      BY <1>1, <2>2, <2>3
    <2> QED
      BY <2>1, <2>2, <2>4 DEF u
  <1>5. CASE ~told
    <2>1. Ins[t] \cap Mine = {} /\ Outs(t) \cap Mine = {} /\ t \notin DOMAIN v.hashBlock
      BY <1>2, <1>5 DEF IsFromMe
    <2>2. u = WalletUpdateSpent(v, t, FALSE)
      BY <1>3, <1>5
    <2>3. u.hashBlock = v.hashBlock /\ u.spent = v.spent \cup (Ins[t] \cap Mine) /\ WalletType(u)
      BY <1>2, <2>2, UpdateSpentLoose
    <2> HIDE DEF u, a, told
    <2>4. u.spent = (v.spent \cup (Ins[t] \cap Mine)) \ Outs(t)
      BY <1>1, <2>1, <2>3
    <2>5. ~Involves(t)
      BY <2>1 DEF Involves
    <2> QED
      BY <2>1, <2>3, <2>4, <2>5 DEF u
  <1> QED
    BY <1>4, <1>5

\* Whatever is told, the types hold and nothing leaves mapWallet.
LEMMA AddGrows ==
    ASSUME NEW v, WalletType(v), NEW t \in Tx, NEW b \in Block \cup {None}, NEW fUpdate \in BOOLEAN
    PROVE  LET u == AddIfInvolvingMe(v, t, b, fUpdate)
           IN  WalletType(u) /\ DOMAIN v.hashBlock \subseteq DOMAIN u.hashBlock
  <1> DEFINE u == AddIfInvolvingMe(v, t, b, fUpdate)
             a == AddToWallet(v, t, b)
             c == WalletUpdateSpent(v, t, FALSE)
  <1>1. u = v \/ u = a \/ u = c
    BY DEF AddIfInvolvingMe
  <1>2. WalletType(a) /\ DOMAIN v.hashBlock \subseteq DOMAIN a.hashBlock
    BY AddToWalletEffect
  <1>3. WalletType(c) /\ c.hashBlock = v.hashBlock
    BY UpdateSpentLoose
  <1> HIDE DEF u, a, c
  <1>4. WalletType(u) /\ DOMAIN v.hashBlock \subseteq DOMAIN u.hashBlock
    BY <1>1, <1>2, <1>3
  <1> QED
    BY <1>4 DEF u

\* A scan for missing transactions finds nothing to do about one that is not missing.
LEMMA AddNothing ==
    ASSUME NEW v, WalletType(v), NEW t \in Tx, NEW b \in Block,
           Involves(t) => t \in DOMAIN v.hashBlock, NEW fUpdate \in BOOLEAN, ~Updates(fUpdate)
    PROVE  AddIfInvolvingMe(v, t, b, fUpdate) = v
  <1>1. CASE t \in DOMAIN v.hashBlock
    BY <1>1 DEF AddIfInvolvingMe, Updates
  <1>2. CASE t \notin DOMAIN v.hashBlock
    <2>1. Outs(t) \cap Mine = {} /\ Ins[t] \cap Mine = {}
      BY <1>2 DEF Involves
    <2>2. Debits(v, t) = {}
      BY <2>1 DEF Debits
    <2>3. ~IsFromMe(v, t)
      BY <2>2 DEF IsFromMe
    <2>4. AddIfInvolvingMe(v, t, b, fUpdate) = WalletUpdateSpent(v, t, FALSE)
      BY <1>2, <2>1, <2>3 DEF AddIfInvolvingMe
    <2>5. AddIfInvolvingMe(v, t, b, fUpdate) = [hashBlock |-> v.hashBlock, spent |-> (v.spent \cup {}) \ {}]
      BY <2>2, <2>4, UpdateSpentIs
    <2>6. (v.spent \cup {}) \ {} = v.spent
      OBVIOUS
    <2>7. v = [hashBlock |-> v.hashBlock, spent |-> v.spent]
      BY DEF WalletType
    <2> QED
      BY <2>5, <2>6, <2>7
  <1> QED
    BY <1>1, <1>2
-----------------------------------------------------------------------------
\* q lists the values of a loop after 0, 1, ..., N turns, g[n] being the n-th turn.
Loop(q, N, X, base, g) ==
    /\ q \in [0 .. N -> X] /\ q[0] = base
    /\ \A n \in 1 .. N : q[n] = g[n][q[n - 1]]

\* A loop runs.
LEMMA Iterates ==
    ASSUME NEW N \in Nat, NEW X, NEW base \in X, NEW g \in [1 .. N -> [X -> X]]
    PROVE  \E q : Loop(q, N, X, base, g)
  <1> DEFINE Run(q, k) == q \in [0 .. k -> X] /\ q[0] = base /\ \A n \in 1 .. k : q[n] = g[n][q[n - 1]]
             Has(k) == \E q : Run(q, k)
             S == {k \in 0 .. N : Has(k)}
  <1>1. 0 \in S
    <2> DEFINE q == [n \in 0 .. 0 |-> base]
    <2>1. Run(q, 0)
      OBVIOUS
    <2>2. Has(0)
      BY <2>1
    <2> HIDE DEF Has
    <2> QED
      BY <2>2
  <1>2. ASSUME NEW k \in 1 .. N, k - 1 \in S PROVE k \in S
    <2>1. k \in Nat /\ k - 1 \in Nat /\ Has(k - 1)
      <3> HIDE DEF Has
      <3> QED
        BY <1>2
    <2>2. PICK q : Run(q, k - 1)
      BY <2>1
    <2> DEFINE r == [n \in 0 .. k |-> IF n = k THEN g[k][q[k - 1]] ELSE q[n]]
    <2>3. q[k - 1] \in X /\ g[k] \in [X -> X]
      BY <2>1, <2>2
    <2>4. \A n \in 0 .. k - 1 : n # k /\ n \in 0 .. k /\ q[n] \in X
      BY <2>1, <2>2
    <2>5. r \in [0 .. k -> X]
      <3>1. \A n \in 0 .. k : n # k => n \in 0 .. k - 1
        BY <2>1
      <3> QED
        BY <2>3, <2>4, <3>1
    <2>6. \A n \in 0 .. k - 1 : r[n] = q[n]
      BY <2>4
    <2>7. r[k] = g[k][q[k - 1]]
      BY <2>1
    <2>8. 0 \in 0 .. k - 1 /\ k - 1 \in 0 .. k - 1
      BY <2>1
    <2> HIDE DEF r
    <2>9. ASSUME NEW n \in 1 .. k PROVE r[n] = g[n][r[n - 1]]
      <3>1. CASE n = k
        BY <2>6, <2>7, <2>8, <3>1
      <3>2. CASE n # k
        <4>1. n \in 1 .. k - 1 /\ n \in 0 .. k - 1 /\ n - 1 \in 0 .. k - 1
          BY <2>1, <3>2
        <4>2. q[n] = g[n][q[n - 1]]
          BY <2>2, <4>1
        <4> QED
          BY <2>6, <4>1, <4>2
      <3> QED
        BY <3>1, <3>2
    <2>10. Run(r, k)
      BY <2>2, <2>5, <2>6, <2>8, <2>9
    <2>11. Has(k)
      BY <2>10
    <2> HIDE DEF Has
    <2> QED
      BY <1>2, <2>11
  <1>3. N \in S
    <2> HIDE DEF S
    <2>1. \A i \in 0 .. N : i \in S
      BY <1>1, <1>2, UpTo
    <2> QED
      BY <2>1
  <1> QED
    BY <1>3 DEF Loop

\* Wallets as a set.
Wallets == {v \in [hashBlock : UNION {[D -> Block \cup {None}] : D \in SUBSET (Tx \cup Coin)},
                   spent : SUBSET Mine] : WalletType(v)}

\* The wallets are what WalletType says.
LEMMA WalletsAre == \A v : v \in Wallets <=> WalletType(v)
  <1> SUFFICES ASSUME NEW v, WalletType(v) PROVE v \in Wallets
    BY DEF Wallets
  <1> DEFINE H == UNION {[D -> Block \cup {None}] : D \in SUBSET (Tx \cup Coin)}
  <1>1. v.hashBlock \in H
    BY DEF WalletType
  <1>2. v.spent \in SUBSET Mine /\ v = [hashBlock |-> v.hashBlock, spent |-> v.spent]
    BY DEF WalletType
  <1> HIDE DEF H
  <1>3. v \in [hashBlock : H, spent : SUBSET Mine]
    BY <1>1, <1>2
  <1> QED
    BY <1>3 DEF Wallets, H

\* The loop over the transactions of a block runs, turn by turn.
LEMMA TellBlockRuns ==
    ASSUME NEW v, WalletType(v), NEW b \in Block, NEW fUpdate \in BOOLEAN
    PROVE  \E q : /\ q[0] = v /\ TellBlock(v, b, fUpdate) = q[Len(Txs[b])]
                  /\ \A n \in 1 .. Len(Txs[b]) : q[n] = AddIfInvolvingMe(q[n - 1], Txs[b][n], b, fUpdate)
  <1> DEFINE N == Len(Txs[b])
             g == [n \in 1 .. N |-> [x \in Wallets |-> AddIfInvolvingMe(x, Txs[b][n], b, fUpdate)]]
             Rec(f) == f = [n \in 0 .. N |-> IF n = 0 THEN v ELSE AddIfInvolvingMe(f[n - 1], Txs[b][n], b, fUpdate)]
  <1>1. N \in Nat /\ \A n \in 1 .. N : Txs[b][n] \in Tx
    BY WalletAssumption
  <1>2. ASSUME NEW n \in 1 .. N, NEW x \in Wallets PROVE AddIfInvolvingMe(x, Txs[b][n], b, fUpdate) \in Wallets
    BY <1>1, AddGrows, WalletsAre
  <1>3. g \in [1 .. N -> [Wallets -> Wallets]] /\ v \in Wallets
    BY <1>2, WalletsAre
  <1>4. PICK q : Loop(q, N, Wallets, v, g)
    <2> HIDE DEF g, N
    <2> QED
      BY <1>1, <1>3, Iterates
  <1>5. Rec(q)
    <2>1. ASSUME NEW n \in 0 .. N, n # 0 PROVE q[n] = AddIfInvolvingMe(q[n - 1], Txs[b][n], b, fUpdate)
      <3>1. n \in 1 .. N /\ n - 1 \in 0 .. N
        BY <1>1, <2>1
      <3>2. q[n - 1] \in Wallets /\ q[n] = g[n][q[n - 1]]
        BY <1>4, <3>1 DEF Loop
      <3> QED
        BY <3>1, <3>2
    <2>2. q = [n \in 0 .. N |-> q[n]] /\ q[0] = v
      BY <1>4 DEF Loop
    <2>3. \A n \in 0 .. N : q[n] = IF n = 0 THEN v ELSE AddIfInvolvingMe(q[n - 1], Txs[b][n], b, fUpdate)
      BY <2>1, <2>2
    <2> HIDE DEF N
    <2> QED
      BY <2>2, <2>3
  <1> DEFINE f == CHOOSE p : Rec(p)
  <1>6. Rec(f)
    <2> HIDE DEF Rec
    <2> QED
      BY <1>5
  <1>7. TellBlock(v, b, fUpdate) = f[N]
    BY DEF TellBlock
  <1> HIDE DEF f
  <1>8. f[0] = v
    BY <1>1, <1>6
  <1>9. ASSUME NEW n \in 1 .. N PROVE f[n] = AddIfInvolvingMe(f[n - 1], Txs[b][n], b, fUpdate)
    <2>1. n \in 0 .. N /\ n # 0
      BY <1>1
    <2> QED
      BY <1>6, <2>1
  <1> QED
    BY <1>7, <1>8, <1>9

\* Telling a block keeps the types and takes nothing out of mapWallet.
LEMMA TellBlockGrows ==
    ASSUME NEW v, WalletType(v), NEW b \in Block, NEW fUpdate \in BOOLEAN
    PROVE  LET u == TellBlock(v, b, fUpdate)
           IN  WalletType(u) /\ DOMAIN v.hashBlock \subseteq DOMAIN u.hashBlock
  <1> DEFINE N == Len(Txs[b])
             Good(x) == WalletType(x) /\ DOMAIN v.hashBlock \subseteq DOMAIN x.hashBlock
  <1>1. PICK q : /\ q[0] = v /\ TellBlock(v, b, fUpdate) = q[N]
                 /\ \A n \in 1 .. N : q[n] = AddIfInvolvingMe(q[n - 1], Txs[b][n], b, fUpdate)
    BY TellBlockRuns
  <1> DEFINE S == {n \in 0 .. N : Good(q[n])}
  <1>2. N \in Nat /\ \A n \in 1 .. N : Txs[b][n] \in Tx
    BY WalletAssumption
  <1>3. 0 \in S
    BY <1>1, <1>2
  <1>4. ASSUME NEW n \in 1 .. N, n - 1 \in S PROVE n \in S
    <2>1. Good(q[n - 1]) /\ n \in 0 .. N
      BY <1>4
    <2>2. q[n] = AddIfInvolvingMe(q[n - 1], Txs[b][n], b, fUpdate)
      BY <1>1
    <2>3. WalletType(q[n]) /\ DOMAIN q[n - 1].hashBlock \subseteq DOMAIN q[n].hashBlock
      BY <1>2, <2>1, <2>2, AddGrows
    <2> QED
      BY <2>1, <2>3
  <1>5. N \in S
    <2> HIDE DEF S, N
    <2>1. \A i \in 0 .. N : i \in S
      BY <1>2, <1>3, <1>4, UpTo
    <2> QED
      BY <1>2, <2>1
  <1> QED
    BY <1>1, <1>5

\* The loop over blocks runs, block by block.
LEMMA TellBlocksRuns ==
    ASSUME NEW v, WalletType(v), NEW path \in Seq(Block), NEW fUpdate \in BOOLEAN
    PROVE  \E q : /\ q[0] = v /\ TellBlocks(v, path, fUpdate) = q[Len(path)]
                  /\ \A n \in 1 .. Len(path) : q[n] = TellBlock(q[n - 1], path[n], fUpdate)
  <1> DEFINE N == Len(path)
             g == [n \in 1 .. N |-> [x \in Wallets |-> TellBlock(x, path[n], fUpdate)]]
             Rec(f) == f = [n \in 0 .. N |-> IF n = 0 THEN v ELSE TellBlock(f[n - 1], path[n], fUpdate)]
  <1>1. N \in Nat /\ \A n \in 1 .. N : path[n] \in Block
    OBVIOUS
  <1>2. ASSUME NEW n \in 1 .. N, NEW x \in Wallets PROVE TellBlock(x, path[n], fUpdate) \in Wallets
    BY <1>1, TellBlockGrows, WalletsAre
  <1>3. g \in [1 .. N -> [Wallets -> Wallets]] /\ v \in Wallets
    BY <1>2, WalletsAre
  <1>4. PICK q : Loop(q, N, Wallets, v, g)
    <2> HIDE DEF g, N
    <2> QED
      BY <1>1, <1>3, Iterates
  <1>5. Rec(q)
    <2>1. ASSUME NEW n \in 0 .. N, n # 0 PROVE q[n] = TellBlock(q[n - 1], path[n], fUpdate)
      <3>1. n \in 1 .. N /\ n - 1 \in 0 .. N
        BY <1>1, <2>1
      <3>2. q[n - 1] \in Wallets /\ q[n] = g[n][q[n - 1]]
        BY <1>4, <3>1 DEF Loop
      <3> QED
        BY <3>1, <3>2
    <2>2. q = [n \in 0 .. N |-> q[n]] /\ q[0] = v
      BY <1>4 DEF Loop
    <2>3. \A n \in 0 .. N : q[n] = IF n = 0 THEN v ELSE TellBlock(q[n - 1], path[n], fUpdate)
      BY <2>1, <2>2
    <2> HIDE DEF N
    <2> QED
      BY <2>2, <2>3
  <1> DEFINE f == CHOOSE p : Rec(p)
  <1>6. Rec(f)
    <2> HIDE DEF Rec
    <2> QED
      BY <1>5
  <1>7. TellBlocks(v, path, fUpdate) = f[N]
    BY DEF TellBlocks
  <1> HIDE DEF f
  <1>8. f[0] = v
    BY <1>1, <1>6
  <1>9. ASSUME NEW n \in 1 .. N PROVE f[n] = TellBlock(f[n - 1], path[n], fUpdate)
    <2>1. n \in 0 .. N /\ n # 0
      BY <1>1
    <2> QED
      BY <1>6, <2>1
  <1> QED
    BY <1>7, <1>8, <1>9

\* Telling blocks keeps the types and takes nothing out of mapWallet.
LEMMA TellBlocksGrows ==
    ASSUME NEW v, WalletType(v), NEW path \in Seq(Block), NEW fUpdate \in BOOLEAN
    PROVE  LET u == TellBlocks(v, path, fUpdate)
           IN  WalletType(u) /\ DOMAIN v.hashBlock \subseteq DOMAIN u.hashBlock
  <1> DEFINE N == Len(path)
             Good(x) == WalletType(x) /\ DOMAIN v.hashBlock \subseteq DOMAIN x.hashBlock
  <1>1. PICK q : /\ q[0] = v /\ TellBlocks(v, path, fUpdate) = q[N]
                 /\ \A n \in 1 .. N : q[n] = TellBlock(q[n - 1], path[n], fUpdate)
    BY TellBlocksRuns
  <1> DEFINE S == {n \in 0 .. N : Good(q[n])}
  <1>2. N \in Nat /\ \A n \in 1 .. N : path[n] \in Block
    OBVIOUS
  <1>3. 0 \in S
    BY <1>1, <1>2
  <1>4. ASSUME NEW n \in 1 .. N, n - 1 \in S PROVE n \in S
    <2>1. Good(q[n - 1]) /\ n \in 0 .. N
      BY <1>4
    <2>2. q[n] = TellBlock(q[n - 1], path[n], fUpdate)
      BY <1>1
    <2>3. WalletType(q[n]) /\ DOMAIN q[n - 1].hashBlock \subseteq DOMAIN q[n].hashBlock
      BY <1>2, <2>1, <2>2, TellBlockGrows
    <2> QED
      BY <2>1, <2>3
  <1>5. N \in S
    <2> HIDE DEF S, N
    <2>1. \A i \in 0 .. N : i \in S
      BY <1>2, <1>3, <1>4, UpTo
    <2> QED
      BY <1>2, <2>1
  <1> QED
    BY <1>1, <1>5

\* What the turns of a block's loop keep: G[n] holds after n transactions ...
LEMMA TellBlockSteps ==
    ASSUME NEW v, WalletType(v), NEW b \in Block, NEW fUpdate \in BOOLEAN, NEW G, v \in G[0],
           \A n \in 1 .. Len(Txs[b]) : \A u \in G[n - 1] : AddIfInvolvingMe(u, Txs[b][n], b, fUpdate) \in G[n]
    PROVE  TellBlock(v, b, fUpdate) \in G[Len(Txs[b])]
  <1> DEFINE N == Len(Txs[b])
  <1>1. PICK q : /\ q[0] = v /\ TellBlock(v, b, fUpdate) = q[N]
                 /\ \A n \in 1 .. N : q[n] = AddIfInvolvingMe(q[n - 1], Txs[b][n], b, fUpdate)
    BY TellBlockRuns
  <1> DEFINE S == {n \in 0 .. N : q[n] \in G[n]}
  <1>2. N \in Nat
    BY WalletAssumption
  <1>3. 0 \in S
    BY <1>1, <1>2
  <1>4. ASSUME NEW n \in 1 .. N, n - 1 \in S PROVE n \in S
    <2>1. q[n - 1] \in G[n - 1] /\ n \in 0 .. N
      BY <1>2, <1>4
    <2>2. q[n] \in G[n]
      BY <1>1, <2>1
    <2> QED
      BY <2>1, <2>2
  <1>5. N \in S
    <2> HIDE DEF S, N
    <2>1. \A i \in 0 .. N : i \in S
      BY <1>2, <1>3, <1>4, UpTo
    <2> QED
      BY <1>2, <2>1
  <1> QED
    BY <1>1, <1>5

\* ... and those of the loop over blocks.
LEMMA TellBlocksSteps ==
    ASSUME NEW v, WalletType(v), NEW path \in Seq(Block), NEW fUpdate \in BOOLEAN, NEW G, v \in G[0],
           \A n \in 1 .. Len(path) : \A u \in G[n - 1] : TellBlock(u, path[n], fUpdate) \in G[n]
    PROVE  TellBlocks(v, path, fUpdate) \in G[Len(path)]
  <1> DEFINE N == Len(path)
  <1>1. PICK q : /\ q[0] = v /\ TellBlocks(v, path, fUpdate) = q[N]
                 /\ \A n \in 1 .. N : q[n] = TellBlock(q[n - 1], path[n], fUpdate)
    BY TellBlocksRuns
  <1> DEFINE S == {n \in 0 .. N : q[n] \in G[n]}
  <1>2. N \in Nat
    OBVIOUS
  <1>3. 0 \in S
    BY <1>1, <1>2
  <1>4. ASSUME NEW n \in 1 .. N, n - 1 \in S PROVE n \in S
    <2>1. q[n - 1] \in G[n - 1] /\ n \in 0 .. N
      BY <1>2, <1>4
    <2>2. q[n] \in G[n]
      BY <1>1, <2>1
    <2> QED
      BY <2>1, <2>2
  <1>5. N \in S
    <2> HIDE DEF S, N
    <2>1. \A i \in 0 .. N : i \in S
      BY <1>2, <1>3, <1>4, UpTo
    <2> QED
      BY <1>2, <2>1
  <1> QED
    BY <1>1, <1>5

\* The wallet has the transactions of the chain to b that involve it.
Heard(v, b) ==
    \A a \in Ancestors[b] : \A t \in Range(Txs[a]) : Involves(t) => t \in DOMAIN v.hashBlock

\* A scan of the best chain for missing transactions finds nothing to do when none is missing.
LEMMA TellNothing ==
    ASSUME NEW v, WalletType(v), NEW b \in Block, Heard(v, b),
           NEW fUpdate \in BOOLEAN, ~Updates(fUpdate)
    PROVE  TellBlocks(v, PathTo[b], fUpdate) = v
  <1> DEFINE path == PathTo[b]
  <1>1. path \in Seq(Block) /\ \A n \in 1 .. Len(path) : path[n] \in Ancestors[b] /\ path[n] \in Block
    BY PathIsChain, HeightNat, AncestorsType
  <1>2. ASSUME NEW a \in Ancestors[b] PROVE TellBlock(v, a, fUpdate) = v
    <2> DEFINE N == Len(Txs[a])
    <2>1. a \in Block
      BY AncestorsType
    <2>2. PICK q : /\ q[0] = v /\ TellBlock(v, a, fUpdate) = q[N]
                   /\ \A n \in 1 .. N : q[n] = AddIfInvolvingMe(q[n - 1], Txs[a][n], a, fUpdate)
      BY <2>1, TellBlockRuns
    <2> DEFINE S == {n \in 0 .. N : q[n] = v}
    <2>3. N \in Nat /\ \A n \in 1 .. N : Txs[a][n] \in Tx /\ Txs[a][n] \in Range(Txs[a])
      BY <2>1, WalletAssumption DEF Range
    <2>4. 0 \in S
      BY <2>2, <2>3
    <2>5. ASSUME NEW n \in 1 .. N, n - 1 \in S PROVE n \in S
      <3>1. q[n] = AddIfInvolvingMe(v, Txs[a][n], a, fUpdate)
        BY <2>2, <2>5
      <3>2. q[n] = v
        BY <2>1, <2>3, <3>1, AddNothing DEF Heard
      <3> QED
        BY <3>2
    <2>6. N \in S
      <3> HIDE DEF S, N
      <3>1. \A i \in 0 .. N : i \in S
        BY <2>3, <2>4, <2>5, UpTo
      <3> QED
        BY <2>3, <3>1
    <2> QED
      BY <2>2, <2>6
  <1> DEFINE N == Len(path)
  <1>3. PICK q : /\ q[0] = v /\ TellBlocks(v, path, fUpdate) = q[N]
                 /\ \A n \in 1 .. N : q[n] = TellBlock(q[n - 1], path[n], fUpdate)
    BY <1>1, TellBlocksRuns
  <1> DEFINE S == {n \in 0 .. N : q[n] = v}
  <1>4. N \in Nat
    BY <1>1
  <1>5. 0 \in S
    BY <1>3, <1>4
  <1>6. ASSUME NEW n \in 1 .. N, n - 1 \in S PROVE n \in S
    <2>1. q[n] = TellBlock(v, path[n], fUpdate)
      BY <1>3, <1>6
    <2>2. path[n] \in Ancestors[b]
      BY <1>1
    <2>3. q[n] = v
      BY <1>2, <2>1, <2>2
    <2> QED
      BY <2>3
  <1>7. N \in S
    <2> HIDE DEF S, N
    <2>1. \A i \in 0 .. N : i \in S
      BY <1>4, <1>5, <1>6, UpTo
    <2> QED
      BY <1>4, <2>1
  <1> QED
    BY <1>3, <1>7
-----------------------------------------------------------------------------
\* A chain that ConnectBlock has accepted, and what it had accepted before the i-th
\* transaction of a.
ChainValid(b) == \A a \in Ancestors[b] \ {Genesis} : Connectable[a]

Before(a, i) == ChainTx[Prev[a]] \cup {Txs[a][j] : j \in 1 .. i - 1}

\* What ConnectBlock has checked of a transaction.
LEMMA ConnectableIs ==
    ASSUME NEW a \in Block \ {Genesis}, Connectable[a], NEW i \in 1 .. Len(Txs[a])
    PROVE  /\ Txs[a][i] \in Tx /\ Txs[a][i] \in Range(Txs[a]) /\ Txs[a][i] \notin Before(a, i)
           /\ \A o \in Ins[Txs[a][i]] : IsOutputOf(o, Before(a, i)) /\ \A u \in Before(a, i) : o \notin Ins[u]
  <1>1. Txs[a] \in Seq(Tx) /\ i \in DOMAIN Txs[a]
    BY WalletAssumption
  <1> DEFINE Fresh(x, j) == /\ Txs[x][j] \notin Before(x, j)
                           /\ \A o \in Ins[Txs[x][j]] : IsOutputOf(o, Before(x, j)) /\ \A u \in Before(x, j) : o \notin Ins[u]
             C == [x \in Block \ {Genesis} |-> x \notin Bad /\ \A j \in DOMAIN Txs[x] : Fresh(x, j)]
  <1>2. Connectable = C
    BY Zenon DEF Connectable, Before
  <1>3. C[a] = (a \notin Bad /\ \A j \in DOMAIN Txs[a] : Fresh(a, j))
    BY Zenon
  <1>4. Fresh(a, i)
    <2> HIDE DEF Fresh, C
    <2> QED
      BY <1>1, <1>2, <1>3, Zenon
  <1> QED
    BY <1>1, <1>4 DEF Range

\* The transactions of a chain are those of its last block and those below.
LEMMA ChainTxStep ==
    /\ ChainTx[Genesis] = {}
    /\ \A a \in Block \ {Genesis} : ChainTx[a] = ChainTx[Prev[a]] \cup Range(Txs[a])
    /\ \A a \in Block : ChainTx[a] \subseteq Tx
    /\ \A a \in Block : \A t : t \in ChainTx[a] <=> \E c \in Ancestors[a] : t \in Range(Txs[c])
  <1>1. ASSUME NEW a \in Block PROVE \A t : t \in ChainTx[a] <=> \E c \in Ancestors[a] : t \in Range(Txs[c])
    BY DEF ChainTx
  <1>2. ChainTx[Genesis] = {}
    <2>1. Genesis \in Block /\ Txs[Genesis] = <<>>
      BY TreeAssumption, WalletAssumption
    <2>2. Range(Txs[Genesis]) = {}
      BY <2>1 DEF Range
    <2> QED
      BY <1>1, <2>1, <2>2, GenesisAncestors
  <1>3. ASSUME NEW a \in Block \ {Genesis} PROVE ChainTx[a] = ChainTx[Prev[a]] \cup Range(Txs[a])
    <2>1. Prev[a] \in Block /\ Ancestors[a] = Ancestors[Prev[a]] \cup {a}
      BY TreeAssumption, AncestorsSplit
    <2>2. \A t : t \in ChainTx[a] <=> t \in ChainTx[Prev[a]] \/ t \in Range(Txs[a])
      BY <1>1, <2>1
    <2> QED
      BY <2>2
  <1>4. ASSUME NEW a \in Block PROVE ChainTx[a] \subseteq Tx
    <2>1. ASSUME NEW c \in Ancestors[a], NEW t \in Range(Txs[c]) PROVE t \in Tx
      <3>1. c \in Block
        BY AncestorsType
      <3>2. Txs[c] \in Seq(Tx)
        BY <3>1, WalletAssumption
      <3> QED
        BY <3>2 DEF Range
    <2> QED
      BY <1>1, <2>1
  <1> QED
    BY <1>1, <1>2, <1>3, <1>4

\* A longer chain has the transactions of a shorter one.
LEMMA ChainTxMono ==
    ASSUME NEW b \in Block, NEW a \in Ancestors[b]
    PROVE  ChainTx[a] \subseteq ChainTx[b] /\ ChainSpent[a] \subseteq ChainSpent[b]
  <1>1. a \in Block
    BY AncestorsType
  <1>2. ChainTx[a] \subseteq ChainTx[b]
    BY <1>1, ChainTxStep, AncestorsTrans
  <1> QED
    BY <1>1, <1>2 DEF ChainSpent

\* A transaction of a chain has its place in a block.
LEMMA TxPlace ==
    ASSUME NEW a \in Block, NEW t \in Range(Txs[a])
    PROVE  a # Genesis /\ \E i \in 1 .. Len(Txs[a]) : t = Txs[a][i]
  <1>1. Txs[a] \in Seq(Tx) /\ Txs[Genesis] = <<>>
    BY WalletAssumption
  <1>2. PICK i \in DOMAIN Txs[a] : t = Txs[a][i]
    BY DEF Range
  <1> QED
    BY <1>1, <1>2

\* What is before a transaction is in the chain.
LEMMA BeforeInChain ==
    ASSUME NEW a \in Block \ {Genesis}, NEW i \in 1 .. Len(Txs[a])
    PROVE  Before(a, i) \subseteq ChainTx[a]
  <1>1. Len(Txs[a]) \in Nat /\ DOMAIN Txs[a] = 1 .. Len(Txs[a])
    BY WalletAssumption
  <1>2. \A j \in 1 .. i - 1 : Txs[a][j] \in Range(Txs[a])
    BY <1>1 DEF Range
  <1> QED
    BY <1>2, ChainTxStep DEF Before

\* The transactions of an accepted chain spend its outputs, or coins below it.
LEMMA SpendsBelow ==
    ASSUME NEW b \in Block, ChainValid(b), NEW t \in ChainTx[b], NEW o \in Ins[t]
    PROVE  o[1] \in Coin \/ (o[1] \in ChainTx[b] /\ o \in Outs(o[1]))
  <1>1. PICK a \in Ancestors[b] : t \in Range(Txs[a])
    BY ChainTxStep
  <1>2. a \in Block
    BY AncestorsType
  <1>3. PICK i \in 1 .. Len(Txs[a]) : t = Txs[a][i]
    BY <1>1, <1>2, TxPlace
  <1>4. a # Genesis
    BY <1>1, <1>2, TxPlace
  <1>5. Connectable[a]
    BY <1>1, <1>4 DEF ChainValid
  <1>6. IsOutputOf(o, Before(a, i))
    BY <1>2, <1>3, <1>4, <1>5, ConnectableIs
  <1>7. Before(a, i) \subseteq ChainTx[b]
    BY <1>1, <1>2, <1>3, <1>4, BeforeInChain, ChainTxMono
  <1> QED
    BY <1>6, <1>7 DEF IsOutputOf

\* A transaction of a block is in none below it.
LEMMA TxNotBelow ==
    ASSUME NEW a \in Block \ {Genesis}, Connectable[a], NEW t \in Range(Txs[a])
    PROVE  t \notin ChainTx[Prev[a]] /\ \A o \in Ins[t] : \A u \in ChainTx[Prev[a]] : o \notin Ins[u]
  <1>1. PICK i \in 1 .. Len(Txs[a]) : t = Txs[a][i]
    BY TxPlace
  <1> QED
    BY <1>1, ConnectableIs DEF Before

\* No transaction is twice in an accepted chain ...
LEMMA TxOnce ==
    ASSUME NEW b \in Block, ChainValid(b), NEW a \in Ancestors[b], NEW c \in Ancestors[b],
           NEW t \in Range(Txs[a]), t \in Range(Txs[c])
    PROVE  a = c
  <1>1. a \in Block \ {Genesis} /\ c \in Block \ {Genesis}
    BY AncestorsType, TxPlace
  <1>2. Connectable[a] /\ Connectable[c]
    BY <1>1 DEF ChainValid
  <1>3. a \in Ancestors[c] \/ c \in Ancestors[a]
    BY AncestorsChain
  <1>4. a = c \/ a \in Ancestors[Prev[c]] \/ c \in Ancestors[Prev[a]]
    BY <1>1, <1>3, AncestorsSplit
  <1>5. Prev[a] \in Block /\ Prev[c] \in Block
    BY <1>1, TreeAssumption
  <1>6. ~(a \in Ancestors[Prev[c]]) /\ ~(c \in Ancestors[Prev[a]])
    BY <1>1, <1>2, <1>5, TxNotBelow, ChainTxStep
  <1> QED
    BY <1>4, <1>6

\* ... and no output is spent twice.
LEMMA SpentOnce ==
    ASSUME NEW b \in Block, ChainValid(b), NEW t \in ChainTx[b], NEW u \in ChainTx[b], t # u
    PROVE  Ins[t] \cap Ins[u] = {}
  <1>1. PICK a \in Ancestors[b] : t \in Range(Txs[a])
    BY ChainTxStep
  <1>2. PICK c \in Ancestors[b] : u \in Range(Txs[c])
    BY ChainTxStep
  <1>3. a \in Block \ {Genesis} /\ c \in Block \ {Genesis}
    BY <1>1, <1>2, AncestorsType, TxPlace
  <1>4. Connectable[a] /\ Connectable[c]
    BY <1>3 DEF ChainValid
  <1>5. Prev[a] \in Block /\ Prev[c] \in Block
    BY <1>3, TreeAssumption
  <1>6. CASE a = c
    <2>1. PICK i \in 1 .. Len(Txs[a]) : t = Txs[a][i]
      BY <1>1, <1>3, TxPlace
    <2>2. PICK j \in 1 .. Len(Txs[a]) : u = Txs[a][j]
      BY <1>2, <1>3, <1>6, TxPlace
    <2>3. i \in Int /\ j \in Int /\ i # j
      BY <2>1, <2>2
    <2>4. CASE i < j
      <3>1. i \in 1 .. j - 1
        BY <2>3, <2>4
      <3>2. t \in Before(a, j)
        BY <2>1, <3>1 DEF Before
      <3> QED
        BY <1>3, <1>4, <2>2, <3>2, ConnectableIs
    <2>5. CASE j < i
      <3>1. j \in 1 .. i - 1
        BY <2>3, <2>5
      <3>2. u \in Before(a, i)
        BY <2>2, <3>1 DEF Before
      <3> QED
        BY <1>3, <1>4, <2>1, <3>2, ConnectableIs
    <2> QED
      BY <2>3, <2>4, <2>5
  <1>7. CASE a \in Ancestors[Prev[c]]
    <2>1. t \in ChainTx[Prev[c]]
      BY <1>1, <1>5, <1>7, ChainTxStep
    <2> QED
      BY <1>2, <1>3, <1>4, <2>1, TxNotBelow
  <1>8. CASE c \in Ancestors[Prev[a]]
    <2>1. u \in ChainTx[Prev[a]]
      BY <1>2, <1>5, <1>8, ChainTxStep
    <2> QED
      BY <1>1, <1>3, <1>4, <2>1, TxNotBelow
  <1>9. a \in Ancestors[c] \/ c \in Ancestors[a]
    BY AncestorsChain
  <1> QED
    BY <1>3, <1>6, <1>7, <1>8, <1>9, AncestorsSplit

\* A transaction of a chain spends only what comes before it, and so does what is before it.
LEMMA SpentBefore ==
    ASSUME NEW a \in Block \ {Genesis}, ChainValid(a), NEW n \in 1 .. Len(Txs[a])
    PROVE  /\ Txs[a][n] \in Tx /\ Txs[a][n] \in ChainTx[a] /\ Txs[a][n] \notin Before(a, n)
           /\ \A y \in Before(a, n) \cup {Txs[a][n]} : \A o \in Ins[y] : o[1] # Txs[a][n]
  <1> DEFINE t == Txs[a][n]
  <1>1. Prev[a] \in Block /\ a \in Ancestors[a] /\ Ancestors[Prev[a]] \subseteq Ancestors[a]
    BY TreeAssumption, AncestorsSplit, AncestorsType
  <1>2. Len(Txs[a]) \in Nat
    BY WalletAssumption
  <1>3. Connectable[a] /\ ChainValid(Prev[a])
    BY <1>1 DEF ChainValid
  <1>4. /\ t \in Tx /\ t \in Range(Txs[a]) /\ t \notin Before(a, n)
        /\ \A o \in Ins[t] : IsOutputOf(o, Before(a, n))
    BY <1>3, ConnectableIs
  <1> HIDE DEF t
  <1>5. ASSUME NEW y \in Before(a, n), NEW o \in Ins[y] PROVE o[1] # t
    <2>1. CASE y \in ChainTx[Prev[a]]
      <3>1. o[1] \in Coin \/ o[1] \in ChainTx[Prev[a]]
        BY <1>1, <1>3, <1>5, <2>1, SpendsBelow
      <3>2. t \notin Coin /\ t \notin ChainTx[Prev[a]]
        BY <1>4, TxAssumption DEF Before
      <3> QED
        BY <3>1, <3>2
    <2>2. CASE y \notin ChainTx[Prev[a]]
      <3>1. PICK j \in 1 .. n - 1 : y = Txs[a][j]
        BY <2>2 DEF Before
      <3>2. j \in 1 .. Len(Txs[a])
        BY <1>2
      <3>3. IsOutputOf(o, Before(a, j))
        BY <1>3, <1>5, <3>1, <3>2, ConnectableIs
      <3>4. Before(a, j) \subseteq Before(a, n)
        BY <1>2 DEF Before
      <3>5. o[1] \in Coin \/ o[1] \in Before(a, n)
        BY <3>3, <3>4 DEF IsOutputOf
      <3> QED
        BY <1>4, <3>5, TxAssumption
    <2> QED
      BY <2>1, <2>2
  <1>6. \A o \in Ins[t] : o[1] # t
    BY <1>4, TxAssumption DEF IsOutputOf
  <1>7. t \in ChainTx[a]
    BY <1>1, <1>4, ChainTxStep
  <1> QED
    BY <1>4, <1>5, <1>6, <1>7 DEF t

\* The blocks above x on the way to y, one after the other.
LEMMA AfterSteps ==
    ASSUME NEW y \in Block, NEW x \in Ancestors[y]
    PROVE  LET p == After(x, y)
           IN  /\ p \in Seq(Block) /\ Len(p) \in Nat
               /\ \A n \in 1 .. Len(p) : /\ p[n] \in Block \ {Genesis} /\ p[n] \in Ancestors[y]
                                         /\ Prev[p[n]] = IF n = 1 THEN x ELSE p[n - 1]
               /\ y = IF Len(p) = 0 THEN x ELSE p[Len(p)]
  <1> DEFINE p == After(x, y)
             N == Len(p)
  <1>1. p \in Seq(Block \ {Genesis}) /\ N \in Nat /\ DOMAIN p = 1 .. N
    BY AfterIsBranch
  <1>2. p \in Seq(Block)
    <2> HIDE DEF p
    <2> QED
      BY <1>1
  <1>3. N = 0 => x = y
    BY AfterIsBranch
  <1>4. x # y => p[N] = y /\ Prev[p[1]] = x
    BY AfterIsBranch
  <1>5. N # 0 => x # y
    BY AfterIsBranch
  <1>6. \A i \in 2 .. N : Prev[p[i]] = p[i - 1]
    BY AfterIsBranch
  <1>7. {p[i] : i \in DOMAIN p} = Ancestors[y] \ Ancestors[x]
    BY AfterIsBranch
  <1> HIDE DEF p, N
  <1>8. ASSUME NEW n \in 1 .. N PROVE Prev[p[n]] = IF n = 1 THEN x ELSE p[n - 1]
    <2>1. CASE n = 1
      BY <1>1, <1>4, <1>5, <2>1
    <2>2. CASE n # 1
      <3>1. n \in 2 .. N
        BY <1>1, <2>2
      <3> QED
        BY <1>6, <2>2, <3>1
    <2> QED
      BY <2>1, <2>2
  <1>9. \A n \in 1 .. N : p[n] \in Block \ {Genesis} /\ p[n] \in Ancestors[y]
    BY <1>1, <1>7
  <1> QED
    BY <1>1, <1>2, <1>3, <1>4, <1>5, <1>8, <1>9 DEF p, N
-----------------------------------------------------------------------------
\* The coins of v that the transactions of C spend are flagged ...
FlaggedFor(v, C) == \A t \in C : Debits(v, t) \subseteq v.spent

\* ... and each flag has a spender in mapWallet that is in C, or may still come.
JustifiedBy(v, C) ==
    \A o \in v.spent : \E t \in DOMAIN v.hashBlock \cap Tx : o \in Ins[t] /\ (t \in C \/ t \notin Stake)

\* The same of the transactions of a chain.
Flagged(v, b) == FlaggedFor(v, ChainTx[b])

Justified(v, b) == JustifiedBy(v, ChainTx[b])

\* A transaction of a block told, wherever its coins come from: it keeps the flags
\* justified, and with its own coins flagged those of the earlier ones stay so.
LEMMA AddRight ==
    ASSUME NEW v, WalletType(v), NEW t \in Tx, NEW b \in Block, NEW fUpdate \in BOOLEAN, Updates(fUpdate), NEW C
    PROVE  LET u == AddIfInvolvingMe(v, t, b, fUpdate)
           IN  /\ WalletType(u)
               /\ t \in C /\ JustifiedBy(v, C) => JustifiedBy(u, C)
               /\ FlaggedFor(v, C) /\ (\A x \in C \cup {t} : \A o \in Ins[x] : o[1] # t) => FlaggedFor(u, C \cup {t})
  <1> DEFINE u == AddIfInvolvingMe(v, t, b, fUpdate)
             a == AddToWallet(v, t, b)
             told == t \in DOMAIN v.hashBlock \/ Outs(t) \cap Mine # {} \/ IsFromMe(v, t)
  <1>1. b # None /\ \A o \in Outs(t) : o[1] = t
    BY WalletAssumption DEF Outs
  <1>2. u = IF told THEN a ELSE WalletUpdateSpent(v, t, FALSE)
    BY DEF AddIfInvolvingMe, Updates
  <1>3. CASE told
    <2>1. u = a
      BY <1>2, <1>3
    <2>2. /\ WalletType(a)
          /\ DOMAIN a.hashBlock = DOMAIN v.hashBlock \cup {t}
          /\ a.spent = (v.spent \cup {o \in Ins[t] \cap Mine : o[1] \in DOMAIN a.hashBlock}) \ (Outs(t) \cap Mine)
      BY <1>1, AddToWalletEffect
    <2> HIDE DEF u, a, told
    <2>3. WalletType(u) /\ DOMAIN u.hashBlock = DOMAIN v.hashBlock \cup {t}
      BY <2>1, <2>2
    <2>4. \A o : o \in u.spent <=> (o \in v.spent \/ o \in Debits(u, t)) /\ o \notin Outs(t) \cap Mine
      BY <2>1, <2>2 DEF Debits
    <2>5. ASSUME t \in C, JustifiedBy(v, C) PROVE JustifiedBy(u, C)
      <3> SUFFICES ASSUME NEW o \in u.spent
                   PROVE  \E x \in DOMAIN u.hashBlock \cap Tx : o \in Ins[x] /\ (x \in C \/ x \notin Stake)
        BY DEF JustifiedBy
      <3>1. CASE o \in v.spent
        BY <2>3, <2>5, <3>1 DEF JustifiedBy
      <3>2. CASE o \in Debits(u, t)
        BY <2>3, <2>5, <3>2 DEF Debits
      <3> QED
        BY <2>4, <3>1, <3>2
    <2>6. ASSUME FlaggedFor(v, C), \A x \in C \cup {t} : \A o \in Ins[x] : o[1] # t PROVE FlaggedFor(u, C \cup {t})
      <3> SUFFICES ASSUME NEW x \in C \cup {t}, NEW o \in Debits(u, x) PROVE o \in u.spent
        BY DEF FlaggedFor
      <3>1. o \in Ins[x] /\ o \in Mine /\ o[1] \in DOMAIN v.hashBlock /\ o \notin Outs(t)
        BY <1>1, <2>3, <2>6 DEF Debits
      <3>2. CASE x = t
        BY <2>4, <3>1, <3>2
      <3>3. CASE x \in C
        <4>1. o \in v.spent
          BY <2>6, <3>1, <3>3 DEF FlaggedFor, Debits
        <4> QED
          BY <2>4, <3>1, <4>1
      <3> QED
        BY <3>2, <3>3
    <2> QED
      BY <2>3, <2>5, <2>6 DEF u
  <1>4. CASE ~told
    <2>1. u = WalletUpdateSpent(v, t, FALSE) /\ Debits(v, t) = {}
      BY <1>2, <1>4 DEF IsFromMe
    <2>2. u.hashBlock = v.hashBlock /\ u.spent = v.spent \cup Debits(v, t) /\ WalletType(u)
      BY <2>1, UpdateSpentLoose
    <2> HIDE DEF u, a, told
    <2>3. u.spent = v.spent /\ Debits(u, t) = {}
      BY <2>1, <2>2 DEF Debits
    <2>4. JustifiedBy(v, C) => JustifiedBy(u, C)
      BY <2>2, <2>3 DEF JustifiedBy
    <2>5. FlaggedFor(v, C) => FlaggedFor(u, C \cup {t})
      BY <2>2, <2>3 DEF FlaggedFor, Debits
    <2> QED
      BY <2>2, <2>4, <2>5 DEF u
  <1> QED
    BY <1>3, <1>4

\* A block told.
LEMMA TellBlockRight ==
    ASSUME NEW a \in Block \ {Genesis}, ChainValid(a), NEW v, WalletType(v),
           NEW fUpdate \in BOOLEAN, Updates(fUpdate)
    PROVE  LET u == TellBlock(v, a, fUpdate)
           IN  /\ Flagged(v, Prev[a]) => Flagged(u, a)
               /\ \A C : ChainTx[a] \subseteq C /\ JustifiedBy(v, C) => JustifiedBy(u, C)
  <1> DEFINE N == Len(Txs[a])
             u == TellBlock(v, a, fUpdate)
  <1>1. N \in Nat /\ v \in Wallets /\ a \in Block
    BY WalletAssumption, WalletsAre
  <1>2. ASSUME Flagged(v, Prev[a]) PROVE Flagged(u, a)
    <2> DEFINE G == [n \in 0 .. N |-> {r \in Wallets : FlaggedFor(r, Before(a, n + 1))}]
    <2>1. Before(a, 0 + 1) = ChainTx[Prev[a]]
      BY DEF Before
    <2>2. v \in G[0]
      BY <1>1, <1>2, <2>1 DEF Flagged
    <2>3. ASSUME NEW n \in 1 .. N, NEW r \in G[n - 1] PROVE AddIfInvolvingMe(r, Txs[a][n], a, fUpdate) \in G[n]
      <3> DEFINE t == Txs[a][n]
                 s == AddIfInvolvingMe(r, t, a, fUpdate)
      <3>1. n - 1 \in 0 .. N /\ n \in 0 .. N /\ (n - 1) + 1 = n
        BY <1>1
      <3>2. WalletType(r) /\ FlaggedFor(r, Before(a, n))
        BY <2>3, <3>1, WalletsAre
      <3>3. t \in Tx /\ \A y \in Before(a, n) \cup {t} : \A o \in Ins[y] : o[1] # t
        BY SpentBefore
      <3>4. Before(a, n + 1) = Before(a, n) \cup {t}
        <4>1. \A j : j \in 1 .. (n + 1) - 1 <=> j \in 1 .. n - 1 \/ j = n
          BY <1>1
        <4> QED
          BY <4>1 DEF Before
      <3> HIDE DEF t
      <3>5. WalletType(s) /\ FlaggedFor(s, Before(a, n) \cup {t})
        BY <1>1, <3>2, <3>3, AddRight
      <3> HIDE DEF s
      <3>6. s \in Wallets /\ FlaggedFor(s, Before(a, n + 1))
        BY <3>4, <3>5, WalletsAre
      <3> QED
        BY <3>1, <3>6 DEF s, t
    <2> HIDE DEF G
    <2>4. u \in G[N]
      BY <1>1, <2>2, <2>3, TellBlockSteps
    <2>5. Before(a, N + 1) = ChainTx[a]
      <3>1. \A j : j \in 1 .. (N + 1) - 1 <=> j \in DOMAIN Txs[a]
        BY <1>1, WalletAssumption
      <3>2. Before(a, N + 1) = ChainTx[Prev[a]] \cup Range(Txs[a])
        BY <3>1 DEF Before, Range
      <3> QED
        BY <3>2, ChainTxStep
    <2> HIDE DEF u, N
    <2> QED
      BY <1>1, <2>4, <2>5 DEF Flagged, G
  <1>3. ASSUME NEW C, ChainTx[a] \subseteq C, JustifiedBy(v, C) PROVE JustifiedBy(u, C)
    <2> DEFINE G == [n \in 0 .. N |-> {r \in Wallets : JustifiedBy(r, C)}]
    <2>1. v \in G[0]
      BY <1>1, <1>3
    <2>2. ASSUME NEW n \in 1 .. N, NEW r \in G[n - 1] PROVE AddIfInvolvingMe(r, Txs[a][n], a, fUpdate) \in G[n]
      <3> DEFINE t == Txs[a][n]
                 s == AddIfInvolvingMe(r, t, a, fUpdate)
      <3>1. n - 1 \in 0 .. N /\ n \in 0 .. N
        BY <1>1
      <3>2. WalletType(r) /\ JustifiedBy(r, C)
        BY <2>2, <3>1, WalletsAre
      <3>3. t \in Tx /\ t \in C
        BY <1>3, SpentBefore
      <3> HIDE DEF t
      <3>5. WalletType(s) /\ JustifiedBy(s, C)
        BY <1>1, <3>2, <3>3, AddRight
      <3> HIDE DEF s
      <3>6. s \in Wallets
        BY <3>5, WalletsAre
      <3> QED
        BY <3>1, <3>5, <3>6 DEF s, t
    <2> HIDE DEF G
    <2>3. u \in G[N]
      BY <1>1, <2>1, <2>2, TellBlockSteps
    <2> HIDE DEF u, N
    <2> QED
      BY <1>1, <2>3 DEF G
  <1> QED
    BY <1>2, <1>3

\* The blocks above x told in order: the wallet stays right about what it has.
LEMMA TellRight ==
    ASSUME NEW y \in Block, ChainValid(y), NEW x \in Ancestors[y], NEW v, WalletType(v),
           NEW fUpdate \in BOOLEAN, Updates(fUpdate)
    PROVE  LET u == TellBlocks(v, After(x, y), fUpdate)
           IN  /\ Flagged(v, x) => Flagged(u, y)
               /\ \A z \in Block : ChainTx[z] \subseteq ChainTx[y] /\ Justified(v, z) => Justified(u, y)
  <1> DEFINE p == After(x, y)
             N == Len(p)
             u == TellBlocks(v, p, fUpdate)
             At(n) == IF n = 0 THEN x ELSE p[n]
  <1>1. /\ p \in Seq(Block) /\ N \in Nat /\ At(N) = y
        /\ \A n \in 1 .. N : /\ p[n] \in Block \ {Genesis} /\ p[n] \in Ancestors[y]
                             /\ Prev[p[n]] = IF n = 1 THEN x ELSE p[n - 1]
    BY AfterSteps
  <1> HIDE DEF p
  <1>2. ASSUME NEW n \in 1 .. N
        PROVE  /\ p[n] \in Block \ {Genesis} /\ ChainValid(p[n]) /\ ChainTx[p[n]] \subseteq ChainTx[y]
               /\ Prev[p[n]] = At(n - 1) /\ At(n) = p[n] /\ n - 1 \in 0 .. N /\ n \in 0 .. N
    <2>1. Prev[p[n]] = At(n - 1) /\ At(n) = p[n] /\ n - 1 \in 0 .. N /\ n \in 0 .. N
      BY <1>1
    <2>2. ChainValid(p[n])
      BY <1>1, AncestorsTrans DEF ChainValid
    <2>3. ChainTx[p[n]] \subseteq ChainTx[y]
      BY <1>1, ChainTxMono
    <2> QED
      BY <1>1, <2>1, <2>2, <2>3
  <1>3. v \in Wallets /\ 0 \in 0 .. N /\ N \in 0 .. N /\ At(0) = x
    BY <1>1, WalletsAre
  <1> HIDE DEF At
  <1>4. ASSUME Flagged(v, x) PROVE Flagged(u, y)
    <2> DEFINE G == [n \in 0 .. N |-> {r \in Wallets : Flagged(r, At(n))}]
    <2>1. v \in G[0]
      BY <1>3, <1>4
    <2>2. ASSUME NEW n \in 1 .. N, NEW r \in G[n - 1] PROVE TellBlock(r, p[n], fUpdate) \in G[n]
      <3> DEFINE s == TellBlock(r, p[n], fUpdate)
      <3>1. WalletType(r) /\ Flagged(r, Prev[p[n]])
        BY <1>2, <2>2, WalletsAre
      <3>2. Flagged(s, At(n))
        BY <1>2, <3>1, TellBlockRight
      <3>3. WalletType(s)
        BY <1>2, <3>1, TellBlockGrows
      <3> HIDE DEF s
      <3>4. s \in Wallets
        BY <3>3, WalletsAre
      <3> QED
        BY <1>2, <3>2, <3>4 DEF s
    <2> HIDE DEF G
    <2>3. u \in G[N]
      BY <1>1, <2>1, <2>2, TellBlocksSteps
    <2> HIDE DEF u, N
    <2> QED
      BY <1>1, <1>3, <2>3 DEF G
  <1>5. ASSUME NEW z \in Block, ChainTx[z] \subseteq ChainTx[y], Justified(v, z) PROVE Justified(u, y)
    <2> DEFINE G == [n \in 0 .. N |-> {r \in Wallets : Justified(r, y)}]
    <2>1. Justified(v, y)
      BY <1>5 DEF Justified, JustifiedBy
    <2>2. v \in G[0]
      BY <1>3, <2>1
    <2>3. ASSUME NEW n \in 1 .. N, NEW r \in G[n - 1] PROVE TellBlock(r, p[n], fUpdate) \in G[n]
      <3> DEFINE s == TellBlock(r, p[n], fUpdate)
      <3>1. WalletType(r) /\ JustifiedBy(r, ChainTx[y])
        BY <1>2, <2>3, WalletsAre DEF Justified
      <3>2. JustifiedBy(s, ChainTx[y])
        <4>1. p[n] \in Block \ {Genesis} /\ ChainValid(p[n]) /\ ChainTx[p[n]] \subseteq ChainTx[y]
          BY <1>2
        <4>2. \A C : ChainTx[p[n]] \subseteq C /\ JustifiedBy(r, C) => JustifiedBy(s, C)
          BY <3>1, <4>1, TellBlockRight
        <4> HIDE DEF s
        <4> QED
          BY <3>1, <4>1, <4>2
      <3>3. WalletType(s)
        BY <1>2, <3>1, TellBlockGrows
      <3> HIDE DEF s
      <3>4. s \in Wallets /\ Justified(s, y)
        BY <3>2, <3>3, WalletsAre DEF Justified
      <3> QED
        BY <1>2, <3>4 DEF s
    <2> HIDE DEF G
    <2>4. u \in G[N]
      BY <1>1, <2>2, <2>3, TellBlocksSteps
    <2> HIDE DEF u, N
    <2> QED
      BY <1>3, <2>4 DEF G
  <1> QED
    BY <1>4, <1>5 DEF p
-----------------------------------------------------------------------------
\* u is wallet v told of the transactions e[2] in blocks e[1], e \in E: those that
\* involve it are there under their blocks, their coins are flagged, and all else is
\* as it was, but for the flags of their outputs.
Told(v, u, E) ==
    /\ WalletType(u)
    /\ DOMAIN v.hashBlock \subseteq DOMAIN u.hashBlock
    /\ \A e \in E : Involves(e[2]) => e[2] \in DOMAIN u.hashBlock
    /\ \A e \in E : e[2] \in DOMAIN u.hashBlock => u.hashBlock[e[2]] = e[1]
    /\ \A x \in DOMAIN v.hashBlock : (\A e \in E : e[2] # x) => u.hashBlock[x] = v.hashBlock[x]
    /\ \A e \in E : Ins[e[2]] \cap Mine \subseteq u.spent
    /\ \A o \in u.spent : o \in v.spent \/ \E e \in E : o \in Ins[e[2]]
    /\ \A o \in v.spent : (\A e \in E : e[2] # o[1]) => o \in u.spent

\* One more transaction, with nothing of it told before.
LEMMA ToldStep ==
    ASSUME NEW v, NEW u, NEW E, Told(v, u, E), NEW b \in Block, NEW t \in Tx, Sourced(u, t),
           \A e \in E : e[2] # t /\ \A o \in Ins[e[2]] : o[1] # t,
           \A o \in Ins[t] : o[1] # t, NEW fUpdate \in BOOLEAN, Updates(fUpdate)
    PROVE  Told(v, AddIfInvolvingMe(u, t, b, fUpdate), E \cup {<<b, t>>})
  <1> DEFINE r == AddIfInvolvingMe(u, t, b, fUpdate)
             F == E \cup {<<b, t>>}
  <1>1. /\ WalletType(u) /\ DOMAIN v.hashBlock \subseteq DOMAIN u.hashBlock
        /\ \A e \in E : Involves(e[2]) => e[2] \in DOMAIN u.hashBlock
        /\ \A e \in E : e[2] \in DOMAIN u.hashBlock => u.hashBlock[e[2]] = e[1]
        /\ \A x \in DOMAIN v.hashBlock : (\A e \in E : e[2] # x) => u.hashBlock[x] = v.hashBlock[x]
    BY DEF Told
  <1>2. /\ \A e \in E : Ins[e[2]] \cap Mine \subseteq u.spent
        /\ \A o \in u.spent : o \in v.spent \/ \E e \in E : o \in Ins[e[2]]
        /\ \A o \in v.spent : (\A e \in E : e[2] # o[1]) => o \in u.spent
    BY DEF Told
  <1>3. /\ WalletType(r)
        /\ DOMAIN u.hashBlock \subseteq DOMAIN r.hashBlock
        /\ DOMAIN r.hashBlock \subseteq DOMAIN u.hashBlock \cup {t}
        /\ Involves(t) => t \in DOMAIN r.hashBlock
        /\ t \in DOMAIN r.hashBlock => r.hashBlock[t] = b
        /\ \A x \in DOMAIN u.hashBlock : x # t => r.hashBlock[x] = u.hashBlock[x]
        /\ r.spent = (u.spent \cup (Ins[t] \cap Mine)) \ Outs(t)
    BY <1>1, AddEffect
  <1>4. \A o \in Outs(t) : o[1] = t
    BY DEF Outs
  <1> HIDE DEF r
  <1>5. \A e \in F : e \in E \/ (e[1] = b /\ e[2] = t)
    OBVIOUS
  <1>6. E \subseteq F /\ <<b, t>> \in F /\ <<b, t>>[2] = t
    OBVIOUS
  <1> HIDE DEF F
  <1>7. \A e \in F : Involves(e[2]) => e[2] \in DOMAIN r.hashBlock
    BY <1>1, <1>3, <1>5
  <1>8. \A e \in F : e[2] \in DOMAIN r.hashBlock => r.hashBlock[e[2]] = e[1]
    BY <1>1, <1>3, <1>5
  <1>9. \A x \in DOMAIN v.hashBlock : (\A e \in F : e[2] # x) => r.hashBlock[x] = v.hashBlock[x]
    BY <1>1, <1>3, <1>6
  <1>10. \A e \in F : Ins[e[2]] \cap Mine \subseteq r.spent
    BY <1>2, <1>3, <1>4, <1>5
  <1>11. \A o \in r.spent : o \in v.spent \/ \E e \in F : o \in Ins[e[2]]
    BY <1>2, <1>3, <1>6
  <1>12. \A o \in v.spent : (\A e \in F : e[2] # o[1]) => o \in r.spent
    BY <1>2, <1>3, <1>4, <1>6
  <1>13. DOMAIN v.hashBlock \subseteq DOMAIN r.hashBlock
    BY <1>1, <1>3
  <1>14. Told(v, r, F)
    BY <1>3, <1>7, <1>8, <1>9, <1>10, <1>11, <1>12, <1>13 DEF Told
  <1> QED
    BY <1>14 DEF r, F

\* The transactions of the blocks above x on the way to y.
Above(x, y) == {e \in Block \X Tx : e[1] \in Ancestors[y] \ Ancestors[x] /\ e[2] \in Range(Txs[e[1]])}

\* One more block.
LEMMA TellBlockTold ==
    ASSUME NEW a \in Block \ {Genesis}, ChainValid(a), NEW x \in Ancestors[Prev[a]],
           NEW v, WalletType(v), Heard(v, x), NEW u, Told(v, u, Above(x, Prev[a])),
           NEW fUpdate \in BOOLEAN, Updates(fUpdate)
    PROVE  Told(v, TellBlock(u, a, fUpdate), Above(x, a))
  <1> DEFINE N == Len(Txs[a])
             E == Above(x, Prev[a])
             In(k) == {<<a, Txs[a][j]>> : j \in 1 .. k}
             F(k) == E \cup In(k)
  <1>1. /\ Prev[a] \in Block /\ x \in Block /\ a \notin Ancestors[Prev[a]] /\ a \notin Ancestors[x]
        /\ Ancestors[a] = Ancestors[Prev[a]] \cup {a}
    BY TreeAssumption, AncestorsType, AncestorsSplit, Acyclic, AncestorsTrans
  <1>2. N \in Nat /\ DOMAIN Txs[a] = 1 .. N /\ \A n \in 1 .. N : Txs[a][n] \in Tx
    BY WalletAssumption
  <1>3. Connectable[a] /\ ChainValid(Prev[a])
    BY <1>1, AncestorsType DEF ChainValid
  <1>4. WalletType(u)
    BY DEF Told
  <1>5. PICK q : /\ q[0] = u /\ TellBlock(u, a, fUpdate) = q[N]
                 /\ \A n \in 1 .. N : q[n] = AddIfInvolvingMe(q[n - 1], Txs[a][n], a, fUpdate)
    BY <1>4, TellBlockRuns
  <1> DEFINE S == {n \in 0 .. N : Told(v, q[n], F(n))}
  <1>6. 0 \in S
    <2>1. F(0) = E
      OBVIOUS
    <2>2. Told(v, q[0], F(0))
      BY <1>5, <2>1
    <2> HIDE DEF F
    <2> QED
      BY <1>2, <2>2
  <1>7. ASSUME NEW n \in 1 .. N, n - 1 \in S PROVE n \in S
    <2> DEFINE t == Txs[a][n]
    <2>1. Told(v, q[n - 1], F(n - 1)) /\ n \in 0 .. N
      <3> HIDE DEF F
      <3> QED
        BY <1>7
    <2>2. /\ t \in Tx /\ t \in Range(Txs[a]) /\ t \notin Before(a, n)
          /\ \A o \in Ins[t] : IsOutputOf(o, Before(a, n))
      BY <1>3, ConnectableIs
    <2>3. \A e \in F(n - 1) : e[2] \in Before(a, n) /\ e[2] \in Tx
      <3>1. ASSUME NEW e \in E PROVE e[2] \in ChainTx[Prev[a]]
        BY <1>1, ChainTxStep DEF Above
      <3>2. ASSUME NEW e \in In(n - 1) PROVE e[2] \in {Txs[a][j] : j \in 1 .. n - 1}
        OBVIOUS
      <3>3. Before(a, n) = ChainTx[Prev[a]] \cup {Txs[a][j] : j \in 1 .. n - 1}
        BY DEF Before
      <3>4. Before(a, n) \subseteq Tx
        <4>1. Before(a, n) \subseteq ChainTx[a]
          BY BeforeInChain
        <4> QED
          BY <4>1, ChainTxStep
      <3> HIDE DEF E, In
      <3> QED
        BY <3>1, <3>2, <3>3, <3>4
    <2>4. \A y \in Before(a, n) \cup {t} : \A o \in Ins[y] : o[1] # t
      BY SpentBefore
    <2>5. \A o \in Ins[t] : o[1] # t
      BY <2>4
    <2>6. Sourced(q[n - 1], t)
      <3> SUFFICES ASSUME NEW o \in Ins[t] \cap Mine PROVE o[1] \in DOMAIN q[n - 1].hashBlock
        BY DEF Sourced
      <3>1. WalletType(q[n - 1]) /\ DOMAIN v.hashBlock \subseteq DOMAIN q[n - 1].hashBlock
        BY <2>1 DEF Told
      <3>2. CASE o[1] \in Coin
        BY <3>1, <3>2 DEF WalletType
      <3>3. CASE o[1] \notin Coin
        <4>1. o[1] \in Before(a, n) /\ o \in Outs(o[1])
          BY <2>2, <3>3 DEF IsOutputOf
        <4>2. Involves(o[1])
          BY <4>1 DEF Involves
        <4>3. CASE o[1] \in ChainTx[x]
          <5>1. o[1] \in DOMAIN v.hashBlock
            BY <1>1, <4>2, <4>3, ChainTxStep DEF Heard
          <5> QED
            BY <3>1, <5>1
        <4>4. CASE o[1] \in ChainTx[Prev[a]] /\ o[1] \notin ChainTx[x]
          <5>1. PICK c \in Ancestors[Prev[a]] : o[1] \in Range(Txs[c])
            BY <1>1, <4>4, ChainTxStep
          <5>2. c \in Block /\ c \notin Ancestors[x] /\ o[1] \in Tx
            BY <1>1, <4>4, <5>1, AncestorsType, ChainTxStep
          <5>3. <<c, o[1]>> \in E
            BY <5>1, <5>2 DEF Above
          <5>4. <<c, o[1]>> \in F(n - 1)
            BY <5>3
          <5> HIDE DEF F
          <5> QED
            BY <2>1, <4>2, <5>4 DEF Told
        <4>5. CASE o[1] \notin ChainTx[Prev[a]]
          <5>1. PICK j \in 1 .. n - 1 : o[1] = Txs[a][j]
            BY <4>1, <4>5 DEF Before
          <5>2. <<a, o[1]>> \in F(n - 1)
            BY <5>1
          <5> HIDE DEF F
          <5> QED
            BY <2>1, <4>2, <5>2 DEF Told
        <4> QED
          BY <4>3, <4>4, <4>5
      <3> QED
        BY <3>2, <3>3
    <2>7. F(n) = F(n - 1) \cup {<<a, t>>}
      <3>1. \A j : j \in 1 .. n <=> j \in 1 .. n - 1 \/ j = n
        BY <1>2
      <3>2. In(n) = In(n - 1) \cup {<<a, Txs[a][n]>>}
        BY <3>1
      <3> QED
        BY <3>2
    <2>8. q[n] = AddIfInvolvingMe(q[n - 1], t, a, fUpdate)
      BY <1>5
    <2> HIDE DEF F, t
    <2>9. \A e \in F(n - 1) : e[2] # t /\ \A o \in Ins[e[2]] : o[1] # t
      BY <2>2, <2>3, <2>4
    <2>10. Told(v, q[n], F(n))
      BY <2>1, <2>2, <2>5, <2>6, <2>7, <2>8, <2>9, ToldStep
    <2> QED
      BY <2>1, <2>10
  <1>8. N \in S
    <2> HIDE DEF S, N
    <2>1. \A i \in 0 .. N : i \in S
      BY <1>2, <1>6, <1>7, UpTo
    <2> QED
      BY <1>2, <2>1
  <1>9. F(N) = Above(x, a)
    <2>1. ASSUME NEW e \in F(N) PROVE e \in Above(x, a)
      <3>1. CASE e \in E
        BY <1>1, <3>1 DEF Above
      <3>2. CASE e \in In(N)
        <4>1. PICK j \in 1 .. N : e = <<a, Txs[a][j]>>
          BY <3>2
        <4>2. Txs[a][j] \in Range(Txs[a]) /\ Txs[a][j] \in Tx
          BY <1>2 DEF Range
        <4> QED
          BY <1>1, <4>1, <4>2 DEF Above
      <3> QED
        BY <2>1, <3>1, <3>2
    <2>2. ASSUME NEW e \in Above(x, a) PROVE e \in F(N)
      <3>1. e \in Block \X Tx /\ e[1] \in Ancestors[a] \ Ancestors[x] /\ e[2] \in Range(Txs[e[1]])
        BY DEF Above
      <3>2. CASE e[1] \in Ancestors[Prev[a]]
        BY <3>1, <3>2 DEF Above
      <3>3. CASE e[1] = a
        <4>1. PICK j \in 1 .. N : e[2] = Txs[a][j]
          BY <3>1, <3>3, TxPlace
        <4>2. e = <<a, Txs[a][j]>>
          BY <3>1, <3>3, <4>1
        <4> QED
          BY <4>2
      <3> QED
        BY <1>1, <3>1, <3>2, <3>3
    <2> HIDE DEF F
    <2> QED
      BY <2>1, <2>2
  <1> HIDE DEF F
  <1> QED
    BY <1>5, <1>8, <1>9

\* The blocks above x told in order.
LEMMA TellTold ==
    ASSUME NEW y \in Block, ChainValid(y), NEW x \in Ancestors[y],
           NEW v, WalletType(v), Heard(v, x), NEW fUpdate \in BOOLEAN, Updates(fUpdate)
    PROVE  Told(v, TellBlocks(v, After(x, y), fUpdate), Above(x, y))
  <1> DEFINE p == After(x, y)
             N == Len(p)
             At(n) == IF n = 0 THEN x ELSE p[n]
  <1>1. /\ p \in Seq(Block) /\ N \in Nat /\ At(N) = y
        /\ \A n \in 1 .. N : /\ p[n] \in Block \ {Genesis} /\ p[n] \in Ancestors[y]
                             /\ Prev[p[n]] = IF n = 1 THEN x ELSE p[n - 1]
    BY AfterSteps
  <1> HIDE DEF p
  <1>2. PICK q : /\ q[0] = v /\ TellBlocks(v, p, fUpdate) = q[N]
                 /\ \A n \in 1 .. N : q[n] = TellBlock(q[n - 1], p[n], fUpdate)
    BY <1>1, TellBlocksRuns
  <1> DEFINE S == {n \in 0 .. N : x \in Ancestors[At(n)] /\ Told(v, q[n], Above(x, At(n)))}
  <1>3. 0 \in S
    <2>1. Above(x, x) = {}
      BY DEF Above
    <2>2. Told(v, v, {})
      BY DEF Told
    <2>3. x \in Ancestors[x]
      BY AncestorsType
    <2>4. At(0) = x /\ q[0] = v
      BY <1>2
    <2> HIDE DEF At
    <2>5. x \in Ancestors[At(0)] /\ Told(v, q[0], Above(x, At(0)))
      BY <2>1, <2>2, <2>3, <2>4
    <2> QED
      BY <1>1, <2>5
  <1>4. ASSUME NEW n \in 1 .. N, n - 1 \in S PROVE n \in S
    <2>1. /\ p[n] \in Block \ {Genesis} /\ p[n] \in Ancestors[y] /\ n \in 0 .. N
          /\ Prev[p[n]] = At(n - 1) /\ At(n) = p[n]
      BY <1>1
    <2>2. x \in Ancestors[At(n - 1)] /\ Told(v, q[n - 1], Above(x, At(n - 1)))
      <3> HIDE DEF At
      <3> QED
        BY <1>4
    <2>3. ChainValid(p[n])
      BY <2>1, AncestorsTrans DEF ChainValid
    <2>4. q[n] = TellBlock(q[n - 1], p[n], fUpdate)
      BY <1>2
    <2> HIDE DEF At
    <2>5. Told(v, q[n], Above(x, p[n]))
      BY <2>1, <2>2, <2>3, <2>4, TellBlockTold
    <2>6. x \in Ancestors[p[n]]
      BY <2>1, <2>2, AncestorsPrev
    <2> QED
      BY <2>1, <2>5, <2>6
  <1>5. N \in S
    <2> HIDE DEF S, N
    <2>1. \A i \in 0 .. N : i \in S
      BY <1>1, <1>3, <1>4, UpTo
    <2> QED
      BY <1>1, <2>1
  <1>6. At(N) = y
    BY <1>1
  <1> HIDE DEF At
  <1> QED
    BY <1>2, <1>5, <1>6 DEF p
-----------------------------------------------------------------------------
\* The chain's transactions are under their blocks.
Placed(v, b) ==
    \A a \in Ancestors[b] : \A t \in Range(Txs[a]) : Involves(t) => v.hashBlock[t] = a

\* The transactions above x are none of those below.
LEMMA AboveIs ==
    ASSUME NEW y \in Block, ChainValid(y), NEW x \in Ancestors[y]
    PROVE  /\ \A a \in Ancestors[y] \ Ancestors[x] : \A t \in Range(Txs[a]) : <<a, t>> \in Above(x, y)
           /\ \A t \in ChainTx[x] : \A e \in Above(x, y) : e[2] # t
           /\ \A e \in Above(x, y) : e[2] \in ChainTx[y] /\ e[2] \in Tx
  <1>1. x \in Block
    BY AncestorsType
  <1>2. ASSUME NEW a \in Ancestors[y] \ Ancestors[x], NEW t \in Range(Txs[a]) PROVE <<a, t>> \in Above(x, y)
    <2>1. a \in Block
      BY AncestorsType
    <2>2. t \in Tx
      BY <2>1, ChainTxStep, AncestorsType
    <2> QED
      BY <2>1, <2>2 DEF Above
  <1>3. ASSUME NEW t \in ChainTx[x], NEW e \in Above(x, y), e[2] = t PROVE FALSE
    <2>1. PICK a \in Ancestors[x] : t \in Range(Txs[a])
      BY <1>1, ChainTxStep
    <2>2. a \in Ancestors[y]
      BY <2>1, AncestorsTrans
    <2>3. e[1] \in Ancestors[y] /\ e[1] \notin Ancestors[x] /\ t \in Range(Txs[e[1]])
      BY <1>3 DEF Above
    <2> QED
      BY <2>1, <2>2, <2>3, TxOnce
  <1>4. \A e \in Above(x, y) : e[2] \in ChainTx[y] /\ e[2] \in Tx
    BY ChainTxStep DEF Above
  <1> QED
    BY <1>2, <1>3, <1>4

\* A wallet that is right about the chain to x and told of the blocks above is right
\* about the chain to y: it has the transactions ...
LEMMA ToldHeard ==
    ASSUME NEW y \in Block, ChainValid(y), NEW x \in Ancestors[y], NEW v, NEW u, Told(v, u, Above(x, y)), Heard(v, x)
    PROVE  Heard(u, y)
  <1> SUFFICES ASSUME NEW a \in Ancestors[y], NEW t \in Range(Txs[a]), Involves(t) PROVE t \in DOMAIN u.hashBlock
    BY DEF Heard
  <1>1. CASE a \in Ancestors[x]
    <2>1. t \in DOMAIN v.hashBlock
      BY <1>1 DEF Heard
    <2> QED
      BY <2>1 DEF Told
  <1>2. CASE a \notin Ancestors[x]
    <2>1. <<a, t>> \in Above(x, y)
      BY <1>2, AboveIs
    <2> QED
      BY <2>1 DEF Told
  <1> QED
    BY <1>1, <1>2

\* ... under their blocks.
LEMMA ToldPlaced ==
    ASSUME NEW y \in Block, ChainValid(y), NEW x \in Ancestors[y], NEW v, NEW u, Told(v, u, Above(x, y)),
           Heard(v, x), Placed(v, x)
    PROVE  Placed(u, y)
  <1> SUFFICES ASSUME NEW a \in Ancestors[y], NEW t \in Range(Txs[a]), Involves(t) PROVE u.hashBlock[t] = a
    BY DEF Placed
  <1>1. CASE a \in Ancestors[x]
    <2>1. t \in DOMAIN v.hashBlock /\ v.hashBlock[t] = a
      BY <1>1 DEF Heard, Placed
    <2>2. t \in ChainTx[x]
      BY <1>1, AncestorsType, ChainTxStep
    <2>3. \A e \in Above(x, y) : e[2] # t
      BY <2>2, AboveIs
    <2> QED
      BY <2>1, <2>3 DEF Told
  <1>2. CASE a \notin Ancestors[x]
    <2>1. <<a, t>> \in Above(x, y)
      BY <1>2, AboveIs
    <2> QED
      BY <2>1 DEF Told
  <1> QED
    BY <1>1, <1>2

-----------------------------------------------------------------------------
\* The whole chain is what comes after Genesis.
LEMMA PathIsAfter ==
    ASSUME NEW b \in Block
    PROVE  PathTo[b] = After(Genesis, b)
  <1>1. nHeight(Genesis) = 0 /\ nHeight(b) \in Nat
    BY HeightStep, HeightNat, TreeAssumption
  <1>2. PathTo[b] \in Seq(Block) /\ Len(PathTo[b]) = nHeight(b)
    BY PathIsChain
  <1> DEFINE p == PathTo[b]
  <1> HIDE DEF p
  <1>3. p \in Seq(Block) => SubSeq(p, 1, Len(p)) = p
    OBVIOUS
  <1> QED
    BY <1>1, <1>2, <1>3 DEF After, p

\* What the index says is spent is an output of t that pays the wallet.
LEMMA IndexSpentIs ==
    ASSUME best \in Block, NEW t, NEW o \in IndexSpent(t)
    PROVE  o \in Mine /\ o \in ChainSpent[best] /\ o[1] = t
  <1>1. CASE t \in ChainTx[best]
    BY <1>1 DEF IndexSpent, Outs
  <1>2. CASE t \notin ChainTx[best] /\ t \in Coin
    BY <1>2 DEF IndexSpent
  <1>3. CASE t \notin ChainTx[best] /\ t \notin Coin
    BY <1>3 DEF IndexSpent
  <1> QED
    BY <1>1, <1>2, <1>3

\* One pass over mapWallet.
LEMMA MarkEffect ==
    ASSUME best \in Block, NEW v, WalletType(v)
    PROVE  LET u == MarkByIndex(v)
           IN  /\ WalletType(u) /\ u.hashBlock = v.hashBlock /\ v.spent \subseteq u.spent
               /\ \A t \in DOMAIN v.hashBlock \ Skipped(v) : IndexSpent(t) \subseteq u.spent
               /\ \A o \in u.spent : o \in v.spent \/ (o \in Mine /\ o \in ChainSpent[best])
               /\ u.spent = v.spent \cup UNION {IndexSpent(t) : t \in DOMAIN v.hashBlock \ Skipped(v)}
  <1> DEFINE u == MarkByIndex(v)
             X == v.spent \cup UNION {IndexSpent(t) : t \in DOMAIN v.hashBlock \ Skipped(v)}
  <1>1. u = [v EXCEPT !.spent = X]
    BY DEF MarkByIndex
  <1>2. v = [hashBlock |-> v.hashBlock, spent |-> v.spent]
    BY DEF WalletType
  <1>3. \A o \in X : o \in v.spent \/ \E t \in DOMAIN v.hashBlock : o \in IndexSpent(t)
    OBVIOUS
  <1>4. v.spent \subseteq X /\ \A t \in DOMAIN v.hashBlock \ Skipped(v) : IndexSpent(t) \subseteq X
    OBVIOUS
  <1>5. X = v.spent \cup UNION {IndexSpent(t) : t \in DOMAIN v.hashBlock \ Skipped(v)}
    OBVIOUS
  <1> HIDE DEF u, X
  <1>6. u.hashBlock = v.hashBlock /\ u.spent = X /\ u = [hashBlock |-> u.hashBlock, spent |-> u.spent]
    BY <1>1, <1>2
  <1>7. \A o \in X : o \in Mine /\ o[1] \in DOMAIN v.hashBlock /\ (o \in v.spent \/ o \in ChainSpent[best])
    BY <1>3, IndexSpentIs DEF WalletType
  <1>8. WalletType(u)
    BY <1>6, <1>7 DEF WalletType
  <1> QED
    BY <1>4, <1>5, <1>6, <1>7, <1>8 DEF u

\* A second pass flags nothing more.
LEMMA MarkTwice ==
    ASSUME best \in Block, NEW v, WalletType(v)
    PROVE  MarkByIndex(MarkByIndex(v)) = MarkByIndex(v)
  <1> DEFINE m == MarkByIndex(v)
             r == MarkByIndex(m)
  <1>1. /\ WalletType(m) /\ m.hashBlock = v.hashBlock /\ v.spent \subseteq m.spent
        /\ \A t \in DOMAIN v.hashBlock \ Skipped(v) : IndexSpent(t) \subseteq m.spent
    BY MarkEffect
  <1> HIDE DEF m
  <1>2. /\ WalletType(r) /\ r.hashBlock = m.hashBlock /\ m.spent \subseteq r.spent
        /\ r.spent = m.spent \cup UNION {IndexSpent(t) : t \in DOMAIN m.hashBlock \ Skipped(m)}
    BY <1>1, MarkEffect
  <1> HIDE DEF r
  <1>3. Skipped(v) \subseteq Skipped(m)
    BY <1>1 DEF Skipped
  <1>4. \A t \in DOMAIN m.hashBlock \ Skipped(m) : IndexSpent(t) \subseteq m.spent
    BY <1>1, <1>3
  <1>5. r.spent = m.spent
    BY <1>2, <1>4
  <1>6. r = [hashBlock |-> r.hashBlock, spent |-> r.spent] /\ m = [hashBlock |-> m.hashBlock, spent |-> m.spent]
    BY <1>1, <1>2 DEF WalletType
  <1>7. r = m
    BY <1>2, <1>5, <1>6
  <1> QED
    BY <1>7 DEF r, m

\* u is wallet m after a scan for missing transactions that came across those of C: what
\* is new is so in mapWallet, the spenders in C of m's coins are there, and a new flag
\* has a spender in the chain to b.
Scanned(m, u, C, b) ==
    /\ WalletType(u) /\ DOMAIN m.hashBlock \subseteq DOMAIN u.hashBlock
    /\ DOMAIN u.hashBlock \subseteq DOMAIN m.hashBlock \cup Tx
    /\ u = m \/ ~(DOMAIN u.hashBlock \subseteq DOMAIN m.hashBlock)
    /\ \A x \in C : Debits(m, x) # {} => x \in DOMAIN u.hashBlock
    /\ \A o \in u.spent : o \in m.spent \/ \E t \in DOMAIN u.hashBlock \cap Tx : o \in Ins[t] /\ t \in ChainTx[b]

\* One more transaction of the chain.
LEMMA AddScanned ==
    ASSUME NEW b \in Block, NEW m, NEW u, NEW C, Scanned(m, u, C, b), NEW t \in Tx, t \in ChainTx[b],
           NEW a \in Block, NEW fUpdate \in BOOLEAN, ~Updates(fUpdate)
    PROVE  Scanned(m, AddIfInvolvingMe(u, t, a, fUpdate), C \cup {t}, b)
  <1> DEFINE r == AddIfInvolvingMe(u, t, a, fUpdate)
             c == AddToWallet(u, t, a)
             told == Outs(t) \cap Mine # {} \/ IsFromMe(u, t)
  <1>1. /\ WalletType(u) /\ DOMAIN m.hashBlock \subseteq DOMAIN u.hashBlock
        /\ DOMAIN u.hashBlock \subseteq DOMAIN m.hashBlock \cup Tx
        /\ u = m \/ ~(DOMAIN u.hashBlock \subseteq DOMAIN m.hashBlock)
        /\ \A x \in C : Debits(m, x) # {} => x \in DOMAIN u.hashBlock
    BY DEF Scanned
  <1>2. \A o \in u.spent : o \in m.spent \/ \E x \in DOMAIN u.hashBlock \cap Tx : o \in Ins[x] /\ x \in ChainTx[b]
    BY DEF Scanned
  <1>3. Debits(m, t) \subseteq Debits(u, t)
    BY <1>1 DEF Debits
  <1>4. r = IF t \in DOMAIN u.hashBlock THEN u ELSE IF told THEN c ELSE WalletUpdateSpent(u, t, FALSE)
    BY DEF AddIfInvolvingMe, Updates
  <1>5. CASE t \in DOMAIN u.hashBlock
    <2>1. r = u
      BY <1>4, <1>5
    <2> HIDE DEF r, c, told
    <2>2. Scanned(m, u, C \cup {t}, b)
      BY <1>1, <1>2, <1>5 DEF Scanned
    <2> QED
      BY <2>1, <2>2 DEF r
  <1>6. CASE t \notin DOMAIN u.hashBlock /\ told
    <2>1. r = c
      BY <1>4, <1>6
    <2>2. /\ WalletType(c)
          /\ DOMAIN c.hashBlock = DOMAIN u.hashBlock \cup {t}
          /\ c.spent = (u.spent \cup {o \in Ins[t] \cap Mine : o[1] \in DOMAIN c.hashBlock})
                           \ (IF a # None THEN Outs(t) \cap Mine ELSE {})
      BY <1>1, AddToWalletEffect
    <2> HIDE DEF r, c, told
    <2>3. \A o \in r.spent : o \in u.spent \/ o \in Ins[t]
      BY <2>1, <2>2
    <2>4. WalletType(r) /\ DOMAIN r.hashBlock = DOMAIN u.hashBlock \cup {t}
      BY <2>1, <2>2
    <2>5. /\ DOMAIN m.hashBlock \subseteq DOMAIN r.hashBlock
          /\ DOMAIN r.hashBlock \subseteq DOMAIN m.hashBlock \cup Tx
          /\ ~(DOMAIN r.hashBlock \subseteq DOMAIN m.hashBlock)
          /\ \A x \in C \cup {t} : Debits(m, x) # {} => x \in DOMAIN r.hashBlock
      BY <1>1, <1>6, <2>4
    <2>6. ASSUME NEW o \in r.spent
          PROVE  o \in m.spent \/ \E x \in DOMAIN r.hashBlock \cap Tx : o \in Ins[x] /\ x \in ChainTx[b]
      <3>1. CASE o \in u.spent
        BY <1>2, <2>4, <3>1
      <3>2. CASE o \in Ins[t]
        BY <2>4, <3>2
      <3> QED
        BY <2>3, <3>1, <3>2
    <2>7. Scanned(m, r, C \cup {t}, b)
      BY <2>4, <2>5, <2>6 DEF Scanned
    <2> QED
      BY <2>7 DEF r
  <1>7. CASE t \notin DOMAIN u.hashBlock /\ ~told
    <2>1. Debits(u, t) = {} /\ Debits(m, t) = {}
      BY <1>3, <1>7 DEF IsFromMe
    <2>2. r = WalletUpdateSpent(u, t, FALSE)
      BY <1>4, <1>7
    <2> HIDE DEF r, c, told
    <2>3. /\ r = [hashBlock |-> r.hashBlock, spent |-> r.spent]
          /\ r.hashBlock = u.hashBlock /\ r.spent = u.spent \cup Debits(u, t)
      BY <1>1, <2>2, UpdateSpentLoose
    <2>4. u = [hashBlock |-> u.hashBlock, spent |-> u.spent] /\ r.spent = u.spent
      BY <1>1, <2>1, <2>3 DEF WalletType
    <2>5. r = u
      BY <2>3, <2>4
    <2>6. Scanned(m, u, C \cup {t}, b)
      BY <1>1, <1>2, <2>1 DEF Scanned
    <2> QED
      BY <2>5, <2>6 DEF r
  <1> QED
    BY <1>5, <1>6, <1>7

\* One more block.
LEMMA TellBlockScanned ==
    ASSUME NEW b \in Block, NEW a \in Ancestors[b], a # Genesis, NEW m, NEW v, Scanned(m, v, ChainTx[Prev[a]], b),
           NEW fUpdate \in BOOLEAN, ~Updates(fUpdate)
    PROVE  Scanned(m, TellBlock(v, a, fUpdate), ChainTx[a], b)
  <1> DEFINE N == Len(Txs[a])
             u == TellBlock(v, a, fUpdate)
             Upto(n) == ChainTx[Prev[a]] \cup {Txs[a][j] : j \in 1 .. n}
             G == [n \in 0 .. N |-> {r \in Wallets : Scanned(m, r, Upto(n), b)}]
  <1>1. a \in Block /\ WalletType(v)
    BY AncestorsType DEF Scanned
  <1>2. N \in Nat /\ DOMAIN Txs[a] = 1 .. N /\ v \in Wallets
    BY <1>1, WalletAssumption, WalletsAre
  <1>3. v \in G[0]
    <2>1. Upto(0) = ChainTx[Prev[a]]
      OBVIOUS
    <2> HIDE DEF Upto
    <2> QED
      BY <1>2, <2>1
  <1>4. ASSUME NEW n \in 1 .. N, NEW r \in G[n - 1] PROVE AddIfInvolvingMe(r, Txs[a][n], a, fUpdate) \in G[n]
    <2> DEFINE t == Txs[a][n]
               s == AddIfInvolvingMe(r, t, a, fUpdate)
    <2>1. n - 1 \in 0 .. N /\ n \in 0 .. N
      BY <1>2
    <2>2. Scanned(m, r, Upto(n - 1), b)
      <3> HIDE DEF Upto
      <3> QED
        BY <1>4, <2>1
    <2>3. t \in Range(Txs[a])
      BY <1>2 DEF Range
    <2>4. t \in ChainTx[b] /\ t \in Tx
      BY <2>3, ChainTxStep
    <2>5. Upto(n) = Upto(n - 1) \cup {t}
      <3>1. \A j : j \in 1 .. n <=> j \in 1 .. n - 1 \/ j = n
        BY <1>2
      <3> QED
        BY <3>1
    <2> HIDE DEF t, Upto
    <2>6. Scanned(m, s, Upto(n), b)
      BY <1>1, <2>2, <2>4, <2>5, AddScanned
    <2> HIDE DEF s
    <2>7. s \in Wallets
      BY <2>6, WalletsAre DEF Scanned
    <2> QED
      BY <2>1, <2>6, <2>7 DEF s, t
  <1>5. Upto(N) = ChainTx[a]
    <2>1. Upto(N) = ChainTx[Prev[a]] \cup Range(Txs[a])
      BY <1>2 DEF Range
    <2> HIDE DEF Upto
    <2> QED
      BY <1>1, <2>1, ChainTxStep
  <1> HIDE DEF G, Upto
  <1>6. u \in G[N]
    BY <1>1, <1>3, <1>4, TellBlockSteps
  <1> HIDE DEF u, N
  <1>7. Scanned(m, u, ChainTx[a], b)
    BY <1>2, <1>5, <1>6 DEF G
  <1> QED
    BY <1>7 DEF u

\* A scan of the whole chain for missing transactions adds to mapWallet unless it does
\* nothing, and finds the spenders of the coins that the chain has spent.
LEMMA ScanJustifies ==
    ASSUME NEW b \in Block, NEW m, WalletType(m), NEW fUpdate \in BOOLEAN, ~Updates(fUpdate)
    PROVE  LET u == TellBlocks(m, PathTo[b], fUpdate)
           IN  /\ WalletType(u) /\ DOMAIN m.hashBlock \subseteq DOMAIN u.hashBlock
               /\ DOMAIN u.hashBlock \subseteq DOMAIN m.hashBlock \cup Tx
               /\ u = m \/ ~(DOMAIN u.hashBlock \subseteq DOMAIN m.hashBlock)
               /\ (\A o \in m.spent :
                     \/ \E t \in DOMAIN m.hashBlock \cap Tx : o \in Ins[t] /\ (t \in ChainTx[b] \/ t \notin Stake)
                     \/ o \in ChainSpent[b]) => Justified(u, b)
  <1> DEFINE p == After(Genesis, b)
             N == Len(p)
             At(n) == IF n = 0 THEN Genesis ELSE p[n]
             u == TellBlocks(m, p, fUpdate)
             G == [n \in 0 .. N |-> {r \in Wallets : Scanned(m, r, ChainTx[At(n)], b)}]
  <1>1. Genesis \in Ancestors[b] /\ PathTo[b] = p
    BY TreeAssumption, PathIsAfter
  <1>2. /\ p \in Seq(Block) /\ N \in Nat /\ At(N) = b
        /\ \A n \in 1 .. N : /\ p[n] \in Block \ {Genesis} /\ p[n] \in Ancestors[b]
                             /\ Prev[p[n]] = IF n = 1 THEN Genesis ELSE p[n - 1]
    BY <1>1, AfterSteps
  <1> HIDE DEF p
  <1>3. ASSUME NEW n \in 1 .. N PROVE Prev[p[n]] = At(n - 1) /\ At(n) = p[n] /\ n - 1 \in 0 .. N /\ n \in 0 .. N
    BY <1>2
  <1>4. m \in Wallets /\ 0 \in 0 .. N /\ N \in 0 .. N /\ At(0) = Genesis
    BY <1>2, WalletsAre
  <1> HIDE DEF At
  <1>5. m \in G[0]
    <2>1. Scanned(m, m, {}, b)
      BY DEF Scanned
    <2>2. ChainTx[At(0)] = {}
      BY <1>4, ChainTxStep
    <2> HIDE DEF N
    <2>3. G[0] = {r \in Wallets : Scanned(m, r, ChainTx[At(0)], b)}
      BY <1>4
    <2> QED
      BY <1>4, <2>1, <2>2, <2>3
  <1>6. ASSUME NEW n \in 1 .. N, NEW r \in G[n - 1] PROVE TellBlock(r, p[n], fUpdate) \in G[n]
    <2> DEFINE s == TellBlock(r, p[n], fUpdate)
    <2>1. Scanned(m, r, ChainTx[Prev[p[n]]], b)
      BY <1>3, <1>6
    <2>2. Scanned(m, s, ChainTx[p[n]], b)
      BY <1>2, <2>1, TellBlockScanned
    <2> HIDE DEF s
    <2>3. s \in Wallets
      BY <2>2, WalletsAre DEF Scanned
    <2> QED
      BY <1>3, <2>2, <2>3 DEF s
  <1> HIDE DEF G
  <1>7. u \in G[N]
    BY <1>2, <1>5, <1>6, TellBlocksSteps
  <1> HIDE DEF u, N
  <1>8. Scanned(m, u, ChainTx[b], b)
    BY <1>2, <1>4, <1>7 DEF G
  <1>9. ASSUME \A o \in m.spent :
                  \/ \E t \in DOMAIN m.hashBlock \cap Tx : o \in Ins[t] /\ (t \in ChainTx[b] \/ t \notin Stake)
                  \/ o \in ChainSpent[b]
        PROVE  Justified(u, b)
    <2> SUFFICES ASSUME NEW o \in u.spent
                 PROVE  \E t \in DOMAIN u.hashBlock \cap Tx : o \in Ins[t] /\ (t \in ChainTx[b] \/ t \notin Stake)
      BY DEF Justified, JustifiedBy
    <2>1. CASE o \notin m.spent
      BY <1>8, <2>1 DEF Scanned
    <2>2. CASE o \in m.spent /\ o \notin ChainSpent[b]
      BY <1>8, <1>9, <2>2 DEF Scanned
    <2>3. CASE o \in m.spent /\ o \in ChainSpent[b]
      <3>1. PICK t \in ChainTx[b] : o \in Ins[t]
        BY <2>3 DEF ChainSpent
      <3>2. o \in Mine /\ t \in Tx /\ o[1] \in DOMAIN m.hashBlock
        BY <2>3, <3>1, ChainTxStep DEF WalletType
      <3>3. t \in DOMAIN u.hashBlock
        BY <1>8, <3>1, <3>2 DEF Scanned, Debits
      <3> QED
        BY <3>1, <3>2, <3>3
    <2> QED
      BY <2>1, <2>2, <2>3
  <1>10. /\ WalletType(u) /\ DOMAIN m.hashBlock \subseteq DOMAIN u.hashBlock
         /\ DOMAIN u.hashBlock \subseteq DOMAIN m.hashBlock \cup Tx
         /\ u = m \/ ~(DOMAIN u.hashBlock \subseteq DOMAIN m.hashBlock)
    BY <1>8 DEF Scanned
  <1>11. u = TellBlocks(m, PathTo[b], fUpdate)
    BY <1>1 DEF u
  <1> QED
    BY <1>9, <1>10, <1>11
-----------------------------------------------------------------------------
\* A pool value: two maps over transactions.
PoolType(p) ==
    /\ p.mapTx \subseteq Tx
    /\ p.mapNextTx \in [DOMAIN p.mapNextTx -> Tx]

\* The transactions of S spend pairwise different outputs.
ConflictFree(S) == \A t, u \in S : t # u => Ins[t] \cap Ins[u] = {}
-----------------------------------------------------------------------------
\* addUnchecked() of a transaction without conflicts keeps the maps in step.
LEMMA AddKeeps ==
    ASSUME NEW p, PoolType(p), Consistent(p), NEW t \in Tx,
           Ins[t] \cap DOMAIN p.mapNextTx = {}
    PROVE  /\ PoolType(AddUnchecked(p, t))
           /\ Consistent(AddUnchecked(p, t))
           /\ AddUnchecked(p, t).mapTx = p.mapTx \cup {t}
BY DEF PoolType, Consistent, AddUnchecked

\* remove() of any transactions keeps the maps in step.
LEMMA RemoveKeeps ==
    ASSUME NEW p, PoolType(p), Consistent(p), NEW S
    PROVE  /\ PoolType(RemoveTx(p, S))
           /\ Consistent(RemoveTx(p, S))
           /\ RemoveTx(p, S).mapTx = p.mapTx \ S
<1> DEFINE gone == DOMAIN p.mapNextTx \cap UNION {Ins[t] : t \in S \cap p.mapTx}
<1> DEFINE q == RemoveTx(p, S)
<1>1. /\ q.mapTx = p.mapTx \ S
      /\ q.mapNextTx = [o \in DOMAIN p.mapNextTx \ gone |-> p.mapNextTx[o]]
    BY DEF RemoveTx
<1>2. ASSUME NEW t \in p.mapTx \ S, NEW o \in Ins[t]
      PROVE  o \in DOMAIN p.mapNextTx /\ o \notin gone /\ p.mapNextTx[o] = t
    BY DEF Consistent
<1>3. ASSUME NEW o \in DOMAIN p.mapNextTx, o \notin gone
      PROVE  \E t \in p.mapTx \ S : o \in Ins[t]
    <2>1. PICK t \in p.mapTx : o \in Ins[t]
        BY DEF Consistent
    <2>2. t \notin S
        BY <2>1, <1>3
    <2>3. QED
        BY <2>1, <2>2
<1>4. DOMAIN q.mapNextTx = UNION {Ins[t] : t \in q.mapTx}
    <2>1. DOMAIN q.mapNextTx = DOMAIN p.mapNextTx \ gone
        BY <1>1
    <2> HIDE DEF q, gone
    <2>2. QED
        BY <2>1, <1>1, <1>2, <1>3
<1>5. \A t \in q.mapTx : \A o \in Ins[t] : q.mapNextTx[o] = t
    <2> HIDE DEF q, gone
    <2>1. QED
        BY <1>1, <1>2
<1>6. PoolType(q)
    BY <1>1 DEF PoolType
<1>7. QED
    BY <1>1, <1>4, <1>5, <1>6 DEF Consistent

\* The transactions resurrected into the pool keep the maps in step.
LEMMA ResurrectKeeps ==
    ASSUME NEW p, PoolType(p), Consistent(p), NEW S \in SUBSET Tx, ConflictFree(S)
    PROVE  /\ PoolType(Resurrect(p, S))
           /\ Consistent(Resurrect(p, S))
           /\ Resurrect(p, S).mapTx \subseteq p.mapTx \cup S
<1> DEFINE in == {t \in S \ p.mapTx : Ins[t] \cap DOMAIN p.mapNextTx = {}}
<1> DEFINE ins == UNION {Ins[t] : t \in in}
<1> DEFINE who(o) == CHOOSE t \in in : o \in Ins[t]
<1> DEFINE q == Resurrect(p, S)
<1>1. /\ q.mapTx = p.mapTx \cup in
      /\ q.mapNextTx = [o \in DOMAIN p.mapNextTx \cup ins |->
                           IF o \in ins THEN who(o) ELSE p.mapNextTx[o]]
    BY DEF Resurrect
<1>2. ASSUME NEW t \in in, NEW o \in Ins[t]
      PROVE  o \in ins /\ who(o) = t
    <2>1. \A u \in in : o \in Ins[u] => u = t
        BY <1>2 DEF ConflictFree
    <2>2. QED
        BY <2>1, <1>2
<1>3. \A o \in ins : o \notin DOMAIN p.mapNextTx
    OBVIOUS
<1>4. \A o \in ins : who(o) \in in
    BY <1>2
<1>5. in \subseteq Tx /\ in \subseteq S
    OBVIOUS
<1>6. DOMAIN q.mapNextTx = DOMAIN p.mapNextTx \cup ins
    BY <1>1
<1>6a. ins = UNION {Ins[t] : t \in in}
    OBVIOUS
<1> HIDE DEF q, in, ins, who
<1>7. PoolType(q)
    <2>1. \A o \in DOMAIN p.mapNextTx : p.mapNextTx[o] \in Tx
        BY DEF PoolType
    <2>2. p.mapTx \subseteq Tx
        BY DEF PoolType
    <2>3. q.mapNextTx \in [DOMAIN p.mapNextTx \cup ins -> Tx]
        BY <1>1, <1>4, <1>5, <2>1
    <2>4. QED
        BY <1>1, <1>5, <1>6, <2>2, <2>3 DEF PoolType
<1>8. Consistent(q)
    <2>1. DOMAIN q.mapNextTx = UNION {Ins[t] : t \in q.mapTx}
        BY <1>1, <1>6, <1>6a DEF Consistent
    <2>2. ASSUME NEW t \in q.mapTx, NEW o \in Ins[t] PROVE q.mapNextTx[o] = t
        <3>1. CASE t \in in
            BY <1>1, <1>2, <3>1
        <3>2. CASE t \in p.mapTx
            <4>1. o \in DOMAIN p.mapNextTx /\ p.mapNextTx[o] = t
                BY <3>2 DEF Consistent
            <4>2. o \notin ins
                BY <1>3, <4>1
            <4>3. QED
                BY <1>1, <4>1, <4>2
        <3>3. QED
            BY <1>1, <3>1, <3>2
    <2>3. QED
        BY <2>1, <2>2 DEF Consistent
<1>9. QED
    BY <1>1, <1>5, <1>7, <1>8 DEF q

\* removeConflicts() keeps the maps in step and adds nothing.
LEMMA RemoveConflictsKeeps ==
    ASSUME NEW p, PoolType(p), Consistent(p), NEW S
    PROVE  /\ PoolType(RemoveConflicts(p, S))
           /\ Consistent(RemoveConflicts(p, S))
           /\ RemoveConflicts(p, S).mapTx \subseteq p.mapTx
  <1>1. PICK D : RemoveConflicts(p, S) = RemoveTx(p, D)
    BY DEF RemoveConflicts, RemoveRecursive
  <1> QED
    BY <1>1, RemoveKeeps

\* The pools in step whose transactions are none of C.
Pools(C) ==
    {p \in [mapTx : SUBSET (Tx \ C), mapNextTx : UNION {[D -> Tx] : D \in SUBSET Outpoint}] :
        PoolType(p) /\ Consistent(p)}

\* The pool of a start is one.
LEMMA EmptyPoolGood ==
    ASSUME NEW C
    PROVE  EmptyPool \in Pools(C)
  <1> DEFINE e == [o \in {} |-> o]
  <1>1. e \in [{} -> Tx] /\ DOMAIN e = {}
    OBVIOUS
  <1>2. e \in UNION {[D -> Tx] : D \in SUBSET Outpoint}
    BY <1>1
  <1> HIDE DEF e
  <1>3. EmptyPool.mapTx = {} /\ EmptyPool.mapNextTx = e
    BY DEF EmptyPool, e
  <1>4. EmptyPool \in [mapTx : SUBSET (Tx \ C), mapNextTx : UNION {[D -> Tx] : D \in SUBSET Outpoint}]
    BY <1>2 DEF EmptyPool, e
  <1>5. PoolType(EmptyPool) /\ Consistent(EmptyPool)
    BY <1>1, <1>3 DEF PoolType, Consistent
  <1> QED
    BY <1>4, <1>5 DEF Pools

\* accept() keeps the pool in step and lets nothing in that the chain holds.
LEMMA TryAcceptKeeps ==
    ASSUME best \in Block, NEW p \in Pools(ChainTx[best]), NEW t \in Tx
    PROVE  TryAccept(p, t) \in Pools(ChainTx[best])
  <1> DEFINE C == ChainTx[best]
             q == AddUnchecked(p, t)
  <1>1. CASE ~Accepts(p, t)
    BY <1>1 DEF TryAccept
  <1>2. CASE Accepts(p, t)
    <2>1. TryAccept(p, t) = q
      BY <1>2 DEF TryAccept
    <2>2. t \notin C /\ Ins[t] \cap DOMAIN p.mapNextTx = {}
      BY <1>2 DEF Accepts
    <2>3. PoolType(p) /\ Consistent(p) /\ p.mapTx \in SUBSET (Tx \ C)
      BY DEF Pools
    <2>4. PoolType(q) /\ Consistent(q) /\ q.mapTx = p.mapTx \cup {t}
      BY <2>2, <2>3, AddKeeps
    <2>5. q = [mapTx |-> q.mapTx, mapNextTx |-> q.mapNextTx]
      BY DEF AddUnchecked
    <2> HIDE DEF q, C
    <2>6. q.mapTx \in SUBSET (Tx \ C)
      BY <2>2, <2>3, <2>4
    <2>7. q.mapNextTx \in [DOMAIN q.mapNextTx -> Tx] /\ DOMAIN q.mapNextTx = UNION {Ins[x] : x \in q.mapTx}
      BY <2>4 DEF PoolType, Consistent
    <2>8. DOMAIN q.mapNextTx \in SUBSET Outpoint
      BY <2>6, <2>7, TxAssumption
    <2>9. q \in [mapTx : SUBSET (Tx \ C), mapNextTx : UNION {[D -> Tx] : D \in SUBSET Outpoint}]
      BY <2>5, <2>6, <2>7, <2>8
    <2> QED
      BY <2>1, <2>4, <2>9 DEF Pools, C
  <1> QED
    BY <1>1, <1>2

\* Transactions offered in order keep it so.
LEMMA OfferAllKeeps ==
    ASSUME best \in Block, NEW p \in Pools(ChainTx[best]), NEW order \in Seq(Tx)
    PROVE  OfferAll(p, order) \in Pools(ChainTx[best])
  <1> DEFINE N == Len(order)
             X == Pools(ChainTx[best])
             g == [n \in 1 .. N |-> [x \in X |-> TryAccept(x, order[n])]]
             Rec(f) == f = [n \in 0 .. N |-> IF n = 0 THEN p ELSE TryAccept(f[n - 1], order[n])]
  <1>1. N \in Nat /\ p \in X
    OBVIOUS
  <1>2. ASSUME NEW n \in 1 .. N, NEW x \in X PROVE TryAccept(x, order[n]) \in X
    <2>1. order[n] \in Tx
      OBVIOUS
    <2> QED
      BY <2>1, TryAcceptKeeps
  <1>3. g \in [1 .. N -> [X -> X]]
    <2> HIDE DEF N, X
    <2> QED
      BY <1>2
  <1>4. PICK q : Loop(q, N, X, p, g)
    <2> HIDE DEF g, N, X
    <2> QED
      BY <1>1, <1>3, Iterates
  <1>5. Rec(q)
    <2> HIDE DEF X, N
    <2>1. ASSUME NEW n \in 0 .. N, n # 0 PROVE q[n] = TryAccept(q[n - 1], order[n])
      <3>1. n \in 1 .. N /\ n - 1 \in 0 .. N
        BY <1>1, <2>1
      <3>2. q[n - 1] \in X /\ q[n] = g[n][q[n - 1]]
        BY <1>4, <3>1 DEF Loop
      <3> QED
        BY <3>1, <3>2
    <2>2. q = [n \in 0 .. N |-> q[n]] /\ q[0] = p
      BY <1>4 DEF Loop
    <2>3. \A n \in 0 .. N : q[n] = IF n = 0 THEN p ELSE TryAccept(q[n - 1], order[n])
      BY <2>1, <2>2
    <2> QED
      BY <2>2, <2>3
  <1> DEFINE f == CHOOSE r : Rec(r)
             S == {n \in 0 .. N : f[n] \in X}
  <1>6. Rec(f)
    <2> HIDE DEF Rec
    <2> QED
      BY <1>5
  <1>7. OfferAll(p, order) = f[N]
    BY DEF OfferAll
  <1> HIDE DEF f, X, N
  <1>8. 0 \in S
    BY <1>1, <1>6
  <1>9. ASSUME NEW n \in 1 .. N, n - 1 \in S PROVE n \in S
    <2>1. n \in 0 .. N /\ n # 0 /\ f[n - 1] \in X
      BY <1>1, <1>9
    <2>2. f[n] = TryAccept(f[n - 1], order[n])
      BY <1>6, <2>1
    <2> QED
      BY <1>2, <2>1, <2>2
  <1>10. \A i \in 0 .. N : i \in S
    <2> HIDE DEF S
    <2> QED
      BY <1>1, <1>8, <1>9, UpTo
  <1> QED
    BY <1>1, <1>7, <1>10 DEF X

\* SetToSeqs lists transactions.
LEMMA Listed ==
    ASSUME NEW S \in SUBSET Tx
    PROVE  \A order \in SetToSeqs(S) : order \in Seq(Tx)
  <1> DEFINE n == Cardinality(S)
  <1>1. IsFiniteSet(S)
    BY WalletAssumption, FS_Subset
  <1>2. n \in Nat
    BY <1>1, FS_CardinalityType
  <1>3. SetToSeqs(S) \subseteq [1 .. n -> S]
    BY DEF SetToSeqs
  <1>4. \A f \in [1 .. n -> S] : f \in [1 .. n -> Tx]
    OBVIOUS
  <1> HIDE DEF n
  <1>5. \A f \in [1 .. n -> Tx] : f \in Seq(Tx)
    BY <1>2
  <1> QED
    BY <1>3, <1>4, <1>5

\* The values of the walk over the ancestors of a transaction.
Walks == [vWorkQueue : Seq(Tx \cup Coin), setAlreadyDone : SUBSET Tx, vtxPrev : Seq(Tx)]

\* A visit leaves one.
LEMMA VisitType ==
    ASSUME NEW q \in Walks
    PROVE  Visit(q) \in Walks
  <1> DEFINE todo == {i \in DOMAIN q.vWorkQueue : q.vWorkQueue[i] \in Tx \ q.setAlreadyDone}
             h == q.vWorkQueue[CHOOSE i \in todo : \A j \in todo : i <= j]
             found == Found(q.setAlreadyDone, h)
             more == IF found /\ SetMerkleBranch(h) < CopyDepth THEN PrevHashes(h) ELSE <<>>
             kept == IF found THEN <<h>> ELSE <<>>
             r == [vWorkQueue     |-> q.vWorkQueue \o more,
                   setAlreadyDone |-> q.setAlreadyDone \cup {h},
                   vtxPrev        |-> q.vtxPrev \o kept]
  <1>1. Visit(q) = IF todo = {} THEN q ELSE r
    BY DEF Visit
  <1>2. q.vWorkQueue \in Seq(Tx \cup Coin) /\ q.setAlreadyDone \in SUBSET Tx /\ q.vtxPrev \in Seq(Tx)
    BY DEF Walks
  <1>3. CASE todo = {}
    BY <1>1, <1>3
  <1>4. CASE todo # {}
    <2>1. todo \in SUBSET Nat
      BY <1>2
    <2>2. h \in Tx
      <3>1. \E i \in todo : \A j \in todo : i <= j
        <4> HIDE DEF todo
        <4> QED
          BY <1>4, <2>1, LeastNat
      <3> DEFINE k == CHOOSE i \in todo : \A j \in todo : i <= j
      <3>2. k \in todo
        <4> HIDE DEF todo
        <4> QED
          BY <3>1
      <3> HIDE DEF k
      <3> QED
        BY <3>2 DEF k
    <2> HIDE DEF todo, h, found
    <2>3. PrevHashes(h) \in Seq(Tx \cup Coin)
      <3>1. Vin[h] \in Seq((Tx \cup Coin) \X Nat)
        BY <2>2, WalletAssumption DEF Outpoint
      <3>2. DOMAIN Vin[h] = 1 .. Len(Vin[h]) /\ Len(Vin[h]) \in Nat /\ \A i \in DOMAIN Vin[h] : Vin[h][i][1] \in Tx \cup Coin
        BY <3>1
      <3> QED
        BY <3>2 DEF PrevHashes
    <2>4. more \in Seq(Tx \cup Coin) /\ kept \in Seq(Tx)
      BY <2>2, <2>3
    <2> HIDE DEF more, kept
    <2>5. r \in Walks
      BY <1>2, <2>2, <2>4 DEF Walks
    <2> HIDE DEF r
    <2> QED
      BY <1>1, <1>4, <2>5
  <1> QED
    BY <1>3, <1>4

\* vtxPrev lists transactions.
LEMMA SupportingType ==
    ASSUME NEW t \in Tx
    PROVE  SupportingTransactions(t) \in Seq(Tx)
  <1> DEFINE N == Cardinality(Tx)
             base == [vWorkQueue |-> PrevHashes(t), setAlreadyDone |-> {}, vtxPrev |-> <<>>]
             g == [n \in 1 .. N |-> [x \in Walks |-> Visit(x)]]
             Rec(f) == f = [n \in 0 .. N |-> IF n = 0 THEN base ELSE Visit(f[n - 1])]
  <1>1. N \in Nat
    BY WalletAssumption, FS_CardinalityType
  <1>2. base \in Walks
    <2>1. Vin[t] \in Seq((Tx \cup Coin) \X Nat)
      BY WalletAssumption DEF Outpoint
    <2>2. DOMAIN Vin[t] = 1 .. Len(Vin[t]) /\ Len(Vin[t]) \in Nat /\ \A i \in DOMAIN Vin[t] : Vin[t][i][1] \in Tx \cup Coin
      BY <2>1
    <2>3. PrevHashes(t) \in Seq(Tx \cup Coin)
      BY <2>2 DEF PrevHashes
    <2> QED
      BY <2>3 DEF Walks
  <1> HIDE DEF base
  <1>3. g \in [1 .. N -> [Walks -> Walks]]
    <2> HIDE DEF N
    <2> QED
      BY VisitType
  <1>4. PICK q : Loop(q, N, Walks, base, g)
    <2> HIDE DEF g, N
    <2> QED
      BY <1>1, <1>2, <1>3, Iterates
  <1>5. Rec(q)
    <2> HIDE DEF N
    <2>1. ASSUME NEW n \in 0 .. N, n # 0 PROVE q[n] = Visit(q[n - 1])
      <3>1. n \in 1 .. N /\ n - 1 \in 0 .. N
        BY <1>1, <2>1
      <3>2. q[n - 1] \in Walks /\ q[n] = g[n][q[n - 1]]
        BY <1>4, <3>1 DEF Loop
      <3> QED
        BY <3>1, <3>2
    <2>2. q = [n \in 0 .. N |-> q[n]] /\ q[0] = base
      BY <1>4 DEF Loop
    <2>3. \A n \in 0 .. N : q[n] = IF n = 0 THEN base ELSE Visit(q[n - 1])
      BY <2>1, <2>2
    <2> QED
      BY <2>2, <2>3
  <1> DEFINE f == CHOOSE r : Rec(r)
             S == {n \in 0 .. N : f[n] \in Walks}
  <1>6. Rec(f)
    <2> HIDE DEF Rec
    <2> QED
      BY <1>5
  <1>7. SupportingTransactions(t) = Reverse(f[N].vtxPrev)
    BY DEF SupportingTransactions, base
  <1> HIDE DEF f, N
  <1>8. 0 \in S
    BY <1>1, <1>2, <1>6
  <1>9. ASSUME NEW n \in 1 .. N, n - 1 \in S PROVE n \in S
    <2>1. n \in 0 .. N /\ n # 0 /\ f[n - 1] \in Walks
      BY <1>1, <1>9
    <2>2. f[n] = Visit(f[n - 1])
      BY <1>6, <2>1
    <2> QED
      BY <2>1, <2>2, VisitType
  <1>10. \A i \in 0 .. N : i \in S
    <2> HIDE DEF S
    <2> QED
      BY <1>1, <1>8, <1>9, UpTo
  <1> DEFINE l == f[N].vtxPrev
  <1>11. l \in Seq(Tx)
    BY <1>1, <1>10 DEF Walks
  <1> HIDE DEF l
  <1>12. Reverse(l) \in Seq(Tx)
    <2>1. Len(l) \in Nat /\ \A i \in 1 .. Len(l) : (Len(l) - i) + 1 \in 1 .. Len(l)
      BY <1>11
    <2>2. \A i \in 1 .. Len(l) : l[(Len(l) - i) + 1] \in Tx
      BY <1>11, <2>1
    <2> QED
      BY <2>1, <2>2 DEF Reverse
  <1> QED
    BY <1>7, <1>12 DEF l

\* AcceptWalletTransaction keeps the pool in step, whatever was saved with t.
LEMMA AcceptWalletKeeps ==
    ASSUME best \in Block, NEW p \in Pools(ChainTx[best]), NEW t \in Tx, NEW prev \in [Tx -> Seq(Tx)]
    PROVE  AcceptWalletTransaction(p, t, prev) \in Pools(ChainTx[best])
  <1>1. prev[t] \in Seq(Tx)
    OBVIOUS
  <1>2. OfferAll(p, prev[t]) \in Pools(ChainTx[best])
    BY <1>1, OfferAllKeeps
  <1> QED
    BY <1>2, TryAcceptKeeps DEF AcceptWalletTransaction

\* So does a start, whatever the order of mapWallet.
LEMMA ResubmitKeeps ==
    ASSUME best \in Block, NEW p \in Pools(ChainTx[best]), NEW order \in Seq(Tx), NEW prev \in [Tx -> Seq(Tx)]
    PROVE  Resubmit(p, order, prev) \in Pools(ChainTx[best])
  <1> DEFINE N == Len(order)
             X == Pools(ChainTx[best])
             g == [n \in 1 .. N |-> [x \in X |-> AcceptWalletTransaction(x, order[n], prev)]]
             Rec(f) == f = [n \in 0 .. N |-> IF n = 0 THEN p ELSE AcceptWalletTransaction(f[n - 1], order[n], prev)]
  <1>1. N \in Nat /\ p \in X
    OBVIOUS
  <1>2. ASSUME NEW n \in 1 .. N, NEW x \in X PROVE AcceptWalletTransaction(x, order[n], prev) \in X
    <2>1. order[n] \in Tx
      OBVIOUS
    <2> QED
      BY <2>1, AcceptWalletKeeps
  <1>3. g \in [1 .. N -> [X -> X]]
    <2> HIDE DEF N, X
    <2> QED
      BY <1>2
  <1>4. PICK q : Loop(q, N, X, p, g)
    <2> HIDE DEF g, N, X
    <2> QED
      BY <1>1, <1>3, Iterates
  <1>5. Rec(q)
    <2> HIDE DEF X, N
    <2>1. ASSUME NEW n \in 0 .. N, n # 0 PROVE q[n] = AcceptWalletTransaction(q[n - 1], order[n], prev)
      <3>1. n \in 1 .. N /\ n - 1 \in 0 .. N
        BY <1>1, <2>1
      <3>2. q[n - 1] \in X /\ q[n] = g[n][q[n - 1]]
        BY <1>4, <3>1 DEF Loop
      <3> QED
        BY <3>1, <3>2
    <2>2. q = [n \in 0 .. N |-> q[n]] /\ q[0] = p
      BY <1>4 DEF Loop
    <2>3. \A n \in 0 .. N : q[n] = IF n = 0 THEN p ELSE AcceptWalletTransaction(q[n - 1], order[n], prev)
      BY <2>1, <2>2
    <2> QED
      BY <2>2, <2>3
  <1> DEFINE f == CHOOSE r : Rec(r)
             S == {n \in 0 .. N : f[n] \in X}
  <1>6. Rec(f)
    <2> HIDE DEF Rec
    <2> QED
      BY <1>5
  <1>7. Resubmit(p, order, prev) = f[N]
    BY DEF Resubmit
  <1> HIDE DEF f, X, N
  <1>8. 0 \in S
    BY <1>1, <1>6
  <1>9. ASSUME NEW n \in 1 .. N, n - 1 \in S PROVE n \in S
    <2>1. n \in 0 .. N /\ n # 0 /\ f[n - 1] \in X
      BY <1>1, <1>9
    <2>2. f[n] = AcceptWalletTransaction(f[n - 1], order[n], prev)
      BY <1>6, <2>1
    <2> QED
      BY <1>2, <2>1, <2>2
  <1>10. \A i \in 0 .. N : i \in S
    <2> HIDE DEF S
    <2> QED
      BY <1>1, <1>8, <1>9, UpTo
  <1> QED
    BY <1>1, <1>7, <1>10 DEF X
-----------------------------------------------------------------------------
\* q is the loop of ReacceptWalletTransactions over wallet v after n turns: each one that
\* goes on has found a missing transaction, and the last flags all that the index has.
Reaccepting(v, q, n) ==
    /\ WalletType(q.w) /\ DOMAIN v.hashBlock \subseteq DOMAIN q.w.hashBlock
    /\ q.pool \in Pools(ChainTx[best])
    /\ q.fRepeat \in BOOLEAN
    /\ Justified(v, best) => Justified(q.w, best)
    /\ Heard(v, best) => q.w = IF q.fRepeat THEN v ELSE MarkByIndex(v)
    /\ ~q.fRepeat => MarkByIndex(q.w) = q.w
    /\ q.fRepeat => Cardinality(DOMAIN q.w.hashBlock \cap Tx) >= n

\* What a turn finds to do: the wallet with the flags of the index, or that scanned for
\* missing transactions.
LEMMA PassFinds ==
    ASSUME best \in Block, NEW v, WalletType(v), NEW fUpdate \in BOOLEAN, ~Updates(fUpdate)
    PROVE  LET m == MarkByIndex(v)
               u == IF m = v THEN m ELSE TellBlocks(m, PathTo[best], fUpdate)
           IN  /\ WalletType(u) /\ m.hashBlock = v.hashBlock
               /\ DOMAIN v.hashBlock \subseteq DOMAIN u.hashBlock
               /\ DOMAIN u.hashBlock \subseteq DOMAIN v.hashBlock \cup Tx
               /\ Justified(v, best) => Justified(u, best)
               /\ DOMAIN u.hashBlock = DOMAIN v.hashBlock => u = m
               /\ Heard(v, best) => u = m
  <1> DEFINE m == MarkByIndex(v)
             t == TellBlocks(m, PathTo[best], fUpdate)
             u == IF m = v THEN m ELSE t
  <1>1. /\ WalletType(m) /\ m.hashBlock = v.hashBlock /\ v.spent \subseteq m.spent
        /\ \A o \in m.spent : o \in v.spent \/ (o \in Mine /\ o \in ChainSpent[best])
    BY MarkEffect
  <1> HIDE DEF m
  <1>2. /\ WalletType(t) /\ DOMAIN m.hashBlock \subseteq DOMAIN t.hashBlock
        /\ DOMAIN t.hashBlock \subseteq DOMAIN m.hashBlock \cup Tx
        /\ t = m \/ ~(DOMAIN t.hashBlock \subseteq DOMAIN m.hashBlock)
    BY <1>1, ScanJustifies
  <1>3. ASSUME Justified(v, best) PROVE Justified(t, best)
    <2>1. ASSUME NEW o \in m.spent
          PROVE  \/ \E x \in DOMAIN m.hashBlock \cap Tx : o \in Ins[x] /\ (x \in ChainTx[best] \/ x \notin Stake)
                 \/ o \in ChainSpent[best]
      BY <1>1, <1>3 DEF Justified, JustifiedBy
    <2> QED
      BY <1>1, <2>1, ScanJustifies
  <1>4. ASSUME Heard(v, best) PROVE t = m
    <2>1. Heard(m, best)
      BY <1>1, <1>4 DEF Heard
    <2> QED
      BY <1>1, <2>1, TellNothing
  <1> HIDE DEF t
  <1>5. CASE m = v
    <2>1. u = m
      BY <1>5
    <2> HIDE DEF u
    <2> QED
      BY <1>1, <1>5, <2>1 DEF u, m, t
  <1>6. CASE m # v
    <2>1. u = t
      BY <1>6
    <2> HIDE DEF u
    <2> QED
      BY <1>1, <1>2, <1>3, <1>4, <2>1 DEF u, m, t
  <1> QED
    BY <1>5, <1>6

\* More transactions, more to count.
LEMMA CountGrows ==
    ASSUME NEW D, NEW F, D \subseteq F, F \subseteq D \cup Tx, F # D, NEW n \in Nat, Cardinality(D \cap Tx) >= n
    PROVE  Cardinality(F \cap Tx) >= n + 1
  <1>1. IsFiniteSet(Tx)
    BY WalletAssumption
  <1>2. IsFiniteSet(D \cap Tx) /\ IsFiniteSet(F \cap Tx)
    BY <1>1, FS_Subset
  <1>3. Cardinality(D \cap Tx) \in Nat /\ Cardinality(F \cap Tx) \in Nat
    BY <1>2, FS_CardinalityType
  <1>4. D \cap Tx \subseteq F \cap Tx /\ D \cap Tx # F \cap Tx
    <2>1. PICK x \in F : x \notin D
      OBVIOUS
    <2>2. x \in F \cap Tx /\ x \notin D \cap Tx
      BY <2>1
    <2> QED
      BY <2>2
  <1>5. Cardinality(D \cap Tx) < Cardinality(F \cap Tx)
    BY <1>2, <1>3, <1>4, FS_Subset
  <1> QED
    BY <1>3, <1>5

\* One turn.
LEMMA PassKeeps ==
    ASSUME best \in Block, NEW v, NEW q, NEW n \in Nat, Reaccepting(v, q, n),
           NEW order \in Seq(Tx), NEW prev \in [Tx -> Seq(Tx)]
    PROVE  Reaccepting(v, ReacceptPass(q, order, prev), n + 1)
  <1> DEFINE m == MarkByIndex(q.w)
             u == IF m = q.w THEN m ELSE TellBlocks(m, PathTo[best], FALSE)
             F == DOMAIN u.hashBlock # DOMAIN m.hashBlock
             P == Resubmit(q.pool, order, prev)
             r == [w |-> u, pool |-> P, fRepeat |-> F]
  <1>1. /\ WalletType(q.w) /\ DOMAIN v.hashBlock \subseteq DOMAIN q.w.hashBlock
        /\ q.pool \in Pools(ChainTx[best])
        /\ Justified(v, best) => Justified(q.w, best)
    BY Zenon DEF Reaccepting
  <1>2. ReacceptPass(q, order, prev) = IF ~q.fRepeat THEN q ELSE r
    BY Zenon DEF ReacceptPass
  <1>3. CASE ~q.fRepeat
    <2>1. ReacceptPass(q, order, prev) = q
      BY <1>2, <1>3, Zenon
    <2>2. Reaccepting(v, q, n + 1)
      BY <1>3, Zenon DEF Reaccepting
    <2> QED
      BY <2>1, <2>2, Zenon
  <1>4. CASE q.fRepeat
    <2>1. ReacceptPass(q, order, prev) = r
      BY <1>2, <1>4, Zenon
    <2>2. ASSUME NEW fUpdate \in BOOLEAN, ~Updates(fUpdate)
          PROVE  LET x == IF m = q.w THEN m ELSE TellBlocks(m, PathTo[best], fUpdate)
                 IN  /\ WalletType(x) /\ m.hashBlock = q.w.hashBlock
                     /\ DOMAIN q.w.hashBlock \subseteq DOMAIN x.hashBlock
                     /\ DOMAIN x.hashBlock \subseteq DOMAIN q.w.hashBlock \cup Tx
                     /\ Justified(q.w, best) => Justified(x, best)
                     /\ DOMAIN x.hashBlock = DOMAIN q.w.hashBlock => x = m
                     /\ Heard(q.w, best) => x = m
      BY <1>1, <2>2, PassFinds
    <2>3. FALSE \in BOOLEAN /\ ~Updates(FALSE)
      BY DEF Updates
    <2>4. /\ WalletType(u) /\ m.hashBlock = q.w.hashBlock
          /\ DOMAIN q.w.hashBlock \subseteq DOMAIN u.hashBlock
          /\ DOMAIN u.hashBlock \subseteq DOMAIN q.w.hashBlock \cup Tx
          /\ Justified(q.w, best) => Justified(u, best)
          /\ DOMAIN u.hashBlock = DOMAIN q.w.hashBlock => u = m
          /\ Heard(q.w, best) => u = m
      BY <2>2, <2>3, Zenon
    <2>5. MarkByIndex(m) = m
      BY <1>1, MarkTwice
    <2>6. P \in Pools(ChainTx[best])
      BY <1>1, ResubmitKeeps
    <2>7. r.w = u /\ r.pool = P /\ r.fRepeat = F
      OBVIOUS
    <2>8. F <=> DOMAIN u.hashBlock # DOMAIN q.w.hashBlock
      BY <2>4
    <2>9. F \in BOOLEAN
      OBVIOUS
    <2>10. ASSUME Heard(v, best) PROVE u = MarkByIndex(v) /\ DOMAIN u.hashBlock = DOMAIN q.w.hashBlock
      <3>1. q.w = v
        BY <1>4, <2>10, Zenon DEF Reaccepting
      <3> HIDE DEF u
      <3> QED
        BY <2>4, <2>10, <3>1
    <2> HIDE DEF u, F, P, r
    <2>11. ~F => MarkByIndex(u) = u
      BY <2>4, <2>5, <2>8
    <2>12. Cardinality(DOMAIN q.w.hashBlock \cap Tx) >= n
      BY <1>4, Zenon DEF Reaccepting
    <2>13. F => Cardinality(DOMAIN u.hashBlock \cap Tx) >= n + 1
      BY <2>4, <2>8, <2>12, CountGrows
    <2>14. Heard(v, best) => ~F /\ u = MarkByIndex(v)
      BY <2>8, <2>10
    <2>15. DOMAIN v.hashBlock \subseteq DOMAIN u.hashBlock /\ (Justified(v, best) => Justified(u, best))
      BY <1>1, <2>4
    <2>16. Reaccepting(v, r, n + 1)
      BY <2>4, <2>6, <2>7, <2>9, <2>11, <2>13, <2>14, <2>15, Zenon DEF Reaccepting
    <2> QED
      BY <2>1, <2>16, Zenon
  <1>5. q.fRepeat \in BOOLEAN
    BY Zenon DEF Reaccepting
  <1> QED
    BY <1>3, <1>4, <1>5, Zenon

\* The values of the loop.
Passes == [w : Wallets, pool : Pools(ChainTx[best]), fRepeat : BOOLEAN]

\* A turn leaves one.
LEMMA PassType ==
    ASSUME best \in Block, NEW q \in Passes, NEW order \in Seq(Tx), NEW prev \in [Tx -> Seq(Tx)]
    PROVE  ReacceptPass(q, order, prev) \in Passes
  <1> DEFINE m == MarkByIndex(q.w)
             u == IF m = q.w THEN m ELSE TellBlocks(m, PathTo[best], FALSE)
             F == DOMAIN u.hashBlock # DOMAIN m.hashBlock
             P == Resubmit(q.pool, order, prev)
             r == [w |-> u, pool |-> P, fRepeat |-> F]
  <1>1. WalletType(q.w) /\ q.pool \in Pools(ChainTx[best]) /\ q.fRepeat \in BOOLEAN
    BY WalletsAre DEF Passes
  <1>2. ReacceptPass(q, order, prev) = IF ~q.fRepeat THEN q ELSE r
    BY Zenon DEF ReacceptPass
  <1>3. CASE ~q.fRepeat
    BY <1>2, <1>3, Zenon
  <1>4. CASE q.fRepeat
    <2>1. ReacceptPass(q, order, prev) = r
      BY <1>2, <1>4, Zenon
    <2>2. Cardinality(DOMAIN q.w.hashBlock \cap Tx) >= 0
      <3>1. IsFiniteSet(DOMAIN q.w.hashBlock \cap Tx)
        BY WalletAssumption, FS_Subset
      <3>2. Cardinality(DOMAIN q.w.hashBlock \cap Tx) \in Nat
        BY <3>1, FS_CardinalityType
      <3> QED
        BY <3>2
    <2>3. Reaccepting(q.w, q, 0)
      BY <1>1, <1>4, <2>2, Zenon DEF Reaccepting
    <2>4. Reaccepting(q.w, ReacceptPass(q, order, prev), 0 + 1)
      BY <2>3, PassKeeps
    <2>5. WalletType(r.w) /\ r.pool \in Pools(ChainTx[best]) /\ r.fRepeat \in BOOLEAN
      BY <2>1, <2>4, Zenon DEF Reaccepting
    <2>6. r = [w |-> r.w, pool |-> r.pool, fRepeat |-> r.fRepeat]
      OBVIOUS
    <2> HIDE DEF r
    <2>7. r \in Passes
      BY <2>5, <2>6, WalletsAre DEF Passes
    <2> QED
      BY <2>1, <2>7
  <1> QED
    BY <1>1, <1>3, <1>4, Zenon

\* The loop comes to an end: the wallet it leaves has every flag of the index that it
\* looks up, and a spender for each flag; one that lacked nothing only got flags.
LEMMA ReacceptedKeeps ==
    ASSUME best \in Block, NEW v, WalletType(v), NEW order \in Seq(Tx), NEW prev \in [Tx -> Seq(Tx)]
    PROVE  LET q == Reaccepted(v, order, prev)
           IN  /\ WalletType(q.w) /\ DOMAIN v.hashBlock \subseteq DOMAIN q.w.hashBlock
               /\ q.pool \in Pools(ChainTx[best])
               /\ Justified(v, best) => Justified(q.w, best)
               /\ Heard(v, best) => q.w = MarkByIndex(v)
               /\ MarkByIndex(q.w) = q.w
  <1> DEFINE N == Cardinality(Tx) + 1
             base == [w |-> v, pool |-> EmptyPool, fRepeat |-> TRUE]
             g == [n \in 1 .. N |-> [x \in Passes |-> ReacceptPass(x, order, prev)]]
             Rec(f) == f = [n \in 0 .. N |-> IF n = 0 THEN base ELSE ReacceptPass(f[n - 1], order, prev)]
             R == Reaccepted(v, order, prev)
  <1>1. N \in Nat /\ Cardinality(Tx) \in Nat
    BY WalletAssumption, FS_CardinalityType
  <1>2. base \in Passes
    BY EmptyPoolGood, WalletsAre DEF Passes
  <1>3. Reaccepting(v, base, 0)
    <2>1. IsFiniteSet(DOMAIN v.hashBlock \cap Tx)
      BY WalletAssumption, FS_Subset
    <2>2. Cardinality(DOMAIN v.hashBlock \cap Tx) \in Nat
      BY <2>1, FS_CardinalityType
    <2>3. Cardinality(DOMAIN v.hashBlock \cap Tx) >= 0
      BY <2>2
    <2>4. base.w = v /\ base.pool = EmptyPool /\ base.fRepeat = TRUE
      OBVIOUS
    <2>5. TRUE \in BOOLEAN /\ EmptyPool \in Pools(ChainTx[best])
      BY EmptyPoolGood
    <2> HIDE DEF base
    <2> QED
      BY <2>3, <2>4, <2>5, Zenon DEF Reaccepting
  <1> HIDE DEF base
  <1>4. g \in [1 .. N -> [Passes -> Passes]]
    <2> HIDE DEF N
    <2> QED
      BY PassType
  <1>5. PICK q : Loop(q, N, Passes, base, g)
    <2> HIDE DEF g, N
    <2> QED
      BY <1>1, <1>2, <1>4, Iterates
  <1>6. Rec(q)
    <2> HIDE DEF N
    <2>1. ASSUME NEW n \in 0 .. N, n # 0 PROVE q[n] = ReacceptPass(q[n - 1], order, prev)
      <3>1. n \in 1 .. N /\ n - 1 \in 0 .. N
        BY <1>1, <2>1
      <3>2. q[n - 1] \in Passes /\ q[n] = g[n][q[n - 1]]
        BY <1>5, <3>1 DEF Loop
      <3> QED
        BY <3>1, <3>2
    <2>2. q = [n \in 0 .. N |-> q[n]] /\ q[0] = base
      BY <1>5 DEF Loop
    <2>3. \A n \in 0 .. N : q[n] = IF n = 0 THEN base ELSE ReacceptPass(q[n - 1], order, prev)
      BY <2>1, <2>2
    <2> QED
      BY <2>2, <2>3
  <1> DEFINE f == CHOOSE r : Rec(r)
             S == {n \in 0 .. N : Reaccepting(v, f[n], n)}
  <1>7. Rec(f)
    <2> HIDE DEF Rec
    <2> QED
      BY <1>6
  <1>8. R = f[N]
    BY DEF Reaccepted, base
  <1> HIDE DEF f, N, R
  <1>9. 0 \in S
    BY <1>1, <1>3, <1>7
  <1>10. ASSUME NEW n \in 1 .. N, n - 1 \in S PROVE n \in S
    <2>1. n \in 0 .. N /\ n # 0 /\ n - 1 \in Nat /\ (n - 1) + 1 = n /\ Reaccepting(v, f[n - 1], n - 1)
      BY <1>1, <1>10
    <2>2. f[n] = ReacceptPass(f[n - 1], order, prev)
      BY <1>7, <2>1
    <2>3. Reaccepting(v, f[n], (n - 1) + 1)
      BY <2>1, <2>2, PassKeeps
    <2> QED
      BY <2>1, <2>3
  <1>11. N \in S
    <2> HIDE DEF S
    <2>1. \A i \in 0 .. N : i \in S
      BY <1>1, <1>9, <1>10, UpTo
    <2> QED
      BY <1>1, <2>1
  <1>12. Reaccepting(v, R, N)
    BY <1>8, <1>11
  <1>13. ~(Cardinality(DOMAIN R.w.hashBlock \cap Tx) >= N)
    <2>1. IsFiniteSet(Tx) /\ DOMAIN R.w.hashBlock \cap Tx \subseteq Tx
      BY WalletAssumption
    <2>2. /\ IsFiniteSet(DOMAIN R.w.hashBlock \cap Tx)
          /\ Cardinality(DOMAIN R.w.hashBlock \cap Tx) <= Cardinality(Tx)
      BY <2>1, FS_Subset
    <2>3. Cardinality(DOMAIN R.w.hashBlock \cap Tx) \in Nat
      BY <2>2, FS_CardinalityType
    <2> QED
      BY <1>1, <2>2, <2>3 DEF N
  <1>14. ~R.fRepeat
    BY <1>12, <1>13, Zenon DEF Reaccepting
  <1>15. /\ WalletType(R.w) /\ DOMAIN v.hashBlock \subseteq DOMAIN R.w.hashBlock
         /\ R.pool \in Pools(ChainTx[best])
         /\ Justified(v, best) => Justified(R.w, best)
         /\ Heard(v, best) => R.w = MarkByIndex(v)
         /\ MarkByIndex(R.w) = R.w
    BY <1>12, <1>14, Zenon DEF Reaccepting
  <1> QED
    BY <1>15 DEF R
-----------------------------------------------------------------------------
\* The spender of a coin of the wallet's that the chain has spent is in mapWallet.
LEMMA SpenderHeard ==
    ASSUME NEW b \in Block, NEW v, Heard(v, b), NEW o \in Mine, o \in ChainSpent[b]
    PROVE  \E t \in DOMAIN v.hashBlock \cap Tx : o \in Ins[t] /\ t \in ChainTx[b]
  <1>1. PICK t \in ChainTx[b] : o \in Ins[t]
    BY DEF ChainSpent
  <1>2. Involves(t) /\ t \in Tx
    BY <1>1, ChainTxStep DEF Involves
  <1>3. t \in DOMAIN v.hashBlock
    BY <1>1, <1>2, ChainTxStep DEF Heard
  <1> QED
    BY <1>1, <1>2, <1>3

\* The index has the flag of every coin the chain has spent.
LEMMA IndexSpentAll ==
    ASSUME best \in Block, ChainValid(best), NEW o \in Mine, o \in ChainSpent[best]
    PROVE  o \in IndexSpent(o[1])
  <1>1. PICK t \in ChainTx[best] : o \in Ins[t]
    BY DEF ChainSpent
  <1>2. o[1] \in Coin \/ (o[1] \in ChainTx[best] /\ o \in Outs(o[1]))
    BY <1>1, SpendsBelow
  <1>3. ChainTx[best] \subseteq Tx
    BY ChainTxStep
  <1>4. CASE o[1] \in Coin
    <2>1. o[1] \notin ChainTx[best]
      BY <1>3, <1>4, TxAssumption
    <2> QED
      BY <1>4, <2>1 DEF IndexSpent
  <1>5. CASE o[1] \in ChainTx[best] /\ o \in Outs(o[1])
    BY <1>5 DEF IndexSpent
  <1> QED
    BY <1>2, <1>4, <1>5

\* A pass leaves a wallet that is right about the chain so; one that passes over
\* nothing puts the flags of spent coins right.
LEMMA MarkKeeps ==
    ASSUME best \in Block, ChainValid(best), NEW v, WalletType(v)
    PROVE  LET u == MarkByIndex(v)
           IN  /\ Heard(v, best) => Heard(u, best)
               /\ Placed(v, best) => Placed(u, best)
               /\ Flagged(v, best) \/ Skipped(v) = {} => Flagged(u, best)
  <1> DEFINE u == MarkByIndex(v)
  <1>1. /\ WalletType(u) /\ u.hashBlock = v.hashBlock /\ v.spent \subseteq u.spent
        /\ \A t \in DOMAIN v.hashBlock \ Skipped(v) : IndexSpent(t) \subseteq u.spent
    BY MarkEffect
  <1> HIDE DEF u
  <1>2. Heard(v, best) => Heard(u, best)
    BY <1>1 DEF Heard
  <1>3. Placed(v, best) => Placed(u, best)
    BY <1>1 DEF Placed
  <1>4. Flagged(v, best) => Flagged(u, best)
    BY <1>1 DEF Flagged, FlaggedFor, Debits
  <1>5. ASSUME Skipped(v) = {} PROVE Flagged(u, best)
    <2> SUFFICES ASSUME NEW t \in ChainTx[best], NEW o \in Debits(u, t) PROVE o \in u.spent
      BY DEF Flagged, FlaggedFor
    <2>1. o \in Mine /\ o \in ChainSpent[best] /\ o[1] \in DOMAIN v.hashBlock
      BY <1>1 DEF Debits, ChainSpent
    <2>2. o \in IndexSpent(o[1])
      BY <2>1, IndexSpentAll
    <2> QED
      BY <1>1, <1>5, <2>1, <2>2
  <1> QED
    BY <1>2, <1>3, <1>4, <1>5 DEF u
-----------------------------------------------------------------------------
\* The blocks above f on the way to b.
LEMMA BranchBlocks ==
    ASSUME NEW b \in Block, NEW f \in Ancestors[b]
    PROVE  Range(After(f, b)) = Ancestors[b] \ Ancestors[f] /\ After(f, b) \in Seq(Block)
  <1> DEFINE p == After(f, b)
  <1>1. {p[i] : i \in DOMAIN p} = Ancestors[b] \ Ancestors[f]
    BY AfterIsBranch
  <1>2. p \in Seq(Block \ {Genesis})
    BY AfterIsBranch
  <1> HIDE DEF p
  <1>3. p \in Seq(Block) /\ Range(p) = Ancestors[b] \ Ancestors[f]
    BY <1>1, <1>2 DEF Range
  <1> QED
    BY <1>3 DEF p

\* The transactions of a branch.
BranchTx(f, b) == UNION {Range(Txs[c]) : c \in Range(After(f, b))}

\* A chain is its lower part and its upper part, which share nothing.
LEMMA BranchTxIs ==
    ASSUME NEW b \in Block, NEW f \in Ancestors[b]
    PROVE  /\ ChainTx[b] = ChainTx[f] \cup BranchTx(f, b) /\ BranchTx(f, b) \subseteq Tx
           /\ ChainValid(b) => ChainTx[f] \cap BranchTx(f, b) = {} /\ ChainValid(f)
  <1>1. f \in Block
    BY AncestorsType
  <1>2. \A t : t \in BranchTx(f, b) <=> \E c \in Ancestors[b] \ Ancestors[f] : t \in Range(Txs[c])
    BY BranchBlocks DEF BranchTx
  <1>3. \A t : t \in ChainTx[b] <=> t \in ChainTx[f] \/ t \in BranchTx(f, b)
    BY <1>1, <1>2, ChainTxStep, AncestorsTrans
  <1>4. ChainTx[b] = ChainTx[f] \cup BranchTx(f, b)
    BY <1>3
  <1>5. BranchTx(f, b) \subseteq Tx
    BY <1>4, ChainTxStep
  <1>6. ASSUME ChainValid(b), NEW t \in ChainTx[f], t \in BranchTx(f, b) PROVE FALSE
    <2>1. PICK a \in Ancestors[f] : t \in Range(Txs[a])
      BY <1>1, <1>6, ChainTxStep
    <2>2. PICK c \in Ancestors[b] \ Ancestors[f] : t \in Range(Txs[c])
      BY <1>2, <1>6
    <2>3. a \in Ancestors[b]
      BY <2>1, AncestorsTrans
    <2> QED
      BY <1>6, <2>1, <2>2, <2>3, TxOnce
  <1>7. ChainValid(b) => ChainValid(f)
    BY AncestorsTrans DEF ChainValid
  <1> QED
    BY <1>4, <1>5, <1>6, <1>7

\* DisableTransaction takes the flags off what the coinstakes among S spend.
LEMMA DisableEffect ==
    ASSUME NEW v, WalletType(v), NEW S
    PROVE  LET u == DisableTransaction(v, S)
           IN  /\ WalletType(u) /\ u.hashBlock = v.hashBlock
               /\ \A o : o \in u.spent <=> o \in v.spent /\ \A t \in S \cap Stake : o \notin Ins[t]
  <1> DEFINE u == DisableTransaction(v, S)
             X == v.spent \ UNION {Debits(v, t) : t \in S \cap Stake}
  <1>1. u = [v EXCEPT !.spent = X]
    BY DEF DisableTransaction
  <1>2. v = [hashBlock |-> v.hashBlock, spent |-> v.spent]
    BY DEF WalletType
  <1>3. \A o \in v.spent : o \in Mine /\ o[1] \in DOMAIN v.hashBlock
    BY DEF WalletType
  <1>4. \A o : o \in X <=> o \in v.spent /\ \A t \in S \cap Stake : o \notin Debits(v, t)
    OBVIOUS
  <1> HIDE DEF u, X
  <1>5. u.hashBlock = v.hashBlock /\ u.spent = X /\ u = [hashBlock |-> u.hashBlock, spent |-> u.spent]
    BY <1>1, <1>2
  <1>6. \A o : o \in X <=> o \in v.spent /\ \A t \in S \cap Stake : o \notin Ins[t]
    BY <1>3, <1>4 DEF Debits
  <1>7. WalletType(u)
    BY <1>5, <1>6 DEF WalletType
  <1> QED
    BY <1>5, <1>6, <1>7 DEF u

\* A wallet that is right about a chain and told of the disconnected blocks is right
\* about what is left of it.
LEMMA DisableKeeps ==
    ASSUME NEW b \in Block, ChainValid(b), NEW f \in Ancestors[b], NEW v, WalletType(v)
    PROVE  LET u == DisableTransaction(v, BranchTx(f, b))
           IN  /\ WalletType(u) /\ u.hashBlock = v.hashBlock
               /\ Heard(v, b) => Heard(u, f)
               /\ Placed(v, b) => Placed(u, f)
               /\ Flagged(v, b) => Flagged(u, f)
               /\ Justified(v, b) => Justified(u, f)
  <1> DEFINE u == DisableTransaction(v, BranchTx(f, b))
  <1>1. /\ WalletType(u) /\ u.hashBlock = v.hashBlock
        /\ \A o : o \in u.spent <=> o \in v.spent /\ \A t \in BranchTx(f, b) \cap Stake : o \notin Ins[t]
    BY DisableEffect
  <1> HIDE DEF u
  <1>2. f \in Block /\ Ancestors[f] \subseteq Ancestors[b]
    BY AncestorsType, AncestorsTrans
  <1>3. /\ ChainTx[b] = ChainTx[f] \cup BranchTx(f, b)
        /\ ChainTx[f] \cap BranchTx(f, b) = {}
    BY BranchTxIs
  <1>4. Heard(v, b) => Heard(u, f)
    BY <1>1, <1>2 DEF Heard
  <1>5. Placed(v, b) => Placed(u, f)
    BY <1>1, <1>2 DEF Placed
  <1>6. ASSUME Flagged(v, b) PROVE Flagged(u, f)
    <2> SUFFICES ASSUME NEW t \in ChainTx[f], NEW o \in Debits(u, t) PROVE o \in u.spent
      BY DEF Flagged, FlaggedFor
    <2>1. o \in Ins[t]
      BY DEF Debits
    <2>2. o \in v.spent
      BY <1>1, <1>3, <1>6 DEF Flagged, FlaggedFor, Debits
    <2>3. ASSUME NEW x \in BranchTx(f, b) PROVE o \notin Ins[x]
      <3>1. x \in ChainTx[b] /\ t \in ChainTx[b] /\ x # t
        BY <1>3
      <3>2. Ins[x] \cap Ins[t] = {}
        BY <3>1, SpentOnce
      <3> QED
        BY <2>1, <3>2
    <2> QED
      BY <1>1, <2>2, <2>3
  <1>7. ASSUME Justified(v, b) PROVE Justified(u, f)
    <2> SUFFICES ASSUME NEW o \in u.spent
                 PROVE  \E t \in DOMAIN v.hashBlock \cap Tx : o \in Ins[t] /\ (t \in ChainTx[f] \/ t \notin Stake)
      BY <1>1 DEF Justified, JustifiedBy
    <2>1. PICK t \in DOMAIN v.hashBlock \cap Tx : o \in Ins[t] /\ (t \in ChainTx[b] \/ t \notin Stake)
      BY <1>1, <1>7 DEF Justified, JustifiedBy
    <2>2. t \in ChainTx[f] \/ t \notin Stake
      BY <1>1, <1>3, <2>1
    <2> QED
      BY <2>1, <2>2
  <1> QED
    BY <1>1, <1>4, <1>5, <1>6, <1>7 DEF u
-----------------------------------------------------------------------------
\* u is wallet v after transactions outside C: nothing is lost or moved, and what they
\* flag they spend.
Loosely(v, u, C) ==
    /\ WalletType(u) /\ DOMAIN v.hashBlock \subseteq DOMAIN u.hashBlock
    /\ DOMAIN u.hashBlock \cap C \subseteq DOMAIN v.hashBlock
    /\ \A x \in DOMAIN v.hashBlock : u.hashBlock[x] = v.hashBlock[x]
    /\ v.spent \subseteq u.spent
    /\ \A o \in u.spent \ v.spent : \E t \in DOMAIN u.hashBlock \cap Tx : o \in Ins[t] /\ t \notin Stake

\* Such a wallet is as right about a chain as it was.
LEMMA LooselyHeard ==
    ASSUME NEW v, NEW u, NEW C, Loosely(v, u, C), NEW b
    PROVE  /\ Heard(v, b) => Heard(u, b)
           /\ Heard(v, b) /\ Placed(v, b) => Placed(u, b)
  <1>1. Heard(v, b) => Heard(u, b)
    BY DEF Heard, Loosely
  <1>2. Heard(v, b) /\ Placed(v, b) => Placed(u, b)
    BY DEF Heard, Placed, Loosely
  <1> QED
    BY <1>1, <1>2

LEMMA LooselyKeeps ==
    ASSUME NEW b \in Block, ChainValid(b), NEW v, WalletType(v), NEW u, Loosely(v, u, ChainTx[b])
    PROVE  /\ Flagged(v, b) => Flagged(u, b)
           /\ Justified(v, b) => Justified(u, b)
  <1>1. ASSUME Flagged(v, b) PROVE Flagged(u, b)
    <2> SUFFICES ASSUME NEW t \in ChainTx[b], NEW o \in Debits(u, t) PROVE o \in u.spent
      BY DEF Flagged, FlaggedFor
    <2>1. o \in Ins[t] /\ o \in Mine /\ o[1] \in DOMAIN u.hashBlock
      BY DEF Debits
    <2>2. o[1] \in Coin \/ o[1] \in ChainTx[b]
      BY <2>1, SpendsBelow
    <2>3. o[1] \in DOMAIN v.hashBlock
      BY <2>1, <2>2 DEF Loosely, WalletType
    <2>4. o \in v.spent
      BY <1>1, <2>1, <2>3 DEF Flagged, FlaggedFor, Debits
    <2> QED
      BY <2>4 DEF Loosely
  <1>2. ASSUME Justified(v, b) PROVE Justified(u, b)
    <2> SUFFICES ASSUME NEW o \in u.spent
                 PROVE  \E t \in DOMAIN u.hashBlock \cap Tx : o \in Ins[t] /\ (t \in ChainTx[b] \/ t \notin Stake)
      BY DEF Justified, JustifiedBy
    <2>1. CASE o \in v.spent
      BY <1>2, <2>1 DEF Justified, JustifiedBy, Loosely
    <2>2. CASE o \notin v.spent
      BY <2>2 DEF Loosely
    <2> QED
      BY <2>1, <2>2
  <1> QED
    BY <1>1, <1>2

\* AddToWallet of a transaction without a block.
LEMMA AddLoose ==
    ASSUME NEW v, WalletType(v), NEW C, NEW t \in Tx \ Stake, t \notin C
    PROVE  Loosely(v, AddToWallet(v, t, None), C)
  <1> DEFINE u == AddToWallet(v, t, None)
             S == (v.spent \cup {o \in Ins[t] \cap Mine : o[1] \in DOMAIN u.hashBlock})
                      \ (IF None # None THEN Outs(t) \cap Mine ELSE {})
  <1>1. /\ WalletType(u) /\ DOMAIN u.hashBlock = DOMAIN v.hashBlock \cup {t}
        /\ \A x \in DOMAIN v.hashBlock : u.hashBlock[x] = v.hashBlock[x]
        /\ u.spent = S
    BY AddToWalletEffect
  <1>2. S = v.spent \cup {o \in Ins[t] \cap Mine : o[1] \in DOMAIN u.hashBlock}
    OBVIOUS
  <1> HIDE DEF u, S
  <1>3. Loosely(v, u, C)
    BY <1>1, <1>2 DEF Loosely
  <1> QED
    BY <1>3 DEF u

\* A transaction of the pool told to the wallet.
LEMMA AddIfLoose ==
    ASSUME NEW v, WalletType(v), NEW C, NEW t \in Tx \ Stake, t \notin C, NEW fUpdate \in BOOLEAN
    PROVE  Loosely(v, AddIfInvolvingMe(v, t, None, fUpdate), C)
  <1> DEFINE u == AddIfInvolvingMe(v, t, None, fUpdate)
             a == AddToWallet(v, t, None)
             c == WalletUpdateSpent(v, t, FALSE)
  <1>1. u = v \/ u = a \/ (u = c /\ ~IsFromMe(v, t))
    BY DEF AddIfInvolvingMe
  <1>2. Loosely(v, a, C)
    BY AddLoose
  <1>3. WalletType(c) /\ c.hashBlock = v.hashBlock /\ c.spent = v.spent \cup Debits(v, t)
    BY UpdateSpentLoose
  <1> HIDE DEF u, a, c
  <1>4. ~IsFromMe(v, t) => Loosely(v, c, C)
    BY <1>3 DEF IsFromMe, Loosely
  <1>5. Loosely(v, v, C)
    BY DEF Loosely
  <1> QED
    BY <1>1, <1>2, <1>4, <1>5 DEF u

\* CommitTransaction marks the coins it took.
LEMMA CommitLoose ==
    ASSUME NEW v, WalletType(v), NEW C, NEW t \in Tx \ Stake, t \notin C,
           \A o \in Ins[t] : o \in Mine /\ o[1] \in DOMAIN v.hashBlock
    PROVE  Loosely(v, [AddToWallet(v, t, None) EXCEPT !.spent = @ \cup Ins[t]], C)
  <1> DEFINE a == AddToWallet(v, t, None)
             u == [a EXCEPT !.spent = @ \cup Ins[t]]
  <1>1. Loosely(v, a, C)
    BY AddLoose
  <1>2. DOMAIN a.hashBlock = DOMAIN v.hashBlock \cup {t}
    BY AddToWalletEffect
  <1> HIDE DEF a
  <1>3. a = [hashBlock |-> a.hashBlock, spent |-> a.spent]
    BY <1>1 DEF Loosely, WalletType
  <1>4. u.hashBlock = a.hashBlock /\ u.spent = a.spent \cup Ins[t] /\ u = [hashBlock |-> u.hashBlock, spent |-> u.spent]
    BY <1>3
  <1> HIDE DEF u
  <1>5. WalletType(u)
    BY <1>1, <1>2, <1>4 DEF Loosely, WalletType
  <1>6. Loosely(v, u, C)
    BY <1>1, <1>2, <1>4, <1>5 DEF Loosely
  <1> QED
    BY <1>6 DEF u, a
-----------------------------------------------------------------------------
\* The chain of Genesis has no transactions.
LEMMA GenesisKnown ==
    \A v : Heard(v, Genesis) /\ Placed(v, Genesis) /\ Flagged(v, Genesis)
  <1>1. Ancestors[Genesis] = {Genesis} /\ Txs[Genesis] = <<>> /\ Genesis \in Block
    BY GenesisAncestors, WalletAssumption, TreeAssumption
  <1>2. Range(Txs[Genesis]) = {}
    BY <1>1 DEF Range
  <1>3. ChainTx[Genesis] = {}
    BY ChainTxStep
  <1> QED
    BY <1>1, <1>2, <1>3 DEF Heard, Placed, Flagged, FlaggedFor

\* A wallet that is right about a chain is right about its lower part.
LEMMA LowerKnown ==
    ASSUME NEW b \in Block, NEW a \in Ancestors[b], NEW v
    PROVE  /\ Heard(v, b) => Heard(v, a)
           /\ Placed(v, b) => Placed(v, a)
           /\ Flagged(v, b) => Flagged(v, a)
  <1>1. Ancestors[a] \subseteq Ancestors[b] /\ ChainTx[a] \subseteq ChainTx[b]
    BY AncestorsTrans, ChainTxMono
  <1> QED
    BY <1>1 DEF Heard, Placed, Flagged, FlaggedFor

\* A start with a locator rescans the blocks after some block of the best chain.
LEMMA RescanIs ==
    ASSUME best \in Block, NEW loc \in Block
    PROVE  \E x \in Ancestors[Fork(loc, best)] : RescanFrom(loc) = After(x, best)
  <1> DEFINE f == Fork(loc, best)
  <1>1. loc # None
    BY WalletAssumption
  <1>2. f \in Ancestors[best] /\ f \in Block
    BY ForkIsLast, AncestorsType
  <1> HIDE DEF f
  <1>3. f \in Ancestors[f] /\ (f # Genesis => Prev[f] \in Ancestors[f])
    BY <1>2, AncestorsSplit, AncestorsType, TreeAssumption
  <1>4. CASE f = best
    <2>1. After(best, best) = <<>>
      BY <1>2, <1>3, <1>4, AfterIsBranch
    <2> QED
      BY <1>1, <1>3, <1>4, <2>1 DEF RescanFrom, f
  <1>5. CASE f # best /\ f = Genesis
    BY <1>1, <1>3, <1>5 DEF RescanFrom, f
  <1>6. CASE f # best /\ f # Genesis
    BY <1>1, <1>3, <1>6 DEF RescanFrom, f
  <1> QED
    BY <1>4, <1>5, <1>6

\* A wallet that is right about a chain and told of the blocks above it is right about
\* the longer one.
LEMMA TellKeeps ==
    ASSUME NEW y \in Block, ChainValid(y), NEW x \in Ancestors[y],
           NEW v, WalletType(v), NEW fUpdate \in BOOLEAN, Updates(fUpdate)
    PROVE  LET u == TellBlocks(v, After(x, y), fUpdate)
           IN  /\ WalletType(u) /\ DOMAIN v.hashBlock \subseteq DOMAIN u.hashBlock
               /\ Heard(v, x) => Heard(u, y)
               /\ Heard(v, x) /\ Placed(v, x) => Placed(u, y)
               /\ Flagged(v, x) => Flagged(u, y)
               /\ \A z \in Block : ChainTx[z] \subseteq ChainTx[y] /\ Justified(v, z) => Justified(u, y)
  <1> DEFINE u == TellBlocks(v, After(x, y), fUpdate)
  <1>1. ASSUME Heard(v, x) PROVE Told(v, u, Above(x, y))
    BY <1>1, TellTold
  <1>2. /\ Flagged(v, x) => Flagged(u, y)
        /\ \A z \in Block : ChainTx[z] \subseteq ChainTx[y] /\ Justified(v, z) => Justified(u, y)
    BY TellRight
  <1>3. WalletType(u) /\ DOMAIN v.hashBlock \subseteq DOMAIN u.hashBlock
    BY BranchBlocks, TellBlocksGrows
  <1> HIDE DEF u
  <1>4. Heard(v, x) => Heard(u, y)
    BY <1>1, ToldHeard
  <1>5. Heard(v, x) /\ Placed(v, x) => Placed(u, y)
    BY <1>1, ToldPlaced
  <1> QED
    BY <1>2, <1>3, <1>4, <1>5 DEF u

\* A wallet file: its wallet has the transactions of the chain it was written with and of
\* the chain its locator names, and is right about the former, unless its history says not.
FileOK(file) ==
    /\ file.tip \in Block /\ file.locator \in Block \cup {None}
    /\ WalletType(file.w) /\ file.vtxPrev \in [Tx -> Seq(Tx)]
    /\ file.early \in BOOLEAN /\ file.lost \in BOOLEAN
    /\ file.misplaced \in BOOLEAN /\ file.unscanned \in BOOLEAN
    /\ file.unscanned => file.misplaced
    /\ file.unscanned \/ (Heard(file.w, file.tip) /\ (file.locator # None => Heard(file.w, file.locator)))
    /\ file.misplaced \/ Placed(file.w, file.tip)
    /\ file.early \/ Flagged(file.w, file.tip)
    /\ file.lost \/ Justified(file.w, file.tip)

\* The file's locator is no guide to what a start has to rescan.
Stale(file) == NotRescanned(file) \/ OffItsChain(file)

\* What a start reads again of the chain is above a block the wallet knows the chain to,
\* but for a wallet that lacks transactions, or comes without a locator.
LEMMA StartFrom ==
    ASSUME best \in Block, NEW file, FileOK(file), NEW fRescan \in BOOLEAN
    PROVE  \E x \in Ancestors[best] :
              /\ (IF fRescan THEN PathTo[best] ELSE RescanFrom(file.locator)) = After(x, best)
              /\ fRescan \/ ~(file.unscanned \/ NotRescanned(file)) => Heard(file.w, x)
              /\ fRescan \/ (~file.misplaced /\ ~Stale(file)) => Placed(file.w, x)
              /\ fRescan \/ (~file.early /\ ~Stale(file)) => Flagged(file.w, x)
  <1>1. CASE fRescan
    BY <1>1, PathIsAfter, GenesisKnown, TreeAssumption
  <1>2. CASE ~fRescan /\ file.locator # None
    <2> DEFINE f == Fork(file.locator, best)
    <2>1. file.locator \in Block /\ file.tip \in Block
      BY <1>2 DEF FileOK
    <2>2. f \in Ancestors[file.locator] /\ f \in Ancestors[best] /\ f \in Block
      BY <2>1, ForkIsLast, AncestorsType
    <2>3. PICK x \in Ancestors[f] : RescanFrom(file.locator) = After(x, best)
      BY <2>1, RescanIs
    <2>4. Stale(file) <=> f \notin Ancestors[file.tip]
      BY <1>2 DEF Stale, OffItsChain, NotRescanned
    <2> HIDE DEF f
    <2>5. x \in Ancestors[best] /\ x \in Ancestors[file.locator]
      BY <2>1, <2>2, <2>3, AncestorsTrans
    <2>6. ASSUME ~file.unscanned PROVE Heard(file.w, x)
      BY <1>2, <2>1, <2>5, <2>6, LowerKnown DEF FileOK
    <2>7. ASSUME ~Stale(file) PROVE x \in Ancestors[file.tip]
      BY <2>1, <2>2, <2>3, <2>4, <2>7, AncestorsTrans
    <2>8. ASSUME ~file.misplaced, ~Stale(file) PROVE Placed(file.w, x)
      BY <2>1, <2>7, <2>8, LowerKnown DEF FileOK
    <2>9. ASSUME ~file.early, ~Stale(file) PROVE Flagged(file.w, x)
      BY <2>1, <2>7, <2>9, LowerKnown DEF FileOK
    <2> QED
      BY <1>2, <2>3, <2>5, <2>6, <2>8, <2>9
  <1>3. CASE ~fRescan /\ file.locator = None
    <2>1. best \in Ancestors[best] /\ After(best, best) = <<>>
      BY AncestorsType, AfterIsBranch
    <2>2. RescanFrom(file.locator) = After(best, best)
      BY <1>3, <2>1 DEF RescanFrom
    <2>3. ~NotRescanned(file) => file.tip = best
      BY <1>3 DEF NotRescanned
    <2>4. ~Stale(file) => ~NotRescanned(file)
      BY DEF Stale
    <2>5. ~file.unscanned /\ ~NotRescanned(file) => Heard(file.w, best)
      BY <2>3 DEF FileOK
    <2>6. ~file.misplaced /\ ~Stale(file) => Placed(file.w, best)
      BY <2>3, <2>4 DEF FileOK
    <2>7. ~file.early /\ ~Stale(file) => Flagged(file.w, best)
      BY <2>3, <2>4 DEF FileOK
    <2> QED
      BY <1>3, <2>1, <2>2, <2>5, <2>6, <2>7
  <1> QED
    BY <1>1, <1>2, <1>3

\* A start leaves a wallet that is right about the best chain, with the exceptions that
\* Start records.
Started(file, fRescan, scanned, u) ==
    /\ WalletType(u)
    /\ fRescan \/ ~(file.unscanned \/ NotRescanned(file)) => Heard(u, best)
    /\ ~file.unscanned /\ file.locator # None => Heard(u, file.locator)
    /\ fRescan \/ (~file.misplaced /\ ~Stale(file)) => Placed(u, best)
    /\ \/ fRescan
       \/ /\ ~((file.early \/ Stale(file)) /\ Skipped(scanned) # {})
          /\ ~((file.unscanned \/ NotRescanned(file)) /\ Skipped(u) # {})
       => Flagged(u, best)
    /\ ~file.lost /\ file.tip \in Ancestors[best] => Justified(u, best)

LEMMA StartKeeps ==
    ASSUME best \in Block, ChainValid(best), NEW file, FileOK(file), NEW fRescan \in BOOLEAN,
           NEW fUpdate \in BOOLEAN, Updates(fUpdate), NEW order \in Seq(Tx)
    PROVE  LET scanned == TellBlocks(file.w, IF fRescan THEN PathTo[best] ELSE RescanFrom(file.locator), fUpdate)
               q == Reaccepted(scanned, order, file.vtxPrev)
           IN  Started(file, fRescan, scanned, q.w) /\ q.pool \in Pools(ChainTx[best])
  <1> DEFINE path == IF fRescan THEN PathTo[best] ELSE RescanFrom(file.locator)
             s == TellBlocks(file.w, path, fUpdate)
             q == Reaccepted(s, order, file.vtxPrev)
             u == q.w
             U == file.unscanned \/ NotRescanned(file)
  <1>1. PICK x \in Ancestors[best] :
              /\ path = After(x, best)
              /\ fRescan \/ ~U => Heard(file.w, x)
              /\ fRescan \/ (~file.misplaced /\ ~Stale(file)) => Placed(file.w, x)
              /\ fRescan \/ (~file.early /\ ~Stale(file)) => Flagged(file.w, x)
    BY StartFrom
  <1> HIDE DEF path
  <1>2. WalletType(file.w) /\ file.tip \in Block /\ file.vtxPrev \in [Tx -> Seq(Tx)]
    BY DEF FileOK
  <1>3. s = TellBlocks(file.w, After(x, best), fUpdate)
    BY <1>1
  <1>4. /\ WalletType(s) /\ DOMAIN file.w.hashBlock \subseteq DOMAIN s.hashBlock
        /\ Heard(file.w, x) => Heard(s, best)
        /\ Heard(file.w, x) /\ Placed(file.w, x) => Placed(s, best)
        /\ Flagged(file.w, x) => Flagged(s, best)
        /\ \A z \in Block : ChainTx[z] \subseteq ChainTx[best] /\ Justified(file.w, z) => Justified(s, best)
    BY <1>1, <1>2, <1>3, TellKeeps
  <1> HIDE DEF s
  <1>5. /\ WalletType(u) /\ DOMAIN s.hashBlock \subseteq DOMAIN u.hashBlock
        /\ q.pool \in Pools(ChainTx[best])
        /\ Justified(s, best) => Justified(u, best)
        /\ Heard(s, best) => u = MarkByIndex(s)
        /\ MarkByIndex(u) = u
    BY <1>2, <1>4, ReacceptedKeeps
  <1> HIDE DEF q, u
  <1>6. /\ Heard(s, best) => Heard(MarkByIndex(s), best)
        /\ Placed(s, best) => Placed(MarkByIndex(s), best)
        /\ Flagged(s, best) \/ Skipped(s) = {} => Flagged(MarkByIndex(s), best)
    BY <1>4, MarkKeeps
  <1>7. Skipped(u) = {} => Flagged(u, best)
    BY <1>5, MarkKeeps
  <1>8. fRescan \/ ~U => Heard(u, best) /\ u = MarkByIndex(s)
    BY <1>1, <1>4, <1>5, <1>6
  <1>9. ~file.unscanned /\ file.locator # None => Heard(u, file.locator)
    BY <1>4, <1>5 DEF FileOK, Heard
  <1>10. fRescan \/ (~file.misplaced /\ ~Stale(file)) => Placed(u, best)
    <2>1. ~file.misplaced /\ ~Stale(file) => ~U
      BY DEF FileOK, Stale
    <2> QED
      BY <1>1, <1>4, <1>6, <1>8, <2>1
  <1>11. ASSUME \/ fRescan
                \/ ~((file.early \/ Stale(file)) /\ Skipped(s) # {}) /\ ~(U /\ Skipped(u) # {})
         PROVE  Flagged(u, best)
    <2>1. CASE fRescan
      BY <1>1, <1>4, <1>6, <1>8, <2>1
    <2>2. CASE U /\ Skipped(u) = {}
      BY <1>7, <2>2
    <2>3. CASE ~fRescan /\ ~U
      <3>1. ~(file.early \/ Stale(file)) \/ Skipped(s) = {}
        BY <1>11, <2>3
      <3> QED
        BY <1>1, <1>4, <1>6, <1>8, <2>3, <3>1
    <2> QED
      BY <1>11, <2>1, <2>2, <2>3
  <1>12. ASSUME ~file.lost, file.tip \in Ancestors[best] PROVE Justified(u, best)
    <2>1. ChainTx[file.tip] \subseteq ChainTx[best]
      BY <1>12, ChainTxMono
    <2>2. Justified(file.w, file.tip)
      BY <1>12 DEF FileOK
    <2> QED
      BY <1>2, <1>4, <1>5, <2>1, <2>2
  <1>13. Started(file, fRescan, s, u)
    BY <1>5, <1>8, <1>9, <1>10, <1>11, <1>12 DEF Started
  <1> QED
    BY <1>5, <1>13 DEF u, q, s, path
\* The repair leaves the flags of the chain, and unconfirmed ones.
LEMMA FixKeeps ==
    ASSUME best \in Block, ChainValid(best), NEW v, WalletType(v),
           NEW unconfirmed, unconfirmed = {o \in v.spent : o[1] \notin Coin \cup ChainTx[best]}
    PROVE  LET u == [v EXCEPT !.spent = unconfirmed \cup UNION {IndexSpent(t) : t \in DOMAIN v.hashBlock}]
           IN  /\ WalletType(u) /\ u.hashBlock = v.hashBlock /\ Flagged(u, best)
               /\ Heard(v, best) /\ (Justified(v, best) \/ unconfirmed = {}) => Justified(u, best)
  <1> DEFINE X == unconfirmed \cup UNION {IndexSpent(t) : t \in DOMAIN v.hashBlock}
             u == [v EXCEPT !.spent = X]
  <1>1. v = [hashBlock |-> v.hashBlock, spent |-> v.spent]
    BY DEF WalletType
  <1>2. \A o : o \in X <=> o \in unconfirmed \/ \E t \in DOMAIN v.hashBlock : o \in IndexSpent(t)
    OBVIOUS
  <1> HIDE DEF X
  <1>3. u.hashBlock = v.hashBlock /\ u.spent = X /\ u = [hashBlock |-> u.hashBlock, spent |-> u.spent]
    BY <1>1
  <1> HIDE DEF u
  <1>4. ASSUME NEW o \in X
        PROVE  o \in Mine /\ o[1] \in DOMAIN v.hashBlock /\ (o \in unconfirmed \/ o \in ChainSpent[best])
    <2>1. CASE o \in unconfirmed
      BY <2>1 DEF WalletType
    <2>2. CASE o \notin unconfirmed
      <3>1. PICK t \in DOMAIN v.hashBlock : o \in IndexSpent(t)
        BY <1>2, <2>2
      <3> QED
        BY <3>1, IndexSpentIs
    <2> QED
      BY <2>1, <2>2
  <1>5. WalletType(u)
    BY <1>3, <1>4 DEF WalletType
  <1>6. Flagged(u, best)
    <2> SUFFICES ASSUME NEW t \in ChainTx[best], NEW o \in Debits(u, t) PROVE o \in X
      BY <1>3 DEF Flagged, FlaggedFor
    <2>1. o \in Mine /\ o \in ChainSpent[best] /\ o[1] \in DOMAIN v.hashBlock
      BY <1>3 DEF Debits, ChainSpent
    <2> QED
      BY <1>2, <2>1, IndexSpentAll
  <1>7. ASSUME Heard(v, best), Justified(v, best) \/ unconfirmed = {} PROVE Justified(u, best)
    <2> SUFFICES ASSUME NEW o \in X
                 PROVE  \E t \in DOMAIN v.hashBlock \cap Tx : o \in Ins[t] /\ (t \in ChainTx[best] \/ t \notin Stake)
      BY <1>3 DEF Justified, JustifiedBy
    <2>1. CASE o \in ChainSpent[best]
      BY <1>4, <1>7, <2>1, SpenderHeard
    <2>2. CASE o \in unconfirmed
      BY <1>7, <2>2 DEF Justified, JustifiedBy
    <2> QED
      BY <1>4, <2>1, <2>2
  <1> QED
    BY <1>3, <1>5, <1>6, <1>7 DEF u, X
-----------------------------------------------------------------------------
\* What makes a value one of the pools.
LEMMA InPools ==
    ASSUME NEW p, p = [mapTx |-> p.mapTx, mapNextTx |-> p.mapNextTx], PoolType(p), Consistent(p),
           NEW C, p.mapTx \cap C = {}
    PROVE  p \in Pools(C)
  <1>1. p.mapTx \in SUBSET (Tx \ C)
    BY DEF PoolType
  <1>2. p.mapNextTx \in [DOMAIN p.mapNextTx -> Tx] /\ DOMAIN p.mapNextTx = UNION {Ins[x] : x \in p.mapTx}
    BY DEF PoolType, Consistent
  <1>3. DOMAIN p.mapNextTx \in SUBSET Outpoint
    BY <1>1, <1>2, TxAssumption
  <1>4. p \in [mapTx : SUBSET (Tx \ C), mapNextTx : UNION {[D -> Tx] : D \in SUBSET Outpoint}]
    BY <1>1, <1>2, <1>3
  <1> QED
    BY <1>4 DEF Pools

\* The pool after a block.
LEMMA ExtendPool ==
    ASSUME NEW a \in Block, NEW b \in Block \ {Genesis}, Prev[b] = a, NEW p \in Pools(ChainTx[a])
    PROVE  RemoveTx(p, Range(Txs[b])) \in Pools(ChainTx[b])
  <1> DEFINE q == RemoveTx(p, Range(Txs[b]))
  <1>1. PoolType(p) /\ Consistent(p) /\ p.mapTx \in SUBSET (Tx \ ChainTx[a])
    BY DEF Pools
  <1>2. PoolType(q) /\ Consistent(q) /\ q.mapTx = p.mapTx \ Range(Txs[b])
    BY <1>1, RemoveKeeps
  <1>3. q = [mapTx |-> q.mapTx, mapNextTx |-> q.mapNextTx]
    BY DEF RemoveTx
  <1>4. ChainTx[b] = ChainTx[a] \cup Range(Txs[b])
    BY ChainTxStep
  <1> HIDE DEF q
  <1>5. q.mapTx \cap ChainTx[b] = {}
    BY <1>1, <1>2, <1>4
  <1> QED
    BY <1>2, <1>3, <1>5, InPools DEF q

\* The pool after a reorganisation.
LEMMA ReorganizePool ==
    ASSUME NEW a \in Block, ChainValid(a), NEW b \in Block, NEW f \in Ancestors[a], f \in Ancestors[b],
           NEW p \in Pools(ChainTx[a])
    PROVE  RemoveConflicts(RemoveTx(Resurrect(p, BranchTx(f, a) \ Stake), BranchTx(f, b)), BranchTx(f, b))
               \in Pools(ChainTx[b])
  <1> DEFINE V == BranchTx(f, a) \ Stake
             D == BranchTx(f, b)
             r == Resurrect(p, V)
             m == RemoveTx(r, D)
             q == RemoveConflicts(m, D)
  <1>1. PoolType(p) /\ Consistent(p) /\ p.mapTx \in SUBSET (Tx \ ChainTx[a])
    BY DEF Pools
  <1>2. /\ ChainTx[a] = ChainTx[f] \cup BranchTx(f, a) /\ BranchTx(f, a) \subseteq Tx
        /\ ChainTx[f] \cap BranchTx(f, a) = {}
    BY BranchTxIs
  <1>3. ChainTx[b] = ChainTx[f] \cup D
    BY BranchTxIs
  <1>4. V \in SUBSET Tx /\ V \subseteq ChainTx[a]
    BY <1>2
  <1>5. ConflictFree(V)
    <2> HIDE DEF V
    <2> QED
      BY <1>4, SpentOnce DEF ConflictFree
  <1>6. V \cap ChainTx[f] = {}
    BY <1>2
  <1> HIDE DEF V, D
  <1>7. PoolType(r) /\ Consistent(r) /\ r.mapTx \subseteq p.mapTx \cup V
    BY <1>1, <1>4, <1>5, ResurrectKeeps
  <1> HIDE DEF r
  <1>8. PoolType(m) /\ Consistent(m) /\ m.mapTx = r.mapTx \ D
    BY <1>7, RemoveKeeps
  <1> HIDE DEF m
  <1>9. PoolType(q) /\ Consistent(q) /\ q.mapTx \subseteq m.mapTx
    BY <1>8, RemoveConflictsKeeps
  <1>10. q = [mapTx |-> q.mapTx, mapNextTx |-> q.mapNextTx]
    BY DEF RemoveConflicts, RemoveRecursive, RemoveTx
  <1> HIDE DEF q
  <1>11. q.mapTx \cap ChainTx[b] = {}
    BY <1>1, <1>2, <1>3, <1>6, <1>7, <1>8, <1>9
  <1> QED
    BY <1>9, <1>10, <1>11, InPools DEF q, m, r, V, D
-----------------------------------------------------------------------------
\* A child that ConnectBlock accepts makes the chain one longer.
LEMMA ExtendChain ==
    ASSUME NEW a \in Block, ChainValid(a), NEW b \in Block \ {Genesis}, Prev[b] = a, Connectable[b]
    PROVE  ChainValid(b) /\ a \in Ancestors[b] /\ After(a, b) = <<b>>
  <1>1. Ancestors[b] = Ancestors[a] \cup {b} /\ a \in Ancestors[a]
    BY AncestorsSplit, AncestorsType
  <1>2. ChainValid(b)
    BY <1>1 DEF ChainValid
  <1>3. a # b /\ nHeight(b) - nHeight(a) = 1
    BY HeightStep, HeightNat
  <1> DEFINE p == After(a, b)
  <1>4. p \in Seq(Block \ {Genesis}) /\ Len(p) = 1 /\ p[Len(p)] = b
    <2>1. a \in Ancestors[b]
      BY <1>1
    <2>2. p \in Seq(Block \ {Genesis}) /\ Len(p) = nHeight(b) - nHeight(a)
      BY <2>1, AfterIsBranch
    <2>3. p[Len(p)] = b
      BY <1>3, <2>1, AfterIsBranch
    <2> HIDE DEF p
    <2> QED
      BY <1>3, <2>2, <2>3
  <1> HIDE DEF p
  <1>5. p = <<b>>
    BY <1>4
  <1> QED
    BY <1>1, <1>2, <1>5 DEF p

\* The blocks a reorganisation connects are some of the branch, and all of them only when
\* ConnectBlock accepts each.
LEMMA ConnectedIs ==
    ASSUME NEW up \in Seq(Block \ {Genesis})
    PROVE  LET good == {n \in 0 .. Len(up) : \A i \in 1 .. n : Connectable[up[i]]}
               connected == SubSeq(up, 1, CHOOSE n \in good : n + 1 \notin good)
           IN  connected \in Seq(Block) /\ (connected = up => \A i \in 1 .. Len(up) : Connectable[up[i]])
  <1> DEFINE N == Len(up)
             good == {n \in 0 .. N : \A i \in 1 .. n : Connectable[up[i]]}
             k == CHOOSE n \in good : n + 1 \notin good
             c == SubSeq(up, 1, k)
  <1>1. N \in Nat /\ 0 \in good
    OBVIOUS
  <1>2. good \subseteq 0 .. N
    OBVIOUS
  <1>3. \A n \in good : \A i \in 1 .. n : Connectable[up[i]]
    OBVIOUS
  <1> HIDE DEF good, N
  <1>4. \E n \in good : n + 1 \notin good
    <2> SUFFICES ASSUME \A n \in good : n + 1 \in good PROVE FALSE
      OBVIOUS
    <2>1. \A i \in 1 .. N + 1 : i - 1 \in good => i \in good
      <3> SUFFICES ASSUME NEW i \in 1 .. N + 1, i - 1 \in good PROVE i \in good
        OBVIOUS
      <3>1. (i - 1) + 1 \in good
        OBVIOUS
      <3>2. (i - 1) + 1 = i
        BY <1>1
      <3> QED
        BY <3>1, <3>2
    <2>2. N + 1 \in Nat
      BY <1>1
    <2>3. \A i \in 0 .. N + 1 : i \in good
      BY <1>1, <2>1, <2>2, UpTo
    <2>4. N + 1 \in 0 .. N + 1 /\ N + 1 \notin 0 .. N
      BY <1>1
    <2> QED
      BY <1>2, <2>3, <2>4
  <1>5. k \in good
    BY <1>4
  <1>6. k \in 0 .. N
    BY <1>2, <1>5
  <1> HIDE DEF k
  <1>7. c \in Seq(Block \ {Genesis}) /\ Len(c) = k
    BY <1>1, <1>6 DEF N
  <1>8. c \in Seq(Block)
    BY <1>7
  <1>9. c = up => k = N
    BY <1>7 DEF N
  <1>10. c = up => \A i \in 1 .. N : Connectable[up[i]]
    BY <1>3, <1>5, <1>9
  <1> QED
    BY <1>8, <1>10 DEF k, good, N

\* A branch ConnectBlock accepts on the fork makes a valid chain.
LEMMA ReorganizeChain ==
    ASSUME NEW a \in Block, ChainValid(a), NEW b \in Block, NEW f \in Ancestors[a], f \in Ancestors[b],
           \A i \in 1 .. Len(After(f, b)) : Connectable[After(f, b)[i]]
    PROVE  ChainValid(b)
  <1> DEFINE up == After(f, b)
  <1>1. up \in Seq(Block \ {Genesis}) /\ {up[i] : i \in DOMAIN up} = Ancestors[b] \ Ancestors[f]
    BY AfterIsBranch
  <1>2. \A c \in Ancestors[f] : c \in Ancestors[a]
    BY AncestorsTrans
  <1> HIDE DEF up
  <1>3. ASSUME NEW c \in Ancestors[b] \ Ancestors[f] PROVE Connectable[c]
    <2>1. PICK i \in DOMAIN up : up[i] = c
      BY <1>1
    <2>2. i \in 1 .. Len(up)
      BY <1>1, <2>1
    <2> QED
      BY <2>1, <2>2 DEF up
  <1> QED
    BY <1>2, <1>3 DEF ChainValid
-----------------------------------------------------------------------------
\* The wallet and the chain it is told of, as FileOK has it of a file.
WalletState ==
    /\ best \in Block /\ locator \in Block \cup {None}
    /\ WalletType(w) /\ vtxPrev \in [Tx -> Seq(Tx)]
    /\ early \in BOOLEAN /\ lost \in BOOLEAN /\ misplaced \in BOOLEAN /\ unscanned \in BOOLEAN
    /\ unscanned => misplaced
    /\ unscanned \/ (Heard(w, best) /\ (locator # None => Heard(w, locator)))
    /\ misplaced \/ Placed(w, best)
    /\ early \/ Flagged(w, best)
    /\ lost \/ Justified(w, best)

\* The inductive invariant: the wallet and its backup are right about their chains, the
\* best chain is one ConnectBlock has accepted, the pool holds nothing of it, and
\* what it has of the wallet's own was signed.
IInv ==
    /\ WalletState
    /\ backup # None => FileOK(backup)
    /\ ChainValid(best)
    /\ pool \in Pools(ChainTx[best])
    /\ ChainTx[best] \cap Own \subseteq made
    /\ made \subseteq Own /\ fails \in 0 .. MaxFail /\ starts \in 0 .. MaxStart

\* The wallet file is a good file.
LEMMA FileIs == WalletState => FileOK(WalletFile)
  <1> SUFFICES ASSUME WalletState PROVE FileOK(WalletFile)
    OBVIOUS
  <1>1. /\ WalletFile.w = w /\ WalletFile.locator = locator /\ WalletFile.tip = best
        /\ WalletFile.vtxPrev = vtxPrev /\ WalletFile.unscanned = unscanned
        /\ WalletFile.early = early /\ WalletFile.lost = lost /\ WalletFile.misplaced = misplaced
    BY DEF WalletFile
  <1> QED
    BY <1>1, Zenon DEF WalletState, FileOK

\* The first state.
LEMMA InitIInv == Init => IInv
  <1> SUFFICES ASSUME Init PROVE IInv
    OBVIOUS
  <1> DEFINE D == {o[1] : o \in Mine} \cap Coin
             hb == [c \in D |-> Genesis]
  <1>1. best = Genesis /\ locator = None /\ Genesis \in Block /\ backup = None
    BY TreeAssumption DEF Init
  <1>2. hb \in [D -> Block \cup {None}] /\ DOMAIN hb = D
    BY <1>1
  <1>3. w = [hashBlock |-> hb, spent |-> {}]
    BY DEF Init
  <1> HIDE DEF hb
  <1>4. w.hashBlock = hb /\ w.spent = {} /\ w = [hashBlock |-> w.hashBlock, spent |-> w.spent]
    BY <1>3
  <1>5. WalletType(w)
    BY <1>2, <1>4 DEF WalletType
  <1>6. Heard(w, Genesis) /\ Placed(w, Genesis) /\ Flagged(w, Genesis)
    BY GenesisKnown
  <1>7. Justified(w, Genesis)
    BY <1>4 DEF Justified, JustifiedBy
  <1>8. /\ early \in BOOLEAN /\ lost \in BOOLEAN /\ misplaced \in BOOLEAN /\ unscanned \in BOOLEAN
        /\ unscanned => misplaced
    BY DEF Init
  <1>9. vtxPrev \in [Tx -> Seq(Tx)]
    <2>1. <<>> \in Seq(Tx)
      OBVIOUS
    <2> QED
      BY <2>1 DEF Init
  <1>10. WalletState
    BY <1>1, <1>5, <1>6, <1>7, <1>8, <1>9 DEF WalletState
  <1>11. ChainValid(best)
    BY <1>1, GenesisAncestors DEF ChainValid
  <1>12. pool \in Pools(ChainTx[best])
    BY EmptyPoolGood DEF Init
  <1>13. ChainTx[best] = {}
    BY <1>1, ChainTxStep
  <1>14. made \subseteq Own /\ fails \in 0 .. MaxFail /\ starts \in 0 .. MaxStart
    BY WalletAssumption DEF Init
  <1> QED
    BY <1>1, <1>10, <1>11, <1>12, <1>14, <1>13 DEF IInv

\* A step that adds transactions outside the chain.
LEMMA LooselyIInv ==
    ASSUME WalletState, ChainValid(best), Loosely(w, w', ChainTx[best]), vtxPrev' \in [Tx -> Seq(Tx)],
           UNCHANGED <<best, locator, early, lost, misplaced, unscanned>>
    PROVE  WalletState'
  <1>1. /\ Heard(w, best) => Heard(w', best)
        /\ Heard(w, best) /\ Placed(w, best) => Placed(w', best)
        /\ Heard(w, locator) => Heard(w', locator)
    BY LooselyHeard
  <1>2. WalletType(w') /\ WalletType(w) /\ best \in Block
    BY DEF Loosely, WalletState
  <1>3. /\ Flagged(w, best) => Flagged(w', best)
        /\ Justified(w, best) => Justified(w', best)
    BY <1>2, LooselyKeeps
  <1> QED
    BY <1>1, <1>2, <1>3, Zenon DEF WalletState

\* CommitTransaction.
LEMMA CommitIInv ==
    ASSUME IInv, NEW t \in Own, CommitTransaction(t)
    PROVE  IInv'
  <1>1. t \in Tx \ Stake /\ best \in Block /\ WalletType(w)
    BY WalletAssumption DEF IInv, WalletState
  <1>2. \A o \in Ins[t] : o \in Mine /\ o[1] \in DOMAIN w.hashBlock
    BY DEF CommitTransaction, Selectable, AvailableCoins
  <1>3. t \notin ChainTx[best]
    BY DEF IInv, CommitTransaction
  <1>4. Loosely(w, [AddToWallet(w, t, None) EXCEPT !.spent = @ \cup Ins[t]], ChainTx[best])
    BY <1>1, <1>2, <1>3, CommitLoose
  <1>5. Loosely(w, w', ChainTx[best]) /\ UNCHANGED <<best, locator, early, lost, misplaced, unscanned>>
    BY <1>4, Zenon DEF CommitTransaction, history
  <1>6. vtxPrev' \in [Tx -> Seq(Tx)]
    <2> DEFINE l == SupportingTransactions(t)
    <2>1. l \in Seq(Tx)
      BY <1>1, SupportingType
    <2>2. vtxPrev' = [vtxPrev EXCEPT ![t] = l] /\ vtxPrev \in [Tx -> Seq(Tx)]
      BY DEF CommitTransaction, IInv, WalletState
    <2> HIDE DEF l
    <2> QED
      BY <2>1, <2>2
  <1>7. WalletState'
    BY <1>5, <1>6, LooselyIInv DEF IInv
  <1>8. pool' \in Pools(ChainTx[best])
    BY <1>1, TryAcceptKeeps DEF IInv, CommitTransaction
  <1>9. UNCHANGED <<best, backup, fails, starts>> /\ made' \subseteq Own /\ made \subseteq made'
    BY DEF CommitTransaction, IInv
  <1> QED
    BY <1>7, <1>8, <1>9 DEF IInv

\* ReceiveTx.
LEMMA ReceiveIInv ==
    ASSUME IInv, NEW t \in Tx, NEW fOrphan \in BOOLEAN, ReceiveTx(t, fOrphan)
    PROVE  IInv'
  <1>1. t \in Tx \ Stake /\ t \notin ChainTx[best] /\ best \in Block /\ WalletType(w) /\ Accepts(pool, t)
    BY DEF IInv, WalletState, ReceiveTx, Accepts
  <1>2. Loosely(w, w, ChainTx[best])
    BY <1>1 DEF Loosely
  <1>3. ASSUME NEW fUpdate \in BOOLEAN PROVE Loosely(w, AddIfInvolvingMe(w, t, None, fUpdate), ChainTx[best])
    BY <1>1, AddIfLoose
  <1>4. Loosely(w, AddIfInvolvingMe(w, t, None, TRUE), ChainTx[best])
    BY <1>3, Zenon
  <1>5. w' = IF fOrphan THEN w ELSE AddIfInvolvingMe(w, t, None, TRUE)
    BY Zenon DEF ReceiveTx
  <1>6. Loosely(w, w', ChainTx[best])
    BY <1>2, <1>4, <1>5, Zenon
  <1>7. UNCHANGED <<best, vtxPrev, locator, backup, made, fails, starts, early, lost, misplaced, unscanned>>
    BY Zenon DEF ReceiveTx, history
  <1>8. vtxPrev' \in [Tx -> Seq(Tx)]
    BY <1>7 DEF IInv, WalletState
  <1>9. WalletState'
    BY <1>6, <1>7, <1>8, LooselyIInv DEF IInv
  <1>10. pool' = TryAccept(pool, t)
    BY <1>1, Zenon DEF ReceiveTx, TryAccept
  <1>11. pool' \in Pools(ChainTx[best])
    BY <1>1, <1>10, TryAcceptKeeps DEF IInv
  <1> QED
    BY <1>7, <1>9, <1>11 DEF IInv

\* The wallet told in vain: it still has every transaction.
LEMMA InVainIInv ==
    ASSUME IInv, NEW v, WalletType(v), DOMAIN w.hashBlock \subseteq DOMAIN v.hashBlock,
           ToldInVain(v), UNCHANGED <<vtxPrev, backup, made, starts>>
    PROVE  IInv'
  <1>1. w' = v /\ UNCHANGED <<best, pool, locator, unscanned>>
    BY Zenon DEF ToldInVain
  <1>2. early' = TRUE /\ lost' = TRUE /\ misplaced' = TRUE
    BY Zenon DEF ToldInVain
  <1>3. (Heard(w, best) => Heard(v, best)) /\ (Heard(w, locator) => Heard(v, locator))
    BY DEF Heard
  <1>4. early' \in BOOLEAN /\ lost' \in BOOLEAN /\ misplaced' \in BOOLEAN
    BY <1>2, Zenon
  <1>5. /\ best \in Block /\ locator \in Block \cup {None} /\ vtxPrev \in [Tx -> Seq(Tx)] /\ unscanned \in BOOLEAN
        /\ unscanned \/ (Heard(w, best) /\ (locator # None => Heard(w, locator)))
    BY Zenon DEF IInv, WalletState
  <1>6. WalletState'
    BY <1>1, <1>2, <1>3, <1>4, <1>5, Zenon DEF WalletState
  <1>7. fails' \in 0 .. MaxFail
    BY WalletAssumption DEF IInv, ToldInVain
  <1> QED
    BY <1>1, <1>6, <1>7 DEF IInv

\* The best chain moved to b, and the wallet with it.
LEMMA MovedState ==
    ASSUME WalletState, NEW b \in Block, best' = b, locator' \in {locator, b},
           WalletType(w'), DOMAIN w.hashBlock \subseteq DOMAIN w'.hashBlock, Heard(w, best) => Heard(w', b),
           Heard(w, best) /\ Placed(w, best) => Placed(w', b), Flagged(w, best) => Flagged(w', b),
           Justified(w, best) => Justified(w', b), UNCHANGED <<vtxPrev, early, lost, misplaced, unscanned>>
    PROVE  WalletState'
  <1>1. Heard(w, locator) => Heard(w', locator)
    BY DEF Heard
  <1>2. locator' \in Block \cup {None}
    BY DEF WalletState
  <1>3. ~unscanned => Heard(w, best) /\ Heard(w', b) /\ (locator' # None => Heard(w', locator'))
    BY <1>1, Zenon DEF WalletState
  <1> QED
    BY <1>2, <1>3, Zenon DEF WalletState

\* u is v told of the blocks after x on the way to y.
Extended(v, u, x, y) ==
    /\ WalletType(u) /\ DOMAIN v.hashBlock \subseteq DOMAIN u.hashBlock
    /\ Heard(v, x) => Heard(u, y)
    /\ Heard(v, x) /\ Placed(v, x) => Placed(u, y)
    /\ Flagged(v, x) => Flagged(u, y)
    /\ \A z \in Block : ChainTx[z] \subseteq ChainTx[y] /\ Justified(v, z) => Justified(u, y)

\* What ConnectBlock tells the wallet.
LEMMA TellExtends ==
    ASSUME NEW y \in Block, ChainValid(y), NEW x \in Ancestors[y], NEW v, WalletType(v)
    PROVE  Extended(v, TellBlocks(v, After(x, y), TRUE), x, y)
  <1>1. ASSUME NEW fUpdate \in BOOLEAN, Updates(fUpdate)
        PROVE  Extended(v, TellBlocks(v, After(x, y), fUpdate), x, y)
    BY <1>1, TellKeeps DEF Extended
  <1>2. TRUE \in BOOLEAN /\ Updates(TRUE)
    BY DEF Updates
  <1> QED
    BY <1>1, <1>2, Zenon

\* Whatever blocks it is told of, nothing leaves mapWallet.
LEMMA TellTrueGrows ==
    ASSUME NEW v, WalletType(v), NEW path \in Seq(Block)
    PROVE  /\ WalletType(TellBlocks(v, path, TRUE))
           /\ DOMAIN v.hashBlock \subseteq DOMAIN TellBlocks(v, path, TRUE).hashBlock
  <1>1. ASSUME NEW fUpdate \in BOOLEAN
        PROVE  /\ WalletType(TellBlocks(v, path, fUpdate))
               /\ DOMAIN v.hashBlock \subseteq DOMAIN TellBlocks(v, path, fUpdate).hashBlock
    BY TellBlocksGrows
  <1> QED
    BY <1>1, Zenon

\* Extend.
LEMMA ExtendIInv ==
    ASSUME IInv, NEW b \in Block, NEW ok \in BOOLEAN, Extend(b, ok)
    PROVE  IInv'
  <1> DEFINE u == TellBlocks(w, <<b>>, TRUE)
  <1>1. /\ b \in Block \ {Genesis} /\ Prev[b] = best /\ Connectable[b] /\ Exists(Range(Txs[b]))
        /\ UNCHANGED <<vtxPrev, backup, made, starts>>
    BY Zenon DEF Extend
  <1>2. best \in Block /\ WalletType(w) /\ ChainValid(best)
    BY DEF IInv, WalletState
  <1>3. ChainValid(b) /\ best \in Ancestors[b] /\ After(best, b) = <<b>>
    BY <1>1, <1>2, ExtendChain
  <1>4. Extended(w, TellBlocks(w, After(best, b), TRUE), best, b)
    BY <1>1, <1>2, <1>3, TellExtends
  <1>5. Extended(w, u, best, b)
    BY <1>3, <1>4, Zenon
  <1>6. \/ /\ best' = b /\ WriteLocator(b) /\ w' = u
           /\ pool' = RemoveTx(pool, Range(Txs[b]))
           /\ UNCHANGED <<fails, early, lost, misplaced, unscanned>>
        \/ ToldInVain(u)
    BY Zenon DEF Extend, history
  <1> HIDE DEF u
  <1>7. WalletType(u) /\ DOMAIN w.hashBlock \subseteq DOMAIN u.hashBlock
    BY <1>5 DEF Extended
  <1>8. CASE ToldInVain(u)
    BY <1>1, <1>7, <1>8, InVainIInv
  <1>9. CASE /\ best' = b /\ WriteLocator(b) /\ w' = u
             /\ pool' = RemoveTx(pool, Range(Txs[b]))
             /\ UNCHANGED <<fails, early, lost, misplaced, unscanned>>
    <2>1. ChainTx[best] \subseteq ChainTx[b]
      BY <1>3, ChainTxMono
    <2>2. /\ Heard(w, best) => Heard(u, b)
          /\ Heard(w, best) /\ Placed(w, best) => Placed(u, b)
          /\ Flagged(w, best) => Flagged(u, b)
          /\ Justified(w, best) => Justified(u, b)
      BY <1>2, <1>5, <2>1 DEF Extended
    <2>3. locator' \in {locator, b}
      BY <1>9 DEF WriteLocator
    <2>4. WalletState'
      BY <1>1, <1>7, <1>9, <2>2, <2>3, MovedState DEF IInv
    <2>5. pool' \in Pools(ChainTx[b])
      BY <1>1, <1>2, <1>9, ExtendPool DEF IInv
    <2>6. ChainTx[b] \cap Own \subseteq made
      <3>1. ChainTx[b] = ChainTx[best] \cup Range(Txs[b])
        BY <1>1, ChainTxStep
      <3> QED
        BY <1>1, <3>1 DEF IInv, Exists
    <2> QED
      BY <1>1, <1>3, <1>9, <2>4, <2>5, <2>6 DEF IInv
  <1> QED
    BY <1>6, <1>8, <1>9

\* Reorganize.
LEMMA ReorganizeIInv ==
    ASSUME IInv, NEW b \in Block, NEW ok \in BOOLEAN, Reorganize(b, ok)
    PROVE  IInv'
  <1> DEFINE f == Fork(best, b)
             up == After(f, b)
             good == {n \in 0 .. Len(up) : \A i \in 1 .. n : Connectable[up[i]]}
             connected == SubSeq(up, 1, CHOOSE n \in good : n + 1 \notin good)
             v == DisableTransaction(w, BranchTx(f, best))
             u == TellBlocks(v, connected, TRUE)
             newPool == RemoveConflicts(RemoveTx(Resurrect(pool, BranchTx(f, best) \ Stake), BranchTx(f, b)), BranchTx(f, b))
             Done == /\ connected = up /\ best' = b /\ WriteLocator(b) /\ w' = u /\ pool' = newPool
                     /\ UNCHANGED <<fails, early, lost, misplaced, unscanned>>
  <1>1. UNCHANGED <<vtxPrev, backup, made, starts>> /\ Exists(BranchTx(f, b))
    BY Zenon DEF Reorganize, BranchTx
  <1>2. Done \/ ToldInVain(u)
    BY Zenon DEF Reorganize, BranchTx, history
  <1>3. best \in Block /\ WalletType(w) /\ ChainValid(best)
    BY DEF IInv, WalletState
  <1>4. f \in Ancestors[best] /\ f \in Ancestors[b] /\ f \in Block
    BY <1>3, ForkIsLast, AncestorsType
  <1>5. up \in Seq(Block \ {Genesis})
    BY <1>4, AfterIsBranch
  <1>6. connected \in Seq(Block) /\ (connected = up => \A i \in 1 .. Len(up) : Connectable[up[i]])
    <2> HIDE DEF up
    <2> QED
      BY <1>5, ConnectedIs
  <1>7. connected = up => ChainValid(b)
    <2> HIDE DEF connected, f
    <2> QED
      BY <1>3, <1>4, <1>6, ReorganizeChain
  <1> HIDE DEF f
  <1>8. /\ WalletType(v) /\ v.hashBlock = w.hashBlock
        /\ Heard(w, best) => Heard(v, f)
        /\ Placed(w, best) => Placed(v, f)
        /\ Flagged(w, best) => Flagged(v, f)
        /\ Justified(w, best) => Justified(v, f)
    BY <1>3, <1>4, DisableKeeps
  <1> HIDE DEF v, connected
  <1>9. WalletType(u) /\ DOMAIN w.hashBlock \subseteq DOMAIN u.hashBlock
    <2>1. WalletType(u) /\ DOMAIN v.hashBlock \subseteq DOMAIN u.hashBlock
      BY <1>6, <1>8, TellTrueGrows
    <2> HIDE DEF u
    <2> QED
      BY <1>8, <2>1
  <1>10. CASE ToldInVain(u)
    <2> HIDE DEF u
    <2> QED
      BY <1>1, <1>9, <1>10, InVainIInv
  <1>11. CASE Done
    <2>1. ChainValid(b) /\ connected = up
      BY <1>7, <1>11
    <2>2. Extended(v, TellBlocks(v, After(f, b), TRUE), f, b)
      BY <1>4, <1>8, <2>1, TellExtends
    <2>3. Extended(v, u, f, b)
      BY <2>1, <2>2, Zenon
    <2>4. /\ best' = b /\ WriteLocator(b) /\ w' = u /\ pool' = newPool
          /\ UNCHANGED <<fails, early, lost, misplaced, unscanned>>
      BY <1>11, Zenon
    <2> HIDE DEF u
    <2>5. ChainTx[f] \subseteq ChainTx[b]
      BY <1>4, ChainTxMono
    <2>6. /\ Heard(w, best) => Heard(u, b)
          /\ Heard(w, best) /\ Placed(w, best) => Placed(u, b)
          /\ Flagged(w, best) => Flagged(u, b)
          /\ Justified(w, best) => Justified(u, b)
      BY <1>4, <1>8, <2>3, <2>5 DEF Extended
    <2>7. locator' \in {locator, b}
      BY <2>4 DEF WriteLocator
    <2>8. WalletState'
      BY <1>1, <1>9, <2>4, <2>6, <2>7, MovedState DEF IInv
    <2>9. newPool \in Pools(ChainTx[b])
      BY <1>3, <1>4, ReorganizePool DEF IInv
    <2> HIDE DEF newPool
    <2>10. ChainTx[b] \cap Own \subseteq made
      <3>1. ChainTx[b] = ChainTx[f] \cup BranchTx(f, b) /\ ChainTx[f] \subseteq ChainTx[best]
        BY <1>3, <1>4, <2>1, BranchTxIs, ChainTxMono
      <3> QED
        BY <1>1, <3>1 DEF IInv, Exists
    <2> QED
      BY <1>1, <2>1, <2>4, <2>8, <2>9, <2>10 DEF IInv
  <1> QED
    BY <1>2, <1>10, <1>11

\* What the program does when it starts with a wallet file.
StartWith(file, fRescan) ==
    LET scanned == TellBlocks(file.w, IF fRescan THEN PathTo[best] ELSE RescanFrom(file.locator), TRUE)
        loose == (DOMAIN scanned.hashBlock \cap Tx) \ (ChainTx[best] \cup Stake)
    IN  /\ starts < MaxStart /\ starts' = starts + 1
        /\ \E order \in SetToSeqs(loose) :
              w' = Reaccepted(scanned, order, file.vtxPrev).w /\ pool' = Reaccepted(scanned, order, file.vtxPrev).pool
        /\ vtxPrev' = file.vtxPrev
        /\ locator' = file.locator
        /\ unscanned' = IF fRescan THEN file.unscanned /\ file.locator \notin Ancestors[best] \cup {None}
                        ELSE file.unscanned \/ NotRescanned(file)
        /\ misplaced' = (unscanned' \/ (~fRescan /\ (file.misplaced \/ Stale(file))))
        /\ early' = /\ ~fRescan
                    /\ \/ (file.early \/ Stale(file)) /\ Skipped(scanned) # {}
                       \/ unscanned' /\ Skipped(w') # {}
        /\ lost' = (file.lost \/ file.tip \notin Ancestors[best])
        /\ UNCHANGED <<best, backup, made, fails>>

\* A start with a good file.
LEMMA StartIInv ==
    ASSUME IInv, NEW file, FileOK(file), NEW fRescan \in BOOLEAN, StartWith(file, fRescan)
    PROVE  IInv'
  <1> DEFINE path == IF fRescan THEN PathTo[best] ELSE RescanFrom(file.locator)
             scanned == TellBlocks(file.w, path, TRUE)
             loose == (DOMAIN scanned.hashBlock \cap Tx) \ (ChainTx[best] \cup Stake)
             U == IF fRescan THEN file.unscanned /\ file.locator \notin Ancestors[best] \cup {None}
                  ELSE file.unscanned \/ NotRescanned(file)
             M == U \/ (~fRescan /\ (file.misplaced \/ Stale(file)))
             E == /\ ~fRescan
                  /\ \/ (file.early \/ Stale(file)) /\ Skipped(scanned) # {}
                     \/ U /\ Skipped(w') # {}
             L == file.lost \/ file.tip \notin Ancestors[best]
  <1>1. /\ best \in Block /\ ChainValid(best) /\ file.locator \in Block \cup {None}
        /\ file.vtxPrev \in [Tx -> Seq(Tx)]
    BY DEF IInv, WalletState, FileOK
  <1>2. ASSUME NEW fUpdate \in BOOLEAN, Updates(fUpdate), NEW order \in Seq(Tx)
        PROVE  LET s == TellBlocks(file.w, path, fUpdate)
                   q == Reaccepted(s, order, file.vtxPrev)
               IN  Started(file, fRescan, s, q.w) /\ q.pool \in Pools(ChainTx[best])
    BY <1>1, <1>2, StartKeeps
  <1>3. TRUE \in BOOLEAN /\ Updates(TRUE)
    BY DEF Updates
  <1>4. \A order \in Seq(Tx) : /\ Started(file, fRescan, scanned, Reaccepted(scanned, order, file.vtxPrev).w)
                               /\ Reaccepted(scanned, order, file.vtxPrev).pool \in Pools(ChainTx[best])
    BY <1>2, <1>3, Zenon
  <1>5. /\ starts < MaxStart /\ starts' = starts + 1
        /\ \E order \in SetToSeqs(loose) :
              w' = Reaccepted(scanned, order, file.vtxPrev).w /\ pool' = Reaccepted(scanned, order, file.vtxPrev).pool
        /\ vtxPrev' = file.vtxPrev
        /\ locator' = file.locator /\ UNCHANGED <<best, backup, made, fails>>
    BY Zenon DEF StartWith
  <1>6. unscanned' = U /\ misplaced' = M /\ early' = E /\ lost' = L
    BY Zenon DEF StartWith
  <1>7. loose \in SUBSET Tx
    OBVIOUS
  <1> HIDE DEF scanned, path, loose
  <1>8. PICK order \in SetToSeqs(loose) :
           w' = Reaccepted(scanned, order, file.vtxPrev).w /\ pool' = Reaccepted(scanned, order, file.vtxPrev).pool
    BY <1>5
  <1>9. order \in Seq(Tx)
    BY <1>7, <1>8, Listed
  <1>10. Started(file, fRescan, scanned, w') /\ pool' \in Pools(ChainTx[best])
    BY <1>4, <1>8, <1>9, Zenon
  <1>11. ~U => /\ Heard(w', best)
               /\ file.locator # None => Heard(w', file.locator)
    <2>1. ASSUME ~U PROVE Heard(w', best)
      BY <1>10, <2>1, Zenon DEF Started
    <2>2. CASE ~file.unscanned
      BY <1>10, <2>1, <2>2, Zenon DEF Started
    <2>3. ASSUME ~U, file.unscanned, file.locator # None PROVE Heard(w', file.locator)
      <3>1. file.locator \in Ancestors[best]
        BY <2>3
      <3> QED
        BY <1>1, <2>1, <2>3, <3>1, LowerKnown
    <2> QED
      BY <2>1, <2>2, <2>3, Zenon
  <1>12. M \/ Placed(w', best)
    BY <1>10, Zenon DEF Started
  <1>13. E \/ Flagged(w', best)
    BY <1>10, Zenon DEF Started
  <1>14. L \/ Justified(w', best)
    BY <1>10, Zenon DEF Started
  <1>15. U \in BOOLEAN /\ M \in BOOLEAN /\ E \in BOOLEAN /\ L \in BOOLEAN
    <2>1. file.early \in BOOLEAN /\ file.lost \in BOOLEAN /\ file.misplaced \in BOOLEAN /\ file.unscanned \in BOOLEAN
      BY Zenon DEF FileOK
    <2>2. Stale(file) \in BOOLEAN /\ NotRescanned(file) \in BOOLEAN
      BY Zenon DEF OffItsChain, NotRescanned, Stale
    <2>3. U \in BOOLEAN
      BY <2>1, <2>2, Zenon
    <2> HIDE DEF U
    <2> QED
      BY <2>1, <2>2, <2>3, Zenon
  <1>16. WalletType(w') /\ (U => M)
    BY <1>10, Zenon DEF Started
  <1> HIDE DEF U, M, E, L
  <1>17. U \/ (Heard(w', best) /\ (file.locator # None => Heard(w', file.locator)))
    BY <1>11, Zenon
  <1>18. WalletState'
    BY <1>1, <1>5, <1>6, <1>12, <1>13, <1>14, <1>15, <1>16, <1>17, Zenon DEF WalletState
  <1>19. starts' \in 0 .. MaxStart
    BY <1>5, WalletAssumption DEF IInv
  <1> QED
    BY <1>5, <1>10, <1>18, <1>19 DEF IInv

\* The repair.
LEMMA FixIInv ==
    ASSUME IInv, FixSpentCoins
    PROVE  IInv'
  <1> DEFINE unconfirmed == {o \in w.spent : o[1] \notin Coin \cup ChainTx[best]}
             L == unscanned \/ (lost /\ unconfirmed # {})
  <1>1. best \in Block /\ ChainValid(best) /\ WalletType(w)
    BY DEF IInv, WalletState
  <1>2. /\ w' = [w EXCEPT !.spent = unconfirmed \cup UNION {IndexSpent(t) : t \in DOMAIN w.hashBlock}]
        /\ UNCHANGED <<best, pool, vtxPrev, locator, backup, made, fails, starts, misplaced, unscanned>>
    BY Zenon DEF FixSpentCoins
  <1>3. early' = FALSE /\ lost' = L
    BY Zenon DEF FixSpentCoins
  <1>4. unconfirmed = {o \in w.spent : o[1] \notin Coin \cup ChainTx[best]}
    OBVIOUS
  <1> HIDE DEF unconfirmed
  <1>5. /\ WalletType(w') /\ w'.hashBlock = w.hashBlock /\ Flagged(w', best)
        /\ Heard(w, best) /\ (Justified(w, best) \/ unconfirmed = {}) => Justified(w', best)
    BY <1>1, <1>2, <1>4, FixKeeps
  <1>6. /\ Heard(w, best) => Heard(w', best)
        /\ Heard(w, locator) => Heard(w', locator)
        /\ Placed(w, best) => Placed(w', best)
    BY <1>5 DEF Heard, Placed
  <1>7. early' \in BOOLEAN
    BY <1>3, Zenon
  <1>8. /\ lost \in BOOLEAN /\ (lost \/ Justified(w, best))
        /\ unscanned \in BOOLEAN /\ (unscanned \/ Heard(w, best))
    BY Zenon DEF IInv, WalletState
  <1>9. L \in BOOLEAN /\ (L \/ Justified(w', best))
    BY <1>5, <1>8, Zenon
  <1> HIDE DEF L
  <1>10. lost' \in BOOLEAN /\ (lost' \/ Justified(w', best))
    BY <1>3, <1>9, Zenon
  <1>11. /\ best \in Block /\ locator \in Block \cup {None} /\ vtxPrev \in [Tx -> Seq(Tx)]
         /\ misplaced \in BOOLEAN /\ (misplaced \/ Placed(w, best))
         /\ unscanned \in BOOLEAN /\ (unscanned => misplaced)
         /\ unscanned \/ (Heard(w, best) /\ (locator # None => Heard(w, locator)))
    BY Zenon DEF IInv, WalletState
  <1>12. WalletState'
    BY <1>2, <1>5, <1>6, <1>7, <1>10, <1>11, Zenon DEF WalletState
  <1> QED
    BY <1>2, <1>12 DEF IInv

\* Every step keeps the invariant.
LEMMA NextIInv == IInv /\ [Next]_vars => IInv'
  <1> SUFFICES ASSUME IInv, [Next]_vars PROVE IInv'
    OBVIOUS
  <1>1. CASE \E t \in Own : CommitTransaction(t)
    BY <1>1, CommitIInv
  <1>2. CASE \E t \in Tx, fOrphan \in BOOLEAN : ReceiveTx(t, fOrphan)
    BY <1>2, ReceiveIInv
  <1>3. CASE \E b \in Block, ok \in BOOLEAN : Extend(b, ok)
    BY <1>3, ExtendIInv
  <1>4. CASE \E b \in Block, ok \in BOOLEAN : Reorganize(b, ok)
    BY <1>4, ReorganizeIInv
  <1>5. CASE \E fRescan \in BOOLEAN : Start(FALSE, fRescan)
    <2>1. PICK fRescan \in BOOLEAN : Start(FALSE, fRescan)
      BY <1>5
    <2>2. FileOK(WalletFile)
      BY FileIs DEF IInv
    <2>3. StartWith(WalletFile, fRescan)
      BY <2>1, Zenon DEF Start, StartWith, Stale
    <2> QED
      BY <2>2, <2>3, StartIInv
  <1>6. CASE \E fRescan \in BOOLEAN : RestoreBackup(fRescan)
    <2>1. PICK fRescan \in BOOLEAN : RestoreBackup(fRescan)
      BY <1>6
    <2>2. FileOK(backup)
      BY <2>1, Zenon DEF IInv, RestoreBackup
    <2>3. StartWith(backup, fRescan)
      BY <2>1, Zenon DEF RestoreBackup, Start, StartWith, Stale
    <2> QED
      BY <2>2, <2>3, StartIInv
  <1>7. CASE BackupWallet
    <2>1. /\ UNCHANGED <<best, pool, w, vtxPrev, locator, made, fails, starts, early, lost, misplaced, unscanned>>
          /\ backup' = WalletFile
      BY <1>7, Zenon DEF BackupWallet, history
    <2>2. FileOK(backup')
      BY <2>1, FileIs DEF IInv
    <2>3. WalletState'
      BY <2>1, Zenon DEF IInv, WalletState
    <2> QED
      BY <2>1, <2>2, <2>3 DEF IInv
  <1>8. CASE FixSpentCoins
    BY <1>8, FixIInv
  <1>9. CASE UNCHANGED vars
    <2>1. WalletState'
      BY <1>9, Zenon DEF IInv, WalletState, vars, history
    <2> QED
      BY <1>9, <2>1 DEF IInv, vars
  <1> QED
    BY <1>1, <1>2, <1>3, <1>4, <1>5, <1>6, <1>7, <1>8, <1>9 DEF Next

\* So it always holds.
LEMMA Invariance == Spec => []IInv
  <1>1. Init => IInv
    BY InitIInv
  <1>2. IInv /\ [Next]_vars => IInv'
    BY NextIInv
  <1> QED
    BY <1>1, <1>2, PTL DEF Spec
-----------------------------------------------------------------------------
\* Every transaction of the best chain that pays or spends the wallet is in mapWallet
\* under its block, whatever reorganisations, restarts and restored backups came before
\* (AddToWallet, ScanForWalletTransactions from the locator), for every tree of blocks
\* and transactions.  The two exceptions are the code's: a file restored with no locator
\* is not rescanned at all (init.cpp, the test of ReadBestBlock), so that it may lack
\* transactions until -rescan; and a change told and not committed, or a locator that
\* left its chain, may leave a transaction under another block, though never unknown.
THEOREM WalletKnowsChain == Spec => []ChainKnown
  <1>1. IInv => TypeOK
    <2> SUFFICES ASSUME IInv PROVE TypeOK
      OBVIOUS
    <2>1. /\ best \in Block /\ locator \in Block \cup {None} /\ WalletType(w) /\ vtxPrev \in [Tx -> Seq(Tx)]
          /\ made \subseteq Own /\ fails \in 0 .. MaxFail /\ starts \in 0 .. MaxStart
      BY DEF IInv, WalletState
    <2>2. Consistent(pool) /\ pool.mapTx \subseteq Tx \ ChainTx[best]
      BY DEF IInv, Pools
    <2>3. /\ DOMAIN w.hashBlock \subseteq Tx \cup Coin
          /\ \A t \in DOMAIN w.hashBlock : w.hashBlock[t] \in Block \cup {None}
          /\ w.spent \subseteq Mine /\ {o[1] : o \in w.spent} \subseteq DOMAIN w.hashBlock
      BY <2>1 DEF WalletType
    <2>4. early \in BOOLEAN /\ lost \in BOOLEAN /\ misplaced \in BOOLEAN /\ unscanned \in BOOLEAN
      BY Zenon DEF IInv, WalletState
    <2>5. {early, lost, misplaced, unscanned} \subseteq BOOLEAN
      BY <2>4, Zenon
    <2> QED
      BY <2>1, <2>2, <2>3, <2>5, Zenon DEF TypeOK
  <1>2. IInv => ChainKnown
    <2> SUFFICES ASSUME IInv PROVE ChainKnown
      OBVIOUS
    <2>1. TypeOK
      BY <1>1
    <2>2. (unscanned \/ Heard(w, best)) /\ (misplaced \/ Placed(w, best))
      BY Zenon DEF IInv, WalletState
    <2>3. ASSUME NEW b \in Ancestors[best], NEW t \in Range(Txs[b]), (Outs(t) \cup Ins[t]) \cap Mine # {}
          PROVE  (unscanned \/ t \in DOMAIN w.hashBlock) /\ (misplaced \/ w.hashBlock[t] = b)
      <3>1. Involves(t)
        BY <2>3, Zenon DEF Involves
      <3>2. unscanned \/ t \in DOMAIN w.hashBlock
        BY <2>2, <3>1, Zenon DEF Heard
      <3>3. misplaced \/ w.hashBlock[t] = b
        BY <2>2, <3>1, Zenon DEF Placed
      <3> QED
        BY <3>2, <3>3, Zenon
    <2> QED
      BY <2>1, <2>3, Zenon DEF ChainKnown
  <1> QED
    BY <1>2, Invariance, PTL

\* AvailableCoins never offers a coin that the best chain has spent, but for what was told
\* and not committed, restored off its chain or restored with no locator, and not yet put
\* right by a start or a repair (WalletUpdateSpent, MarkByIndex, FixSpentCoins).
THEOREM NoSpentCoinOffered == Spec => []OffersUnspentCoins
  <1>1. IInv => OffersUnspentCoins
    <2> SUFFICES ASSUME IInv PROVE OffersUnspentCoins
      OBVIOUS
    <2>1. early \/ Flagged(w, best)
      BY Zenon DEF IInv, WalletState
    <2>2. ASSUME Flagged(w, best) PROVE AvailableCoins \cap ChainSpent[best] = {}
      <3> SUFFICES ASSUME NEW o \in AvailableCoins, o \in ChainSpent[best] PROVE FALSE
        OBVIOUS
      <3>1. o \in Mine /\ o \notin w.spent /\ o[1] \in DOMAIN w.hashBlock
        BY DEF AvailableCoins
      <3>2. best \in Block
        BY DEF IInv, WalletState
      <3>3. PICK t \in ChainTx[best] : o \in Ins[t]
        BY <3>2 DEF ChainSpent
      <3> QED
        BY <2>2, <3>1, <3>3 DEF Flagged, FlaggedFor, Debits
    <2> QED
      BY <2>1, <2>2, Zenon DEF OffersUnspentCoins
  <1> QED
    BY <1>1, Invariance, PTL

\* No coin is lost: every flagged coin has a spender in the wallet that is in the best chain
\* or may still get there, so a coinstake whose block was disconnected withholds nothing
\* (DisableTransaction), with the exceptions that Start and FixSpentCoins record.
THEOREM NoCoinLost == Spec => []FlagsJustified
  <1>1. IInv => FlagsJustified
    <2> SUFFICES ASSUME IInv PROVE FlagsJustified
      OBVIOUS
    <2>1. lost \/ Justified(w, best)
      BY Zenon DEF IInv, WalletState
    <2> QED
      BY <2>1, Zenon DEF Justified, JustifiedBy, FlagsJustified
  <1> QED
    BY <1>1, Invariance, PTL
=============================================================================
