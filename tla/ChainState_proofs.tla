-------------------------- MODULE ChainState_proofs --------------------------
(***************************************************************************)
(* The choice of the best chain for every tree of blocks and transactions, *)
(* every order of blocks, failing commits and crashes: what is committed   *)
(* only moves to more trust, the links in memory and on disk are those of  *)
(* the best chain, no transaction of the pool is in the index, the index   *)
(* has what the best chain has and spends, and the money supply is what    *)
(* the best chain leaves unspent.                                          *)
(***************************************************************************)
EXTENDS ChainState, BlockTree_proofs

-----------------------------------------------------------------------------
\* A function.
IsFcn(f) == f = [x \in DOMAIN f |-> f[x]]

\* A transaction index: an entry for each of its transactions, with every output.
IndexType(tx) ==
    /\ IsFcn(tx) /\ DOMAIN tx \subseteq Tx
    /\ \A h \in DOMAIN tx : /\ tx[h] = [pos |-> tx[h].pos, vSpent |-> tx[h].vSpent]
                            /\ IsFcn(tx[h].vSpent) /\ DOMAIN tx[h].vSpent = 0 .. NOut[h] - 1

\* The entries of the block index.
Entry == [next : Block \cup {None}, supply : Int]

\* A database.
DBType(d) ==
    /\ d = [idx |-> d.idx, best |-> d.best, tx |-> d.tx]
    /\ d.idx \in [DOMAIN d.idx -> Entry] /\ DOMAIN d.idx \subseteq Block
    /\ IndexType(d.tx)

\* The inductive invariant: the database has its type, blocks on disk are in memory,
\* and memory is closed under pprev ...
StateOK ==
    /\ DBType(db) /\ db.best \in DOMAIN db.idx /\ Genesis \in DOMAIN db.idx
    /\ DOMAIN db.idx \subseteq mapBlockIndex /\ mapBlockIndex \in PprevClosed
    /\ pnext \in [Block -> Block \cup {None}]
    /\ nMoneySupply \in [Block -> Int]
    /\ pindexBest \in mapBlockIndex
    /\ crashes \in 0 .. MaxCrash /\ fails \in 0 .. MaxFail /\ strayed \in BOOLEAN

\* ... the target of SetBestChain has more trust than the best block, and the blocks
\* still to be connected lead from the block that is best on disk to the target ...
JobOK ==
    \/ job = NoJob
    \/ /\ job = [target |-> job.target, secondary |-> <<>>, begun |-> FALSE]
       /\ job.target \in mapBlockIndex \ {Genesis}
       /\ nChainTrust[job.target] > nChainTrust[pindexBest]
    \/ /\ job = [target |-> job.target, secondary |-> After(db.best, job.target), begun |-> TRUE]
       /\ job.target \in mapBlockIndex \ {Genesis}
       /\ db.best \in Ancestors[job.target] \ {job.target}

\* ... memory is never behind the disk in trust, and on the same block unless a
\* postponed block has failed ...
BestOK ==
    ~job.begun => /\ nChainTrust[db.best] <= nChainTrust[pindexBest]
                  /\ ~strayed => pindexBest = db.best

\* ... the links in memory are those on disk, none for an unknown block, and those of
\* the best chain on disk ...
LinksOK ==
    /\ \A b \in DOMAIN db.idx : pnext[b] = db.idx[b].next
    /\ \A b \in Block \ mapBlockIndex : pnext[b] = None
    /\ ~strayed => \A b \in Block : pnext[b] = NextOn(db.best, b)

\* ... and the pool is disjoint from the transaction index, at every commit.
PoolOK ==
    /\ pool = [mapTx |-> pool.mapTx, mapNextTx |-> pool.mapNextTx]
    /\ pool.mapTx \subseteq Tx
    /\ pool.mapTx \cap DOMAIN db.tx = {}

IInv == StateOK /\ JobOK /\ BestOK /\ LinksOK /\ PoolOK
-----------------------------------------------------------------------------
\* Induction over the subsets of a finite set.
LEMMA UpToSet ==
    ASSUME NEW S, IsFiniteSet(S), NEW G,
           \A T \in SUBSET S : (\A x \in T : T \ {x} \in G) => T \in G
    PROVE  S \in G
  <1> DEFINE N == Cardinality(S)
             Sub(n) == {T \in SUBSET S : Cardinality(T) = n}
             R == {n \in 0 .. N : Sub(n) \subseteq G}
  <1>1. N \in Nat /\ \A T \in SUBSET S : IsFiniteSet(T) /\ Cardinality(T) \in Nat
    BY FS_CardinalityType, FS_Subset
  <1>2. Sub(0) \subseteq G
    <2>1. ASSUME NEW T \in SUBSET S, Cardinality(T) = 0 PROVE T = {}
      BY <1>1, <2>1, FS_EmptySet
    <2> QED
      BY <2>1
  <1>3. ASSUME NEW n \in 1 .. N, Sub(n - 1) \subseteq G PROVE Sub(n) \subseteq G
    <2>1. ASSUME NEW T \in SUBSET S, Cardinality(T) = n PROVE T \in G
      <3>1. ASSUME NEW x \in T PROVE Cardinality(T \ {x}) = n - 1
        BY <1>1, <2>1, FS_RemoveElement
      <3>2. \A x \in T : T \ {x} \in Sub(n - 1)
        BY <3>1
      <3> QED
        BY <1>3, <3>2
    <2> QED
      BY <2>1
  <1> HIDE DEF Sub, N
  <1>4. 0 \in R /\ \A n \in 1 .. N : n - 1 \in R => n \in R
    BY <1>1, <1>2, <1>3
  <1> HIDE DEF R
  <1>5. \A n \in 0 .. N : n \in R
    BY <1>1, <1>4, UpTo
  <1>6. N \in R
    BY <1>1, <1>5
  <1>7. Sub(N) \subseteq G
    BY <1>6 DEF R
  <1> QED
    BY <1>7 DEF Sub, N

\* The order in which FoldSet takes the elements of a set, and what an output is worth.
Pick(T) == CHOOSE o \in T : TRUE
Worth(o) == Val[o[1]][o[2]]

\* f gives every subset of S its value, in that order.
Sums(f, S) == f = [T \in SUBSET S |-> IF T = {} THEN 0 ELSE f[T \ {Pick(T)}] + Worth(Pick(T))]

\* FoldSet is well defined on finite sets.
LEMMA ValueSums ==
    ASSUME NEW S, IsFiniteSet(S)
    PROVE  \E f : Sums(f, S) /\ ValueOf(S) = f[S]
  <1> DEFINE Rec(f, D) == \A T \in D : f[T] = IF T = {} THEN 0 ELSE f[T \ {Pick(T)}] + Worth(Pick(T))
             Sub(n) == {T \in SUBSET S : Cardinality(T) <= n}
             N == Cardinality(S)
  <1>1. ASSUME NEW T \in SUBSET S
        PROVE  /\ IsFiniteSet(T) /\ Cardinality(T) \in 0 .. N /\ (Cardinality(T) = 0 <=> T = {})
               /\ T # {} => /\ Pick(T) \in T /\ T \ {Pick(T)} \in SUBSET S
                            /\ Cardinality(T \ {Pick(T)}) = Cardinality(T) - 1
    <2>1. IsFiniteSet(T) /\ Cardinality(T) <= Cardinality(S)
      BY FS_Subset
    <2>2. Cardinality(T) \in Nat /\ N \in Nat /\ (Cardinality(T) = 0 <=> T = {})
      BY <2>1, FS_CardinalityType, FS_EmptySet
    <2>3. T # {} => Pick(T) \in T
      BY DEF Pick
    <2>4. T # {} => Cardinality(T \ {Pick(T)}) = Cardinality(T) - 1
      BY <2>1, <2>3, FS_RemoveElement
    <2> QED
      BY <2>1, <2>2, <2>3, <2>4
  <1>2. N \in Nat
    BY FS_CardinalityType
  <1> HIDE DEF N
  <1>3. ASSUME NEW n \in Int, NEW T
        PROVE  T \in Sub(n) <=> T \in SUBSET S /\ Cardinality(T) <= n
    OBVIOUS
  <1>4. Sub(N) = SUBSET S
    <2>1. ASSUME NEW T \in SUBSET S PROVE Cardinality(T) <= N
      <3>1. Cardinality(T) \in 0 .. N
        BY <1>1
      <3> QED
        BY <1>2, <3>1
    <2> QED
      BY <2>1
  <1>5. ASSUME NEW T \in Sub(0) PROVE T = {}
    <2>1. T \in SUBSET S /\ Cardinality(T) <= 0
      OBVIOUS
    <2>2. Cardinality(T) \in 0 .. N /\ (Cardinality(T) = 0 <=> T = {})
      BY <1>1, <2>1
    <2> QED
      BY <1>2, <2>1, <2>2
  <1>6. ASSUME NEW n \in 1 .. N
        PROVE  /\ Sub(n - 1) \subseteq Sub(n)
               /\ \A T \in Sub(n) : T # {} => /\ Pick(T) \in T /\ Pick(T) \in S
                                             /\ T \ {Pick(T)} \in Sub(n - 1)
    <2>1. n \in Int /\ n - 1 \in Int
      BY <1>2
    <2>2. ASSUME NEW T \in SUBSET S PROVE Cardinality(T) \in Int
      <3>1. Cardinality(T) \in 0 .. N
        BY <1>1
      <3> QED
        BY <1>2, <3>1
    <2> HIDE DEF Sub
    <2>3. ASSUME NEW T \in Sub(n - 1) PROVE T \in Sub(n)
      <3>1. T \in SUBSET S /\ Cardinality(T) <= n - 1 /\ Cardinality(T) \in Int
        BY <1>3, <2>1, <2>2
      <3> QED
        BY <1>3, <2>1, <3>1
    <2>4. ASSUME NEW T \in Sub(n), T # {}
          PROVE  Pick(T) \in T /\ Pick(T) \in S /\ T \ {Pick(T)} \in Sub(n - 1)
      <3>1. T \in SUBSET S /\ Cardinality(T) <= n /\ Cardinality(T) \in Int
        BY <1>3, <2>1, <2>2
      <3>2. Pick(T) \in T /\ T \ {Pick(T)} \in SUBSET S /\ Cardinality(T \ {Pick(T)}) = Cardinality(T) - 1
        BY <1>1, <2>4, <3>1
      <3>3. Cardinality(T \ {Pick(T)}) <= n - 1
        BY <2>1, <3>1, <3>2
      <3> QED
        BY <1>3, <2>1, <3>1, <3>2, <3>3
    <2> QED
      BY <2>3, <2>4
  <1> HIDE DEF Sub
  <1>7. \E f : f = [T \in SUBSET S |-> f[T]] /\ Rec(f, SUBSET S)
    <2> DEFINE Has(n) == \E f : f = [T \in Sub(n) |-> f[T]] /\ Rec(f, Sub(n))
               G == {n \in 0 .. N : Has(n)}
    <2>1. 0 \in G
      <3> DEFINE f == [T \in Sub(0) |-> 0]
      <3>1. f = [T \in Sub(0) |-> f[T]] /\ Rec(f, Sub(0))
        BY <1>5
      <3>2. Has(0)
        BY <3>1
      <3> HIDE DEF Has
      <3> QED
        BY <1>2, <3>2
    <2>2. ASSUME NEW n \in 1 .. N, n - 1 \in G PROVE n \in G
      <3>0. Has(n - 1)
        <4> HIDE DEF Has
        <4> QED
          BY <2>2
      <3>1. PICK g : g = [T \in Sub(n - 1) |-> g[T]] /\ Rec(g, Sub(n - 1))
        BY <3>0
      <3> DEFINE f == [T \in Sub(n) |-> IF T = {} THEN 0 ELSE g[T \ {Pick(T)}] + Worth(Pick(T))]
      <3>2. \A T \in Sub(n - 1) : f[T] = g[T]
        BY <1>6, <3>1
      <3>3. ASSUME NEW T \in Sub(n) PROVE f[T] = IF T = {} THEN 0 ELSE f[T \ {Pick(T)}] + Worth(Pick(T))
        <4>1. CASE T = {}
          BY <4>1
        <4>2. CASE T # {}
          <5>1. f[T \ {Pick(T)}] = g[T \ {Pick(T)}]
            BY <1>6, <3>2, <4>2
          <5>2. f[T] = g[T \ {Pick(T)}] + Worth(Pick(T))
            BY <4>2
          <5> QED
            BY <4>2, <5>1, <5>2
        <4> QED
          BY <4>1, <4>2
      <3>4. f = [T \in Sub(n) |-> f[T]]
        OBVIOUS
      <3> HIDE DEF f
      <3>5. Has(n)
        BY <3>3, <3>4
      <3> HIDE DEF Has
      <3> QED
        BY <1>2, <3>5
    <2>3. Has(N)
      <3> HIDE DEF Has
      <3>1. 0 \in G /\ \A n \in 1 .. N : n - 1 \in G => n \in G
        BY <2>1, <2>2
      <3> HIDE DEF G
      <3>2. \A n \in 0 .. N : n \in G
        BY <1>2, <3>1, UpTo
      <3> QED
        BY <1>2, <3>2 DEF G
    <2> QED
      BY <1>4, <2>3
  <1> DEFINE Def(f) == f = [T \in SUBSET S |-> IF T = {} THEN 0 ELSE f[T \ {Pick(T)}] + Worth(Pick(T))]
             iter == CHOOSE f : Def(f)
  <1>8. Def(iter)
    <2>1. \E f : Def(f)
      BY <1>7
    <2> HIDE DEF Def
    <2> QED
      BY <2>1
  <1>9. ValueOf(S) = iter[S]
    BY DEF ValueOf, FoldSet, MapThenFoldSet, Pick, Worth
  <1> HIDE DEF iter
  <1> QED
    BY <1>8, <1>9 DEF Sums

\* FoldSet takes one element at a time, and the value of the others is their own fold.
LEMMA ValueStep ==
    /\ ValueOf({}) = 0
    /\ \A S : IsFiniteSet(S) /\ S # {} =>
         Pick(S) \in S /\ ValueOf(S) = ValueOf(S \ {Pick(S)}) + Worth(Pick(S))
  <1>1. ASSUME NEW S, NEW f, Sums(f, S), NEW T \in SUBSET S
        PROVE  /\ f[T] = IF T = {} THEN 0 ELSE f[T \ {Pick(T)}] + Worth(Pick(T))
    BY <1>1 DEF Sums
  <1>2. ValueOf({}) = 0
    <2>1. IsFiniteSet({})
      BY FS_EmptySet
    <2>2. PICK f : Sums(f, {}) /\ ValueOf({}) = f[{}]
      BY <2>1, ValueSums
    <2> QED
      BY <1>1, <2>2
  <1>3. ASSUME NEW S, IsFiniteSet(S), S # {}
        PROVE  Pick(S) \in S /\ ValueOf(S) = ValueOf(S \ {Pick(S)}) + Worth(Pick(S))
    <2> DEFINE R == S \ {Pick(S)}
    <2>1. Pick(S) \in S
      BY <1>3 DEF Pick
    <2>2. IsFiniteSet(R) /\ R \in SUBSET S
      BY <1>3, FS_Subset
    <2>3. PICK f : Sums(f, S) /\ ValueOf(S) = f[S]
      BY <1>3, ValueSums
    <2>4. PICK g : Sums(g, R) /\ ValueOf(R) = g[R]
      BY <2>2, ValueSums
    <2>5. f[S] = f[R] + Worth(Pick(S))
      BY <1>1, <1>3, <2>3
    <2> DEFINE G == {T \in SUBSET R : f[T] = g[T]}
    <2>6. ASSUME NEW T \in SUBSET R, \A x \in T : T \ {x} \in G PROVE T \in G
      <3>1. f[T] = IF T = {} THEN 0 ELSE f[T \ {Pick(T)}] + Worth(Pick(T))
        BY <1>1, <2>2, <2>3
      <3>2. g[T] = IF T = {} THEN 0 ELSE g[T \ {Pick(T)}] + Worth(Pick(T))
        BY <1>1, <2>4
      <3>3. T # {} => Pick(T) \in T
        BY DEF Pick
      <3>4. T # {} => f[T \ {Pick(T)}] = g[T \ {Pick(T)}]
        BY <2>6, <3>3
      <3> QED
        BY <3>1, <3>2, <3>4
    <2>7. R \in G
      <3> HIDE DEF G, R
      <3> QED
        BY <2>2, <2>6, UpToSet
    <2> QED
      BY <2>1, <2>3, <2>4, <2>5, <2>7
  <1> QED
    BY <1>2, <1>3

\* What a set of outputs is worth is a number (GetValueIn, GetValueOut).
LEMMA ValueType ==
    ASSUME NEW S, IsFiniteSet(S), \A o \in S : Val[o[1]][o[2]] \in Int
    PROVE  ValueOf(S) \in Int
  <1> DEFINE G == {T \in SUBSET S : ValueOf(T) \in Int}
  <1>1. ASSUME NEW T \in SUBSET S, \A x \in T : T \ {x} \in G PROVE T \in G
    <2>1. CASE T = {}
      BY <2>1, ValueStep
    <2>2. CASE T # {}
      <3>1. IsFiniteSet(T)
        BY FS_Subset
      <3>2. Pick(T) \in T /\ ValueOf(T) = ValueOf(T \ {Pick(T)}) + Worth(Pick(T))
        BY <2>2, <3>1, ValueStep
      <3>3. Worth(Pick(T)) \in Int /\ ValueOf(T \ {Pick(T)}) \in Int
        BY <1>1, <3>2 DEF Worth
      <3> QED
        BY <3>2, <3>3
    <2> QED
      BY <2>1, <2>2
  <1>2. S \in G
    <2> HIDE DEF G
    <2> QED
      BY <1>1, UpToSet
  <1> QED
    BY <1>2

\* The order does not matter: any element can be taken out.
LEMMA ValueRemove ==
    ASSUME NEW S, IsFiniteSet(S), \A o \in S : Val[o[1]][o[2]] \in Int, NEW y \in S
    PROVE  ValueOf(S) = ValueOf(S \ {y}) + Worth(y)
  <1> DEFINE G == {T \in SUBSET S : \A x \in T : ValueOf(T) = ValueOf(T \ {x}) + Worth(x)}
  <1>1. ASSUME NEW T \in SUBSET S PROVE IsFiniteSet(T) /\ ValueOf(T) \in Int
    <2>1. IsFiniteSet(T)
      BY FS_Subset
    <2> QED
      BY <2>1, ValueType
  <1>2. ASSUME NEW T \in SUBSET S, \A x \in T : T \ {x} \in G PROVE T \in G
    <2> SUFFICES ASSUME NEW x \in T PROVE ValueOf(T) = ValueOf(T \ {x}) + Worth(x)
      OBVIOUS
    <2> DEFINE p == Pick(T)
    <2>1. p \in T /\ ValueOf(T) = ValueOf(T \ {p}) + Worth(p)
      BY <1>1, ValueStep
    <2>2. CASE p = x
      BY <2>1, <2>2
    <2>3. CASE p # x
      <3> HIDE DEF p
      <3>1. ValueOf(T \ {p}) = ValueOf((T \ {p}) \ {x}) + Worth(x)
        BY <1>2, <2>1, <2>3
      <3>2. ValueOf(T \ {x}) = ValueOf((T \ {x}) \ {p}) + Worth(p)
        BY <1>2, <2>1, <2>3
      <3>3. ValueOf((T \ {p}) \ {x}) = ValueOf((T \ {x}) \ {p})
        <4>1. (T \ {p}) \ {x} = (T \ {x}) \ {p}
          OBVIOUS
        <4> QED
          BY <4>1, Zenon
      <3>4. ValueOf((T \ {p}) \ {x}) \in Int /\ Worth(x) \in Int /\ Worth(p) \in Int
        BY <1>1, <2>1 DEF Worth
      <3> HIDE DEF G
      <3> QED
        BY <2>1, <3>1, <3>2, <3>3, <3>4
    <2> QED
      BY <2>2, <2>3
  <1>3. S \in G
    <2> HIDE DEF G
    <2> QED
      BY <1>2, UpToSet
  <1> QED
    BY <1>3

\* Two sets of outputs without a common one are worth the sum.
LEMMA ValueUnion ==
    ASSUME NEW A, IsFiniteSet(A), NEW B, IsFiniteSet(B), A \cap B = {},
           \A o \in A \cup B : Val[o[1]][o[2]] \in Int
    PROVE  ValueOf(A \cup B) = ValueOf(A) + ValueOf(B)
  <1> DEFINE G == {T \in SUBSET B : ValueOf(A \cup T) = ValueOf(A) + ValueOf(T)}
  <1>1. ValueOf(A) \in Int
    BY ValueType
  <1>2. ASSUME NEW T \in SUBSET B, \A x \in T : T \ {x} \in G PROVE T \in G
    <2>1. CASE T = {}
      <3>1. A \cup T = A
        BY <2>1
      <3>2. ValueOf(A \cup T) = ValueOf(A) /\ ValueOf(T) = 0
        BY <2>1, <3>1, ValueStep, Zenon
      <3>3. ValueOf(A \cup T) = ValueOf(A) + ValueOf(T)
        BY <1>1, <3>2
      <3> QED
        BY <3>3
    <2>2. CASE T # {}
      <3>1. PICK x : x \in T
        BY <2>2
      <3>2. IsFiniteSet(T) /\ IsFiniteSet(A \cup T)
        BY FS_Subset, FS_Union
      <3>3. ValueOf(T) = ValueOf(T \ {x}) + Worth(x)
        BY <3>1, <3>2, ValueRemove
      <3>4. ValueOf(A \cup T) = ValueOf((A \cup T) \ {x}) + Worth(x)
        BY <3>1, <3>2, ValueRemove
      <3>5. ValueOf((A \cup T) \ {x}) = ValueOf(A \cup (T \ {x}))
        <4>1. (A \cup T) \ {x} = A \cup (T \ {x})
          BY <3>1
        <4> QED
          BY <4>1, Zenon
      <3>6. ValueOf(A \cup (T \ {x})) = ValueOf(A) + ValueOf(T \ {x})
        BY <1>2, <3>1
      <3>7. Worth(x) \in Int
        BY <3>1 DEF Worth
      <3>8. ValueOf(T \ {x}) \in Int
        <4>1. IsFiniteSet(T \ {x})
          BY <3>2, FS_Subset
        <4> QED
          BY <4>1, ValueType
      <3> HIDE DEF G
      <3>9. ValueOf(A \cup T) = ValueOf(A) + ValueOf(T)
        BY <1>1, <3>3, <3>4, <3>5, <3>6, <3>7, <3>8
      <3> QED
        BY <3>9 DEF G
    <2> QED
      BY <2>1, <2>2
  <1>3. B \in G
    <2> HIDE DEF G
    <2> QED
      BY <1>2, UpToSet
  <1> QED
    BY <1>3
-----------------------------------------------------------------------------
\* The loops of the code run: each has a sequence of intermediate states.  First the
\* loop of ConnectBlock over the transactions, from an empty tally ...
NoTally == [ok |-> TRUE, queued |-> [t \in {} |-> t], in |-> 0, out |-> 0, fees |-> 0]

\* q is a run of that loop: q[n] is the tally after n transactions.
TxsConnected(q, tx, b) ==
    /\ q[0] = NoTally
    /\ \A n \in 1 .. Len(Txs[b]) : q[n] = ConnectTx(tx, q[n - 1], Txs[b][n], b)

\* There is such a run.
LEMMA ConnectTxsRuns ==
    ASSUME NEW tx, NEW b \in Block
    PROVE  \E q : TxsConnected(q, tx, b) /\ ConnectTxs(tx, b) = q[Len(Txs[b])]
  <1> DEFINE Run(q, k) == q = [n \in 0 .. k |-> IF n = 0 THEN NoTally ELSE ConnectTx(tx, q[n - 1], Txs[b][n], b)]
             Size == Len(Txs[b])
             Has(k) == \E q : Run(q, k)
             S == {k \in 0 .. Size : Has(k)}
  <1>1. Size \in Nat
    BY ChainAssumption
  <1>2. 0 \in S
    <2> DEFINE q == [n \in 0 .. 0 |-> NoTally]
    <2>1. Run(q, 0)
      OBVIOUS
    <2>2. Has(0)
      BY <2>1
    <2> HIDE DEF Has, Size
    <2> QED
      BY <1>1, <2>2
  <1>3. ASSUME NEW k \in 1 .. Size, k - 1 \in S PROVE k \in S
    <2>0. k \in Nat /\ k - 1 \in Nat /\ Has(k - 1)
      <3> HIDE DEF Has, Size
      <3> QED
        BY <1>1, <1>3
    <2>1. PICK q : Run(q, k - 1)
      BY <2>0
    <2> DEFINE r == [n \in 0 .. k |-> IF n = 0 THEN NoTally ELSE ConnectTx(tx, q[n - 1], Txs[b][n], b)]
    <2>2. \A n \in 0 .. k - 1 : r[n] = q[n]
      <3>1. \A n \in 0 .. k - 1 : n \in 0 .. k
        BY <2>0
      <3> QED
        BY <2>1, <3>1
    <2>3. ASSUME NEW n \in 0 .. k, n # 0 PROVE q[n - 1] = r[n - 1]
      <3>1. n - 1 \in 0 .. k - 1
        BY <2>0, <2>3
      <3> HIDE DEF r
      <3> QED
        BY <2>2, <3>1
    <2>4. Run(r, k)
      BY <2>3
    <2>5. Has(k)
      <3> HIDE DEF r
      <3> QED
        BY <2>4
    <2> HIDE DEF Has, Size
    <2> QED
      BY <1>1, <2>5
  <1>4. Has(Size)
    <2> HIDE DEF Size, Has
    <2>1. 0 \in S /\ \A k \in 1 .. Size : k - 1 \in S => k \in S
      BY <1>2, <1>3
    <2> HIDE DEF S
    <2>2. \A k \in 0 .. Size : k \in S
      BY <1>1, <2>1, UpTo
    <2> QED
      BY <1>1, <2>2 DEF S
  <1>5. PICK q : Run(q, Size)
    BY <1>4
  <1> DEFINE p == CHOOSE u : Run(u, Size)
  <1>6. Run(p, Size)
    <2> HIDE DEF Run
    <2> QED
      BY <1>5
  <1>7. ConnectTxs(tx, b) = p[Size]
    BY DEF ConnectTxs, NoTally
  <1> HIDE DEF p
  <1>8. p[0] = NoTally
    BY <1>1, <1>6
  <1>9. ASSUME NEW n \in 1 .. Size PROVE p[n] = ConnectTx(tx, p[n - 1], Txs[b][n], b)
    <2>1. n \in 0 .. Size /\ n # 0
      BY <1>1
    <2> QED
      BY <1>6, <2>1
  <1> QED
    BY <1>7, <1>8, <1>9 DEF TxsConnected

\* ... the loop of Reorganize over the blocks to connect ...
BranchConnected(q, s, branch) ==
    /\ q[0] = s
    /\ \A n \in 1 .. Len(branch) : q[n] = ConnectBlock(q[n - 1], branch[n])

\* There is such a run.
LEMMA ConnectBranchRuns ==
    ASSUME NEW s, NEW X, NEW branch \in Seq(X)
    PROVE  \E q : BranchConnected(q, s, branch) /\ ConnectBranch(s, branch) = q[Len(branch)]
  <1> DEFINE Run(q, k) == q = [n \in 0 .. k |-> IF n = 0 THEN s ELSE ConnectBlock(q[n - 1], branch[n])]
             Size == Len(branch)
             Has(k) == \E q : Run(q, k)
             S == {k \in 0 .. Size : Has(k)}
  <1>1. Size \in Nat
    BY ChainAssumption
  <1>2. 0 \in S
    <2> DEFINE q == [n \in 0 .. 0 |-> s]
    <2>1. Run(q, 0)
      OBVIOUS
    <2>2. Has(0)
      BY <2>1
    <2> HIDE DEF Has, Size
    <2> QED
      BY <1>1, <2>2
  <1>3. ASSUME NEW k \in 1 .. Size, k - 1 \in S PROVE k \in S
    <2>0. k \in Nat /\ k - 1 \in Nat /\ Has(k - 1)
      <3> HIDE DEF Has, Size
      <3> QED
        BY <1>1, <1>3
    <2>1. PICK q : Run(q, k - 1)
      BY <2>0
    <2> DEFINE r == [n \in 0 .. k |-> IF n = 0 THEN s ELSE ConnectBlock(q[n - 1], branch[n])]
    <2>2. \A n \in 0 .. k - 1 : r[n] = q[n]
      <3>1. \A n \in 0 .. k - 1 : n \in 0 .. k
        BY <2>0
      <3> QED
        BY <2>1, <3>1
    <2>3. ASSUME NEW n \in 0 .. k, n # 0 PROVE q[n - 1] = r[n - 1]
      <3>1. n - 1 \in 0 .. k - 1
        BY <2>0, <2>3
      <3> HIDE DEF r
      <3> QED
        BY <2>2, <3>1
    <2>4. Run(r, k)
      BY <2>3
    <2>5. Has(k)
      <3> HIDE DEF r
      <3> QED
        BY <2>4
    <2> HIDE DEF Has, Size
    <2> QED
      BY <1>1, <2>5
  <1>4. Has(Size)
    <2> HIDE DEF Size, Has
    <2>1. 0 \in S /\ \A k \in 1 .. Size : k - 1 \in S => k \in S
      BY <1>2, <1>3
    <2> HIDE DEF S
    <2>2. \A k \in 0 .. Size : k \in S
      BY <1>1, <2>1, UpTo
    <2> QED
      BY <1>1, <2>2 DEF S
  <1>5. PICK q : Run(q, Size)
    BY <1>4
  <1> DEFINE p == CHOOSE u : Run(u, Size)
  <1>6. Run(p, Size)
    <2> HIDE DEF Run
    <2> QED
      BY <1>5
  <1>7. ConnectBranch(s, branch) = p[Size]
    BY DEF ConnectBranch
  <1> HIDE DEF p
  <1>8. p[0] = s
    BY <1>1, <1>6
  <1>9. ASSUME NEW n \in 1 .. Size PROVE p[n] = ConnectBlock(p[n - 1], branch[n])
    <2>1. n \in 0 .. Size /\ n # 0
      BY <1>1
    <2> QED
      BY <1>6, <2>1
  <1> QED
    BY <1>7, <1>8, <1>9 DEF BranchConnected

\* ... its loop over the transactions ...
TxsDisconnected(q, s, b) ==
    /\ q[0] = s
    /\ \A n \in 1 .. Len(Txs[b]) : q[n] = DisconnectTx(q[n - 1], Txs[b][Len(Txs[b]) + 1 - n])

\* There is such a run.
LEMMA DisconnectTxsRuns ==
    ASSUME NEW s, NEW b \in Block
    PROVE  \E q : TxsDisconnected(q, s, b) /\ DisconnectBlock(s, b) = Unlinked(s, q[Len(Txs[b])], b)
  <1> DEFINE Run(q, k) == q = [n \in 0 .. k |-> IF n = 0 THEN s ELSE DisconnectTx(q[n - 1], Txs[b][Len(Txs[b]) + 1 - n])]
             Size == Len(Txs[b])
             Has(k) == \E q : Run(q, k)
             S == {k \in 0 .. Size : Has(k)}
  <1>1. Size \in Nat
    BY ChainAssumption
  <1>2. 0 \in S
    <2> DEFINE q == [n \in 0 .. 0 |-> s]
    <2>1. Run(q, 0)
      OBVIOUS
    <2>2. Has(0)
      BY <2>1
    <2> HIDE DEF Has, Size
    <2> QED
      BY <1>1, <2>2
  <1>3. ASSUME NEW k \in 1 .. Size, k - 1 \in S PROVE k \in S
    <2>0. k \in Nat /\ k - 1 \in Nat /\ Has(k - 1)
      <3> HIDE DEF Has, Size
      <3> QED
        BY <1>1, <1>3
    <2>1. PICK q : Run(q, k - 1)
      BY <2>0
    <2> DEFINE r == [n \in 0 .. k |-> IF n = 0 THEN s ELSE DisconnectTx(q[n - 1], Txs[b][Len(Txs[b]) + 1 - n])]
    <2>2. \A n \in 0 .. k - 1 : r[n] = q[n]
      <3>1. \A n \in 0 .. k - 1 : n \in 0 .. k
        BY <2>0
      <3> QED
        BY <2>1, <3>1
    <2>3. ASSUME NEW n \in 0 .. k, n # 0 PROVE q[n - 1] = r[n - 1]
      <3>1. n - 1 \in 0 .. k - 1
        BY <2>0, <2>3
      <3> HIDE DEF r
      <3> QED
        BY <2>2, <3>1
    <2>4. Run(r, k)
      BY <2>3
    <2>5. Has(k)
      <3> HIDE DEF r
      <3> QED
        BY <2>4
    <2> HIDE DEF Has, Size
    <2> QED
      BY <1>1, <2>5
  <1>4. Has(Size)
    <2> HIDE DEF Size, Has
    <2>1. 0 \in S /\ \A k \in 1 .. Size : k - 1 \in S => k \in S
      BY <1>2, <1>3
    <2> HIDE DEF S
    <2>2. \A k \in 0 .. Size : k \in S
      BY <1>1, <2>1, UpTo
    <2> QED
      BY <1>1, <2>2 DEF S
  <1>5. PICK q : Run(q, Size)
    BY <1>4
  <1> DEFINE p == CHOOSE u : Run(u, Size)
  <1>6. Run(p, Size)
    <2> HIDE DEF Run
    <2> QED
      BY <1>5
  <1>7. DisconnectBlock(s, b) = Unlinked(s, p[Size], b)
    BY DEF DisconnectBlock
  <1> HIDE DEF p
  <1>8. p[0] = s
    BY <1>1, <1>6
  <1>9. ASSUME NEW n \in 1 .. Size PROVE p[n] = DisconnectTx(p[n - 1], Txs[b][Len(Txs[b]) + 1 - n])
    <2>1. n \in 0 .. Size /\ n # 0
      BY <1>1
    <2> QED
      BY <1>6, <2>1
  <1> QED
    BY <1>7, <1>8, <1>9 DEF TxsDisconnected

\* ... the loop of Reorganize over the blocks to disconnect ...
BranchDisconnected(q, s, branch) ==
    /\ q[0] = s
    /\ \A n \in 1 .. Len(branch) : q[n] = DisconnectBlock(q[n - 1], branch[Len(branch) + 1 - n])

\* There is such a run.
LEMMA DisconnectBranchRuns ==
    ASSUME NEW s, NEW X, NEW branch \in Seq(X)
    PROVE  \E q : BranchDisconnected(q, s, branch) /\ DisconnectBranch(s, branch) = q[Len(branch)]
  <1> DEFINE Run(q, k) == q = [n \in 0 .. k |-> IF n = 0 THEN s ELSE DisconnectBlock(q[n - 1], branch[Len(branch) + 1 - n])]
             Size == Len(branch)
             Has(k) == \E q : Run(q, k)
             S == {k \in 0 .. Size : Has(k)}
  <1>1. Size \in Nat
    BY ChainAssumption
  <1>2. 0 \in S
    <2> DEFINE q == [n \in 0 .. 0 |-> s]
    <2>1. Run(q, 0)
      OBVIOUS
    <2>2. Has(0)
      BY <2>1
    <2> HIDE DEF Has, Size
    <2> QED
      BY <1>1, <2>2
  <1>3. ASSUME NEW k \in 1 .. Size, k - 1 \in S PROVE k \in S
    <2>0. k \in Nat /\ k - 1 \in Nat /\ Has(k - 1)
      <3> HIDE DEF Has, Size
      <3> QED
        BY <1>1, <1>3
    <2>1. PICK q : Run(q, k - 1)
      BY <2>0
    <2> DEFINE r == [n \in 0 .. k |-> IF n = 0 THEN s ELSE DisconnectBlock(q[n - 1], branch[Len(branch) + 1 - n])]
    <2>2. \A n \in 0 .. k - 1 : r[n] = q[n]
      <3>1. \A n \in 0 .. k - 1 : n \in 0 .. k
        BY <2>0
      <3> QED
        BY <2>1, <3>1
    <2>3. ASSUME NEW n \in 0 .. k, n # 0 PROVE q[n - 1] = r[n - 1]
      <3>1. n - 1 \in 0 .. k - 1
        BY <2>0, <2>3
      <3> HIDE DEF r
      <3> QED
        BY <2>2, <3>1
    <2>4. Run(r, k)
      BY <2>3
    <2>5. Has(k)
      <3> HIDE DEF r
      <3> QED
        BY <2>4
    <2> HIDE DEF Has, Size
    <2> QED
      BY <1>1, <2>5
  <1>4. Has(Size)
    <2> HIDE DEF Size, Has
    <2>1. 0 \in S /\ \A k \in 1 .. Size : k - 1 \in S => k \in S
      BY <1>2, <1>3
    <2> HIDE DEF S
    <2>2. \A k \in 0 .. Size : k \in S
      BY <1>1, <2>1, UpTo
    <2> QED
      BY <1>1, <2>2 DEF S
  <1>5. PICK q : Run(q, Size)
    BY <1>4
  <1> DEFINE p == CHOOSE u : Run(u, Size)
  <1>6. Run(p, Size)
    <2> HIDE DEF Run
    <2> QED
      BY <1>5
  <1>7. DisconnectBranch(s, branch) = p[Size]
    BY DEF DisconnectBranch
  <1> HIDE DEF p
  <1>8. p[0] = s
    BY <1>1, <1>6
  <1>9. ASSUME NEW n \in 1 .. Size PROVE p[n] = DisconnectBlock(p[n - 1], branch[Len(branch) + 1 - n])
    <2>1. n \in 0 .. Size /\ n # 0
      BY <1>1
    <2> QED
      BY <1>6, <2>1
  <1> QED
    BY <1>7, <1>8, <1>9 DEF BranchDisconnected

\* ... and over vResurrect, block by block.
BlockResurrected(q, p0, b) ==
    /\ q[0] = p0
    /\ \A n \in 1 .. Len(Txs[b]) : q[n] = ResurrectTx(q[n - 1], Txs[b][n])

\* There is such a run.
LEMMA ResurrectBlockRuns ==
    ASSUME NEW p0, NEW b \in Block
    PROVE  \E q : BlockResurrected(q, p0, b) /\ ResurrectBlock(p0, b) = q[Len(Txs[b])]
  <1> DEFINE Run(q, k) == q = [n \in 0 .. k |-> IF n = 0 THEN p0 ELSE ResurrectTx(q[n - 1], Txs[b][n])]
             Size == Len(Txs[b])
             Has(k) == \E q : Run(q, k)
             S == {k \in 0 .. Size : Has(k)}
  <1>1. Size \in Nat
    BY ChainAssumption
  <1>2. 0 \in S
    <2> DEFINE q == [n \in 0 .. 0 |-> p0]
    <2>1. Run(q, 0)
      OBVIOUS
    <2>2. Has(0)
      BY <2>1
    <2> HIDE DEF Has, Size
    <2> QED
      BY <1>1, <2>2
  <1>3. ASSUME NEW k \in 1 .. Size, k - 1 \in S PROVE k \in S
    <2>0. k \in Nat /\ k - 1 \in Nat /\ Has(k - 1)
      <3> HIDE DEF Has, Size
      <3> QED
        BY <1>1, <1>3
    <2>1. PICK q : Run(q, k - 1)
      BY <2>0
    <2> DEFINE r == [n \in 0 .. k |-> IF n = 0 THEN p0 ELSE ResurrectTx(q[n - 1], Txs[b][n])]
    <2>2. \A n \in 0 .. k - 1 : r[n] = q[n]
      <3>1. \A n \in 0 .. k - 1 : n \in 0 .. k
        BY <2>0
      <3> QED
        BY <2>1, <3>1
    <2>3. ASSUME NEW n \in 0 .. k, n # 0 PROVE q[n - 1] = r[n - 1]
      <3>1. n - 1 \in 0 .. k - 1
        BY <2>0, <2>3
      <3> HIDE DEF r
      <3> QED
        BY <2>2, <3>1
    <2>4. Run(r, k)
      BY <2>3
    <2>5. Has(k)
      <3> HIDE DEF r
      <3> QED
        BY <2>4
    <2> HIDE DEF Has, Size
    <2> QED
      BY <1>1, <2>5
  <1>4. Has(Size)
    <2> HIDE DEF Size, Has
    <2>1. 0 \in S /\ \A k \in 1 .. Size : k - 1 \in S => k \in S
      BY <1>2, <1>3
    <2> HIDE DEF S
    <2>2. \A k \in 0 .. Size : k \in S
      BY <1>1, <2>1, UpTo
    <2> QED
      BY <1>1, <2>2 DEF S
  <1>5. PICK q : Run(q, Size)
    BY <1>4
  <1> DEFINE p == CHOOSE u : Run(u, Size)
  <1>6. Run(p, Size)
    <2> HIDE DEF Run
    <2> QED
      BY <1>5
  <1>7. ResurrectBlock(p0, b) = p[Size]
    BY DEF ResurrectBlock
  <1> HIDE DEF p
  <1>8. p[0] = p0
    BY <1>1, <1>6
  <1>9. ASSUME NEW n \in 1 .. Size PROVE p[n] = ResurrectTx(p[n - 1], Txs[b][n])
    <2>1. n \in 0 .. Size /\ n # 0
      BY <1>1
    <2> QED
      BY <1>6, <2>1
  <1> QED
    BY <1>7, <1>8, <1>9 DEF BlockResurrected

\* ... and that of Reorganize over the disconnected blocks, the last block first.
BranchResurrected(q, p0, branch) ==
    /\ q[0] = p0
    /\ \A n \in 1 .. Len(branch) : q[n] = ResurrectBlock(q[n - 1], branch[Len(branch) + 1 - n])

\* There is such a run.
LEMMA ResurrectBranchRuns ==
    ASSUME NEW p0, NEW X, NEW branch \in Seq(X)
    PROVE  \E q : BranchResurrected(q, p0, branch) /\ ResurrectBranch(p0, branch) = q[Len(branch)]
  <1> DEFINE Run(q, k) == q = [n \in 0 .. k |-> IF n = 0 THEN p0 ELSE ResurrectBlock(q[n - 1], branch[Len(branch) + 1 - n])]
             Size == Len(branch)
             Has(k) == \E q : Run(q, k)
             S == {k \in 0 .. Size : Has(k)}
  <1>1. Size \in Nat
    BY ChainAssumption
  <1>2. 0 \in S
    <2> DEFINE q == [n \in 0 .. 0 |-> p0]
    <2>1. Run(q, 0)
      OBVIOUS
    <2>2. Has(0)
      BY <2>1
    <2> HIDE DEF Has, Size
    <2> QED
      BY <1>1, <2>2
  <1>3. ASSUME NEW k \in 1 .. Size, k - 1 \in S PROVE k \in S
    <2>0. k \in Nat /\ k - 1 \in Nat /\ Has(k - 1)
      <3> HIDE DEF Has, Size
      <3> QED
        BY <1>1, <1>3
    <2>1. PICK q : Run(q, k - 1)
      BY <2>0
    <2> DEFINE r == [n \in 0 .. k |-> IF n = 0 THEN p0 ELSE ResurrectBlock(q[n - 1], branch[Len(branch) + 1 - n])]
    <2>2. \A n \in 0 .. k - 1 : r[n] = q[n]
      <3>1. \A n \in 0 .. k - 1 : n \in 0 .. k
        BY <2>0
      <3> QED
        BY <2>1, <3>1
    <2>3. ASSUME NEW n \in 0 .. k, n # 0 PROVE q[n - 1] = r[n - 1]
      <3>1. n - 1 \in 0 .. k - 1
        BY <2>0, <2>3
      <3> HIDE DEF r
      <3> QED
        BY <2>2, <3>1
    <2>4. Run(r, k)
      BY <2>3
    <2>5. Has(k)
      <3> HIDE DEF r
      <3> QED
        BY <2>4
    <2> HIDE DEF Has, Size
    <2> QED
      BY <1>1, <2>5
  <1>4. Has(Size)
    <2> HIDE DEF Size, Has
    <2>1. 0 \in S /\ \A k \in 1 .. Size : k - 1 \in S => k \in S
      BY <1>2, <1>3
    <2> HIDE DEF S
    <2>2. \A k \in 0 .. Size : k \in S
      BY <1>1, <2>1, UpTo
    <2> QED
      BY <1>1, <2>2 DEF S
  <1>5. PICK q : Run(q, Size)
    BY <1>4
  <1> DEFINE p == CHOOSE u : Run(u, Size)
  <1>6. Run(p, Size)
    <2> HIDE DEF Run
    <2> QED
      BY <1>5
  <1>7. ResurrectBranch(p0, branch) = p[Size]
    BY DEF ResurrectBranch
  <1> HIDE DEF p
  <1>8. p[0] = p0
    BY <1>1, <1>6
  <1>9. ASSUME NEW n \in 1 .. Size PROVE p[n] = ResurrectBlock(p[n - 1], branch[Len(branch) + 1 - n])
    <2>1. n \in 0 .. Size /\ n # 0
      BY <1>1
    <2> QED
      BY <1>6, <2>1
  <1> QED
    BY <1>7, <1>8, <1>9 DEF BranchResurrected
-----------------------------------------------------------------------------
\* The state that a batch transforms: [ok, db, supply].
ViewType(s) ==
    /\ s = [ok |-> s.ok, db |-> s.db, supply |-> s.supply]
    /\ s.ok \in BOOLEAN /\ DBType(s.db) /\ s.supply \in [Block -> Int]

\* The tally of ConnectBlock's loop.
TallyType(q) ==
    /\ q = [ok |-> q.ok, queued |-> q.queued, in |-> q.in, out |-> q.out, fees |-> q.fees]
    /\ q.ok \in BOOLEAN /\ IndexType(q.queued)
    /\ q.in \in Int /\ q.out \in Int /\ q.fees \in Int

\* Changes laid over an index give an index.
LEMMA OverType ==
    ASSUME NEW f, NEW g, IndexType(f), IndexType(g)
    PROVE  IndexType(Over(f, g)) /\ DOMAIN Over(f, g) = DOMAIN f \cup DOMAIN g
  <1>1. DOMAIN Over(f, g) = DOMAIN f \cup DOMAIN g
    BY DEF Over
  <1>2. \A h \in DOMAIN f \cup DOMAIN g : Over(f, g)[h] = IF h \in DOMAIN f THEN f[h] ELSE g[h]
    BY DEF Over
  <1>3. IsFcn(Over(f, g))
    BY DEF IsFcn, Over
  <1> QED
    BY <1>1, <1>2, <1>3 DEF IndexType

\* The outputs of a transaction are finitely many ...
LEMMA OutsFinite ==
    ASSUME NEW t \in Tx
    PROVE  IsFiniteSet(Outs(t))
  <1>1. NOut[t] \in Nat
    BY TxAssumption
  <1>2. IsFiniteSet(0 .. NOut[t] - 1)
    BY <1>1, FS_Interval
  <1> DEFINE f == [n \in 0 .. NOut[t] - 1 |-> <<t, n>>]
  <1>3. f \in Surjection(0 .. NOut[t] - 1, Outs(t))
    BY DEF Outs, Surjection
  <1> QED
    BY <1>2, <1>3, FS_Surjection

\* ... each worth a number.
LEMMA OutsValue ==
    ASSUME NEW t \in Tx
    PROVE  ValueOf(Outs(t)) \in Int
  <1>1. \A o \in Outs(t) : Val[o[1]][o[2]] \in Int
    BY ChainAssumption DEF Outs
  <1> QED
    BY <1>1, OutsFinite, ValueType

\* Inputs that ConnectInputs finds are outputs of the index, each worth a number.
LEMMA InsValue ==
    ASSUME NEW txi, IndexType(txi), NEW t \in Tx, NEW b, InputsOK(txi, t, b)
    PROVE  ValueOf(Ins[t]) \in Int /\ \A o \in Ins[t] : o[1] \in DOMAIN txi
  <1>1. \A o \in Ins[t] : o[1] \in DOMAIN txi /\ o[2] \in DOMAIN txi[o[1]].vSpent
    BY DEF InputsOK
  <1>2. \A o \in Ins[t] : o[1] \in Tx /\ o[2] \in 0 .. NOut[o[1]] - 1
    BY <1>1 DEF IndexType
  <1>3. IsFiniteSet(Ins[t]) /\ \A o \in Ins[t] : Val[o[1]][o[2]] \in Int
    BY <1>2, ChainAssumption
  <1> QED
    BY <1>1, <1>3, ValueType

\* One transaction: the tally keeps its type, and what is queued are entries of the
\* index and that of the transaction.
LEMMA ConnectTxEffect ==
    ASSUME NEW tx, IndexType(tx), NEW q, TallyType(q), NEW t \in Tx, NEW b
    PROVE  LET r == ConnectTx(tx, q, t, b)
           IN  /\ TallyType(r) /\ (r.ok => q.ok)
               /\ DOMAIN r.queued \subseteq DOMAIN q.queued \cup DOMAIN tx \cup {t}
  <1> DEFINE txi == Over(q.queued, tx)
             bip30 == t \in DOMAIN tx => \A n \in DOMAIN tx[t].vSpent : tx[t].vSpent[n] # None
             good == q.ok /\ bip30 /\ InputsOK(txi, t, b)
             sp == SpendInputs(txi, t, b)
             new == [ok     |-> TRUE,
                     queued |-> Over(sp, q.queued),
                     in     |-> q.in + ValueOf(Ins[t]),
                     out    |-> q.out + ValueOf(Outs(t)),
                     fees   |-> q.fees + IF t \in Gen THEN 0
                                         ELSE FeeValueIn(t, nHeight(pindexBest)) - ValueOf(Outs(t))]
             r == ConnectTx(tx, q, t, b)
  <1>1. IndexType(txi) /\ DOMAIN txi = DOMAIN q.queued \cup DOMAIN tx
    BY OverType DEF TallyType
  <1>2. CASE ~good
    <2>1. r = [q EXCEPT !.ok = FALSE]
      BY <1>2 DEF ConnectTx
    <2>2. r = [ok |-> FALSE, queued |-> q.queued, in |-> q.in, out |-> q.out, fees |-> q.fees]
      BY <2>1 DEF TallyType
    <2> QED
      BY <2>2 DEF TallyType
  <1>3. CASE good
    <2>1. r = new
      BY <1>3 DEF ConnectTx
    <2>2. ValueOf(Ins[t]) \in Int /\ ValueOf(Outs(t)) \in Int /\ \A o \in Ins[t] : o[1] \in DOMAIN txi
      BY <1>1, <1>3, InsValue, OutsValue
    <2>3. IndexType(sp) /\ DOMAIN sp = {t} \cup {o[1] : o \in Ins[t]}
      <3> HIDE DEF txi
      <3>1. DOMAIN sp = {t} \cup {o[1] : o \in Ins[t]}
        BY DEF SpendInputs
      <3>2. DOMAIN sp \subseteq Tx
        BY <1>1, <2>2, <3>1 DEF IndexType
      <3>3. ASSUME NEW h \in DOMAIN sp
            PROVE  /\ sp[h] = [pos |-> sp[h].pos, vSpent |-> sp[h].vSpent]
                   /\ IsFcn(sp[h].vSpent) /\ DOMAIN sp[h].vSpent = 0 .. NOut[h] - 1
        <4>1. CASE h = t
          <5>1. sp[h] = TxIndex(<<b, t>>, t)
            BY <3>1, <4>1 DEF SpendInputs
          <5> DEFINE w == [n \in 0 .. NOut[t] - 1 |-> None]
          <5>2. IsFcn(w) /\ DOMAIN w = 0 .. NOut[t] - 1
            BY DEF IsFcn
          <5>3. sp[h] = [pos |-> <<b, t>>, vSpent |-> w]
            BY <4>1, <5>1 DEF TxIndex
          <5> HIDE DEF w
          <5> QED
            BY <4>1, <5>2, <5>3
        <4>2. CASE h # t
          <5> DEFINE v == [n \in DOMAIN txi[h].vSpent |-> IF <<h, n>> \in Ins[t] THEN <<b, t>> ELSE txi[h].vSpent[n]]
          <5>1. sp[h] = [txi[h] EXCEPT !.vSpent = v]
            BY <3>1, <4>2 DEF SpendInputs
          <5>2. h \in DOMAIN txi
            BY <2>2, <3>1, <4>2
          <5>3. txi[h] = [pos |-> txi[h].pos, vSpent |-> txi[h].vSpent] /\ DOMAIN txi[h].vSpent = 0 .. NOut[h] - 1
            BY <1>1, <5>2 DEF IndexType
          <5>4. IsFcn(v) /\ DOMAIN v = 0 .. NOut[h] - 1
            BY <5>3 DEF IsFcn
          <5> HIDE DEF v
          <5>5. sp[h] = [pos |-> txi[h].pos, vSpent |-> v]
            BY <5>1, <5>3
          <5> QED
            BY <5>4, <5>5
        <4> QED
          BY <4>1, <4>2
      <3>4. IsFcn(sp)
        BY DEF IsFcn, SpendInputs
      <3> QED
        BY <3>1, <3>2, <3>3, <3>4 DEF IndexType
    <2>4. IndexType(Over(sp, q.queued)) /\ DOMAIN Over(sp, q.queued) = DOMAIN sp \cup DOMAIN q.queued
      BY <2>3, OverType DEF TallyType
    <2> HIDE DEF sp, txi
    <2>5. TallyType(new)
      <3>1. FeeValueIn(t, nHeight(pindexBest)) \in Int
        BY <2>2, ChainAssumption DEF FeeValueIn
      <3> QED
        BY <2>2, <2>4, <3>1 DEF TallyType
    <2>6. DOMAIN new.queued \subseteq DOMAIN q.queued \cup DOMAIN tx \cup {t}
      BY <1>1, <2>2, <2>3, <2>4
    <2> QED
      BY <1>3, <2>1, <2>5, <2>6
  <1> QED
    BY <1>2, <1>3

\* The whole loop of ConnectBlock.
LEMMA ConnectTxsEffect ==
    ASSUME NEW tx, IndexType(tx), NEW b \in Block
    PROVE  /\ TallyType(ConnectTxs(tx, b))
           /\ DOMAIN ConnectTxs(tx, b).queued \subseteq DOMAIN tx \cup Range(Txs[b])
  <1> DEFINE Good(q) == TallyType(q) /\ DOMAIN q.queued \subseteq DOMAIN tx \cup Range(Txs[b])
             N == Len(Txs[b])
  <1>1. PICK q : TxsConnected(q, tx, b) /\ ConnectTxs(tx, b) = q[N]
    BY ConnectTxsRuns
  <1>2. N \in Nat /\ \A n \in 1 .. N : Txs[b][n] \in Tx /\ Txs[b][n] \in Range(Txs[b])
    BY ChainAssumption DEF Range
  <1>3. Good(q[0])
    <2>1. q[0] = NoTally
      BY <1>1 DEF TxsConnected
    <2>2. IsFcn([t \in {} |-> t])
      BY DEF IsFcn
    <2> QED
      BY <2>1, <2>2 DEF NoTally, TallyType, IndexType
  <1>4. ASSUME NEW n \in 1 .. N, Good(q[n - 1]) PROVE Good(q[n])
    <2>1. q[n] = ConnectTx(tx, q[n - 1], Txs[b][n], b)
      BY <1>1 DEF TxsConnected
    <2>2. TallyType(q[n]) /\ DOMAIN q[n].queued \subseteq DOMAIN q[n - 1].queued \cup DOMAIN tx \cup {Txs[b][n]}
      BY <1>2, <1>4, <2>1, ConnectTxEffect
    <2> QED
      BY <1>2, <1>4, <2>2
  <1>5. Good(q[N])
    <2> DEFINE S == {n \in 0 .. N : Good(q[n])}
    <2> HIDE DEF Good, N
    <2>1. 0 \in S /\ \A n \in 1 .. N : n - 1 \in S => n \in S
      BY <1>2, <1>3, <1>4
    <2> HIDE DEF S
    <2>2. \A n \in 0 .. N : n \in S
      BY <1>2, <2>1, UpTo
    <2> QED
      BY <1>2, <2>2 DEF S
  <1> QED
    BY <1>1, <1>5
-----------------------------------------------------------------------------
\* A new entry in a block index.
LEMMA PutEntry ==
    ASSUME NEW idx, idx \in [DOMAIN idx -> Entry], DOMAIN idx \subseteq Block,
           NEW b \in Block, NEW e \in Entry
    PROVE  /\ DOMAIN Put(idx, b, e) = DOMAIN idx \cup {b} /\ DOMAIN Put(idx, b, e) \subseteq Block
           /\ Put(idx, b, e) \in [DOMAIN Put(idx, b, e) -> Entry]
           /\ Put(idx, b, e)[b] = e
           /\ \A x \in DOMAIN idx \ {b} : Put(idx, b, e)[x] = idx[x]
  BY DEF Put

\* ConnectBlock links the block to its parent; the new transactions of the index are
\* the block's.
Linked(s, r, b) ==
    /\ DOMAIN r.db.idx = DOMAIN s.db.idx \cup {b, Prev[b]}
    /\ r.db.idx[Prev[b]].next = b /\ r.db.idx[b].next = pnext[b]
    /\ \A x \in DOMAIN s.db.idx \ {b, Prev[b]} : r.db.idx[x].next = s.db.idx[x].next
    /\ DOMAIN r.db.tx \subseteq DOMAIN s.db.tx \cup Range(Txs[b])

\* ConnectBlock does so when it succeeds, and always leaves a database and supplies.
LEMMA ConnectBlockEffect ==
    ASSUME NEW s, ViewType(s), NEW b \in Block \ {Genesis}, pnext \in [Block -> Block \cup {None}]
    PROVE  /\ ViewType(ConnectBlock(s, b))
           /\ ConnectBlock(s, b).ok => s.ok /\ Linked(s, ConnectBlock(s, b), b)
  <1> DEFINE r == ConnectTxs(s.db.tx, b)
             good == /\ s.ok /\ b \notin Bad /\ r.ok
                     /\ IF IsProofOfStake(b)
                        THEN StakeReward(b) <= GetProofOfStakeReward(b, r.fees)
                        ELSE ValueOf(Outs(Txs[b][1])) <= GetProofOfWorkReward(r.fees)
             supply == [s.supply EXCEPT ![b] = AddToSupply(s.supply[Prev[b]], r)]
             e == [next |-> pnext[b], supply |-> supply[b]]
             f == [next |-> b, supply |-> supply[Prev[b]]]
             one == Put(s.db.idx, b, e)
             two == Put(one, Prev[b], f)
             tx == Over(r.queued, s.db.tx)
             res == ConnectBlock(s, b)
  <1>1. Prev[b] \in Block /\ Prev[b] # b
    BY TreeAssumption, Acyclic, AncestorsType
  <1>2. /\ DBType(s.db) /\ IndexType(s.db.tx) /\ s.supply \in [Block -> Int]
        /\ s.db.idx \in [DOMAIN s.db.idx -> Entry] /\ DOMAIN s.db.idx \subseteq Block
    BY DEF ViewType, DBType
  <1>3. TallyType(r) /\ DOMAIN r.queued \subseteq DOMAIN s.db.tx \cup Range(Txs[b])
    BY <1>2, ConnectTxsEffect
  <1>4. CASE ~good
    <2>1. res = [s EXCEPT !.ok = FALSE]
      BY <1>4 DEF ConnectBlock, Recorded
    <2>2. res = [ok |-> FALSE, db |-> s.db, supply |-> s.supply]
      BY <2>1 DEF ViewType
    <2> QED
      BY <2>2 DEF ViewType
  <1>5. CASE good
    <2>1. res = [ok |-> TRUE, supply |-> supply, db |-> [idx |-> two, best |-> s.db.best, tx |-> tx]]
      BY <1>5 DEF ConnectBlock, Recorded
    <2>2. supply \in [Block -> Int]
      <3>1. AddToSupply(s.supply[Prev[b]], r) \in Int
        BY <1>1, <1>2, <1>3 DEF AddToSupply, TallyType
      <3> QED
        BY <1>2, <3>1
    <2>3. e \in Entry /\ f \in Entry
      BY <1>1, <2>2 DEF Entry
    <2>4. /\ DOMAIN one = DOMAIN s.db.idx \cup {b} /\ DOMAIN one \subseteq Block
          /\ one \in [DOMAIN one -> Entry] /\ one[b] = e
          /\ \A x \in DOMAIN s.db.idx \ {b} : one[x] = s.db.idx[x]
      <3> HIDE DEF e
      <3> QED
        BY <1>2, <2>3 DEF Put
    <2> HIDE DEF one
    <2>5. /\ DOMAIN two = DOMAIN one \cup {Prev[b]} /\ DOMAIN two \subseteq Block
          /\ two \in [DOMAIN two -> Entry] /\ two[Prev[b]] = f
          /\ \A x \in DOMAIN one \ {Prev[b]} : two[x] = one[x]
      <3> HIDE DEF f
      <3> QED
        BY <1>1, <2>3, <2>4 DEF Put
    <2>6. IndexType(tx) /\ DOMAIN tx = DOMAIN r.queued \cup DOMAIN s.db.tx
      BY <1>2, <1>3, OverType DEF TallyType
    <2>7. two[b] = e /\ two[Prev[b]].next = b /\ two[b].next = pnext[b]
      BY <1>1, <2>4, <2>5
    <2> HIDE DEF two, tx, supply, e, f, res
    <2>8. /\ res.ok = TRUE /\ res.supply = supply /\ res.db.idx = two /\ res.db.tx = tx
          /\ res = [ok |-> res.ok, db |-> res.db, supply |-> res.supply]
          /\ res.db = [idx |-> res.db.idx, best |-> res.db.best, tx |-> res.db.tx]
      BY <2>1
    <2>9. ViewType(res)
      BY <2>2, <2>5, <2>6, <2>8 DEF ViewType, DBType
    <2>10. Linked(s, res, b)
      BY <1>1, <1>3, <2>4, <2>5, <2>6, <2>7, <2>8 DEF Linked
    <2> QED
      BY <1>5, <2>9, <2>10 DEF res
  <1> QED
    BY <1>4, <1>5

\* A branch connected: every block is the next of its parent, the last keeps the next
\* that memory has for it.
BranchLinked(s, r, branch, n) ==
    /\ DOMAIN r.db.idx = DOMAIN s.db.idx \cup {branch[i] : i \in 1 .. n} \cup {Prev[branch[i]] : i \in 1 .. n}
    /\ \A i \in 1 .. n : r.db.idx[Prev[branch[i]]].next = branch[i]
    /\ n > 0 => r.db.idx[branch[n]].next = pnext[branch[n]]
    /\ \A x \in DOMAIN s.db.idx :
         (\A i \in 1 .. n : x # branch[i] /\ x # Prev[branch[i]]) => r.db.idx[x].next = s.db.idx[x].next
    /\ \A t \in DOMAIN r.db.tx \ DOMAIN s.db.tx : \E i \in 1 .. n : t \in Range(Txs[branch[i]])

\* One more block of the branch.
LEMMA BranchLinkedStep ==
    ASSUME NEW s, NEW q, NEW r, NEW branch, IsBranch(branch), NEW n \in 1 .. Len(branch),
           DOMAIN s.db.idx \subseteq Block,
           BranchLinked(s, q, branch, n - 1), Linked(q, r, branch[n])
    PROVE  BranchLinked(s, r, branch, n)
  <1> DEFINE b == branch[n]
  <1>0. n \in Nat /\ n - 1 \in Nat /\ Len(branch) \in Nat
    BY DEF IsBranch
  <1>1. \A i \in 1 .. n : i \in 1 .. n - 1 \/ i = n
    BY <1>0
  <1>2. \A i \in 1 .. n - 1 : i \in 1 .. n /\ i \in 1 .. Len(branch) /\ i # n
    BY <1>0
  <1>3. n \in 1 .. n /\ n \in 1 .. Len(branch)
    BY <1>0
  <1>4. \A i \in 1 .. n - 1 : Prev[branch[i]] # b /\ Prev[branch[i]] # Prev[b]
    <2>1. \A i \in 1 .. n - 1 : i # n + 1
      BY <1>0
    <2> QED
      BY <1>2, <1>3, <2>1 DEF IsBranch
  <1>5. DOMAIN r.db.idx = DOMAIN s.db.idx \cup {branch[i] : i \in 1 .. n} \cup {Prev[branch[i]] : i \in 1 .. n}
    <2>1. {branch[i] : i \in 1 .. n} = {branch[i] : i \in 1 .. n - 1} \cup {b}
      BY <1>1, <1>2, <1>3
    <2>2. {Prev[branch[i]] : i \in 1 .. n} = {Prev[branch[i]] : i \in 1 .. n - 1} \cup {Prev[b]}
      BY <1>1, <1>2, <1>3
    <2> QED
      BY <2>1, <2>2 DEF BranchLinked, Linked
  <1>6. ASSUME NEW i \in 1 .. n PROVE r.db.idx[Prev[branch[i]]].next = branch[i]
    <2>1. CASE i = n
      BY <2>1 DEF Linked
    <2>2. CASE i # n
      <3>1. i \in 1 .. n - 1
        BY <1>1, <2>2
      <3>2. q.db.idx[Prev[branch[i]]].next = branch[i] /\ Prev[branch[i]] \in DOMAIN q.db.idx
        BY <3>1 DEF BranchLinked
      <3> QED
        BY <1>4, <3>1, <3>2 DEF Linked
    <2> QED
      BY <2>1, <2>2
  <1>7. r.db.idx[branch[n]].next = pnext[branch[n]]
    BY DEF Linked
  <1>8. ASSUME NEW x \in DOMAIN s.db.idx, \A i \in 1 .. n : x # branch[i] /\ x # Prev[branch[i]]
        PROVE  r.db.idx[x].next = s.db.idx[x].next
    <2>1. x \in DOMAIN q.db.idx /\ q.db.idx[x].next = s.db.idx[x].next
      BY <1>2, <1>8 DEF BranchLinked
    <2>2. x # b /\ x # Prev[b]
      BY <1>3, <1>8
    <2> QED
      BY <2>1, <2>2 DEF Linked
  <1>9. ASSUME NEW t \in DOMAIN r.db.tx \ DOMAIN s.db.tx PROVE \E i \in 1 .. n : t \in Range(Txs[branch[i]])
    <2>1. t \in DOMAIN q.db.tx \/ t \in Range(Txs[b])
      BY DEF Linked
    <2> QED
      BY <1>2, <1>3, <2>1 DEF BranchLinked
  <1> QED
    BY <1>5, <1>6, <1>7, <1>8, <1>9 DEF BranchLinked

\* The loop of Reorganize over the blocks to connect.
LEMMA ConnectBranchEffect ==
    ASSUME NEW s, ViewType(s), NEW branch, IsBranch(branch), pnext \in [Block -> Block \cup {None}]
    PROVE  LET r == ConnectBranch(s, branch)
           IN  ViewType(r) /\ (r.ok => s.ok /\ BranchLinked(s, r, branch, Len(branch)))
  <1> DEFINE N == Len(branch)
  <1>1. N \in Nat /\ branch \in Seq(Block \ {Genesis}) /\ \A n \in 1 .. N : branch[n] \in Block \ {Genesis}
    BY DEF IsBranch
  <1>2. PICK q : BranchConnected(q, s, branch) /\ ConnectBranch(s, branch) = q[N]
    BY <1>1, ConnectBranchRuns
  <1> DEFINE Good(n) == ViewType(q[n]) /\ (q[n].ok => s.ok /\ BranchLinked(s, q[n], branch, n))
  <1>3. Good(0)
    <2>1. q[0] = s
      BY <1>2 DEF BranchConnected
    <2>2. BranchLinked(s, s, branch, 0)
      BY DEF BranchLinked
    <2> QED
      BY <2>1, <2>2
  <1>4. ASSUME NEW n \in 1 .. N, Good(n - 1) PROVE Good(n)
    <2>1. q[n] = ConnectBlock(q[n - 1], branch[n])
      BY <1>2 DEF BranchConnected
    <2>2. ViewType(q[n]) /\ (q[n].ok => q[n - 1].ok /\ Linked(q[n - 1], q[n], branch[n]))
      <3>1. ViewType(q[n - 1]) /\ branch[n] \in Block \ {Genesis}
        BY <1>1, <1>4
      <3> HIDE DEF Good, N
      <3> QED
        BY <2>1, <3>1, ConnectBlockEffect
    <2>3. q[n].ok => BranchLinked(s, q[n], branch, n)
      <3>1. q[n].ok => /\ Linked(q[n - 1], q[n], branch[n])
                       /\ BranchLinked(s, q[n - 1], branch, n - 1)
        BY <1>4, <2>2
      <3>2. DOMAIN s.db.idx \subseteq Block
        BY DEF ViewType, DBType
      <3> HIDE DEF Good
      <3> QED
        BY <3>1, <3>2, BranchLinkedStep
    <2> QED
      BY <1>4, <2>2, <2>3
  <1>5. Good(N)
    <2> DEFINE S == {n \in 0 .. N : Good(n)}
    <2> HIDE DEF Good, N
    <2>1. 0 \in S /\ \A n \in 1 .. N : n - 1 \in S => n \in S
      BY <1>1, <1>3, <1>4
    <2> HIDE DEF S
    <2>2. \A n \in 0 .. N : n \in S
      BY <1>1, <2>1, UpTo
    <2> QED
      BY <1>1, <2>2 DEF S
  <1> QED
    BY <1>2, <1>5
-----------------------------------------------------------------------------
\* DisconnectInputs: the transaction leaves the index, which keeps its type.
LEMMA DisconnectTxEffect ==
    ASSUME NEW s, ViewType(s), NEW t
    PROVE  LET r == DisconnectTx(s, t)
           IN  /\ ViewType(r) /\ r.supply = s.supply /\ r.db.idx = s.db.idx
               /\ r.ok => s.ok /\ DOMAIN r.db.tx = DOMAIN s.db.tx \ {t}
  <1> DEFINE spent == {o[1] : o \in Ins[t]}
             good == /\ s.ok
                     /\ \A o \in Ins[t] : o[1] \in DOMAIN s.db.tx /\ o[2] \in DOMAIN s.db.tx[o[1]].vSpent
             v(h) == [n \in DOMAIN s.db.tx[h].vSpent |-> IF <<h, n>> \in Ins[t] THEN None ELSE s.db.tx[h].vSpent[n]]
             unspent == [h \in DOMAIN s.db.tx \ {t} |->
                            IF h \notin spent THEN s.db.tx[h] ELSE [s.db.tx[h] EXCEPT !.vSpent = v(h)]]
             r == DisconnectTx(s, t)
  <1>1. CASE ~good
    <2>1. r = [s EXCEPT !.ok = FALSE]
      BY <1>1 DEF DisconnectTx
    <2>2. r = [ok |-> FALSE, db |-> s.db, supply |-> s.supply]
      BY <2>1 DEF ViewType
    <2> QED
      BY <2>2 DEF ViewType
  <1>2. CASE good
    <2>1. r = [s EXCEPT !.db = [idx |-> s.db.idx, best |-> s.db.best, tx |-> unspent]]
      BY <1>2 DEF DisconnectTx
    <2>2. DOMAIN unspent = DOMAIN s.db.tx \ {t}
      OBVIOUS
    <2>3. IndexType(unspent)
      <3>1. ASSUME NEW h \in DOMAIN unspent
            PROVE  /\ unspent[h] = [pos |-> unspent[h].pos, vSpent |-> unspent[h].vSpent]
                   /\ IsFcn(unspent[h].vSpent) /\ DOMAIN unspent[h].vSpent = 0 .. NOut[h] - 1
        <4>1. s.db.tx[h] = [pos |-> s.db.tx[h].pos, vSpent |-> s.db.tx[h].vSpent]
              /\ IsFcn(s.db.tx[h].vSpent) /\ DOMAIN s.db.tx[h].vSpent = 0 .. NOut[h] - 1
          BY <2>2 DEF ViewType, DBType, IndexType
        <4>2. IsFcn(v(h)) /\ DOMAIN v(h) = 0 .. NOut[h] - 1
          BY <4>1 DEF IsFcn
        <4>3. unspent[h] = IF h \notin spent THEN s.db.tx[h] ELSE [s.db.tx[h] EXCEPT !.vSpent = v(h)]
          BY <2>2
        <4> HIDE DEF unspent, v, spent
        <4>4. CASE h \notin spent
          BY <4>1, <4>3, <4>4
        <4>5. CASE h \in spent
          <5>1. unspent[h] = [pos |-> s.db.tx[h].pos, vSpent |-> v(h)]
            BY <4>1, <4>3, <4>5
          <5> QED
            BY <4>2, <5>1
        <4> QED
          BY <4>4, <4>5
      <3>2. DOMAIN unspent \subseteq Tx
        BY <2>2 DEF ViewType, DBType, IndexType
      <3>3. IsFcn(unspent)
        BY DEF IsFcn
      <3> HIDE DEF unspent
      <3> QED
        BY <3>1, <3>2, <3>3 DEF IndexType
    <2> HIDE DEF unspent
    <2>4. r = [ok |-> TRUE, db |-> [idx |-> s.db.idx, best |-> s.db.best, tx |-> unspent], supply |-> s.supply]
      BY <1>2, <2>1 DEF ViewType
    <2> HIDE DEF r
    <2>5. /\ r.ok = TRUE /\ r.supply = s.supply /\ r.db.idx = s.db.idx /\ r.db.tx = unspent
          /\ r = [ok |-> r.ok, db |-> r.db, supply |-> r.supply]
          /\ r.db = [idx |-> r.db.idx, best |-> r.db.best, tx |-> r.db.tx]
      BY <2>4
    <2>6. ViewType(r)
      BY <2>3, <2>5 DEF ViewType, DBType
    <2>7. s.ok
      BY <1>2
    <2> QED
      BY <2>2, <2>5, <2>6, <2>7 DEF r
  <1> QED
    BY <1>1, <1>2

\* DisconnectBlock cuts the link of the parent and drops the block's transactions.
Cut(s, r, b) ==
    /\ DOMAIN r.db.idx = DOMAIN s.db.idx \cup {Prev[b]}
    /\ r.db.idx[Prev[b]].next = None
    /\ \A x \in DOMAIN s.db.idx \ {Prev[b]} : r.db.idx[x].next = s.db.idx[x].next
    /\ DOMAIN r.db.tx \subseteq DOMAIN s.db.tx \ Range(Txs[b])

\* The whole of DisconnectBlock does so when it succeeds.
LEMMA DisconnectBlockEffect ==
    ASSUME NEW s, ViewType(s), NEW b \in Block \ {Genesis}
    PROVE  LET r == DisconnectBlock(s, b)
           IN  /\ ViewType(r) /\ r.supply = s.supply
               /\ r.ok => s.ok /\ Cut(s, r, b)
  <1> DEFINE N == Len(Txs[b])
  <1>1. N \in Nat /\ Txs[b] \in Seq(Tx)
    BY ChainAssumption
  <1>2. PICK q : TxsDisconnected(q, s, b) /\ DisconnectBlock(s, b) = Unlinked(s, q[N], b)
    BY DisconnectTxsRuns
  <1> DEFINE Good(n) == /\ ViewType(q[n]) /\ q[n].supply = s.supply /\ q[n].db.idx = s.db.idx
                        /\ q[n].ok => /\ s.ok /\ DOMAIN q[n].db.tx \subseteq DOMAIN s.db.tx
                                      /\ \A i \in 1 .. n : Txs[b][N + 1 - i] \notin DOMAIN q[n].db.tx
  <1>3. Good(0)
    BY <1>2 DEF TxsDisconnected
  <1>4. ASSUME NEW n \in 1 .. N, Good(n - 1) PROVE Good(n)
    <2> DEFINE t == Txs[b][N + 1 - n]
    <2>1. q[n] = DisconnectTx(q[n - 1], t)
      BY <1>2 DEF TxsDisconnected
    <2> HIDE DEF t
    <2>2. /\ ViewType(q[n]) /\ q[n].supply = q[n - 1].supply /\ q[n].db.idx = q[n - 1].db.idx
          /\ q[n].ok => q[n - 1].ok /\ DOMAIN q[n].db.tx = DOMAIN q[n - 1].db.tx \ {t}
      BY <1>4, <2>1, DisconnectTxEffect
    <2>3. \A i \in 1 .. n : i \in 1 .. n - 1 \/ i = n
      BY <1>1
    <2> QED
      BY <1>4, <2>2, <2>3 DEF t
  <1>5. Good(N)
    <2> DEFINE S == {n \in 0 .. N : Good(n)}
    <2> HIDE DEF Good, N
    <2>1. 0 \in S /\ \A n \in 1 .. N : n - 1 \in S => n \in S
      BY <1>1, <1>3, <1>4
    <2> HIDE DEF S
    <2>2. \A n \in 0 .. N : n \in S
      BY <1>1, <2>1, UpTo
    <2> QED
      BY <1>1, <2>2 DEF S
  <1> DEFINE m == q[N]
             r == DisconnectBlock(s, b)
             e == [next |-> None, supply |-> s.supply[Prev[b]]]
             idx == Put(s.db.idx, Prev[b], e)
  <1>6. r = Unlinked(s, m, b)
    BY <1>2
  <1>7. /\ ViewType(m) /\ m.supply = s.supply /\ m.db.idx = s.db.idx
        /\ m.ok => /\ s.ok /\ DOMAIN m.db.tx \subseteq DOMAIN s.db.tx
                   /\ \A i \in 1 .. N : Txs[b][N + 1 - i] \notin DOMAIN m.db.tx
    BY <1>5
  <1> HIDE DEF m, r
  <1>8. CASE ~m.ok
    <2>1. r = m
      BY <1>6, <1>8 DEF Unlinked
    <2> QED
      BY <1>7, <1>8, <2>1 DEF r
  <1>9. CASE m.ok
    <2>1. r = [m EXCEPT !.db = [idx |-> idx, best |-> m.db.best, tx |-> m.db.tx]]
      BY <1>6, <1>7, <1>9 DEF Unlinked
    <2>2. Prev[b] \in Block /\ e \in Entry
      BY TreeAssumption DEF Entry, ViewType
    <2>3. s.db.idx \in [DOMAIN s.db.idx -> Entry] /\ DOMAIN s.db.idx \subseteq Block
      BY DEF ViewType, DBType
    <2>4. /\ DOMAIN idx = DOMAIN s.db.idx \cup {Prev[b]} /\ DOMAIN idx \subseteq Block
          /\ idx \in [DOMAIN idx -> Entry] /\ idx[Prev[b]] = e
          /\ \A x \in DOMAIN s.db.idx \ {Prev[b]} : idx[x] = s.db.idx[x]
      <3> HIDE DEF e
      <3> QED
        BY <2>2, <2>3 DEF Put
    <2>5. idx[Prev[b]].next = None
      BY <2>4
    <2> HIDE DEF idx
    <2>6. r = [ok |-> m.ok, db |-> [idx |-> idx, best |-> m.db.best, tx |-> m.db.tx], supply |-> m.supply]
      BY <1>7, <2>1 DEF ViewType
    <2>7. /\ r.ok = m.ok /\ r.supply = s.supply /\ r.db.idx = idx /\ r.db.tx = m.db.tx
          /\ r = [ok |-> r.ok, db |-> r.db, supply |-> r.supply]
          /\ r.db = [idx |-> r.db.idx, best |-> r.db.best, tx |-> r.db.tx]
      BY <1>7, <2>6
    <2>8. ViewType(r)
      BY <1>7, <2>4, <2>7 DEF ViewType, DBType
    <2>9. \A t \in Range(Txs[b]) : t \notin DOMAIN m.db.tx
      <3> SUFFICES ASSUME NEW t \in Range(Txs[b]) PROVE t \notin DOMAIN m.db.tx
        OBVIOUS
      <3>1. PICK j \in 1 .. N : t = Txs[b][j]
        BY <1>1 DEF Range
      <3>2. N + 1 - j \in 1 .. N /\ N + 1 - (N + 1 - j) = j
        BY <1>1, <3>1
      <3> QED
        BY <1>7, <1>9, <3>1, <3>2
    <2>10. Cut(s, r, b)
      BY <1>7, <1>9, <2>4, <2>5, <2>7, <2>9 DEF Cut
    <2> QED
      BY <1>7, <1>9, <2>7, <2>8, <2>10 DEF r
  <1> QED
    BY <1>8, <1>9

\* The last n blocks of a branch disconnected.
BranchCut(s, r, branch, n) ==
    LET down == Len(branch) + 1 - n .. Len(branch)
    IN  /\ DOMAIN r.db.idx = DOMAIN s.db.idx \cup {Prev[branch[i]] : i \in down}
        /\ \A i \in down : r.db.idx[Prev[branch[i]]].next = None
        /\ \A x \in DOMAIN s.db.idx :
             (\A i \in down : x # Prev[branch[i]]) => r.db.idx[x].next = s.db.idx[x].next
        /\ DOMAIN r.db.tx \subseteq DOMAIN s.db.tx
        /\ \A i \in down : Range(Txs[branch[i]]) \cap DOMAIN r.db.tx = {}

\* One more block of the branch disconnected.
LEMMA BranchCutStep ==
    ASSUME NEW s, NEW q, NEW r, NEW branch, Len(branch) \in Nat, NEW n \in 1 .. Len(branch),
           BranchCut(s, q, branch, n - 1), Cut(q, r, branch[Len(branch) + 1 - n])
    PROVE  BranchCut(s, r, branch, n)
  <1> DEFINE k == Len(branch) + 1 - n
             b == branch[k]
             old == Len(branch) + 1 - (n - 1) .. Len(branch)
             new == Len(branch) + 1 - n .. Len(branch)
  <1>1. new = old \cup {k}
    OBVIOUS
  <1>2. /\ DOMAIN q.db.idx = DOMAIN s.db.idx \cup {Prev[branch[i]] : i \in old}
        /\ \A i \in old : q.db.idx[Prev[branch[i]]].next = None
        /\ \A x \in DOMAIN s.db.idx :
             (\A i \in old : x # Prev[branch[i]]) => q.db.idx[x].next = s.db.idx[x].next
        /\ DOMAIN q.db.tx \subseteq DOMAIN s.db.tx
        /\ \A i \in old : Range(Txs[branch[i]]) \cap DOMAIN q.db.tx = {}
    BY DEF BranchCut
  <1>3. /\ DOMAIN r.db.idx = DOMAIN q.db.idx \cup {Prev[b]}
        /\ r.db.idx[Prev[b]].next = None
        /\ \A x \in DOMAIN q.db.idx \ {Prev[b]} : r.db.idx[x].next = q.db.idx[x].next
        /\ DOMAIN r.db.tx \subseteq DOMAIN q.db.tx \ Range(Txs[b])
    BY DEF Cut
  <1> HIDE DEF old, new, k
  <1>4. DOMAIN r.db.idx = DOMAIN s.db.idx \cup {Prev[branch[i]] : i \in new}
    BY <1>1, <1>2, <1>3
  <1>5. ASSUME NEW i \in new PROVE r.db.idx[Prev[branch[i]]].next = None
    <2>1. CASE Prev[branch[i]] = Prev[b]
      BY <1>3, <2>1
    <2>2. CASE Prev[branch[i]] # Prev[b]
      <3>1. i \in old
        BY <1>1, <2>2
      <3>2. Prev[branch[i]] \in DOMAIN q.db.idx
        BY <1>2, <3>1
      <3> QED
        BY <1>2, <1>3, <2>2, <3>1, <3>2
    <2> QED
      BY <2>1, <2>2
  <1>6. ASSUME NEW x \in DOMAIN s.db.idx, \A i \in new : x # Prev[branch[i]]
        PROVE  r.db.idx[x].next = s.db.idx[x].next
    BY <1>1, <1>2, <1>3, <1>6
  <1>7. \A i \in new : Range(Txs[branch[i]]) \cap DOMAIN r.db.tx = {}
    BY <1>1, <1>2, <1>3
  <1> QED
    BY <1>2, <1>3, <1>4, <1>5, <1>6, <1>7 DEF BranchCut, new

\* The loop of Reorganize over the blocks to disconnect.
LEMMA DisconnectBranchEffect ==
    ASSUME NEW s, ViewType(s), NEW branch \in Seq(Block \ {Genesis})
    PROVE  LET r == DisconnectBranch(s, branch)
           IN  /\ ViewType(r) /\ r.supply = s.supply
               /\ r.ok => s.ok /\ BranchCut(s, r, branch, Len(branch))
  <1> DEFINE N == Len(branch)
  <1>1. N \in Nat /\ \A n \in 1 .. N : branch[N + 1 - n] \in Block \ {Genesis}
    OBVIOUS
  <1>2. PICK q : BranchDisconnected(q, s, branch) /\ DisconnectBranch(s, branch) = q[N]
    BY DisconnectBranchRuns
  <1> DEFINE Good(n) == /\ ViewType(q[n]) /\ q[n].supply = s.supply
                        /\ q[n].ok => s.ok /\ BranchCut(s, q[n], branch, n)
  <1>3. Good(0)
    <2>1. q[0] = s
      BY <1>2 DEF BranchDisconnected
    <2>2. BranchCut(s, s, branch, 0)
      BY <1>1 DEF BranchCut
    <2> QED
      BY <2>1, <2>2
  <1>4. ASSUME NEW n \in 1 .. N, Good(n - 1) PROVE Good(n)
    <2> DEFINE b == branch[N + 1 - n]
    <2>1. q[n] = DisconnectBlock(q[n - 1], b)
      BY <1>2 DEF BranchDisconnected
    <2>2. b \in Block \ {Genesis}
      BY <1>1
    <2>3. /\ ViewType(q[n]) /\ q[n].supply = q[n - 1].supply
          /\ q[n].ok => q[n - 1].ok /\ Cut(q[n - 1], q[n], b)
      <3> HIDE DEF b
      <3> QED
        BY <1>4, <2>1, <2>2, DisconnectBlockEffect
    <2>4. q[n].ok => BranchCut(s, q[n], branch, n)
      BY <1>1, <1>4, <2>3, BranchCutStep
    <2> QED
      BY <1>4, <2>3, <2>4
  <1>5. Good(N)
    <2> DEFINE S == {n \in 0 .. N : Good(n)}
    <2> HIDE DEF Good, N
    <2>1. 0 \in S /\ \A n \in 1 .. N : n - 1 \in S => n \in S
      BY <1>1, <1>3, <1>4
    <2> HIDE DEF S
    <2>2. \A n \in 0 .. N : n \in S
      BY <1>1, <2>1, UpTo
    <2> QED
      BY <1>1, <2>2 DEF S
  <1> QED
    BY <1>2, <1>5
-----------------------------------------------------------------------------
\* A pool: its two maps.
PoolType(p) == p = [mapTx |-> p.mapTx, mapNextTx |-> p.mapNextTx] /\ p.mapTx \subseteq Tx

\* Taking transactions out of the pool (remove, removeConflicts) leaves a part of it.
LEMMA RemoveEffect ==
    ASSUME NEW p, PoolType(p), NEW S
    PROVE  /\ PoolType(RemoveTx(p, S)) /\ RemoveTx(p, S).mapTx = p.mapTx \ S
           /\ PoolType(RemoveConflicts(p, S)) /\ RemoveConflicts(p, S).mapTx \subseteq p.mapTx
  <1>1. ASSUME NEW T PROVE PoolType(RemoveTx(p, T)) /\ RemoveTx(p, T).mapTx = p.mapTx \ T
    BY DEF RemoveTx, PoolType
  <1>2. ASSUME NEW T PROVE PoolType(RemoveRecursive(p, T)) /\ RemoveRecursive(p, T).mapTx \subseteq p.mapTx
    BY <1>1 DEF RemoveRecursive
  <1> QED
    BY <1>1, <1>2 DEF RemoveConflicts

\* accept() of a resurrected transaction adds at most that transaction.
LEMMA ResurrectTxEffect ==
    ASSUME NEW p, PoolType(p), NEW t \in Tx
    PROVE  PoolType(ResurrectTx(p, t)) /\ ResurrectTx(p, t).mapTx \subseteq p.mapTx \cup {t}
  BY DEF PoolType, ResurrectTx, AddUnchecked

\* The transactions of a block, resurrected.
LEMMA ResurrectBlockEffect ==
    ASSUME NEW p, PoolType(p), NEW b \in Block
    PROVE  PoolType(ResurrectBlock(p, b)) /\ ResurrectBlock(p, b).mapTx \subseteq p.mapTx \cup Range(Txs[b])
  <1> DEFINE N == Len(Txs[b])
  <1>1. N \in Nat /\ \A n \in 1 .. N : Txs[b][n] \in Tx /\ Txs[b][n] \in Range(Txs[b])
    BY ChainAssumption DEF Range
  <1>2. PICK q : BlockResurrected(q, p, b) /\ ResurrectBlock(p, b) = q[N]
    BY ResurrectBlockRuns
  <1> DEFINE Good(n) == PoolType(q[n]) /\ q[n].mapTx \subseteq p.mapTx \cup Range(Txs[b])
  <1>3. Good(0)
    BY <1>2 DEF BlockResurrected
  <1>4. ASSUME NEW n \in 1 .. N, Good(n - 1) PROVE Good(n)
    <2>1. q[n] = ResurrectTx(q[n - 1], Txs[b][n])
      BY <1>2 DEF BlockResurrected
    <2>2. PoolType(q[n]) /\ q[n].mapTx \subseteq q[n - 1].mapTx \cup {Txs[b][n]}
      BY <1>1, <1>4, <2>1, ResurrectTxEffect
    <2> QED
      BY <1>1, <1>4, <2>2
  <1>5. Good(N)
    <2> DEFINE S == {n \in 0 .. N : Good(n)}
    <2> HIDE DEF Good, N
    <2>1. 0 \in S /\ \A n \in 1 .. N : n - 1 \in S => n \in S
      BY <1>1, <1>3, <1>4
    <2> HIDE DEF S
    <2>2. \A n \in 0 .. N : n \in S
      BY <1>1, <2>1, UpTo
    <2> QED
      BY <1>1, <2>2 DEF S
  <1> QED
    BY <1>2, <1>5

\* The loop of Reorganize over vResurrect.
LEMMA ResurrectBranchEffect ==
    ASSUME NEW p, PoolType(p), NEW branch \in Seq(Block \ {Genesis})
    PROVE  /\ PoolType(ResurrectBranch(p, branch))
           /\ ResurrectBranch(p, branch).mapTx \subseteq p.mapTx \cup BlockTxs(branch)
  <1> DEFINE N == Len(branch)
  <1>1. /\ N \in Nat /\ \A n \in 1 .. N : branch[N + 1 - n] \in Block
        /\ \A n \in 1 .. N : Range(Txs[branch[N + 1 - n]]) \subseteq BlockTxs(branch)
    BY DEF BlockTxs, Range
  <1>2. PICK q : BranchResurrected(q, p, branch) /\ ResurrectBranch(p, branch) = q[N]
    BY ResurrectBranchRuns
  <1> DEFINE Good(n) == PoolType(q[n]) /\ q[n].mapTx \subseteq p.mapTx \cup BlockTxs(branch)
  <1>3. Good(0)
    BY <1>2 DEF BranchResurrected
  <1>4. ASSUME NEW n \in 1 .. N, Good(n - 1) PROVE Good(n)
    <2> DEFINE b == branch[N + 1 - n]
    <2>1. q[n] = ResurrectBlock(q[n - 1], b)
      BY <1>2 DEF BranchResurrected
    <2>2. b \in Block /\ Range(Txs[b]) \subseteq BlockTxs(branch)
      BY <1>1
    <2> HIDE DEF b
    <2>3. PoolType(q[n]) /\ q[n].mapTx \subseteq q[n - 1].mapTx \cup Range(Txs[b])
      BY <1>4, <2>1, <2>2, ResurrectBlockEffect
    <2> QED
      BY <1>4, <2>2, <2>3
  <1>5. Good(N)
    <2> DEFINE S == {n \in 0 .. N : Good(n)}
    <2> HIDE DEF Good, N
    <2>1. 0 \in S /\ \A n \in 1 .. N : n - 1 \in S => n \in S
      BY <1>1, <1>3, <1>4
    <2> HIDE DEF S
    <2>2. \A n \in 0 .. N : n \in S
      BY <1>1, <2>1, UpTo
    <2> QED
      BY <1>1, <2>2 DEF S
  <1> QED
    BY <1>2, <1>5
-----------------------------------------------------------------------------
\* Two blocks of a chain with one parent are one block.
LEMMA OneChild ==
    ASSUME NEW b \in Block, NEW c \in Ancestors[b] \ {Genesis}, NEW d \in Ancestors[b] \ {Genesis},
           Prev[c] = Prev[d]
    PROVE  c = d
  <1>1. c \in Block \ {Genesis} /\ d \in Block \ {Genesis}
    BY AncestorsType
  <1>2. nHeight(c) = nHeight(d)
    BY <1>1, HeightStep
  <1> QED
    BY <1>2, AncestorsHeight

\* What follows a block on a chain.
LEMMA NextIs ==
    ASSUME NEW best \in Block, NEW b
    PROVE  /\ \A c \in Ancestors[best] \ {Genesis} : Prev[c] = b => NextOn(best, b) = c
           /\ (\A c \in Ancestors[best] \ {Genesis} : Prev[c] # b) => NextOn(best, b) = None
  <1>1. Range(PathTo[best]) = Ancestors[best] \ {Genesis}
    BY PathRange DEF Range
  <1>2. ASSUME NEW c \in Ancestors[best] \ {Genesis}, Prev[c] = b PROVE NextOn(best, b) = c
    <2>1. \A d \in Range(PathTo[best]) : Prev[d] = b => d = c
      BY <1>1, <1>2, OneChild
    <2> QED
      BY <1>1, <1>2, <2>1 DEF NextOn
  <1>3. (\A c \in Ancestors[best] \ {Genesis} : Prev[c] # b) => NextOn(best, b) = None
    BY <1>1 DEF NextOn
  <1> QED
    BY <1>2, <1>3

\* A block on top of the chain is what follows its parent.
LEMMA NextOnTip ==
    ASSUME NEW b \in Block \ {Genesis}, NEW x
    PROVE  NextOn(b, x) = IF x = Prev[b] THEN b ELSE NextOn(Prev[b], x)
  <1>1. Prev[b] \in Block /\ b \in Ancestors[b] /\ Ancestors[b] = Ancestors[Prev[b]] \cup {b}
    BY TreeAssumption, AncestorsType, AncestorsSplit
  <1>2. CASE x = Prev[b]
    BY <1>1, <1>2, NextIs
  <1>3. CASE x # Prev[b]
    <2>1. CASE \E c \in Ancestors[Prev[b]] \ {Genesis} : Prev[c] = x
      <3>1. PICK c \in Ancestors[Prev[b]] \ {Genesis} : Prev[c] = x
        BY <2>1
      <3>2. NextOn(Prev[b], x) = c /\ NextOn(b, x) = c
        BY <1>1, <3>1, NextIs
      <3> QED
        BY <1>3, <3>2
    <2>2. CASE ~ \E c \in Ancestors[Prev[b]] \ {Genesis} : Prev[c] = x
      <3>1. \A c \in Ancestors[b] \ {Genesis} : Prev[c] # x
        BY <1>1, <1>3, <2>2
      <3>2. NextOn(Prev[b], x) = None /\ NextOn(b, x) = None
        BY <1>1, <2>2, <3>1, NextIs
      <3> QED
        BY <1>3, <3>2
    <2> QED
      BY <2>1, <2>2
  <1> QED
    BY <1>2, <1>3

\* SetBestChain's intermediate block is on the way to the target and has more trust
\* than the best block.
LEMMA IntermediateIs ==
    ASSUME NEW target \in Block \ {Genesis}, pindexBest \in Block,
           nChainTrust[target] > nChainTrust[pindexBest]
    PROVE  /\ Intermediate(target) \in Ancestors[target] \ {Genesis}
           /\ nChainTrust[Intermediate(target)] > nChainTrust[pindexBest]
  <1> DEFINE better == {b \in Range(PathTo[target]) : nChainTrust[b] > nChainTrust[pindexBest]}
  <1>1. Range(PathTo[target]) = Ancestors[target] \ {Genesis}
    BY PathRange DEF Range
  <1>2. target \in better /\ better \in SUBSET Ancestors[target]
    BY <1>1, AncestorsType
  <1> HIDE DEF better
  <1>3. \E b \in better \cup {target} : \A c \in better : OnPath(b, c)
    <2>1. \E f \in better : \A g \in better : f \in Ancestors[g]
      BY <1>2, FirstOnChain
    <2> QED
      BY <2>1 DEF OnPath
  <1>4. Intermediate(target) \in better \cup {target}
    BY <1>3 DEF Intermediate, better
  <1> QED
    BY <1>1, <1>2, <1>4 DEF better
-----------------------------------------------------------------------------
\* The two branches of a reorganisation, from the best block to new.
Apart(new, up, down) ==
    /\ IsBranch(up) /\ IsBranch(down)
    /\ Range(up) = Ancestors[new] \ Ancestors[pindexBest]
    /\ Range(down) = Ancestors[pindexBest] \ Ancestors[new]
    /\ Len(up) > 0 /\ up[Len(up)] = new
    /\ \A i \in 2 .. Len(up) : Prev[up[i]] = up[i - 1]

\* Reorganize finds them when new has more trust than the best block.
LEMMA Branches ==
    ASSUME NEW new \in Block, pindexBest \in Block, nChainTrust[new] > nChainTrust[pindexBest]
    PROVE  LET f == Fork(pindexBest, new) IN Apart(new, After(f, new), After(f, pindexBest))
  <1> DEFINE f == Fork(pindexBest, new)
             up == After(f, new)
             down == After(f, pindexBest)
  <1>1. /\ f \in Ancestors[pindexBest] /\ f \in Ancestors[new]
        /\ \A g \in Ancestors[pindexBest] \cap Ancestors[new] : g \in Ancestors[f]
    BY ForkIsLast
  <1>2. Ancestors[pindexBest] \cap Ancestors[new] = Ancestors[f]
    BY <1>1, AncestorsTrans
  <1>3. f # new
    <2>1. nChainTrust[new] \in Nat /\ nChainTrust[pindexBest] \in Nat
      BY ChainTrustStep
    <2>2. new # pindexBest
      BY <2>1
    <2>3. new \in Ancestors[pindexBest] => nChainTrust[new] < nChainTrust[pindexBest]
      BY <2>2, TrustGrows
    <2> QED
      BY <1>1, <2>1, <2>3
  <1> HIDE DEF f
  <1>4. /\ IsBranch(up) /\ Len(up) = nHeight(new) - nHeight(f) /\ up # <<>> /\ up[Len(up)] = new
        /\ Range(up) = Ancestors[new] \ Ancestors[f]
        /\ \A i \in 2 .. Len(up) : Prev[up[i]] = up[i - 1]
    BY <1>1, <1>3, AfterIsBranch, AfterBranch DEF Range
  <1>5. IsBranch(down) /\ Range(down) = Ancestors[pindexBest] \ Ancestors[f]
    BY <1>1, AfterIsBranch, AfterBranch DEF Range
  <1> HIDE DEF up, down
  <1>6. Len(up) > 0
    BY <1>4 DEF IsBranch
  <1> QED
    BY <1>2, <1>4, <1>5, <1>6 DEF Apart, f, up, down

\* Where the parents of the two branches are.
LEMMA ApartPrev ==
    ASSUME NEW new \in Block, pindexBest \in Block, NEW up, NEW down, Apart(new, up, down)
    PROVE  /\ \A c \in Range(up) : c \in Block \ {Genesis} /\ Prev[c] \in Ancestors[new]
           /\ \A d \in Range(down) : d \in Block \ {Genesis} /\ Prev[d] \in Ancestors[pindexBest]
           /\ \A c, d \in Range(up) : Prev[c] = Prev[d] => c = d
           /\ \A c \in Range(up) : c # new => \E d \in Range(up) : Prev[d] = c
           /\ new \in Range(up)
  <1>1. \A b \in Block : \A c \in Ancestors[b] \ {Genesis} : c \in Block \ {Genesis} /\ Prev[c] \in Ancestors[b]
    BY AncestorsClosed, AncestorsType DEF PprevClosed
  <1>2. Genesis \in Ancestors[new] /\ Genesis \in Ancestors[pindexBest]
    BY TreeAssumption
  <1>3. /\ \A c \in Range(up) : c \in Ancestors[new] \ {Genesis}
        /\ \A d \in Range(down) : d \in Ancestors[pindexBest] \ {Genesis}
    BY <1>2 DEF Apart
  <1>4. \A c, d \in Range(up) : Prev[c] = Prev[d] => c = d
    BY <1>3, OneChild
  <1>5. Len(up) \in Nat /\ DOMAIN up = 1 .. Len(up) /\ Len(up) \in 1 .. Len(up)
    BY DEF Apart, IsBranch
  <1>6. new \in Range(up)
    BY <1>5 DEF Apart, Range
  <1>7. ASSUME NEW c \in Range(up), c # new PROVE \E d \in Range(up) : Prev[d] = c
    <2>1. PICK i \in 1 .. Len(up) : c = up[i]
      BY <1>5 DEF Range
    <2>2. i + 1 \in 2 .. Len(up) /\ i + 1 \in DOMAIN up /\ (i + 1) - 1 = i
      BY <1>5, <1>7, <2>1 DEF Apart
    <2>3. Prev[up[i + 1]] = c
      BY <2>1, <2>2 DEF Apart
    <2> QED
      BY <2>2, <2>3 DEF Range
  <1> QED
    BY <1>1, <1>3, <1>4, <1>6, <1>7

\* The links Reorganize makes in memory once the batch is committed.
LEMMA PnextReorganizedIs ==
    ASSUME NEW new \in Block, pindexBest \in Block, nChainTrust[new] > nChainTrust[pindexBest],
           pnext \in [Block -> Block \cup {None}]
    PROVE  LET p == PnextReorganized(new)
               up == Ancestors[new] \ Ancestors[pindexBest]
               down == Ancestors[pindexBest] \ Ancestors[new]
           IN  /\ p \in [Block -> Block \cup {None}]
               /\ \A c \in up : p[Prev[c]] = c
               /\ \A b \in Block : (\A c \in up : Prev[c] # b) =>
                     p[b] = IF \E d \in down : Prev[d] = b THEN None ELSE pnext[b]
  <1> DEFINE f == Fork(pindexBest, new)
             up == After(f, new)
             down == After(f, pindexBest)
             p == PnextReorganized(new)
             PrevDown == {Prev[b] : b \in Range(down)}
  <1>1. Apart(new, up, down)
    BY Branches
  <1> HIDE DEF up, down, f
  <1>2. /\ \A c \in Range(up) : c \in Block \ {Genesis} /\ Prev[c] \in Ancestors[new]
        /\ \A c, d \in Range(up) : Prev[c] = Prev[d] => c = d
    BY <1>1, ApartPrev
  <1>3. p = [b \in Block |-> IF \E c \in Range(up) : Prev[c] = b
                             THEN CHOOSE c \in Range(up) : Prev[c] = b
                             ELSE IF b \in PrevDown THEN None ELSE pnext[b]]
    BY DEF PnextReorganized, up, down, f
  <1> HIDE DEF p
  <1>4. /\ Range(up) = Ancestors[new] \ Ancestors[pindexBest]
        /\ Range(down) = Ancestors[pindexBest] \ Ancestors[new]
    BY <1>1 DEF Apart
  <1>5. ASSUME NEW c \in Range(up) PROVE Prev[c] \in Block /\ p[Prev[c]] = c
    <2>1. Prev[c] \in Block
      BY <1>2, AncestorsType
    <2>2. \A d \in Range(up) : Prev[d] = Prev[c] => d = c
      BY <1>2
    <2> QED
      BY <1>3, <2>1, <2>2
  <1>6. ASSUME NEW b \in Block, \A c \in Range(up) : Prev[c] # b
        PROVE  p[b] = IF \E d \in Range(down) : Prev[d] = b THEN None ELSE pnext[b]
    BY <1>3, <1>6
  <1>7. ASSUME NEW b \in Block PROVE p[b] \in Block \cup {None}
    <2>1. CASE \E c \in Range(up) : Prev[c] = b
      BY <1>2, <1>5, <2>1
    <2>2. CASE ~ \E c \in Range(up) : Prev[c] = b
      BY <1>6, <2>2
    <2> QED
      BY <2>1, <2>2
  <1>8. p \in [Block -> Block \cup {None}]
    BY <1>3, <1>7
  <1> QED
    BY <1>4, <1>5, <1>6, <1>8 DEF p

\* They are those of the chain of new, if they were those of the best chain.
LEMMA PnextReorganizedNext ==
    ASSUME NEW new \in Block, pindexBest \in Block, nChainTrust[new] > nChainTrust[pindexBest],
           pnext \in [Block -> Block \cup {None}], \A b \in Block : pnext[b] = NextOn(pindexBest, b)
    PROVE  \A b \in Block : PnextReorganized(new)[b] = NextOn(new, b)
  <1> DEFINE p == PnextReorganized(new)
             up == Ancestors[new] \ Ancestors[pindexBest]
             down == Ancestors[pindexBest] \ Ancestors[new]
  <1>0. Genesis \in Ancestors[new] /\ Genesis \in Ancestors[pindexBest]
    BY TreeAssumption
  <1>1. /\ \A c \in up : p[Prev[c]] = c
        /\ \A b \in Block : (\A c \in up : Prev[c] # b) =>
              p[b] = IF \E d \in down : Prev[d] = b THEN None ELSE pnext[b]
    BY PnextReorganizedIs
  <1> HIDE DEF p
  <1> SUFFICES ASSUME NEW b \in Block PROVE p[b] = NextOn(new, b)
    BY DEF p
  <1>2. CASE \E c \in up : Prev[c] = b
    <2>1. PICK c \in up : Prev[c] = b
      BY <1>2
    <2>2. c \in Ancestors[new] \ {Genesis}
      BY <1>0
    <2> QED
      BY <1>1, <2>1, <2>2, NextIs
  <1>3. CASE (~ \E c \in up : Prev[c] = b) /\ \E d \in down : Prev[d] = b
    <2>1. PICK d \in down : Prev[d] = b
      BY <1>3
    <2>2. p[b] = None
      BY <1>1, <1>3
    <2>3. ASSUME NEW c \in Ancestors[new] \ {Genesis}, Prev[c] = b PROVE FALSE
      <3>1. c \in Ancestors[pindexBest] \ {Genesis} /\ d \in Ancestors[pindexBest] \ {Genesis}
        BY <1>0, <1>3, <2>3
      <3>2. c = d
        BY <2>1, <2>3, <3>1, OneChild
      <3> QED
        BY <3>2
    <2>4. NextOn(new, b) = None
      BY <2>3, NextIs
    <2> QED
      BY <2>2, <2>4
  <1>4. CASE (~ \E c \in up : Prev[c] = b) /\ ~ \E d \in down : Prev[d] = b
    <2>1. p[b] = NextOn(pindexBest, b)
      BY <1>1, <1>4
    <2>2. CASE \E c \in Ancestors[new] \ {Genesis} : Prev[c] = b
      <3>1. PICK c \in Ancestors[new] \ {Genesis} : Prev[c] = b
        BY <2>2
      <3>2. c \in Ancestors[pindexBest] \ {Genesis}
        BY <1>4, <3>1
      <3>3. NextOn(new, b) = c /\ NextOn(pindexBest, b) = c
        BY <3>1, <3>2, NextIs
      <3> QED
        BY <2>1, <3>3
    <2>3. CASE ~ \E c \in Ancestors[new] \ {Genesis} : Prev[c] = b
      <3>1. \A c \in Ancestors[pindexBest] \ {Genesis} : Prev[c] # b
        BY <1>4, <2>3
      <3>2. NextOn(new, b) = None /\ NextOn(pindexBest, b) = None
        BY <2>3, <3>1, NextIs
      <3> QED
        BY <2>1, <3>2
    <2> QED
      BY <2>2, <2>3
  <1> QED
    BY <1>2, <1>3, <1>4
-----------------------------------------------------------------------------
\* What a reorganisation to new commits: the links on disk are those that memory is
\* given afterwards, and the pool that memory is given has no indexed transaction.
LEMMA ReorganizedEffect ==
    ASSUME NEW new \in mapBlockIndex, nChainTrust[new] > nChainTrust[pindexBest],
           StateOK, PoolOK, \A b \in DOMAIN db.idx : pnext[b] = db.idx[b].next
    PROVE  LET r == Reorganized(new)
               p == PoolReorganized(new)
           IN  /\ r.supply \in [Block -> Int]
               /\ r.ok => /\ DBType(r.db) /\ r.db.best = new
                          /\ DOMAIN db.idx \subseteq DOMAIN r.db.idx /\ new \in DOMAIN r.db.idx
                          /\ DOMAIN r.db.idx \subseteq mapBlockIndex
                          /\ \A b \in DOMAIN r.db.idx : PnextReorganized(new)[b] = r.db.idx[b].next
                          /\ PoolType(p) /\ p.mapTx \cap DOMAIN r.db.tx = {}
  <1> DEFINE f == Fork(pindexBest, new)
             up == After(f, new)
             down == After(f, pindexBest)
             d == DisconnectBranch(View, down)
             u == ConnectBranch(d, up)
             r == Reorganized(new)
             p == PoolReorganized(new)
             links == PnextReorganized(new)
  <1>1. new \in Block /\ pindexBest \in Block /\ mapBlockIndex \in PprevClosed /\ mapBlockIndex \subseteq Block
    BY DEF StateOK, PprevClosed
  <1>2. Apart(new, up, down)
    BY <1>1, Branches
  <1>3. r = [ok |-> u.ok, supply |-> u.supply, db |-> [idx |-> u.db.idx, best |-> new, tx |-> u.db.tx]]
    BY DEF Reorganized, WithBest
  <1>4. p = RemoveConflicts(RemoveTx(ResurrectBranch(pool, down), BlockTxs(up)), BlockTxs(up))
    BY DEF PoolReorganized
  <1>5. ViewType(View) /\ View.db = db
    BY DEF ViewType, View, StateOK
  <1> HIDE DEF f, up, down, p, r
  <1>6. down \in Seq(Block \ {Genesis}) /\ IsBranch(up)
    BY <1>2 DEF Apart, IsBranch
  <1>7. ViewType(d) /\ (d.ok => BranchCut(View, d, down, Len(down)))
    BY <1>5, <1>6, DisconnectBranchEffect
  <1> HIDE DEF d
  <1>8. pnext \in [Block -> Block \cup {None}]
    BY DEF StateOK
  <1>9. ViewType(u) /\ (u.ok => d.ok /\ BranchLinked(d, u, up, Len(up)))
    BY <1>6, <1>7, <1>8, ConnectBranchEffect
  <1> HIDE DEF u
  <1>10. r.ok = u.ok /\ r.supply = u.supply /\ r.db.idx = u.db.idx /\ r.db.best = new /\ r.db.tx = u.db.tx
         /\ r.db = [idx |-> r.db.idx, best |-> r.db.best, tx |-> r.db.tx]
    BY <1>3
  <1>11. r.supply \in [Block -> Int] /\ DBType(r.db)
    BY <1>9, <1>10 DEF ViewType, DBType
  <1>12. ASSUME r.ok
         PROVE  /\ DOMAIN db.idx \subseteq DOMAIN r.db.idx /\ new \in DOMAIN r.db.idx
                /\ DOMAIN r.db.idx \subseteq mapBlockIndex
                /\ \A b \in DOMAIN r.db.idx : links[b] = r.db.idx[b].next
                /\ PoolType(p) /\ p.mapTx \cap DOMAIN r.db.tx = {}
    <2>1. /\ Len(up) \in Nat /\ DOMAIN up = 1 .. Len(up) /\ up[Len(up)] = new /\ Len(up) > 0
          /\ Range(up) = {up[i] : i \in 1 .. Len(up)}
          /\ Len(down) \in Nat /\ DOMAIN down = 1 .. Len(down)
          /\ Range(down) = {down[i] : i \in 1 .. Len(down)}
      BY <1>2, <1>6 DEF Apart, IsBranch, Range
    <2>2. Len(down) + 1 - Len(down) .. Len(down) = 1 .. Len(down)
      BY <2>1
    <2>3. /\ DOMAIN d.db.idx = DOMAIN db.idx \cup {Prev[c] : c \in Range(down)}
          /\ \A c \in Range(down) : d.db.idx[Prev[c]].next = None
          /\ \A x \in DOMAIN db.idx : (\A c \in Range(down) : x # Prev[c]) => d.db.idx[x].next = db.idx[x].next
          /\ DOMAIN d.db.tx \subseteq DOMAIN db.tx
          /\ \A c \in Range(down) : Range(Txs[c]) \cap DOMAIN d.db.tx = {}
      <3>1. BranchCut(View, d, down, Len(down))
        BY <1>7, <1>9, <1>10, <1>12
      <3>2. {Prev[c] : c \in Range(down)} = {Prev[down[i]] : i \in 1 .. Len(down)}
        BY <2>1
      <3> QED
        BY <1>5, <2>1, <2>2, <3>1, <3>2 DEF BranchCut
    <2>4. /\ DOMAIN u.db.idx = DOMAIN d.db.idx \cup Range(up) \cup {Prev[c] : c \in Range(up)}
          /\ \A c \in Range(up) : u.db.idx[Prev[c]].next = c
          /\ u.db.idx[new].next = pnext[new]
          /\ \A x \in DOMAIN d.db.idx :
               (x \notin Range(up) /\ \A c \in Range(up) : x # Prev[c]) => u.db.idx[x].next = d.db.idx[x].next
          /\ \A t \in DOMAIN u.db.tx \ DOMAIN d.db.tx : \E c \in Range(up) : t \in Range(Txs[c])
      <3>1. BranchLinked(d, u, up, Len(up))
        BY <1>9, <1>10, <1>12
      <3>2. {Prev[c] : c \in Range(up)} = {Prev[up[i]] : i \in 1 .. Len(up)}
        BY <2>1
      <3> QED
        BY <2>1, <3>1, <3>2 DEF BranchLinked
    <2>5. /\ \A c \in Range(up) : c \in Block \ {Genesis} /\ Prev[c] \in Ancestors[new]
          /\ \A c \in Range(down) : c \in Block \ {Genesis} /\ Prev[c] \in Ancestors[pindexBest]
          /\ \A c \in Range(up) : c # new => \E e \in Range(up) : Prev[e] = c
          /\ new \in Range(up)
      BY <1>1, <1>2, ApartPrev
    <2>6. /\ Range(up) = Ancestors[new] \ Ancestors[pindexBest]
          /\ Range(down) = Ancestors[pindexBest] \ Ancestors[new]
      BY <1>2 DEF Apart
    <2>7. Ancestors[new] \subseteq mapBlockIndex /\ Ancestors[pindexBest] \subseteq mapBlockIndex
      BY <1>1, ClosedAncestors DEF StateOK
    <2>8. DOMAIN r.db.idx \subseteq mapBlockIndex
      BY <1>10, <2>3, <2>4, <2>5, <2>6, <2>7 DEF StateOK
    <2>9. /\ \A c \in Range(up) : links[Prev[c]] = c
          /\ \A b \in Block : (\A c \in Range(up) : Prev[c] # b) =>
                links[b] = IF \E c \in Range(down) : Prev[c] = b THEN None ELSE pnext[b]
      BY <1>1, <1>8, <2>6, PnextReorganizedIs
    <2> HIDE DEF links
    <2>10. ASSUME NEW b \in DOMAIN r.db.idx PROVE links[b] = r.db.idx[b].next
      <3>0. b \in Block
        BY <1>1, <2>8
      <3>1. CASE \E c \in Range(up) : Prev[c] = b
        BY <1>10, <2>4, <2>9, <3>1
      <3>2. CASE (~ \E c \in Range(up) : Prev[c] = b) /\ b \in Range(up)
        <4>1. b = new
          BY <2>5, <3>2
        <4>2. ~ \E c \in Range(down) : Prev[c] = b
          BY <2>5, <2>6, <4>1
        <4> QED
          BY <1>10, <2>4, <2>9, <3>0, <3>2, <4>1, <4>2
      <3>3. CASE (~ \E c \in Range(up) : Prev[c] = b) /\ b \notin Range(up)
        <4>1. b \in DOMAIN d.db.idx /\ r.db.idx[b].next = d.db.idx[b].next
          BY <1>10, <2>4, <3>3
        <4>2. links[b] = IF \E c \in Range(down) : Prev[c] = b THEN None ELSE pnext[b]
          BY <2>9, <3>0, <3>3
        <4>3. CASE \E c \in Range(down) : Prev[c] = b
          BY <2>3, <4>1, <4>2, <4>3
        <4>4. CASE ~ \E c \in Range(down) : Prev[c] = b
          <5>1. b \in DOMAIN db.idx
            BY <2>3, <4>1, <4>4
          <5> QED
            BY <2>3, <4>1, <4>2, <4>4, <5>1
        <4> QED
          BY <4>3, <4>4
      <3> QED
        BY <3>1, <3>2, <3>3
    <2>11. PoolType(p) /\ p.mapTx \cap DOMAIN r.db.tx = {}
      <3> DEFINE back == ResurrectBranch(pool, down)
                 kept == RemoveTx(back, BlockTxs(up))
      <3>1. PoolType(pool)
        BY DEF PoolOK, PoolType
      <3>2. PoolType(back) /\ back.mapTx \subseteq pool.mapTx \cup BlockTxs(down)
        BY <1>6, <3>1, ResurrectBranchEffect
      <3> HIDE DEF back
      <3>3. PoolType(kept) /\ kept.mapTx = back.mapTx \ BlockTxs(up)
        BY <3>2, RemoveEffect
      <3>4. p = RemoveConflicts(kept, BlockTxs(up))
        BY <1>4 DEF back
      <3> HIDE DEF kept
      <3>5. PoolType(p) /\ p.mapTx \subseteq kept.mapTx
        BY <3>3, <3>4, RemoveEffect
      <3>6. ASSUME NEW t \in p.mapTx, t \in DOMAIN u.db.tx PROVE FALSE
        <4>1. t \in pool.mapTx \cup BlockTxs(down) /\ t \notin BlockTxs(up)
          BY <3>2, <3>3, <3>5, <3>6
        <4>2. t \in DOMAIN d.db.tx
          BY <2>4, <3>6, <4>1 DEF BlockTxs
        <4>3. t \notin BlockTxs(down)
          BY <2>3, <4>2 DEF BlockTxs
        <4> QED
          BY <2>3, <4>1, <4>2, <4>3 DEF PoolOK
      <3> QED
        BY <1>10, <3>5, <3>6
    <2> QED
      BY <1>10, <2>3, <2>4, <2>5, <2>8, <2>10, <2>11 DEF links
  <1> QED
    BY <1>10, <1>11, <1>12 DEF r, p

\* The state that ConnectTip leaves: b on top of its parent, on disk and in memory.
LEMMA ConnectTipEffect ==
    ASSUME NEW b \in mapBlockIndex \ {Genesis}, StateOK, LinksOK, PoolOK, ConnectTip(b),
           UNCHANGED <<mapBlockIndex, strayed>>, ~strayed => Prev[b] = db.best
    PROVE  /\ DBType(db') /\ db'.best = b /\ b \in DOMAIN db'.idx
           /\ DOMAIN db.idx \subseteq DOMAIN db'.idx /\ DOMAIN db'.idx \subseteq mapBlockIndex
           /\ pnext' \in [Block -> Block \cup {None}] /\ nMoneySupply' \in [Block -> Int]
           /\ LinksOK' /\ PoolOK'
  <1> DEFINE r == ConnectBlock(View, b)
  <1>1. mapBlockIndex \in PprevClosed /\ mapBlockIndex \subseteq Block /\ b \in Block \ {Genesis}
    BY DEF StateOK, PprevClosed
  <1>2. Prev[b] \in mapBlockIndex /\ Prev[b] \in Block /\ Prev[b] # b
    BY <1>1, Acyclic, AncestorsType DEF PprevClosed
  <1>3. ViewType(View) /\ View.db = db
    BY DEF ViewType, View, StateOK
  <1>4. pnext \in [Block -> Block \cup {None}]
    BY DEF StateOK
  <1>5. r.ok
    BY DEF ConnectTip
  <1>6. ViewType(r) /\ Linked(View, r, b)
    BY <1>1, <1>3, <1>4, <1>5, ConnectBlockEffect
  <1>7. /\ db' = [idx |-> r.db.idx, best |-> b, tx |-> r.db.tx]
        /\ nMoneySupply' = r.supply
        /\ pnext' = [pnext EXCEPT ![Prev[b]] = b]
        /\ pool' = RemoveTx(pool, Range(Txs[b]))
    BY DEF ConnectTip
  <1> HIDE DEF r
  <1>8. /\ db'.idx = r.db.idx /\ db'.best = b /\ db'.tx = r.db.tx
        /\ db' = [idx |-> db'.idx, best |-> db'.best, tx |-> db'.tx]
    BY <1>7
  <1>9. DBType(db') /\ nMoneySupply' \in [Block -> Int]
    BY <1>6, <1>7, <1>8 DEF ViewType, DBType
  <1>10. /\ DOMAIN db'.idx = DOMAIN db.idx \cup {b, Prev[b]}
         /\ db'.idx[Prev[b]].next = b /\ db'.idx[b].next = pnext[b]
         /\ \A x \in DOMAIN db.idx \ {b, Prev[b]} : db'.idx[x].next = db.idx[x].next
         /\ DOMAIN db'.tx \subseteq DOMAIN db.tx \cup Range(Txs[b])
    BY <1>3, <1>6, <1>8 DEF Linked
  <1>11. pnext' \in [Block -> Block \cup {None}] /\ pnext'[Prev[b]] = b
         /\ \A x \in Block \ {Prev[b]} : pnext'[x] = pnext[x]
    BY <1>1, <1>2, <1>4, <1>7
  <1>12. DOMAIN db'.idx \subseteq mapBlockIndex
    BY <1>2, <1>10 DEF StateOK
  <1>13. ASSUME NEW x \in DOMAIN db'.idx PROVE pnext'[x] = db'.idx[x].next
    <2>1. CASE x = Prev[b]
      BY <1>10, <1>11, <2>1
    <2>2. CASE x = b
      BY <1>1, <1>2, <1>10, <1>11, <2>2
    <2>3. CASE x \notin {b, Prev[b]}
      <3>1. x \in DOMAIN db.idx /\ x \in Block
        BY <1>1, <1>10, <1>12, <2>3
      <3> QED
        BY <1>10, <1>11, <2>3, <3>1 DEF LinksOK
    <2> QED
      BY <2>1, <2>2, <2>3
  <1>14. \A x \in Block \ mapBlockIndex : pnext'[x] = None
    BY <1>2, <1>11 DEF LinksOK
  <1>15. ASSUME ~strayed, NEW x \in Block PROVE pnext'[x] = NextOn(b, x)
    <2>1. NextOn(b, x) = IF x = Prev[b] THEN b ELSE NextOn(db.best, x)
      BY <1>1, <1>15, NextOnTip
    <2> QED
      BY <1>11, <1>15, <2>1 DEF LinksOK
  <1>16. LinksOK'
    <2>1. strayed' = strayed /\ mapBlockIndex' = mapBlockIndex
      OBVIOUS
    <2>2. /\ \A x \in DOMAIN db'.idx : pnext'[x] = db'.idx[x].next
          /\ \A x \in Block \ mapBlockIndex' : pnext'[x] = None
          /\ ~strayed' => \A x \in Block : pnext'[x] = NextOn(db'.best, x)
      BY <1>8, <1>13, <1>14, <1>15, <2>1
    <2> QED
      BY <2>2 DEF LinksOK, NextOn
  <1>17. PoolOK'
    <2>1. PoolType(pool)
      BY DEF PoolOK, PoolType
    <2>2. PoolType(pool') /\ pool'.mapTx = pool.mapTx \ Range(Txs[b])
      BY <1>7, <2>1, RemoveEffect
    <2> QED
      BY <1>10, <2>2 DEF PoolOK, PoolType
  <1> QED
    BY <1>8, <1>9, <1>10, <1>11, <1>12, <1>16, <1>17
-----------------------------------------------------------------------------
\* What JobOK says of a job, by its phase.
LEMMA JobPhase ==
    ASSUME StateOK, JobOK
    PROVE  /\ Idle => job = NoJob /\ ~job.begun
           /\ ~Idle => job.target \in mapBlockIndex \ {Genesis} /\ job.target \in Block
           /\ (~Idle /\ ~job.begun) => nChainTrust[job.target] > nChainTrust[pindexBest]
           /\ (~Idle /\ job.begun) => /\ db.best \in Ancestors[job.target] \ {job.target}
                                      /\ job.secondary = After(db.best, job.target)
                                      /\ job = [target |-> job.target, secondary |-> job.secondary, begun |-> TRUE]
  <1>1. mapBlockIndex \subseteq Block /\ None \notin Block
    BY ChainAssumption DEF StateOK, PprevClosed
  <1>2. CASE job = NoJob
    BY <1>2 DEF NoJob, Idle
  <1>3. CASE /\ job = [target |-> job.target, secondary |-> <<>>, begun |-> FALSE]
             /\ job.target \in mapBlockIndex \ {Genesis}
             /\ nChainTrust[job.target] > nChainTrust[pindexBest]
    <2>1. ~job.begun /\ job.target # None
      BY <1>1, <1>3
    <2> QED
      BY <1>1, <1>3, <2>1 DEF Idle
  <1>4. CASE /\ job = [target |-> job.target, secondary |-> After(db.best, job.target), begun |-> TRUE]
             /\ job.target \in mapBlockIndex \ {Genesis}
             /\ db.best \in Ancestors[job.target] \ {job.target}
    <2>1. job.begun = TRUE /\ job.target # None /\ job.secondary = After(db.best, job.target)
      BY <1>1, <1>4
    <2> QED
      BY <1>1, <1>4, <2>1 DEF Idle
  <1> QED
    BY <1>2, <1>3, <1>4 DEF JobOK

\* A commit that fails is counted, within the bound.
LEMMA FailsCounted ==
    ASSUME StateOK, NEW ok \in BOOLEAN, Commits(ok), CountFail(ok)
    PROVE  fails' \in 0 .. MaxFail
  BY ChainAssumption DEF StateOK, Commits, CountFail

\* The initial state.
LEMMA InitInv == Init => IInv
  <1> SUFFICES ASSUME Init PROVE IInv
    OBVIOUS
  <1>1. /\ db.idx = [b \in {Genesis} |-> [next |-> None, supply |-> 0]] /\ db.best = Genesis
        /\ db.tx = [t \in {} |-> t] /\ db = [idx |-> db.idx, best |-> db.best, tx |-> db.tx]
    BY DEF Init, InitDB
  <1>2. DBType(db)
    <2>1. [next |-> None, supply |-> 0] \in Entry
      BY DEF Entry
    <2>2. db.idx \in [{Genesis} -> Entry] /\ DOMAIN db.idx = {Genesis}
      BY <1>1, <2>1
    <2>3. IsFcn(db.tx) /\ DOMAIN db.tx = {}
      BY <1>1 DEF IsFcn
    <2> QED
      BY <1>1, <2>2, <2>3, TreeAssumption DEF DBType, IndexType
  <1>3. DOMAIN db.idx = {Genesis} /\ db.idx[Genesis].next = None
    BY <1>1
  <1>4. StateOK
    <2>1. strayed \in BOOLEAN
      BY Zenon DEF Init
    <2>2. crashes \in 0 .. MaxCrash /\ fails \in 0 .. MaxFail
      BY ChainAssumption DEF Init
    <2>3. mapBlockIndex = {Genesis} /\ pindexBest = Genesis /\ mapBlockIndex \in PprevClosed
      BY TreeAssumption DEF Init, PprevClosed
    <2>4. pnext \in [Block -> Block \cup {None}] /\ nMoneySupply \in [Block -> Int]
      BY DEF Init
    <2> QED
      BY <1>1, <1>2, <1>3, <2>1, <2>2, <2>3, <2>4 DEF StateOK
  <1>5. ASSUME NEW b PROVE NextOn(Genesis, b) = None
    <2>1. \A c \in Ancestors[Genesis] \ {Genesis} : Prev[c] # b
      BY GenesisAncestors
    <2> QED
      BY <2>1, NextIs, TreeAssumption
  <1>6. LinksOK
    BY <1>1, <1>3, <1>5, TreeAssumption DEF Init, LinksOK
  <1>7. PoolOK
    BY <1>1 DEF Init, EmptyPool, PoolOK
  <1>8. JobOK
    BY DEF Init, JobOK
  <1>9. BestOK
    <2>1. nChainTrust[Genesis] \in Nat
      BY ChainTrustStep, TreeAssumption
    <2> QED
      BY <1>1, <2>1 DEF Init, BestOK
  <1> QED
    BY <1>4, <1>6, <1>7, <1>8, <1>9 DEF IInv

\* AcceptBlock: the new entry has no successor, and becomes the target if it has more
\* trust.
LEMMA AcceptBlockInv ==
    ASSUME IInv, NEW b \in Block \ {Genesis}, NEW ok \in BOOLEAN, AcceptBlock(b, ok)
    PROVE  IInv' /\ db'.best = db.best
  <1> DEFINE e == [next |-> None, supply |-> 0]
             idx == Put(db.idx, b, e)
  <1>0. StateOK /\ JobOK /\ BestOK /\ LinksOK /\ PoolOK
    BY DEF IInv
  <1>1. job = NoJob /\ ~job.begun
    BY <1>0, JobPhase DEF AcceptBlock
  <1>2. /\ b \notin mapBlockIndex /\ Prev[b] \in mapBlockIndex
        /\ mapBlockIndex' = mapBlockIndex \cup {b}
        /\ UNCHANGED <<pnext, nMoneySupply, pindexBest, pool, crashes, strayed>>
        /\ db' = IF ok THEN [db EXCEPT !.idx = idx] ELSE db
    BY DEF AcceptBlock
  <1>3. fails' \in 0 .. MaxFail
    BY <1>0, FailsCounted DEF AcceptBlock
  <1>4. /\ DBType(db') /\ db'.best = db.best /\ db'.tx = db.tx
        /\ DOMAIN db.idx \subseteq DOMAIN db'.idx /\ DOMAIN db'.idx \subseteq DOMAIN db.idx \cup {b}
        /\ \A x \in DOMAIN db.idx : db'.idx[x] = db.idx[x]
        /\ \A x \in DOMAIN db'.idx \ DOMAIN db.idx : x = b /\ db'.idx[x].next = None
    <2>1. CASE ~ok
      BY <1>0, <1>2, <2>1 DEF StateOK
    <2>2. CASE ok
      <3>1. db.idx \in [DOMAIN db.idx -> Entry] /\ DOMAIN db.idx \subseteq Block /\ b \notin DOMAIN db.idx
        BY <1>0, <1>2 DEF StateOK, DBType
      <3>2. e \in Entry
        BY DEF Entry
      <3>3. /\ DOMAIN idx = DOMAIN db.idx \cup {b} /\ DOMAIN idx \subseteq Block
            /\ idx \in [DOMAIN idx -> Entry] /\ idx[b] = e
            /\ \A x \in DOMAIN db.idx : idx[x] = db.idx[x]
        <4> HIDE DEF e
        <4> QED
          BY <3>1, <3>2 DEF Put
      <3>4. idx[b].next = None
        BY <3>3
      <3> HIDE DEF idx
      <3>5. db' = [idx |-> idx, best |-> db.best, tx |-> db.tx]
        BY <1>0, <1>2, <2>2 DEF StateOK, DBType
      <3>6. db'.idx = idx /\ db'.best = db.best /\ db'.tx = db.tx
            /\ db' = [idx |-> db'.idx, best |-> db'.best, tx |-> db'.tx]
        BY <3>5
      <3> QED
        BY <1>0, <3>3, <3>4, <3>6 DEF StateOK, DBType
    <2> QED
      BY <2>1, <2>2
  <1>5. mapBlockIndex' \in PprevClosed
    BY <1>0, <1>2 DEF StateOK, PprevClosed
  <1>6. StateOK'
    BY <1>0, <1>2, <1>3, <1>4, <1>5 DEF StateOK
  <1>7. CASE job' = NoJob
    <2>1. JobOK'
      BY <1>7 DEF JobOK
    <2>2. ~job'.begun
      BY <1>7 DEF NoJob
    <2>3. BestOK'
      BY <1>0, <1>1, <1>2, <1>4 DEF BestOK
    <2> QED
      BY <2>1, <2>3, <1>0, <1>2, <1>4, <1>6 DEF IInv, LinksOK, PoolOK, NextOn
  <1>8. CASE job' # NoJob
    <2>1. job' = [NoJob EXCEPT !.target = b] /\ nChainTrust[b] > nChainTrust[pindexBest]
      BY <1>8 DEF AcceptBlock
    <2>2. job' = [target |-> b, secondary |-> <<>>, begun |-> FALSE]
      BY <2>1 DEF NoJob
    <2>3. JobOK'
      BY <1>2, <2>1, <2>2 DEF JobOK
    <2>4. BestOK'
      BY <1>0, <1>1, <1>2, <1>4 DEF BestOK
    <2> QED
      BY <2>3, <2>4, <1>0, <1>2, <1>4, <1>6 DEF IInv, LinksOK, PoolOK, NextOn
  <1> QED
    BY <1>4, <1>7, <1>8

\* The supply that a failing ConnectBlock leaves is one.
LEMMA SupplyKept ==
    ASSUME StateOK, NEW b \in Block \ {Genesis}
    PROVE  ConnectBlock(View, b).supply \in [Block -> Int]
  <1>1. ViewType(View)
    BY DEF ViewType, View, StateOK
  <1>2. ViewType(ConnectBlock(View, b))
    BY <1>1, ConnectBlockEffect DEF StateOK
  <1> QED
    BY <1>2 DEF ViewType

\* Between two jobs, with memory on the block that is best on disk or, after a
\* postponed block has failed, on one with no less trust.
LEMMA Settled ==
    ASSUME job' = NoJob, nChainTrust[db'.best] <= nChainTrust[pindexBest'],
           ~strayed' => pindexBest' = db'.best
    PROVE  JobOK' /\ BestOK'
  BY DEF JobOK, BestOK

\* SetBestChain of a child of the best block.
LEMMA ExtendBestInv ==
    ASSUME IInv, NEW ok \in BOOLEAN, ExtendBest(ok)
    PROVE  IInv' /\ (db'.best # db.best => nChainTrust[db'.best] > nChainTrust[db.best])
  <1> DEFINE t == job.target
  <1>0. StateOK /\ JobOK /\ BestOK /\ LinksOK /\ PoolOK
    BY DEF IInv
  <1>1. /\ t \in mapBlockIndex \ {Genesis} /\ t \in Block \ {Genesis}
        /\ nChainTrust[t] > nChainTrust[pindexBest] /\ ~job.begun /\ Prev[t] = pindexBest
    BY <1>0, JobPhase DEF ExtendBest
  <1>2. nChainTrust[db.best] <= nChainTrust[pindexBest] /\ (~strayed => pindexBest = db.best)
    BY <1>0, <1>1 DEF BestOK
  <1>3. fails' \in 0 .. MaxFail /\ job' = NoJob /\ UNCHANGED <<mapBlockIndex, crashes, strayed>>
    BY <1>0, FailsCounted DEF ExtendBest
  <1>4. /\ db.best \in Block /\ pindexBest \in Block
        /\ nChainTrust[db.best] \in Nat /\ nChainTrust[pindexBest] \in Nat /\ nChainTrust[t] \in Nat
    BY <1>0, <1>1, ChainTrustStep DEF StateOK, DBType, PprevClosed
  <1>5. CASE ConnectTip(t) /\ pindexBest' = t
    <2>1. /\ DBType(db') /\ db'.best = t /\ t \in DOMAIN db'.idx
          /\ DOMAIN db.idx \subseteq DOMAIN db'.idx /\ DOMAIN db'.idx \subseteq mapBlockIndex
          /\ pnext' \in [Block -> Block \cup {None}] /\ nMoneySupply' \in [Block -> Int]
          /\ LinksOK' /\ PoolOK'
      BY <1>0, <1>1, <1>2, <1>3, <1>5, ConnectTipEffect
    <2>2. StateOK'
      BY <1>0, <1>1, <1>3, <1>5, <2>1 DEF StateOK
    <2>3. JobOK' /\ BestOK'
      BY <1>3, <1>4, <1>5, <2>1, Settled
    <2>4. nChainTrust[t] > nChainTrust[db.best]
      BY <1>1, <1>2, <1>4
    <2> QED
      BY <2>1, <2>2, <2>3, <2>4 DEF IInv
  <1>6. CASE /\ nMoneySupply' = ConnectBlock(View, t).supply
             /\ UNCHANGED <<db, pnext, pool, pindexBest>>
    <2>1. nMoneySupply' \in [Block -> Int]
      BY <1>0, <1>1, <1>6, SupplyKept
    <2>2. StateOK' /\ LinksOK' /\ PoolOK'
      BY <1>0, <1>3, <1>6, <2>1 DEF StateOK, LinksOK, PoolOK, NextOn
    <2>3. JobOK' /\ BestOK'
      BY <1>2, <1>3, <1>6, Settled
    <2> QED
      BY <1>6, <2>2, <2>3 DEF IInv
  <1> QED
    BY <1>5, <1>6 DEF ExtendBest

\* SetBestChain across a fork.
LEMMA ReorganizeBestInv ==
    ASSUME IInv, NEW ok \in BOOLEAN, ReorganizeBest(ok)
    PROVE  IInv' /\ (db'.best # db.best => nChainTrust[db'.best] > nChainTrust[db.best])
  <1> DEFINE t == job.target
             mid == Intermediate(t)
             r == Reorganized(mid)
             rest == After(mid, t)
  <1>0. StateOK /\ JobOK /\ BestOK /\ LinksOK /\ PoolOK
    BY DEF IInv
  <1>1. /\ t \in mapBlockIndex \ {Genesis} /\ t \in Block \ {Genesis}
        /\ nChainTrust[t] > nChainTrust[pindexBest] /\ ~job.begun
    BY <1>0, JobPhase DEF ReorganizeBest
  <1>2. nChainTrust[db.best] <= nChainTrust[pindexBest] /\ (~strayed => pindexBest = db.best)
    BY <1>0, <1>1 DEF BestOK
  <1>3. fails' \in 0 .. MaxFail /\ UNCHANGED <<mapBlockIndex, crashes, strayed>>
    BY <1>0, FailsCounted DEF ReorganizeBest
  <1>4. /\ db.best \in Block /\ pindexBest \in Block /\ mapBlockIndex \subseteq Block
        /\ nChainTrust[db.best] \in Nat /\ nChainTrust[pindexBest] \in Nat /\ nChainTrust[t] \in Nat
    BY <1>0, <1>1, ChainTrustStep DEF StateOK, DBType, PprevClosed
  <1>5. mid \in Ancestors[t] \ {Genesis} /\ nChainTrust[mid] > nChainTrust[pindexBest]
    BY <1>1, <1>4, IntermediateIs
  <1>6. /\ nMoneySupply' = r.supply
        /\ \/ /\ ok /\ r.ok
              /\ db' = r.db
              /\ pnext' = PnextReorganized(mid)
              /\ pool' = PoolReorganized(mid)
              /\ pindexBest' = IF rest = <<>> THEN mid ELSE pindexBest
              /\ job' = IF rest = <<>> THEN NoJob ELSE [target |-> t, secondary |-> rest, begun |-> TRUE]
           \/ /\ ~(ok /\ r.ok)
              /\ job' = NoJob
              /\ UNCHANGED <<db, pnext, pool, pindexBest>>
    BY DEF ReorganizeBest
  <1> HIDE DEF t, mid
  <1>7. mid \in mapBlockIndex /\ mid \in Block
    BY <1>0, <1>1, <1>4, <1>5, ClosedAncestors DEF StateOK
  <1>8. /\ r.supply \in [Block -> Int]
        /\ r.ok => /\ DBType(r.db) /\ r.db.best = mid
                   /\ DOMAIN db.idx \subseteq DOMAIN r.db.idx /\ mid \in DOMAIN r.db.idx
                   /\ DOMAIN r.db.idx \subseteq mapBlockIndex
                   /\ \A b \in DOMAIN r.db.idx : PnextReorganized(mid)[b] = r.db.idx[b].next
                   /\ PoolType(PoolReorganized(mid)) /\ PoolReorganized(mid).mapTx \cap DOMAIN r.db.tx = {}
    BY <1>0, <1>5, <1>7, ReorganizedEffect DEF LinksOK
  <1>9. CASE /\ ok /\ r.ok
             /\ db' = r.db
             /\ pnext' = PnextReorganized(mid)
             /\ pool' = PoolReorganized(mid)
             /\ pindexBest' = IF rest = <<>> THEN mid ELSE pindexBest
             /\ job' = IF rest = <<>> THEN NoJob ELSE [target |-> t, secondary |-> rest, begun |-> TRUE]
    <2>1. /\ DBType(db') /\ db'.best = mid
          /\ DOMAIN db.idx \subseteq DOMAIN db'.idx /\ mid \in DOMAIN db'.idx
          /\ DOMAIN db'.idx \subseteq mapBlockIndex
          /\ \A b \in DOMAIN db'.idx : pnext'[b] = db'.idx[b].next
          /\ PoolType(pool') /\ pool'.mapTx \cap DOMAIN db'.tx = {}
      <3> HIDE DEF r
      <3> QED
        BY <1>8, <1>9
    <2>2. pnext \in [Block -> Block \cup {None}]
      BY <1>0 DEF StateOK
    <2>3. pnext' \in [Block -> Block \cup {None}]
      BY <1>4, <1>5, <1>7, <1>9, <2>2, PnextReorganizedIs
    <2>4. StateOK'
      <3>1. nMoneySupply' \in [Block -> Int] /\ pindexBest' \in mapBlockIndex
        BY <1>0, <1>6, <1>7, <1>8, <1>9 DEF StateOK
      <3> QED
        BY <1>0, <1>3, <2>1, <2>3, <3>1 DEF StateOK
    <2>5. ASSUME NEW b \in Block \ mapBlockIndex PROVE pnext'[b] = None
      <3>1. pnext[b] = None
        BY <1>0 DEF LinksOK
      <3>2. Ancestors[mid] \subseteq mapBlockIndex /\ Genesis \in Ancestors[mid] \cap Ancestors[pindexBest]
        BY <1>0, <1>4, <1>7, ClosedAncestors, TreeAssumption DEF StateOK
      <3>3. \A c \in Ancestors[mid] \ Ancestors[pindexBest] : Prev[c] # b
        BY <1>0, <3>2 DEF StateOK, PprevClosed
      <3>4. pnext'[b] = IF \E d \in Ancestors[pindexBest] \ Ancestors[mid] : Prev[d] = b THEN None ELSE pnext[b]
        BY <1>4, <1>5, <1>7, <1>9, <2>2, <3>3, PnextReorganizedIs
      <3> QED
        BY <3>1, <3>4
    <2>6. ASSUME ~strayed PROVE \A b \in Block : pnext'[b] = NextOn(mid, b)
      <3>1. \A b \in Block : pnext[b] = NextOn(pindexBest, b)
        BY <1>0, <1>2, <2>6 DEF LinksOK
      <3> QED
        BY <1>4, <1>5, <1>7, <1>9, <2>2, <3>1, PnextReorganizedNext
    <2>7. LinksOK'
      <3>1. /\ \A b \in DOMAIN db'.idx : pnext'[b] = db'.idx[b].next
            /\ \A b \in Block \ mapBlockIndex' : pnext'[b] = None
            /\ ~strayed' => \A b \in Block : pnext'[b] = NextOn(db'.best, b)
        BY <1>3, <2>1, <2>5, <2>6
      <3> QED
        BY <3>1 DEF LinksOK, NextOn
    <2>8. PoolOK'
      BY <2>1 DEF PoolOK, PoolType
    <2>9. JobOK' /\ BestOK'
      <3>1. CASE rest = <<>>
        BY <1>7, <1>9, <2>1, <3>1, ChainTrustStep, Settled
      <3>2. CASE rest # <<>>
        <4>1. job' = [target |-> t, secondary |-> After(db'.best, t), begun |-> TRUE]
          BY <1>9, <2>1, <3>2
        <4>2. mid # t
          BY <1>1, <1>5, <3>2, AfterIsBranch DEF t
        <4>3. t \in mapBlockIndex' \ {Genesis}
          BY <1>1, <1>3 DEF t
        <4>4. job'.target = t /\ job'.begun = TRUE
          BY <4>1
        <4> HIDE DEF rest
        <4>5. JobOK'
          BY <1>5, <2>1, <4>1, <4>2, <4>3, <4>4 DEF JobOK
        <4> QED
          BY <4>4, <4>5 DEF BestOK
      <3> QED
        BY <3>1, <3>2
    <2>10. nChainTrust[db'.best] > nChainTrust[db.best]
      BY <1>2, <1>4, <1>5, <1>7, <2>1, ChainTrustStep
    <2> QED
      BY <2>4, <2>7, <2>8, <2>9, <2>10 DEF IInv
  <1>10. CASE job' = NoJob /\ UNCHANGED <<db, pnext, pool, pindexBest>>
    <2>1. nMoneySupply' \in [Block -> Int]
      BY <1>6, <1>8
    <2>2. StateOK' /\ LinksOK' /\ PoolOK'
      BY <1>0, <1>3, <1>10, <2>1 DEF StateOK, LinksOK, PoolOK, NextOn
    <2>3. JobOK' /\ BestOK'
      BY <1>2, <1>3, <1>10, Settled
    <2> QED
      BY <1>10, <2>2, <2>3 DEF IInv
  <1> QED
    BY <1>6, <1>9, <1>10

\* The postponed blocks, one by one: each is the child of the block that is best on
\* disk, and the rest lead on from it.
LEMMA ConnectSecondaryInv ==
    ASSUME IInv, ConnectSecondary
    PROVE  IInv' /\ (db'.best # db.best => nChainTrust[db'.best] > nChainTrust[db.best])
  <1> DEFINE t == job.target
             c == Head(job.secondary)
             rest == Tail(job.secondary)
  <1>0. StateOK /\ JobOK /\ BestOK /\ LinksOK /\ PoolOK
    BY DEF IInv
  <1>1. /\ t \in mapBlockIndex \ {Genesis} /\ t \in Block
        /\ db.best \in Ancestors[t] \ {t} /\ job.secondary = After(db.best, t)
        /\ job = [target |-> t, secondary |-> job.secondary, begun |-> TRUE]
    BY <1>0, JobPhase DEF ConnectSecondary
  <1>2. /\ ConnectTip(c)
        /\ pindexBest' = IF rest = <<>> THEN t ELSE pindexBest
        /\ job' = IF rest = <<>> THEN NoJob ELSE [target |-> t, secondary |-> rest, begun |-> TRUE]
        /\ UNCHANGED <<mapBlockIndex, crashes, fails, strayed>>
    BY DEF ConnectSecondary
  <1> HIDE DEF t
  <1>3. c \in Ancestors[t] \ {Genesis} /\ c \in Block /\ Prev[c] = db.best /\ rest = After(c, t)
    BY <1>1, AfterTail
  <1> HIDE DEF c, rest
  <1>4. c \in mapBlockIndex \ {Genesis}
    BY <1>0, <1>1, <1>3, ClosedAncestors DEF StateOK
  <1>5. /\ DBType(db') /\ db'.best = c /\ c \in DOMAIN db'.idx
        /\ DOMAIN db.idx \subseteq DOMAIN db'.idx /\ DOMAIN db'.idx \subseteq mapBlockIndex
        /\ pnext' \in [Block -> Block \cup {None}] /\ nMoneySupply' \in [Block -> Int]
        /\ LinksOK' /\ PoolOK'
    BY <1>0, <1>2, <1>3, <1>4, ConnectTipEffect
  <1>6. StateOK'
    <2>1. pindexBest' \in mapBlockIndex
      BY <1>0, <1>1, <1>2 DEF StateOK
    <2> QED
      BY <1>0, <1>2, <1>5, <2>1 DEF StateOK
  <1>7. JobOK' /\ BestOK'
    <2>1. CASE rest = <<>>
      <3>0. After(c, t) = <<>> /\ c \in Ancestors[t]
        BY <1>3, <2>1
      <3>1. c = t
        BY <1>1, <3>0, AfterIsBranch
      <3>2. nChainTrust[t] \in Nat
        BY <1>1, ChainTrustStep
      <3> QED
        BY <1>2, <1>5, <2>1, <3>1, <3>2, Settled
    <2>2. CASE rest # <<>>
      <3>1. c # t
        BY <1>1, <1>3, <2>2, AfterIsBranch
      <3>2. job' = [target |-> t, secondary |-> After(db'.best, t), begun |-> TRUE]
        <4>1. job' = [target |-> t, secondary |-> rest, begun |-> TRUE]
          BY <1>2, <2>2
        <4> QED
          BY <1>3, <1>5, <4>1
      <3>3. job'.target = t /\ job'.begun = TRUE
        BY <3>2
      <3>4. JobOK'
        BY <1>1, <1>2, <1>3, <1>5, <3>1, <3>2, <3>3 DEF JobOK
      <3> QED
        BY <3>3, <3>4 DEF BestOK
    <2> QED
      BY <2>1, <2>2
  <1>8. nChainTrust[c] > nChainTrust[db.best]
    <2>1. db.best \in Ancestors[c] /\ db.best # c /\ c \in Block \ {Genesis} /\ db.best \in Block
      BY <1>3, AncestorsPrev, AncestorsType, Acyclic, TreeAssumption
    <2>2. nChainTrust[db.best] < nChainTrust[c] /\ nChainTrust[c] \in Nat /\ nChainTrust[db.best] \in Nat
      BY <2>1, TrustGrows, ChainTrustStep
    <2> QED
      BY <2>2
  <1> QED
    BY <1>5, <1>6, <1>7, <1>8 DEF IInv

\* A postponed block fails: memory goes to the target, which has more trust than the
\* block that is best on disk.
LEMMA SecondaryFailsInv ==
    ASSUME IInv, NEW ok \in BOOLEAN, SecondaryFails(ok)
    PROVE  IInv' /\ db'.best = db.best
  <1> DEFINE t == job.target
             c == Head(job.secondary)
  <1>0. StateOK /\ JobOK /\ BestOK /\ LinksOK /\ PoolOK
    BY DEF IInv
  <1>1. /\ t \in mapBlockIndex \ {Genesis} /\ t \in Block
        /\ db.best \in Ancestors[t] \ {t} /\ job.secondary = After(db.best, t)
    BY <1>0, JobPhase DEF SecondaryFails
  <1>2. /\ nMoneySupply' = ConnectBlock(View, c).supply
        /\ pindexBest' = t /\ job' = NoJob /\ strayed' = TRUE
        /\ UNCHANGED <<db, mapBlockIndex, pnext, pool, crashes>>
    BY DEF SecondaryFails
  <1>3. fails' \in 0 .. MaxFail
    BY <1>0, FailsCounted DEF SecondaryFails
  <1>4. c \in Block \ {Genesis}
    BY <1>1, AfterTail
  <1>5. nMoneySupply' \in [Block -> Int]
    BY <1>0, <1>2, <1>4, SupplyKept
  <1>6. nChainTrust[db.best] <= nChainTrust[t]
    <2>1. db.best \in Block /\ nChainTrust[db.best] \in Nat /\ nChainTrust[t] \in Nat
      BY <1>1, AncestorsType, ChainTrustStep
    <2> QED
      BY <1>1, <2>1, TrustGrows
  <1>7. JobOK' /\ BestOK'
    BY <1>2, <1>6, Settled
  <1>8. strayed' \in BOOLEAN
    BY <1>2, Zenon
  <1>9. StateOK' /\ LinksOK' /\ PoolOK'
    BY <1>0, <1>1, <1>2, <1>3, <1>5, <1>8 DEF StateOK, LinksOK, PoolOK
  <1> QED
    BY <1>2, <1>7, <1>9 DEF IInv

\* A crash and LoadBlockIndex: memory is what the disk says.
LEMMA RestartInv ==
    ASSUME IInv, Restart
    PROVE  IInv' /\ db'.best = db.best
  <1>0. StateOK /\ JobOK /\ BestOK /\ LinksOK /\ PoolOK
    BY DEF IInv
  <1>1. /\ crashes < MaxCrash /\ crashes' = crashes + 1
        /\ \A b \in DOMAIN db.idx \ {Genesis} : Prev[b] \in DOMAIN db.idx
        /\ mapBlockIndex' = DOMAIN db.idx /\ pindexBest' = db.best
        /\ pool' = EmptyPool /\ job' = NoJob
        /\ pnext' = [b \in Block |-> IF b \in DOMAIN db.idx THEN db.idx[b].next ELSE None]
        /\ nMoneySupply' = [b \in Block |-> IF b \in DOMAIN db.idx THEN db.idx[b].supply ELSE 0]
        /\ UNCHANGED <<db, fails, strayed>>
    BY DEF Restart
  <1>2. /\ db.idx \in [DOMAIN db.idx -> Entry] /\ DOMAIN db.idx \subseteq Block
        /\ db.best \in DOMAIN db.idx /\ db.best \in Block
    BY <1>0 DEF StateOK, DBType
  <1>3. \A b \in DOMAIN db.idx : db.idx[b].next \in Block \cup {None} /\ db.idx[b].supply \in Int
    BY <1>2 DEF Entry
  <1>4. DOMAIN db.idx \in PprevClosed
    BY <1>1, <1>2 DEF PprevClosed
  <1>5. StateOK'
    <2>1. crashes' \in 0 .. MaxCrash
      BY <1>0, <1>1, ChainAssumption DEF StateOK
    <2>2. pnext' \in [Block -> Block \cup {None}] /\ nMoneySupply' \in [Block -> Int]
      BY <1>1, <1>3
    <2> QED
      BY <1>0, <1>1, <1>2, <1>4, <2>1, <2>2 DEF StateOK
  <1>6. JobOK' /\ BestOK'
    <2>1. nChainTrust[db.best] \in Nat
      BY <1>2, ChainTrustStep
    <2> QED
      BY <1>1, <2>1, Settled
  <1>7. ASSUME ~strayed, NEW b \in Block PROVE pnext'[b] = NextOn(db.best, b)
    <2>1. CASE b \in DOMAIN db.idx
      BY <1>0, <1>1, <1>7, <2>1 DEF LinksOK
    <2>2. CASE b \notin DOMAIN db.idx
      <3>1. Ancestors[db.best] \subseteq DOMAIN db.idx
        BY <1>2, <1>4, ClosedAncestors
      <3>2. \A c \in Ancestors[db.best] \ {Genesis} : Prev[c] # b
        BY <1>1, <2>2, <3>1
      <3>3. NextOn(db.best, b) = None
        BY <1>2, <3>2, NextIs
      <3> QED
        BY <1>1, <2>2, <3>3
    <2> QED
      BY <2>1, <2>2
  <1>8. LinksOK'
    <2>1. /\ \A b \in DOMAIN db'.idx : pnext'[b] = db'.idx[b].next
          /\ \A b \in Block \ mapBlockIndex' : pnext'[b] = None
          /\ ~strayed' => \A b \in Block : pnext'[b] = NextOn(db'.best, b)
      BY <1>1, <1>2, <1>7
    <2> QED
      BY <2>1 DEF LinksOK, NextOn
  <1>9. PoolOK'
    BY <1>1 DEF PoolOK, EmptyPool
  <1> QED
    BY <1>1, <1>5, <1>6, <1>8, <1>9 DEF IInv

\* A loose transaction enters the pool only if it is not indexed.
LEMMA AcceptToMemoryPoolInv ==
    ASSUME IInv, NEW t \in Tx, AcceptToMemoryPool(t)
    PROVE  IInv' /\ db'.best = db.best
  <1>1. /\ t \notin DOMAIN db.tx /\ pool' = AddUnchecked(pool, t)
        /\ UNCHANGED <<db, mapBlockIndex, pnext, nMoneySupply, pindexBest, job, crashes, fails, strayed>>
    BY DEF AcceptToMemoryPool
  <1>2. PoolOK'
    BY <1>1 DEF IInv, PoolOK, AddUnchecked
  <1>3. StateOK' /\ JobOK' /\ BestOK' /\ LinksOK'
    BY <1>1 DEF IInv, StateOK, JobOK, BestOK, LinksOK, NextOn
  <1> QED
    BY <1>1, <1>2, <1>3 DEF IInv

\* Every step keeps the invariant, and moves the best block on disk to more trust only.
LEMMA NextInv ==
    ASSUME IInv, [Next]_vars
    PROVE  IInv' /\ (db'.best # db.best => nChainTrust[db'.best] > nChainTrust[db.best])
  <1>1. CASE \E b \in Block \ {Genesis}, ok \in BOOLEAN : AcceptBlock(b, ok)
    BY <1>1, AcceptBlockInv
  <1>2. CASE \E ok \in BOOLEAN : ExtendBest(ok)
    BY <1>2, ExtendBestInv
  <1>3. CASE \E ok \in BOOLEAN : ReorganizeBest(ok)
    BY <1>3, ReorganizeBestInv
  <1>4. CASE \E ok \in BOOLEAN : SecondaryFails(ok)
    BY <1>4, SecondaryFailsInv
  <1>5. CASE ConnectSecondary
    BY <1>5, ConnectSecondaryInv
  <1>6. CASE Restart
    BY <1>6, RestartInv
  <1>7. CASE \E t \in Tx : AcceptToMemoryPool(t)
    BY <1>7, AcceptToMemoryPoolInv
  <1>8. CASE UNCHANGED vars
    BY <1>8 DEF IInv, StateOK, JobOK, BestOK, LinksOK, PoolOK, NextOn, vars, mem
  <1> QED
    BY <1>1, <1>2, <1>3, <1>4, <1>5, <1>6, <1>7, <1>8 DEF Next, SetBestChainStep
-----------------------------------------------------------------------------
\* The inductive invariant holds of every behaviour of AddToBlockIndex, SetBestChain
\* and LoadBlockIndex, crashes and failing commits included.
THEOREM Invariant == Spec => []IInv
  <1>1. Init => IInv
    BY InitInv
  <1>2. IInv /\ [Next]_vars => IInv'
    BY NextInv
  <1> QED
    BY <1>1, <1>2, PTL DEF Spec

\* The invariant gives the types and the links that the run checks.
LEMMA LinksFollow == IInv => PnextIsBestChain
  <1> SUFFICES ASSUME IInv PROVE PnextIsBestChain
    OBVIOUS
  <1>0. StateOK /\ JobOK /\ BestOK /\ LinksOK /\ PoolOK
    BY DEF IInv
  <1>1. mapBlockIndex \subseteq Block
    BY <1>0 DEF StateOK, PprevClosed
  <1>2. job.target \in mapBlockIndex \cup {None} /\ Range(job.secondary) \subseteq mapBlockIndex
    <2>1. CASE job = NoJob
      BY <2>1 DEF NoJob, Range
    <2>2. CASE /\ job = [target |-> job.target, secondary |-> <<>>, begun |-> FALSE]
               /\ job.target \in mapBlockIndex
      <3>1. job.secondary = <<>>
        BY <2>2
      <3> QED
        BY <2>2, <3>1 DEF Range
    <2>3. CASE /\ job = [target |-> job.target, secondary |-> After(db.best, job.target), begun |-> TRUE]
               /\ job.target \in mapBlockIndex
               /\ db.best \in Ancestors[job.target]
      <3> DEFINE t == job.target
                 s == After(db.best, t)
      <3>1. job.secondary = s
        BY <2>3
      <3>2. t \in mapBlockIndex /\ t \in Block /\ db.best \in Ancestors[t]
        BY <1>1, <2>3
      <3> HIDE DEF t
      <3>3. {s[i] : i \in DOMAIN s} \subseteq Ancestors[t] /\ Ancestors[t] \subseteq mapBlockIndex
        BY <1>0, <3>2, AfterIsBranch, ClosedAncestors DEF StateOK
      <3> HIDE DEF s
      <3> QED
        BY <3>1, <3>2, <3>3 DEF Range, t
    <2> QED
      BY <1>0, <2>1, <2>2, <2>3 DEF JobOK
  <1>3. TypeOK
    BY <1>0, <1>1, <1>2 DEF TypeOK, StateOK, DBType, IndexType, PoolOK
  <1>4. Idle => \A b \in mapBlockIndex \cap DOMAIN db.idx : pnext[b] = db.idx[b].next
    BY <1>0 DEF LinksOK
  <1>5. Idle /\ ~strayed => \A b \in mapBlockIndex : pnext[b] = NextOn(pindexBest, b)
    <2> SUFFICES ASSUME Idle, ~strayed PROVE \A b \in mapBlockIndex : pnext[b] = NextOn(pindexBest, b)
      OBVIOUS
    <2>1. pindexBest = db.best
      BY <1>0, JobPhase DEF BestOK
    <2> QED
      BY <1>0, <1>1, <2>1 DEF LinksOK
  <1> QED
    BY <1>3, <1>4, <1>5 DEF PnextIsBestChain

\* CBlockIndex::pnext: whenever SetBestChain has returned, memory and disk agree on
\* every link and the links are those of the best chain, whatever reorganisations,
\* rejected branches, failing commits and crashes came before, for every tree of
\* blocks; and the state keeps its types.
THEOREM LinksAreBestChain == Spec => []PnextIsBestChain
  BY Invariant, LinksFollow, PTL

\* SetBestChain never leaves a transaction both in the pool and in the transaction
\* index, whichever parts of a reorganisation failed, for every set of transactions.
THEOREM PoolStaysUnindexed == Spec => []PoolNotIndexed
  <1>1. IInv => PoolNotIndexed
    BY DEF IInv, PoolOK, PoolNotIndexed
  <1> QED
    BY <1>1, Invariant, PTL

\* Every commit of SetBestChain that moves hashBestChain moves it to more trust, for
\* every tree of blocks: a crash between the commits of a long reorganisation never
\* leaves a worse chain than the one before it.
THEOREM CommittedTrustGrows == Spec => DiskTrustGrows
  <1>1. IInv /\ [Next]_vars => [db'.best # db.best => nChainTrust[db'.best] > nChainTrust[db.best]]_vars
    BY NextInv
  <1> QED
    BY <1>1, Invariant, PTL DEF Spec, DiskTrustGrows
-----------------------------------------------------------------------------
\* The transaction index against the chain.  A set of entries <<block, transaction>>
\* of one chain: no transaction twice and no output spent twice ...
Distinct(L) ==
    \A e, f \in L : e[2] = f[2] \/ Ins[e[2]] \cap Ins[f[2]] # {} => e = f

\* ... what they spend are outputs of theirs ...
Grounded(L) ==
    \A e \in L : \A o \in Ins[e[2]] : \E f \in L : o \in Outs(f[2])

\* ... and the outputs that none of them spends.
Unspent(L) ==
    {o \in UNION {Outs(e[2]) : e \in L} : \A f \in L : o \notin Ins[f[2]]}

\* v is what vSpent should say of output o.
SpenderIs(v, o, L) ==
    \/ v = None /\ \A f \in L : o \notin Ins[f[2]]
    \/ v \in L /\ o \in Ins[v[2]]

\* tx is the transaction index of those entries.
Exact(tx, L) ==
    /\ DOMAIN tx = {e[2] : e \in L}
    /\ \A t \in DOMAIN tx : tx[t].pos \in L /\ tx[t].pos[2] = t
    /\ \A t \in DOMAIN tx : \A n \in 0 .. NOut[t] - 1 : SpenderIs(tx[t].vSpent[n], <<t, n>>, L)

\* All of it together, for a batch in the making.
Ledgered(L) == L \subseteq Block \X Tx /\ Distinct(L) /\ Grounded(L) /\ IsFiniteSet(Unspent(L))

\* An input of ConnectInputs is the output of an entry and none spends it.
LEMMA InputUnspent ==
    ASSUME NEW L, L \subseteq Block \X Tx, NEW txi, IndexType(txi), Exact(txi, L),
           NEW t \in Tx, NEW b, InputsOK(txi, t, b), NEW o \in Ins[t]
    PROVE  /\ o[1] \in {e[2] : e \in L} /\ o[1] \in Tx /\ o[2] \in 0 .. NOut[o[1]] - 1
           /\ o = <<o[1], o[2]>> /\ o \in Outs(o[1])
           /\ \A f \in L : o \notin Ins[f[2]]
  <1>1. /\ o[1] \in DOMAIN txi /\ o[2] \in DOMAIN txi[o[1]].vSpent
        /\ txi[o[1]].vSpent[o[2]] = None
    BY DEF InputsOK
  <1>2. o[1] \in {e[2] : e \in L} /\ o[1] \in Tx /\ o[2] \in 0 .. NOut[o[1]] - 1
    BY <1>1 DEF IndexType, Exact
  <1>3. o \in Outpoint
    BY TxAssumption
  <1>4. o = <<o[1], o[2]>>
    BY <1>3 DEF Outpoint
  <1>5. o \in Outs(o[1])
    BY <1>2, <1>4 DEF Outs
  <1>6. SpenderIs(None, o, L)
    BY <1>1, <1>2, <1>4 DEF Exact
  <1>7. None \notin L
    BY BlockAssumption
  <1> QED
    BY <1>2, <1>4, <1>5, <1>6, <1>7 DEF SpenderIs

\* A transaction with inputs that ConnectInputs accepts is not in the chain already:
\* its inputs would be spent.
LEMMA FreshInputs ==
    ASSUME NEW L, L \subseteq Block \X Tx, NEW txi, IndexType(txi), Exact(txi, L),
           NEW t \in Tx \ CoinBase, NEW b, InputsOK(txi, t, b)
    PROVE  \A e \in L : e[2] # t
  <1>1. PICK o : o \in Ins[t]
    BY BlockAssumption
  <1>2. \A f \in L : o \notin Ins[f[2]]
    BY <1>1, InputUnspent
  <1> QED
    BY <1>1, <1>2

\* The entry of one more transaction, which ConnectInputs accepts.
LEMMA ConnectLedgered ==
    ASSUME NEW L, Ledgered(L), NEW txi, IndexType(txi), Exact(txi, L),
           NEW t \in Tx, NEW b \in Block, InputsOK(txi, t, b), \A e \in L : e[2] # t
    PROVE  LET M == L \cup {<<b, t>>}
           IN  /\ Ledgered(M)
               /\ ValueOf(Unspent(L)) \in Int
               /\ ValueOf(Unspent(M)) = ValueOf(Unspent(L)) + ValueOf(Outs(t)) - ValueOf(Ins[t])
  <1> DEFINE M == L \cup {<<b, t>>}
             new == <<b, t>>
             U == Unspent(L)
  <1>1. L \subseteq Block \X Tx /\ Distinct(L) /\ Grounded(L) /\ IsFiniteSet(U)
    BY DEF Ledgered
  <1>2. M \subseteq Block \X Tx
    BY <1>1
  <1>3. \A o \in Ins[t] : /\ \E f \in L : o \in Outs(f[2])
                          /\ \A f \in L : o \notin Ins[f[2]]
                          /\ \E f \in L : o[1] = f[2]
    BY <1>1, InputUnspent
  <1>4. Distinct(M)
    <2>1. ASSUME NEW e \in M, NEW f \in M, e[2] = f[2] \/ Ins[e[2]] \cap Ins[f[2]] # {} PROVE e = f
      <3>1. CASE e \in L /\ f \in L
        BY <1>1, <2>1, <3>1 DEF Distinct
      <3>2. CASE e = new /\ f \in L
        BY <1>3, <2>1, <3>2
      <3>3. CASE e \in L /\ f = new
        BY <1>3, <2>1, <3>3
      <3> QED
        BY <3>1, <3>2, <3>3
    <2> QED
      BY <2>1 DEF Distinct
  <1>5. Grounded(M)
    BY <1>1, <1>3 DEF Grounded
  <1>6. \A o \in Outs(t) : o[1] = t
    BY DEF Outs
  <1>7. \A e \in L : \A o \in Outs(e[2]) : o[1] = e[2]
    BY DEF Outs
  <1>8. Outs(t) \cap Ins[t] = {} /\ \A f \in L : Outs(t) \cap Ins[f[2]] = {}
    <2>1. Outs(t) \cap Ins[t] = {}
      BY <1>3, <1>6
    <2>2. ASSUME NEW f \in L, NEW o \in Outs(t), o \in Ins[f[2]] PROVE FALSE
      <3>1. PICK g \in L : o \in Outs(g[2])
        BY <1>1, <2>2 DEF Grounded
      <3> QED
        BY <1>6, <1>7, <2>2, <3>1
    <2> QED
      BY <2>1, <2>2
  <1>9. Ins[t] \subseteq U
    BY <1>3 DEF Unspent
  <1>10. Unspent(M) = (U \ Ins[t]) \cup Outs(t)
    <2>1. ASSUME NEW o \in Unspent(M) PROVE o \in (U \ Ins[t]) \cup Outs(t)
      <3>1. PICK e \in M : o \in Outs(e[2])
        BY DEF Unspent
      <3>2. \A f \in M : o \notin Ins[f[2]]
        BY DEF Unspent
      <3>3. o \notin Ins[t]
        <4>1. new \in M /\ new[2] = t
          OBVIOUS
        <4> QED
          BY <3>2, <4>1
      <3>4. CASE e = new
        BY <3>1, <3>4
      <3>5. CASE e \in L
        BY <3>1, <3>2, <3>3, <3>5 DEF Unspent
      <3> QED
        BY <3>4, <3>5
    <2>2. ASSUME NEW o \in U \ Ins[t] PROVE o \in Unspent(M)
      BY DEF Unspent
    <2>3. ASSUME NEW o \in Outs(t) PROVE o \in Unspent(M)
      <3>1. new \in M /\ o \in Outs(new[2])
        OBVIOUS
      <3>2. \A f \in M : o \notin Ins[f[2]]
        BY <1>8
      <3> QED
        BY <3>1, <3>2 DEF Unspent
    <2> QED
      BY <2>1, <2>2, <2>3
  <1>11. U \cap Outs(t) = {}
    BY <1>6, <1>7 DEF Unspent
  <1>12. IsFiniteSet(Ins[t]) /\ IsFiniteSet(Outs(t)) /\ IsFiniteSet(U \ Ins[t])
    BY <1>1, ChainAssumption, OutsFinite, FS_Subset
  <1>13. \A o \in U \cup Outs(t) : Val[o[1]][o[2]] \in Int
    <2>1. ASSUME NEW x \in Tx, NEW o \in Outs(x) PROVE Val[o[1]][o[2]] \in Int
      BY ChainAssumption DEF Outs
    <2>2. \A o \in U : \E x \in Tx : o \in Outs(x)
      BY <1>1 DEF Unspent
    <2> QED
      BY <2>1, <2>2
  <1> HIDE DEF U, M
  <1>14. Ledgered(M)
    <2>1. IsFiniteSet(Unspent(M))
      BY <1>10, <1>12, FS_Union
    <2> QED
      BY <1>2, <1>4, <1>5, <2>1 DEF Ledgered
  <1>15. ValueOf(U) \in Int /\ ValueOf(Ins[t]) \in Int /\ ValueOf(U \ Ins[t]) \in Int /\ ValueOf(Outs(t)) \in Int
    BY <1>1, <1>9, <1>12, <1>13, ValueType
  <1>16. ValueOf(U) = ValueOf(U \ Ins[t]) + ValueOf(Ins[t])
    <2> DEFINE A == U \ Ins[t]
    <2>1. A \cup Ins[t] = U /\ A \cap Ins[t] = {} /\ A \subseteq U
      BY <1>9
    <2> HIDE DEF A
    <2>2. ValueOf(A \cup Ins[t]) = ValueOf(A) + ValueOf(Ins[t])
      BY <1>12, <1>13, <2>1, ValueUnion DEF A
    <2>3. ValueOf(A \cup Ins[t]) = ValueOf(U)
      BY <2>1, Zenon
    <2> QED
      BY <2>2, <2>3 DEF A
  <1>17. ValueOf(Unspent(M)) = ValueOf(U \ Ins[t]) + ValueOf(Outs(t))
    <2> DEFINE A == U \ Ins[t]
    <2>1. A \cap Outs(t) = {} /\ A \subseteq U
      BY <1>11
    <2>2. Unspent(M) = A \cup Outs(t) /\ IsFiniteSet(A)
      BY <1>10, <1>12
    <2> HIDE DEF A
    <2>3. ValueOf(A \cup Outs(t)) = ValueOf(A) + ValueOf(Outs(t))
      BY <1>12, <1>13, <2>1, <2>2, ValueUnion
    <2>4. ValueOf(A \cup Outs(t)) = ValueOf(Unspent(M))
      BY <2>2, Zenon
    <2> QED
      BY <2>3, <2>4 DEF A
  <1>18. ValueOf(Unspent(M)) = ValueOf(U) + ValueOf(Outs(t)) - ValueOf(Ins[t])
    BY <1>15, <1>16, <1>17
  <1> QED
    BY <1>14, <1>15, <1>18 DEF U, M

\* The index that SpendInputs makes of it is that of the entries and the new one.
LEMMA SpendExact ==
    ASSUME NEW L, Ledgered(L), NEW txi, IndexType(txi), Exact(txi, L),
           NEW t \in Tx, NEW b \in Block, InputsOK(txi, t, b), \A e \in L : e[2] # t
    PROVE  Exact(Over(SpendInputs(txi, t, b), txi), L \cup {<<b, t>>})
  <1> DEFINE M == L \cup {<<b, t>>}
             new == <<b, t>>
             sp == SpendInputs(txi, t, b)
             tx == Over(sp, txi)
  <1>1. L \subseteq Block \X Tx /\ Grounded(L)
    BY DEF Ledgered
  <1>2. /\ DOMAIN txi = {e[2] : e \in L}
        /\ \A h \in DOMAIN txi : txi[h].pos \in L /\ txi[h].pos[2] = h
        /\ \A h \in DOMAIN txi : \A n \in 0 .. NOut[h] - 1 : SpenderIs(txi[h].vSpent[n], <<h, n>>, L)
        /\ DOMAIN txi \subseteq Tx
    BY DEF Exact, IndexType
  <1>3. t \notin DOMAIN txi /\ \A o \in Ins[t] : o[1] \in DOMAIN txi
    BY <1>1, <1>2, InputUnspent
  <1>4. new \in M /\ new[1] = b /\ new[2] = t /\ L \subseteq M
    OBVIOUS
  <1>5. DOMAIN sp = {t} \cup {o[1] : o \in Ins[t]}
    BY DEF SpendInputs
  <1>6. DOMAIN tx = {e[2] : e \in M}
    <2>1. DOMAIN tx = DOMAIN txi \cup {t}
      BY <1>3, <1>5 DEF Over
    <2>2. {e[2] : e \in M} = {e[2] : e \in L} \cup {t}
      <3> HIDE DEF new
      <3>1. \A e \in M : e \in L \/ e = new
        BY DEF new
      <3> HIDE DEF M
      <3> QED
        BY <1>4, <3>1
    <2> QED
      BY <1>2, <2>1, <2>2
  <1>7. tx[t] = TxIndex(new, t)
    BY <1>5 DEF Over, SpendInputs
  <1>8. ASSUME NEW h \in DOMAIN txi
        PROVE  /\ tx[h].pos = txi[h].pos
               /\ \A n \in 0 .. NOut[h] - 1 :
                    tx[h].vSpent[n] = IF <<h, n>> \in Ins[t] THEN new ELSE txi[h].vSpent[n]
    <2>1. h # t /\ txi[h] = [pos |-> txi[h].pos, vSpent |-> txi[h].vSpent] /\ DOMAIN txi[h].vSpent = 0 .. NOut[h] - 1
      BY <1>3 DEF IndexType
    <2>2. CASE h \in DOMAIN sp
      <3> DEFINE v == [n \in DOMAIN txi[h].vSpent |-> IF <<h, n>> \in Ins[t] THEN new ELSE txi[h].vSpent[n]]
      <3>1. tx[h] = sp[h]
        BY <2>2 DEF Over
      <3>2. sp[h] = [txi[h] EXCEPT !.vSpent = v]
        BY <1>5, <2>1, <2>2 DEF SpendInputs
      <3>3. \A n \in 0 .. NOut[h] - 1 : v[n] = IF <<h, n>> \in Ins[t] THEN new ELSE txi[h].vSpent[n]
        BY <2>1
      <3> HIDE DEF v, sp, tx
      <3>4. sp[h] = [pos |-> txi[h].pos, vSpent |-> v]
        BY <2>1, <3>2
      <3>5. tx[h].pos = txi[h].pos /\ tx[h].vSpent = v
        BY <3>1, <3>4
      <3> QED
        BY <3>3, <3>5
    <2>3. CASE h \notin DOMAIN sp
      <3>1. tx[h] = txi[h]
        BY <2>3 DEF Over
      <3>2. ASSUME NEW n \in 0 .. NOut[h] - 1 PROVE <<h, n>> \notin Ins[t]
        <4> SUFFICES ASSUME <<h, n>> \in Ins[t] PROVE FALSE
          OBVIOUS
        <4>1. <<h, n>>[1] \in DOMAIN sp
          BY <1>5
        <4> QED
          BY <2>3, <4>1
      <3> HIDE DEF sp, tx
      <3> QED
        BY <3>1, <3>2
    <2> QED
      BY <2>2, <2>3
  <1> HIDE DEF tx, sp
  <1>9. tx[t].pos = new /\ \A n \in 0 .. NOut[t] - 1 : tx[t].vSpent[n] = None
    BY <1>7 DEF TxIndex
  <1>10. \A h \in DOMAIN tx : h \in DOMAIN txi \/ h = t
    BY <1>2, <1>4, <1>6
  <1>11. ASSUME NEW h \in DOMAIN tx PROVE tx[h].pos \in M /\ tx[h].pos[2] = h
    <2>1. CASE h = t
      BY <1>4, <1>9, <2>1
    <2>2. CASE h \in DOMAIN txi
      BY <1>2, <1>4, <1>8, <2>2
    <2> QED
      BY <1>10, <2>1, <2>2
  <1>12. ASSUME NEW h \in DOMAIN tx, NEW n \in 0 .. NOut[h] - 1
         PROVE  SpenderIs(tx[h].vSpent[n], <<h, n>>, M)
    <2>1. CASE h = t
      <3>1. <<t, n>> \notin Ins[t]
        <4> SUFFICES ASSUME <<t, n>> \in Ins[t] PROVE FALSE
          OBVIOUS
        <4>1. <<t, n>>[1] \in DOMAIN txi
          BY <1>3
        <4> QED
          BY <1>3, <4>1
      <3>2. ASSUME NEW f \in L, <<t, n>> \in Ins[f[2]] PROVE FALSE
        <4>1. PICK g \in L : <<t, n>> \in Outs(g[2])
          BY <1>1, <3>2 DEF Grounded
        <4>2. g[2] = t
          BY <4>1 DEF Outs
        <4> QED
          BY <4>2
      <3>3. \A f \in M : <<t, n>> \notin Ins[f[2]]
        BY <1>4, <3>1, <3>2
      <3>4. tx[h].vSpent[n] = None
        BY <1>9, <2>1
      <3> QED
        BY <2>1, <3>3, <3>4 DEF SpenderIs
    <2>2. CASE h \in DOMAIN txi /\ <<h, n>> \in Ins[t]
      <3>1. tx[h].vSpent[n] = new
        BY <1>8, <2>2
      <3> QED
        BY <1>4, <2>2, <3>1 DEF SpenderIs
    <2>3. CASE h \in DOMAIN txi /\ <<h, n>> \notin Ins[t]
      <3>1. tx[h].vSpent[n] = txi[h].vSpent[n] /\ SpenderIs(txi[h].vSpent[n], <<h, n>>, L)
        BY <1>2, <1>8, <2>3
      <3>2. \A f \in M : f \in L \/ f[2] = t
        BY <1>4
      <3> HIDE DEF M
      <3> QED
        BY <1>4, <2>3, <3>1, <3>2 DEF SpenderIs
    <2> QED
      BY <1>10, <2>1, <2>2, <2>3
  <1>13. Exact(tx, M)
    <2> HIDE DEF M
    <2> QED
      BY <1>6, <1>11, <1>12 DEF Exact
  <1> QED
    BY <1>13 DEF tx, sp

\* Changes laid over changes.
LEMMA OverOver ==
    ASSUME NEW f, NEW g, NEW h
    PROVE  Over(Over(f, g), h) = Over(f, Over(g, h))
  <1>1. DOMAIN Over(f, g) = DOMAIN f \cup DOMAIN g /\ DOMAIN Over(g, h) = DOMAIN g \cup DOMAIN h
    BY DEF Over
  <1>2. \A x \in DOMAIN f \cup DOMAIN g : Over(f, g)[x] = IF x \in DOMAIN f THEN f[x] ELSE g[x]
    BY DEF Over
  <1>3. \A x \in DOMAIN g \cup DOMAIN h : Over(g, h)[x] = IF x \in DOMAIN g THEN g[x] ELSE h[x]
    BY DEF Over
  <1> DEFINE p == Over(f, g)
             q == Over(g, h)
  <1> HIDE DEF p, q
  <1>4. \A x \in DOMAIN f \cup DOMAIN g \cup DOMAIN h :
            (IF x \in DOMAIN p THEN p[x] ELSE h[x]) = (IF x \in DOMAIN f THEN f[x] ELSE q[x])
    BY <1>1, <1>2, <1>3 DEF p, q
  <1>5. DOMAIN p \cup DOMAIN h = DOMAIN f \cup DOMAIN g \cup DOMAIN h
        /\ DOMAIN f \cup DOMAIN q = DOMAIN f \cup DOMAIN g \cup DOMAIN h
    BY <1>1 DEF p, q
  <1> DEFINE D == DOMAIN f \cup DOMAIN g \cup DOMAIN h
  <1>6. Over(p, h) = [x \in D |-> IF x \in DOMAIN p THEN p[x] ELSE h[x]]
    BY <1>5 DEF Over
  <1>7. Over(f, q) = [x \in D |-> IF x \in DOMAIN f THEN f[x] ELSE q[x]]
    BY <1>5 DEF Over
  <1> HIDE DEF D
  <1>8. Over(p, h) = Over(f, q)
    BY <1>4, <1>6, <1>7 DEF D
  <1> QED
    BY <1>8 DEF p, q

\* The entries of the first n transactions of b.
BlockEntries(b, n) == {<<b, Txs[b][i]>> : i \in 1 .. n}

\* The entries of the chain of b: those of its parent and its own.
LEMMA EntriesStep ==
    /\ Entries(Genesis) = {}
    /\ \A b \in Block \ {Genesis} : Entries(b) = Entries(Prev[b]) \cup BlockEntries(b, Len(Txs[b]))
    /\ \A b \in Block : Entries(b) \subseteq Block \X Tx
    /\ \A b \in Block : \A e \in Entries(b) : e[1] \in Ancestors[b] /\ e[2] \in Range(Txs[e[1]])
  <1>1. ASSUME NEW b \in Block
        PROVE  Entries(b) = {e \in (Ancestors[b] \ {Genesis}) \X Tx : e[2] \in Range(Txs[e[1]])}
    <2>1. Range(PathTo[b]) = Ancestors[b] \ {Genesis}
      BY PathRange DEF Range
    <2> QED
      BY <2>1 DEF Entries
  <1>2. Entries(Genesis) = {}
    BY <1>1, GenesisAncestors, TreeAssumption
  <1>3. ASSUME NEW b \in Block \ {Genesis}
        PROVE  Entries(b) = Entries(Prev[b]) \cup BlockEntries(b, Len(Txs[b]))
    <2>1. Prev[b] \in Block /\ Ancestors[b] = Ancestors[Prev[b]] \cup {b}
      BY TreeAssumption, AncestorsSplit
    <2>2. Txs[b] \in Seq(Tx) /\ DOMAIN Txs[b] = 1 .. Len(Txs[b])
      BY ChainAssumption
    <2>3. BlockEntries(b, Len(Txs[b])) = {e \in {b} \X Tx : e[2] \in Range(Txs[e[1]])}
      <3>1. ASSUME NEW e \in BlockEntries(b, Len(Txs[b])) PROVE e \in {b} \X Tx /\ e[2] \in Range(Txs[e[1]])
        <4>1. PICK i \in 1 .. Len(Txs[b]) : e = <<b, Txs[b][i]>>
          BY DEF BlockEntries
        <4>2. Txs[b][i] \in Tx /\ Txs[b][i] \in Range(Txs[b])
          BY <2>2 DEF Range
        <4> QED
          BY <4>1, <4>2
      <3>2. ASSUME NEW e \in {b} \X Tx, e[2] \in Range(Txs[e[1]]) PROVE e \in BlockEntries(b, Len(Txs[b]))
        <4>1. e = <<b, e[2]>> /\ e[2] \in Range(Txs[b])
          BY <3>2
        <4>2. PICK i \in 1 .. Len(Txs[b]) : e[2] = Txs[b][i]
          BY <2>2, <4>1 DEF Range
        <4> QED
          BY <4>1, <4>2 DEF BlockEntries
      <3> QED
        BY <3>1, <3>2
    <2>4. Entries(b) = {e \in (Ancestors[b] \ {Genesis}) \X Tx : e[2] \in Range(Txs[e[1]])}
      BY <1>1
    <2>5. Entries(Prev[b]) = {e \in (Ancestors[Prev[b]] \ {Genesis}) \X Tx : e[2] \in Range(Txs[e[1]])}
      BY <1>1, <2>1
    <2> QED
      BY <2>1, <2>3, <2>4, <2>5
  <1>4. ASSUME NEW b \in Block
        PROVE  /\ Entries(b) \subseteq Block \X Tx
               /\ \A e \in Entries(b) : e[1] \in Ancestors[b] /\ e[2] \in Range(Txs[e[1]])
    BY <1>1, AncestorsType
  <1> QED
    BY <1>2, <1>3, <1>4

\* The first transactions of a block, one more at a time.
LEMMA BlockEntriesStep ==
    ASSUME NEW b \in Block
    PROVE  /\ BlockEntries(b, 0) = {}
           /\ \A n \in 1 .. Len(Txs[b]) : BlockEntries(b, n) = BlockEntries(b, n - 1) \cup {<<b, Txs[b][n]>>}
           /\ \A n \in 1 .. Len(Txs[b]) : \A e \in BlockEntries(b, n - 1) : e[2] # Txs[b][n]
  <1>1. Len(Txs[b]) \in Nat /\ DOMAIN Txs[b] = 1 .. Len(Txs[b])
    BY ChainAssumption
  <1>2. BlockEntries(b, 0) = {}
    BY DEF BlockEntries
  <1>3. ASSUME NEW n \in 1 .. Len(Txs[b])
        PROVE  /\ BlockEntries(b, n) = BlockEntries(b, n - 1) \cup {<<b, Txs[b][n]>>}
               /\ \A e \in BlockEntries(b, n - 1) : e[2] # Txs[b][n]
    <2>1. 1 .. n = (1 .. n - 1) \cup {n}
      BY <1>1
    <2>2. ASSUME NEW i \in 1 .. n - 1 PROVE i # n /\ i \in DOMAIN Txs[b] /\ n \in DOMAIN Txs[b]
      BY <1>1
    <2>3. ASSUME NEW i \in 1 .. n - 1 PROVE Txs[b][i] # Txs[b][n]
      BY <2>2, BlockAssumption DEF IsInjective
    <2>4. BlockEntries(b, n) = BlockEntries(b, n - 1) \cup {<<b, Txs[b][n]>>}
      BY <2>1 DEF BlockEntries
    <2>5. \A e \in BlockEntries(b, n - 1) : e[2] # Txs[b][n]
      BY <2>3 DEF BlockEntries
    <2> QED
      BY <2>4, <2>5
  <1> QED
    BY <1>2, <1>3

\* The loop of ConnectBlock turns the index of the parent's chain into that of the
\* block's, and its tally is what the unspent outputs gain.
LEMMA ConnectTxsExact ==
    ASSUME NEW tx, IndexType(tx), NEW b \in Block \ {Genesis},
           Ledgered(Entries(Prev[b])), Exact(tx, Entries(Prev[b])), ConnectTxs(tx, b).ok
    PROVE  LET r == ConnectTxs(tx, b)
           IN  /\ Ledgered(Entries(b)) /\ Exact(Over(r.queued, tx), Entries(b))
               /\ ValueOf(Unspent(Entries(Prev[b]))) \in Int
               /\ ValueOf(Unspent(Entries(b))) = ValueOf(Unspent(Entries(Prev[b]))) + r.out - r.in
  <1> DEFINE N == Len(Txs[b])
             E == Entries(Prev[b])
             L(n) == E \cup BlockEntries(b, n)
             V(n) == ValueOf(Unspent(L(n)))
  <1>1. N \in Nat /\ \A n \in 1 .. N : Txs[b][n] \in Tx /\ Txs[b][n] \in Range(Txs[b])
    BY ChainAssumption DEF Range
  <1>2. PICK q : TxsConnected(q, tx, b) /\ ConnectTxs(tx, b) = q[N]
    BY ConnectTxsRuns
  <1>3. Prev[b] \in Block
    BY TreeAssumption
  <1>4. /\ BlockEntries(b, 0) = {}
        /\ \A n \in 1 .. N : BlockEntries(b, n) = BlockEntries(b, n - 1) \cup {<<b, Txs[b][n]>>}
        /\ \A n \in 1 .. N : \A e \in BlockEntries(b, n - 1) : e[2] # Txs[b][n]
    BY BlockEntriesStep
  <1>5. V(0) \in Int /\ L(0) = E
    <2>1. L(0) = E
      BY <1>4
    <2>2. IsFiniteSet(Unspent(E)) /\ E \subseteq Block \X Tx
      BY DEF Ledgered
    <2>3. \A o \in Unspent(E) : Val[o[1]][o[2]] \in Int
      <3>1. \A o \in Unspent(E) : \E x \in Tx : o \in Outs(x)
        BY <2>2 DEF Unspent
      <3> QED
        BY <3>1, ChainAssumption DEF Outs
    <2>4. ValueOf(Unspent(E)) \in Int
      BY <2>2, <2>3, ValueType
    <2> QED
      BY <2>1, <2>4
  <1> DEFINE Good(n) == /\ TallyType(q[n])
                        /\ q[n].ok => /\ Ledgered(L(n)) /\ Exact(Over(q[n].queued, tx), L(n))
                                      /\ V(n) = V(0) + q[n].out - q[n].in
  <1>6. Good(0)
    <2>1. q[0] = NoTally
      BY <1>2 DEF TxsConnected
    <2>2. TallyType(NoTally)
      <3>1. IsFcn([x \in {} |-> x])
        BY DEF IsFcn
      <3> QED
        BY <3>1 DEF NoTally, TallyType, IndexType
    <2>3. Over(NoTally.queued, tx) = [x \in DOMAIN tx |-> tx[x]]
      BY DEF NoTally, Over
    <2>4. Exact([x \in DOMAIN tx |-> tx[x]], E)
      BY DEF Exact
    <2>5. NoTally.out = 0 /\ NoTally.in = 0
      BY DEF NoTally
    <2>6. V(0) = V(0) + q[0].out - q[0].in
      <3> HIDE DEF V
      <3> QED
        BY <1>5, <2>1, <2>5
    <2>7. Ledgered(L(0)) /\ Exact(Over(q[0].queued, tx), L(0))
      BY <1>5, <2>1, <2>3, <2>4
    <2> HIDE DEF V, L
    <2> QED
      BY <2>1, <2>2, <2>6, <2>7
  <1>7. ASSUME NEW n \in 1 .. N, Good(n - 1) PROVE Good(n)
    <2> DEFINE t == Txs[b][n]
               p == q[n - 1]
               txi == Over(p.queued, tx)
               sp == SpendInputs(txi, t, b)
    <2>1. q[n] = ConnectTx(tx, p, t, b)
      BY <1>2 DEF TxsConnected
    <2>2. TallyType(p) /\ t \in Tx
      BY <1>1, <1>7
    <2>3. TallyType(q[n]) /\ (q[n].ok => p.ok)
      <3> HIDE DEF p, t, Good
      <3> QED
        BY <2>1, <2>2, ConnectTxEffect
    <2> SUFFICES ASSUME q[n].ok
                 PROVE  /\ Ledgered(L(n)) /\ Exact(Over(q[n].queued, tx), L(n))
                        /\ V(n) = V(0) + q[n].out - q[n].in
      BY <2>3
    <2>4. /\ InputsOK(txi, t, b)
          /\ q[n].queued = Over(sp, p.queued)
          /\ q[n].in = p.in + ValueOf(Ins[t]) /\ q[n].out = p.out + ValueOf(Outs(t))
      <3> HIDE DEF Good, t, p
      <3>1. CASE InputsOK(txi, t, b) /\ p.ok /\ (t \in DOMAIN tx => \A m \in DOMAIN tx[t].vSpent : tx[t].vSpent[m] # None)
        <4>1. q[n] = [ok     |-> TRUE,
                      queued |-> Over(sp, p.queued),
                      in     |-> p.in + ValueOf(Ins[t]),
                      out    |-> p.out + ValueOf(Outs(t)),
                      fees   |-> p.fees + IF t \in Gen THEN 0
                                          ELSE FeeValueIn(t, nHeight(pindexBest)) - ValueOf(Outs(t))]
          BY <2>1, <3>1 DEF ConnectTx
        <4> QED
          BY <3>1, <4>1
      <3>2. CASE ~(InputsOK(txi, t, b) /\ p.ok /\ (t \in DOMAIN tx => \A m \in DOMAIN tx[t].vSpent : tx[t].vSpent[m] # None))
        <4>1. q[n] = [p EXCEPT !.ok = FALSE]
          BY <2>1, <3>2 DEF ConnectTx
        <4>2. q[n].ok = FALSE
          BY <2>2, <4>1 DEF TallyType
        <4> QED
          BY <4>2
      <3> QED
        BY <3>1, <3>2
    <2>5. /\ Ledgered(L(n - 1)) /\ Exact(txi, L(n - 1))
          /\ V(n - 1) = V(0) + p.out - p.in
      BY <1>7, <2>3
    <2>6. L(n) = L(n - 1) \cup {<<b, t>>}
      BY <1>4
    <2>7. \A e \in BlockEntries(b, n - 1) : e[2] # t
      BY <1>4
    <2>8. t \in Range(Txs[b])
      BY <1>1
    <2>9. IndexType(txi)
      BY <2>2, OverType DEF TallyType
    <2> HIDE DEF t, p, txi, Good
    <2>10. \A e \in E : e[2] # t
      <3>1. CASE t \in CoinBase
        <4> SUFFICES ASSUME NEW e \in E, e[2] = t PROVE FALSE
          OBVIOUS
        <4>1. e[1] \in Ancestors[Prev[b]] /\ t \in Range(Txs[e[1]])
          BY <1>3, EntriesStep
        <4>2. e[1] \in Block /\ e[1] \in Ancestors[b] /\ e[1] # b
          BY <1>3, <4>1, AncestorsPrev, AncestorsType, Acyclic
        <4>3. nHeight(e[1]) = nHeight(b)
          BY <2>8, <3>1, <4>1, <4>2, BlockAssumption
        <4>4. nHeight(e[1]) < nHeight(b) /\ nHeight(b) \in Nat
          BY <4>2, AncestorsLower, HeightNat
        <4> QED
          BY <4>3, <4>4
      <3>2. CASE t \notin CoinBase
        <4>1. L(n - 1) \subseteq Block \X Tx /\ E \subseteq L(n - 1)
          BY <2>5 DEF Ledgered
        <4> HIDE DEF L, E
        <4>2. \A e \in L(n - 1) : e[2] # t
          BY <2>2, <2>4, <2>5, <2>9, <3>2, <4>1, FreshInputs
        <4> QED
          BY <4>1, <4>2
      <3> QED
        BY <3>1, <3>2
    <2>11. \A e \in L(n - 1) : e[2] # t
      BY <2>7, <2>10
    <2> HIDE DEF L
    <2>12. /\ Ledgered(L(n)) /\ V(n - 1) \in Int
           /\ V(n) = V(n - 1) + ValueOf(Outs(t)) - ValueOf(Ins[t])
      BY <2>2, <2>4, <2>5, <2>6, <2>9, <2>11, ConnectLedgered
    <2>13. Exact(Over(sp, txi), L(n))
      BY <2>2, <2>4, <2>5, <2>6, <2>9, <2>11, SpendExact
    <2>14. Over(q[n].queued, tx) = Over(sp, txi)
      BY <2>4, OverOver DEF txi
    <2>15. ValueOf(Ins[t]) \in Int /\ ValueOf(Outs(t)) \in Int /\ p.in \in Int /\ p.out \in Int
      BY <2>2, <2>4, <2>9, InsValue, OutsValue DEF TallyType
    <2> HIDE DEF V, sp
    <2>16. V(n) = V(0) + q[n].out - q[n].in
      <3>1. q[n].in = p.in + ValueOf(Ins[t]) /\ q[n].out = p.out + ValueOf(Outs(t))
        BY <2>4
      <3>2. V(n - 1) = V(0) + p.out - p.in
        BY <2>5
      <3>3. V(n - 1) \in Int /\ V(n) = V(n - 1) + ValueOf(Outs(t)) - ValueOf(Ins[t])
        BY <2>12
      <3>4. \A v, x, y, i, o \in Int : (v + y - x) + o - i = v + (y + o) - (x + i)
        OBVIOUS
      <3>5. V(n) = (V(0) + p.out - p.in) + ValueOf(Outs(t)) - ValueOf(Ins[t])
        BY <3>2, <3>3
      <3>6. V(n) = V(0) + (p.out + ValueOf(Outs(t))) - (p.in + ValueOf(Ins[t]))
        BY <1>5, <2>15, <3>4, <3>5
      <3> QED
        BY <3>1, <3>6
    <2> QED
      BY <2>12, <2>13, <2>14, <2>16
  <1>8. Good(N)
    <2> DEFINE S == {n \in 0 .. N : Good(n)}
    <2> HIDE DEF Good, N
    <2>1. 0 \in S /\ \A n \in 1 .. N : n - 1 \in S => n \in S
      BY <1>1, <1>6, <1>7
    <2> HIDE DEF S
    <2>2. \A n \in 0 .. N : n \in S
      BY <1>1, <2>1, UpTo
    <2> QED
      BY <1>1, <2>2 DEF S
  <1>9. L(N) = Entries(b)
    BY EntriesStep
  <1> HIDE DEF L
  <1> QED
    BY <1>2, <1>5, <1>8, <1>9

\* DisconnectInputs of an entry: the index is that of the others.
LEMMA DisconnectTxExact ==
    ASSUME NEW s, ViewType(s), NEW L, L \subseteq Block \X Tx, Distinct(L), Exact(s.db.tx, L),
           NEW b, NEW t, <<b, t>> \in L, DisconnectTx(s, t).ok
    PROVE  Exact(DisconnectTx(s, t).db.tx, L \ {<<b, t>>})
  <1> DEFINE old == <<b, t>>
             M == L \ {old}
             tx == s.db.tx
             spent == {o[1] : o \in Ins[t]}
             good == s.ok /\ \A o \in Ins[t] : o[1] \in DOMAIN tx /\ o[2] \in DOMAIN tx[o[1]].vSpent
             v(h) == [n \in DOMAIN tx[h].vSpent |-> IF <<h, n>> \in Ins[t] THEN None ELSE tx[h].vSpent[n]]
             new == [h \in DOMAIN tx \ {t} |-> IF h \notin spent THEN tx[h] ELSE [tx[h] EXCEPT !.vSpent = v(h)]]
             r == DisconnectTx(s, t)
  <1>1. IndexType(tx) /\ s = [ok |-> s.ok, db |-> s.db, supply |-> s.supply]
    BY DEF ViewType, DBType
  <1>2. good
    <2> SUFFICES ASSUME ~good PROVE FALSE
      OBVIOUS
    <2>1. r = [s EXCEPT !.ok = FALSE]
      BY DEF DisconnectTx
    <2>2. r.ok = FALSE
      BY <1>1, <2>1
    <2> QED
      BY <2>2
  <1>3. r.db.tx = new
    <2>1. r = [s EXCEPT !.db = [idx |-> s.db.idx, best |-> s.db.best, tx |-> new]]
      BY <1>2 DEF DisconnectTx
    <2> HIDE DEF new
    <2>2. r = [ok |-> s.ok, db |-> [idx |-> s.db.idx, best |-> s.db.best, tx |-> new], supply |-> s.supply]
      BY <1>1, <2>1
    <2> QED
      BY <2>2
  <1>4. /\ DOMAIN tx = {e[2] : e \in L}
        /\ \A h \in DOMAIN tx : tx[h].pos \in L /\ tx[h].pos[2] = h
        /\ \A h \in DOMAIN tx : \A n \in 0 .. NOut[h] - 1 : SpenderIs(tx[h].vSpent[n], <<h, n>>, L)
    BY DEF Exact
  <1>5. old \in L /\ old[2] = t
    OBVIOUS
  <1>6. /\ \A e \in L : e[2] = t => e = old
        /\ \A e \in L : Ins[e[2]] \cap Ins[t] # {} => e = old
    BY <1>5 DEF Distinct
  <1>7. DOMAIN new = DOMAIN tx \ {t}
    OBVIOUS
  <1>8. DOMAIN new = {e[2] : e \in M}
    <2> HIDE DEF old, new
    <2>1. \A e : e \in M <=> e \in L /\ e # old
      OBVIOUS
    <2> HIDE DEF M
    <2> QED
      BY <1>4, <1>5, <1>6, <1>7, <2>1
  <1>9. ASSUME NEW h \in DOMAIN new
        PROVE  /\ h \in DOMAIN tx /\ h # t /\ new[h].pos = tx[h].pos
               /\ \A n \in 0 .. NOut[h] - 1 :
                    new[h].vSpent[n] = IF <<h, n>> \in Ins[t] THEN None ELSE tx[h].vSpent[n]
    <2>1. h \in DOMAIN tx /\ h # t
      BY <1>7
    <2>2. tx[h] = [pos |-> tx[h].pos, vSpent |-> tx[h].vSpent] /\ DOMAIN tx[h].vSpent = 0 .. NOut[h] - 1
      BY <1>1, <2>1 DEF IndexType
    <2>3. new[h] = IF h \notin spent THEN tx[h] ELSE [tx[h] EXCEPT !.vSpent = v(h)]
      BY <1>7
    <2>4. CASE h \notin spent
      <3>1. ASSUME NEW n \in 0 .. NOut[h] - 1 PROVE <<h, n>> \notin Ins[t]
        <4> SUFFICES ASSUME <<h, n>> \in Ins[t] PROVE FALSE
          OBVIOUS
        <4>1. <<h, n>>[1] \in spent
          OBVIOUS
        <4> QED
          BY <2>4, <4>1
      <3> HIDE DEF new, spent
      <3> QED
        BY <2>1, <2>3, <2>4, <3>1
    <2>5. CASE h \in spent
      <3>1. \A n \in 0 .. NOut[h] - 1 : v(h)[n] = IF <<h, n>> \in Ins[t] THEN None ELSE tx[h].vSpent[n]
        BY <2>2
      <3> HIDE DEF new, v, spent, tx
      <3>2. new[h] = [pos |-> tx[h].pos, vSpent |-> v(h)]
        BY <2>2, <2>3, <2>5
      <3>3. new[h].pos = tx[h].pos /\ new[h].vSpent = v(h)
        BY <3>2
      <3> QED
        BY <2>1, <3>1, <3>3
    <2> QED
      BY <2>4, <2>5
  <1> HIDE DEF new, tx, r
  <1>10. \A h \in DOMAIN new : new[h].pos \in M /\ new[h].pos[2] = h
    <2> HIDE DEF old
    <2> QED
      BY <1>4, <1>5, <1>9
  <1>11. ASSUME NEW h \in DOMAIN new, NEW n \in 0 .. NOut[h] - 1
         PROVE  SpenderIs(new[h].vSpent[n], <<h, n>>, M)
    <2> HIDE DEF old
    <2>1. CASE <<h, n>> \in Ins[t]
      <3>1. new[h].vSpent[n] = None
        BY <1>9, <2>1
      <3>2. \A f \in M : <<h, n>> \notin Ins[f[2]]
        BY <1>6, <2>1
      <3> QED
        BY <3>1, <3>2 DEF SpenderIs
    <2>2. CASE <<h, n>> \notin Ins[t]
      <3>1. new[h].vSpent[n] = tx[h].vSpent[n] /\ SpenderIs(tx[h].vSpent[n], <<h, n>>, L)
        BY <1>4, <1>9, <2>2
      <3> QED
        BY <1>5, <2>2, <3>1 DEF SpenderIs
    <2> QED
      BY <2>1, <2>2
  <1>12. Exact(new, M)
    <2> HIDE DEF M
    <2> QED
      BY <1>8, <1>10, <1>11 DEF Exact
  <1> QED
    BY <1>3, <1>12 DEF r

\* DisconnectBlock turns the index of the block's chain into that of its parent's.
LEMMA DisconnectBlockExact ==
    ASSUME NEW s, ViewType(s), NEW b \in Block \ {Genesis},
           Ledgered(Entries(b)), Exact(s.db.tx, Entries(b)), DisconnectBlock(s, b).ok
    PROVE  Exact(DisconnectBlock(s, b).db.tx, Entries(Prev[b]))
  <1> DEFINE N == Len(Txs[b])
             E == Entries(Prev[b])
             L(n) == E \cup BlockEntries(b, n)
  <1>1. N \in Nat /\ \A n \in 1 .. N : N + 1 - n \in 1 .. N /\ N - n = (N + 1 - n) - 1
    <2>1. N \in Nat
      BY ChainAssumption
    <2> HIDE DEF N
    <2> QED
      BY <2>1
  <1>2. PICK q : TxsDisconnected(q, s, b) /\ DisconnectBlock(s, b) = Unlinked(s, q[N], b)
    BY DisconnectTxsRuns
  <1>3. Prev[b] \in Block /\ Entries(b) = L(N)
    BY TreeAssumption, EntriesStep
  <1>4. /\ BlockEntries(b, 0) = {}
        /\ \A n \in 1 .. N : BlockEntries(b, n) = BlockEntries(b, n - 1) \cup {<<b, Txs[b][n]>>}
        /\ \A n \in 1 .. N : \A e \in BlockEntries(b, n - 1) : e[2] # Txs[b][n]
    BY BlockEntriesStep
  <1>5. \A e \in E : e[1] # b
    BY <1>3, EntriesStep, Acyclic
  <1> DEFINE Good(n) == /\ ViewType(q[n])
                        /\ q[n].ok => /\ L(N - n) \subseteq Block \X Tx /\ Distinct(L(N - n))
                                      /\ Exact(q[n].db.tx, L(N - n))
  <1>6. Good(0)
    <2>1. q[0] = s /\ N - 0 = N
      BY <1>1, <1>2 DEF TxsDisconnected
    <2> QED
      BY <1>3, <2>1 DEF Ledgered
  <1>7. ASSUME NEW n \in 1 .. N, Good(n - 1) PROVE Good(n)
    <2> DEFINE k == N + 1 - n
               t == Txs[b][k]
               p == q[n - 1]
    <2>1. q[n] = DisconnectTx(p, t)
      BY <1>2 DEF TxsDisconnected
    <2>2. k \in 1 .. N /\ N - (n - 1) = k /\ N - n = k - 1
      BY <1>1
    <2>3. ViewType(p) /\ (p.ok => L(k) \subseteq Block \X Tx /\ Distinct(L(k)) /\ Exact(p.db.tx, L(k)))
      BY <1>7, <2>2
    <2>4. L(k) = L(k - 1) \cup {<<b, t>>} /\ <<b, t>> \notin L(k - 1)
      <3> HIDE DEF k, N
      <3>1. BlockEntries(b, k) = BlockEntries(b, k - 1) \cup {<<b, t>>}
        BY <1>4, <2>2
      <3>2. <<b, t>> \notin BlockEntries(b, k - 1)
        BY <1>4, <2>2
      <3>3. <<b, t>> \notin E
        BY <1>5
      <3> QED
        BY <3>1, <3>2, <3>3
    <2> HIDE DEF t, p, Good, L, k
    <2>5. L(k - 1) = L(k) \ {<<b, t>>} /\ <<b, t>> \in L(k)
      BY <2>4
    <2>6. ViewType(q[n]) /\ (q[n].ok => p.ok)
      BY <2>1, <2>3, DisconnectTxEffect
    <2>7. q[n].ok => /\ L(k - 1) \subseteq Block \X Tx /\ Distinct(L(k - 1))
                     /\ Exact(q[n].db.tx, L(k - 1))
      <3> SUFFICES ASSUME q[n].ok
                   PROVE  L(k - 1) \subseteq Block \X Tx /\ Distinct(L(k - 1)) /\ Exact(q[n].db.tx, L(k - 1))
        OBVIOUS
      <3>1. L(k) \subseteq Block \X Tx /\ Distinct(L(k)) /\ Exact(p.db.tx, L(k))
        BY <2>3, <2>6
      <3>2. L(k - 1) \subseteq Block \X Tx /\ Distinct(L(k - 1))
        BY <2>5, <3>1 DEF Distinct
      <3>3. Exact(q[n].db.tx, L(k) \ {<<b, t>>})
        BY <2>1, <2>3, <2>5, <3>1, DisconnectTxExact
      <3> QED
        BY <2>5, <3>2, <3>3
    <2> QED
      BY <2>2, <2>6, <2>7 DEF Good
  <1>8. Good(N)
    <2> DEFINE S == {n \in 0 .. N : Good(n)}
    <2> HIDE DEF Good, N
    <2>1. 0 \in S /\ \A n \in 1 .. N : n - 1 \in S => n \in S
      BY <1>1, <1>6, <1>7
    <2> HIDE DEF S
    <2>2. \A n \in 0 .. N : n \in S
      BY <1>1, <2>1, UpTo
    <2> QED
      BY <1>1, <2>2 DEF S
  <1> DEFINE m == q[N]
             r == DisconnectBlock(s, b)
             idx == Put(m.db.idx, Prev[b], [next |-> None, supply |-> s.supply[Prev[b]]])
  <1>9. N - N = 0 /\ L(0) = E
    BY <1>1, <1>4
  <1>10. ViewType(m) /\ (m.ok => Exact(m.db.tx, E))
    BY <1>8, <1>9
  <1>11. r = Unlinked(s, m, b) /\ r.ok
    BY <1>2
  <1> HIDE DEF m, r, Good
  <1>12. m.ok
    BY <1>11 DEF Unlinked
  <1>13. r = [m EXCEPT !.db = [idx |-> idx, best |-> m.db.best, tx |-> m.db.tx]]
    BY <1>11, <1>12 DEF Unlinked
  <1> HIDE DEF idx
  <1>14. r = [ok |-> m.ok, db |-> [idx |-> idx, best |-> m.db.best, tx |-> m.db.tx], supply |-> m.supply]
    BY <1>10, <1>13 DEF ViewType
  <1>15. r.db.tx = m.db.tx
    BY <1>14
  <1> QED
    BY <1>10, <1>12, <1>15 DEF r

\* The state of a batch is that of the chain of b: the transaction index is the one of
\* its entries, and every block of it has, in memory and on disk, the value of the
\* outputs that were unspent after it.
Stands(s, b) ==
    /\ Exact(s.db.tx, Entries(b))
    /\ \A a \in Ancestors[b] : /\ Ledgered(Entries(a)) /\ a \in DOMAIN s.db.idx
                               /\ s.supply[a] = ValueOf(Unspent(Entries(a)))
                               /\ s.db.idx[a].supply = s.supply[a]

\* ConnectBlock moves it on to a child, and touches the supply of no other block.
LEMMA ConnectBlockStands ==
    ASSUME NEW s, ViewType(s), NEW b \in Block \ {Genesis}, pnext \in [Block -> Block \cup {None}]
    PROVE  LET r == ConnectBlock(s, b)
           IN  /\ \A x \in Block \ {b} : r.supply[x] = s.supply[x]
               /\ Stands(s, Prev[b]) /\ r.ok => Stands(r, b)
  <1> DEFINE c == ConnectTxs(s.db.tx, b)
             good == /\ s.ok /\ b \notin Bad /\ c.ok
                     /\ IF IsProofOfStake(b)
                        THEN StakeReward(b) <= GetProofOfStakeReward(b, c.fees)
                        ELSE ValueOf(Outs(Txs[b][1])) <= GetProofOfWorkReward(c.fees)
             supply == [s.supply EXCEPT ![b] = AddToSupply(s.supply[Prev[b]], c)]
             e == [next |-> pnext[b], supply |-> supply[b]]
             f == [next |-> b, supply |-> supply[Prev[b]]]
             one == Put(s.db.idx, b, e)
             two == Put(one, Prev[b], f)
             tx == Over(c.queued, s.db.tx)
             r == ConnectBlock(s, b)
  <1>1. Prev[b] \in Block /\ Prev[b] # b
    BY TreeAssumption, Acyclic, AncestorsType
  <1>2. IndexType(s.db.tx) /\ s.supply \in [Block -> Int]
    BY DEF ViewType, DBType
  <1>3. CASE ~good
    <2>1. r = [s EXCEPT !.ok = FALSE]
      BY <1>3 DEF ConnectBlock, Recorded
    <2>2. r = [ok |-> FALSE, db |-> s.db, supply |-> s.supply]
      BY <2>1 DEF ViewType
    <2> QED
      BY <2>2
  <1>4. CASE good
    <2>1. r = [ok |-> TRUE, supply |-> supply, db |-> [idx |-> two, best |-> s.db.best, tx |-> tx]]
      BY <1>4 DEF ConnectBlock, Recorded
    <2>2. supply[b] = s.supply[Prev[b]] + c.out - c.in /\ \A x \in Block \ {b} : supply[x] = s.supply[x]
      BY <1>2 DEF AddToSupply
    <2>3. /\ DOMAIN one = DOMAIN s.db.idx \cup {b} /\ one[b] = e
          /\ \A x \in DOMAIN s.db.idx \ {b} : one[x] = s.db.idx[x]
      <3> HIDE DEF e
      <3> QED
        BY DEF Put
    <2> HIDE DEF one
    <2>4. /\ DOMAIN two = DOMAIN one \cup {Prev[b]} /\ two[Prev[b]] = f
          /\ \A x \in DOMAIN one \ {Prev[b]} : two[x] = one[x]
      <3> HIDE DEF f
      <3> QED
        BY DEF Put
    <2>5. e.supply = supply[b] /\ f.supply = supply[Prev[b]]
      OBVIOUS
    <2> HIDE DEF two, tx, supply, e, f, r
    <2>6. r.supply = supply /\ r.db.idx = two /\ r.db.tx = tx
      BY <2>1
    <2>7. /\ DOMAIN s.db.idx \cup {b, Prev[b]} = DOMAIN r.db.idx
          /\ r.db.idx[b].supply = r.supply[b] /\ r.db.idx[Prev[b]].supply = r.supply[Prev[b]]
          /\ \A x \in DOMAIN s.db.idx \ {b, Prev[b]} : r.db.idx[x] = s.db.idx[x]
      BY <1>1, <2>3, <2>4, <2>5, <2>6
    <2>8. ASSUME Stands(s, Prev[b]) PROVE Stands(r, b)
      <3>1. Ledgered(Entries(Prev[b])) /\ Exact(s.db.tx, Entries(Prev[b]))
            /\ s.supply[Prev[b]] = ValueOf(Unspent(Entries(Prev[b])))
        BY <1>1, <2>8, AncestorsType DEF Stands
      <3>2. /\ Ledgered(Entries(b)) /\ Exact(tx, Entries(b))
            /\ ValueOf(Unspent(Entries(b))) = ValueOf(Unspent(Entries(Prev[b]))) + c.out - c.in
        BY <1>2, <1>4, <3>1, ConnectTxsExact DEF tx
      <3>3. r.supply[b] = ValueOf(Unspent(Entries(b)))
        BY <2>2, <2>6, <3>1, <3>2
      <3>4. ASSUME NEW a \in Ancestors[Prev[b]]
            PROVE  /\ Ledgered(Entries(a)) /\ a \in DOMAIN r.db.idx
                   /\ r.supply[a] = ValueOf(Unspent(Entries(a)))
                   /\ r.db.idx[a].supply = r.supply[a]
        <4>1. a \in Block \ {b}
          BY <1>1, Acyclic, AncestorsType
        <4>2. /\ Ledgered(Entries(a)) /\ a \in DOMAIN s.db.idx
              /\ s.supply[a] = ValueOf(Unspent(Entries(a))) /\ s.db.idx[a].supply = s.supply[a]
          BY <2>8 DEF Stands
        <4>3. r.supply[a] = s.supply[a]
          BY <2>2, <2>6, <4>1
        <4>4. r.db.idx[a].supply = r.supply[a]
          <5>1. CASE a = Prev[b]
            BY <2>7, <5>1
          <5>2. CASE a # Prev[b]
            BY <2>7, <4>1, <4>2, <4>3, <5>2
          <5> QED
            BY <5>1, <5>2
        <4>5. a \in DOMAIN r.db.idx
          BY <2>7, <4>2
        <4> QED
          BY <4>2, <4>3, <4>4, <4>5
      <3>5. Ancestors[b] = Ancestors[Prev[b]] \cup {b}
        BY AncestorsSplit
      <3>6. b \in DOMAIN r.db.idx /\ r.db.idx[b].supply = r.supply[b] /\ r.db.tx = tx
        BY <2>6, <2>7
      <3> QED
        BY <3>2, <3>3, <3>4, <3>5, <3>6 DEF Stands
    <2> QED
      BY <2>2, <2>6, <2>8 DEF r
  <1> QED
    BY <1>3, <1>4

\* DisconnectBlock moves it back to the parent.
LEMMA DisconnectBlockStands ==
    ASSUME NEW s, ViewType(s), NEW b \in Block \ {Genesis}, Stands(s, b), DisconnectBlock(s, b).ok
    PROVE  Stands(DisconnectBlock(s, b), Prev[b])
  <1> DEFINE N == Len(Txs[b])
             r == DisconnectBlock(s, b)
             e == [next |-> None, supply |-> s.supply[Prev[b]]]
             idx == Put(s.db.idx, Prev[b], e)
  <1>1. Prev[b] \in Block /\ Ancestors[b] = Ancestors[Prev[b]] \cup {b}
    BY TreeAssumption, AncestorsSplit
  <1>2. Ledgered(Entries(b)) /\ Exact(s.db.tx, Entries(b))
    BY AncestorsType DEF Stands
  <1>3. Exact(r.db.tx, Entries(Prev[b]))
    BY <1>2, DisconnectBlockExact
  <1>4. PICK q : TxsDisconnected(q, s, b) /\ r = Unlinked(s, q[N], b)
    BY DisconnectTxsRuns
  <1>5. ViewType(r) /\ r.supply = s.supply
    BY DisconnectBlockEffect
  <1>6. ViewType(q[N]) /\ q[N].db.idx = s.db.idx
    <2> DEFINE Good(n) == ViewType(q[n]) /\ q[n].db.idx = s.db.idx
    <2>1. N \in Nat
      BY ChainAssumption
    <2>2. Good(0)
      BY <1>4 DEF TxsDisconnected
    <2>3. ASSUME NEW n \in 1 .. N, Good(n - 1) PROVE Good(n)
      <3> DEFINE t == Txs[b][N + 1 - n]
      <3>1. q[n] = DisconnectTx(q[n - 1], t)
        BY <1>4 DEF TxsDisconnected
      <3> HIDE DEF t
      <3>2. ViewType(q[n]) /\ q[n].db.idx = q[n - 1].db.idx
        BY <2>3, <3>1, DisconnectTxEffect
      <3> QED
        BY <2>3, <3>2
    <2> DEFINE S == {n \in 0 .. N : Good(n)}
    <2> HIDE DEF Good, N
    <2>4. 0 \in S /\ \A n \in 1 .. N : n - 1 \in S => n \in S
      BY <2>1, <2>2, <2>3
    <2> HIDE DEF S
    <2>5. \A n \in 0 .. N : n \in S
      BY <2>1, <2>4, UpTo
    <2>6. Good(N)
      BY <2>1, <2>5 DEF S
    <2> QED
      BY <2>6 DEF Good
  <1> DEFINE m == q[N]
  <1> HIDE DEF r, m
  <1>7. m.ok
    BY <1>4 DEF Unlinked, r, m
  <1>8. r = [m EXCEPT !.db = [idx |-> idx, best |-> m.db.best, tx |-> m.db.tx]]
    BY <1>4, <1>6, <1>7 DEF Unlinked, m
  <1>9. /\ DOMAIN idx = DOMAIN s.db.idx \cup {Prev[b]} /\ idx[Prev[b]].supply = s.supply[Prev[b]]
        /\ \A x \in DOMAIN s.db.idx \ {Prev[b]} : idx[x] = s.db.idx[x]
    BY DEF Put
  <1> HIDE DEF idx
  <1>10. r = [ok |-> m.ok, db |-> [idx |-> idx, best |-> m.db.best, tx |-> m.db.tx], supply |-> m.supply]
    BY <1>6, <1>8 DEF ViewType, m
  <1>11. r.db.idx = idx
    BY <1>10
  <1>12. ASSUME NEW a \in Ancestors[Prev[b]]
         PROVE  /\ Ledgered(Entries(a)) /\ a \in DOMAIN r.db.idx
                /\ r.supply[a] = ValueOf(Unspent(Entries(a)))
                /\ r.db.idx[a].supply = r.supply[a]
    <2>1. /\ Ledgered(Entries(a)) /\ a \in DOMAIN s.db.idx
          /\ s.supply[a] = ValueOf(Unspent(Entries(a))) /\ s.db.idx[a].supply = s.supply[a]
      BY <1>1 DEF Stands
    <2> QED
      BY <1>5, <1>9, <1>11, <2>1
  <1> QED
    BY <1>3, <1>12 DEF Stands, r

\* The blocks of a branch connected, from the fork f up: whatever fails, no other
\* block's supply changes.
LEMMA ConnectBranchStands ==
    ASSUME NEW s, ViewType(s), NEW branch, IsBranch(branch), pnext \in [Block -> Block \cup {None}],
           NEW f \in Block,
           Len(branch) > 0 => Prev[branch[1]] = f,
           \A i \in 2 .. Len(branch) : Prev[branch[i]] = branch[i - 1]
    PROVE  LET r == ConnectBranch(s, branch)
           IN  /\ \A x \in Block \ Range(branch) : r.supply[x] = s.supply[x]
               /\ (s.ok => Stands(s, f)) /\ r.ok /\ Len(branch) > 0 => Stands(r, branch[Len(branch)])
  <1> DEFINE N == Len(branch)
             top(n) == IF n = 0 THEN f ELSE branch[n]
  <1>1. N \in Nat /\ branch \in Seq(Block \ {Genesis}) /\ \A n \in 1 .. N : branch[n] \in Block \ {Genesis}
    BY DEF IsBranch
  <1>2. PICK q : BranchConnected(q, s, branch) /\ ConnectBranch(s, branch) = q[N]
    BY <1>1, ConnectBranchRuns
  <1>3. ASSUME NEW n \in 1 .. N PROVE Prev[branch[n]] = top(n - 1)
    <2>1. CASE n = 1
      BY <1>1, <2>1
    <2>2. CASE n # 1
      <3>1. n \in 2 .. N /\ n - 1 # 0
        BY <1>1, <2>2
      <3> QED
        BY <3>1
    <2> QED
      BY <2>1, <2>2
  <1> DEFINE Good(n) == /\ ViewType(q[n]) /\ (q[n].ok => s.ok)
                        /\ \A x \in Block \ Range(branch) : q[n].supply[x] = s.supply[x]
                        /\ Stands(s, f) /\ q[n].ok => Stands(q[n], top(n))
  <1>4. Good(0)
    <2>1. q[0] = s
      BY <1>2 DEF BranchConnected
    <2> QED
      BY <2>1
  <1>5. ASSUME NEW n \in 1 .. N, Good(n - 1) PROVE Good(n)
    <2> DEFINE b == branch[n]
               p == q[n - 1]
    <2>1. q[n] = ConnectBlock(p, b)
      BY <1>2 DEF BranchConnected
    <2>2. b \in Block \ {Genesis} /\ b \in Range(branch) /\ top(n) = b
      BY <1>1 DEF Range
    <2>3. /\ ViewType(p) /\ (p.ok => s.ok)
          /\ \A x \in Block \ Range(branch) : p.supply[x] = s.supply[x]
          /\ Stands(s, f) /\ p.ok => Stands(p, Prev[b])
      BY <1>3, <1>5
    <2> HIDE DEF b, p, Good, top
    <2>4. ViewType(q[n]) /\ (q[n].ok => p.ok)
      BY <2>1, <2>2, <2>3, ConnectBlockEffect
    <2>5. /\ \A x \in Block \ {b} : q[n].supply[x] = p.supply[x]
          /\ Stands(p, Prev[b]) /\ q[n].ok => Stands(q[n], b)
      BY <2>1, <2>2, <2>3, ConnectBlockStands
    <2>6. \A x \in Block \ Range(branch) : q[n].supply[x] = s.supply[x]
      BY <2>2, <2>3, <2>5
    <2> QED
      BY <2>2, <2>3, <2>4, <2>5, <2>6 DEF Good
  <1>6. Good(N)
    <2> DEFINE S == {n \in 0 .. N : Good(n)}
    <2> HIDE DEF Good, N
    <2>1. 0 \in S /\ \A n \in 1 .. N : n - 1 \in S => n \in S
      BY <1>1, <1>4, <1>5
    <2> HIDE DEF S
    <2>2. \A n \in 0 .. N : n \in S
      BY <1>1, <2>1, UpTo
    <2> QED
      BY <1>1, <2>2 DEF S
  <1>7. N > 0 => top(N) = branch[N]
    BY <1>1
  <1> HIDE DEF top
  <1> QED
    BY <1>2, <1>6, <1>7

\* The blocks of a branch disconnected, down to the fork f.
LEMMA DisconnectBranchStands ==
    ASSUME NEW s, ViewType(s), NEW f \in Block, NEW branch \in Seq(Block \ {Genesis}),
           Len(branch) > 0 => Prev[branch[1]] = f,
           \A i \in 2 .. Len(branch) : Prev[branch[i]] = branch[i - 1],
           Stands(s, IF Len(branch) = 0 THEN f ELSE branch[Len(branch)]),
           DisconnectBranch(s, branch).ok
    PROVE  Stands(DisconnectBranch(s, branch), f)
  <1> DEFINE N == Len(branch)
             top(n) == IF n = 0 THEN f ELSE branch[n]
  <1>1. N \in Nat /\ \A n \in 1 .. N : branch[n] \in Block \ {Genesis}
    OBVIOUS
  <1>2. PICK q : BranchDisconnected(q, s, branch) /\ DisconnectBranch(s, branch) = q[N]
    BY DisconnectBranchRuns
  <1>3. ASSUME NEW n \in 1 .. N PROVE Prev[branch[n]] = top(n - 1)
    <2>1. CASE n = 1
      BY <1>1, <2>1
    <2>2. CASE n # 1
      <3>1. n \in 2 .. N /\ n - 1 # 0
        BY <1>1, <2>2
      <3> QED
        BY <3>1
    <2> QED
      BY <2>1, <2>2
  <1> DEFINE Good(n) == ViewType(q[n]) /\ (q[n].ok => Stands(q[n], top(N - n)))
  <1>4. Good(0)
    <2>1. q[0] = s /\ N - 0 = N
      BY <1>1, <1>2 DEF BranchDisconnected
    <2> QED
      BY <2>1
  <1>5. ASSUME NEW n \in 1 .. N, Good(n - 1) PROVE Good(n)
    <2> DEFINE k == N + 1 - n
               b == branch[k]
               p == q[n - 1]
    <2>1. q[n] = DisconnectBlock(p, b)
      BY <1>2 DEF BranchDisconnected
    <2>2. k \in 1 .. N /\ N - (n - 1) = k /\ N - n = k - 1 /\ k # 0
      BY <1>1
    <2> HIDE DEF k
    <2>3. b \in Block \ {Genesis} /\ top(k) = b /\ Prev[b] = top(k - 1)
      BY <1>1, <1>3, <2>2
    <2>4. ViewType(p) /\ (p.ok => Stands(p, b))
      BY <1>5, <2>2, <2>3
    <2> HIDE DEF b, p, Good, top
    <2>5. ViewType(q[n]) /\ (q[n].ok => p.ok)
      BY <2>1, <2>3, <2>4, DisconnectBlockEffect
    <2>6. q[n].ok => Stands(q[n], Prev[b])
      BY <2>1, <2>3, <2>4, <2>5, DisconnectBlockStands
    <2> QED
      BY <2>2, <2>3, <2>5, <2>6 DEF Good
  <1>6. Good(N)
    <2> DEFINE S == {n \in 0 .. N : Good(n)}
    <2> HIDE DEF Good, N
    <2>1. 0 \in S /\ \A n \in 1 .. N : n - 1 \in S => n \in S
      BY <1>1, <1>4, <1>5
    <2> HIDE DEF S
    <2>2. \A n \in 0 .. N : n \in S
      BY <1>1, <2>1, UpTo
    <2> QED
      BY <1>1, <2>2 DEF S
  <1>7. top(N - N) = f
    BY <1>1
  <1> HIDE DEF top
  <1> QED
    BY <1>2, <1>6, <1>7

\* Reorganize: the state moves from the best block to the new one; if it fails, the
\* supplies of the best chain are untouched.
LEMMA ReorganizedStands ==
    ASSUME NEW new \in mapBlockIndex, nChainTrust[new] > nChainTrust[pindexBest], StateOK
    PROVE  LET r == Reorganized(new)
           IN  /\ \A x \in Ancestors[pindexBest] : r.supply[x] = nMoneySupply[x]
               /\ Stands(View, pindexBest) /\ r.ok => Stands(r, new)
  <1> DEFINE f == Fork(pindexBest, new)
             up == After(f, new)
             down == After(f, pindexBest)
             d == DisconnectBranch(View, down)
             u == ConnectBranch(d, up)
             r == Reorganized(new)
  <1>1. new \in Block /\ pindexBest \in Block /\ pnext \in [Block -> Block \cup {None}]
    BY DEF StateOK, PprevClosed
  <1>2. Apart(new, up, down)
    BY <1>1, Branches
  <1>3. r = [ok |-> u.ok, supply |-> u.supply, db |-> [idx |-> u.db.idx, best |-> new, tx |-> u.db.tx]]
    BY DEF Reorganized, WithBest
  <1>4. ViewType(View) /\ View.db = db /\ View.supply = nMoneySupply
    BY DEF ViewType, View, StateOK
  <1>5. f \in Ancestors[pindexBest] /\ f \in Ancestors[new] /\ f \in Block
    BY <1>1, ForkIsLast, AncestorsType
  <1> HIDE DEF f
  <1>6. /\ down \in Seq(Block \ {Genesis}) /\ (down = <<>> <=> f = pindexBest)
        /\ f # pindexBest => Prev[down[1]] = f /\ down[Len(down)] = pindexBest
        /\ \A i \in 2 .. Len(down) : Prev[down[i]] = down[i - 1]
    BY <1>1, <1>5, AfterIsBranch
  <1>7. /\ (up = <<>> <=> f = new) /\ (f # new => Prev[up[1]] = f)
        /\ \A i \in 2 .. Len(up) : Prev[up[i]] = up[i - 1]
    BY <1>1, <1>5, AfterIsBranch
  <1> HIDE DEF up, down, r
  <1>8. /\ IsBranch(up) /\ Len(up) > 0 /\ up[Len(up)] = new
        /\ Range(up) = Ancestors[new] \ Ancestors[pindexBest]
    BY <1>2 DEF Apart
  <1>9. up # <<>> /\ Prev[up[1]] = f
    <2>1. up # <<>>
      BY <1>8
    <2> QED
      BY <1>7, <2>1
  <1>10. ViewType(d) /\ d.supply = nMoneySupply
    BY <1>4, <1>6, DisconnectBranchEffect
  <1>11. Len(down) > 0 => Prev[down[1]] = f
    BY <1>6
  <1>12. Stands(View, pindexBest) /\ d.ok => Stands(d, f)
    <2> SUFFICES ASSUME Stands(View, pindexBest), d.ok PROVE Stands(d, f)
      OBVIOUS
    <2>1. Stands(View, IF Len(down) = 0 THEN f ELSE down[Len(down)])
      <3>1. pindexBest = IF Len(down) = 0 THEN f ELSE down[Len(down)]
        BY <1>6
      <3> QED
        BY <3>1
    <2> QED
      BY <1>4, <1>5, <1>6, <1>11, <2>1, DisconnectBranchStands
  <1> HIDE DEF d
  <1>13. ViewType(u) /\ (u.ok => d.ok)
    BY <1>1, <1>8, <1>10, ConnectBranchEffect
  <1>14. /\ \A x \in Block \ Range(up) : u.supply[x] = d.supply[x]
         /\ (d.ok => Stands(d, f)) /\ u.ok => Stands(u, new)
    BY <1>1, <1>5, <1>7, <1>8, <1>9, <1>10, ConnectBranchStands
  <1> HIDE DEF u
  <1>15. r.ok = u.ok /\ r.supply = u.supply /\ r.db.idx = u.db.idx /\ r.db.tx = u.db.tx
    BY <1>3
  <1>16. \A x \in Ancestors[pindexBest] : r.supply[x] = nMoneySupply[x]
    BY <1>1, <1>8, <1>10, <1>14, <1>15, AncestorsType
  <1>17. Stands(u, new) => Stands(r, new)
    BY <1>15 DEF Stands
  <1> QED
    BY <1>12, <1>13, <1>14, <1>15, <1>16, <1>17 DEF r
-----------------------------------------------------------------------------
\* The second inductive invariant, on top of the first: disk and memory stand on the
\* block that is best on disk.
LedgerOK == ~strayed => Stands(View, db.best)

\* It holds as long as the index, and the supplies of the best chain, do not change.
LEMMA StandsStill ==
    ASSUME IInv, LedgerOK, strayed' = strayed, db'.best = db.best, db'.tx = db.tx,
           \A a \in Ancestors[db.best] : nMoneySupply'[a] = nMoneySupply[a],
           \A a \in DOMAIN db.idx : a \in DOMAIN db'.idx /\ db'.idx[a].supply = db.idx[a].supply
    PROVE  LedgerOK'
  <1>1. View.db = db /\ View.supply = nMoneySupply /\ View'.db = db' /\ View'.supply = nMoneySupply'
    BY DEF View
  <1> SUFFICES ASSUME ~strayed PROVE Stands(View', db.best)
    BY DEF LedgerOK, Stands, Exact, Entries, View
  <1>2. Stands(View, db.best)
    BY DEF LedgerOK
  <1> HIDE DEF View
  <1> QED
    BY <1>1, <1>2 DEF Stands

\* It is enough to say so of a view with the new database and supplies.
LEMMA StandsNow ==
    ASSUME ~strayed => \E r : /\ r.db.tx = db'.tx /\ r.db.idx = db'.idx /\ r.supply = nMoneySupply'
                              /\ Stands(r, db'.best),
           strayed' = strayed
    PROVE  LedgerOK'
  <1>1. View'.db = db' /\ View'.supply = nMoneySupply'
    BY DEF View
  <1>2. ASSUME ~strayed PROVE Stands(View', db'.best)
    <2>1. PICK r : /\ r.db.tx = db'.tx /\ r.db.idx = db'.idx /\ r.supply = nMoneySupply'
                   /\ Stands(r, db'.best)
      BY <1>2
    <2> QED
      BY <1>1, <2>1 DEF Stands
  <1> QED
    BY <1>2 DEF LedgerOK, Stands, Exact, Entries, View

\* A block connected on top of the best one.
LEMMA ConnectTipLedger ==
    ASSUME IInv, LedgerOK, NEW b \in mapBlockIndex \ {Genesis}, ConnectTip(b), strayed' = strayed,
           ~strayed => Prev[b] = db.best
    PROVE  LedgerOK'
  <1> DEFINE r == ConnectBlock(View, b)
  <1>1. /\ r.ok /\ db' = [idx |-> r.db.idx, best |-> b, tx |-> r.db.tx] /\ nMoneySupply' = r.supply
    BY DEF ConnectTip
  <1>2. b \in Block \ {Genesis} /\ ViewType(View) /\ pnext \in [Block -> Block \cup {None}]
    BY DEF ViewType, View, IInv, StateOK, PprevClosed
  <1>3. ASSUME ~strayed PROVE Stands(r, b)
    <2>1. Stands(View, Prev[b])
      BY <1>3 DEF LedgerOK
    <2> QED
      BY <1>1, <1>2, <2>1, ConnectBlockStands
  <1> HIDE DEF r
  <1>4. r.db.tx = db'.tx /\ r.db.idx = db'.idx /\ r.supply = nMoneySupply' /\ db'.best = b
    BY <1>1
  <1> QED
    BY <1>3, <1>4, StandsNow

\* Every step keeps it.
LEMMA NextLedger ==
    ASSUME IInv, LedgerOK, [Next]_vars
    PROVE  LedgerOK'
  <1>0. StateOK /\ JobOK /\ BestOK /\ LinksOK /\ PoolOK
    BY DEF IInv
  <1>1. /\ mapBlockIndex \subseteq Block /\ pindexBest \in Block /\ db.best \in Block
        /\ DOMAIN db.idx \subseteq mapBlockIndex /\ DBType(db)
    BY <1>0 DEF StateOK, DBType, PprevClosed
  <1>2. ASSUME NEW b \in Block \ {Genesis}, NEW ok \in BOOLEAN, AcceptBlock(b, ok) PROVE LedgerOK'
    <2>1. b \notin mapBlockIndex /\ UNCHANGED <<nMoneySupply, strayed>>
      BY <1>2 DEF AcceptBlock
    <2>2. CASE ok
      <3> DEFINE e == [next |-> None, supply |-> 0]
                 idx == Put(db.idx, b, e)
      <3>1. db' = [db EXCEPT !.idx = idx]
        BY <1>2, <2>2 DEF AcceptBlock
      <3>2. \A a \in DOMAIN db.idx : a \in DOMAIN idx /\ idx[a] = db.idx[a]
        BY <1>1, <2>1 DEF Put
      <3> HIDE DEF idx
      <3>3. db' = [idx |-> idx, best |-> db.best, tx |-> db.tx]
        BY <1>1, <3>1 DEF DBType
      <3>4. db'.idx = idx /\ db'.best = db.best /\ db'.tx = db.tx
        BY <3>3
      <3> QED
        BY <2>1, <3>2, <3>4, StandsStill
    <2>3. CASE ~ok
      <3>1. db' = db
        BY <1>2, <2>3 DEF AcceptBlock
      <3> QED
        BY <2>1, <3>1, StandsStill
    <2> QED
      BY <2>2, <2>3
  <1>3. ASSUME NEW ok \in BOOLEAN, ExtendBest(ok) PROVE LedgerOK'
    <2> DEFINE t == job.target
    <2>1. t \in mapBlockIndex \ {Genesis} /\ t \in Block \ {Genesis} /\ ~job.begun /\ Prev[t] = pindexBest
      BY <1>0, <1>3, JobPhase DEF ExtendBest
    <2>2. ~strayed => pindexBest = db.best
      BY <1>0, <2>1 DEF BestOK
    <2>3. strayed' = strayed
      BY <1>3 DEF ExtendBest
    <2>4. CASE ConnectTip(t)
      BY <2>1, <2>2, <2>3, <2>4, ConnectTipLedger
    <2>5. CASE nMoneySupply' = ConnectBlock(View, t).supply /\ UNCHANGED db
      <3>1. ViewType(View) /\ View.supply = nMoneySupply /\ pnext \in [Block -> Block \cup {None}]
        BY <1>0 DEF ViewType, View, StateOK
      <3> HIDE DEF t
      <3>2. \A x \in Block \ {t} : nMoneySupply'[x] = nMoneySupply[x]
        BY <2>1, <2>5, <3>1, ConnectBlockStands
      <3>3. CASE strayed
        BY <2>3, <3>3 DEF LedgerOK
      <3>4. CASE ~strayed
        <4>1. t \notin Ancestors[db.best]
          BY <2>1, <2>2, <3>4, Acyclic
        <4>2. \A a \in Ancestors[db.best] : nMoneySupply'[a] = nMoneySupply[a]
          BY <1>1, <3>2, <4>1, AncestorsType
        <4> QED
          BY <2>3, <2>5, <4>2, StandsStill
      <3> QED
        BY <3>3, <3>4
    <2> QED
      BY <1>3, <2>4, <2>5 DEF ExtendBest
  <1>4. ASSUME NEW ok \in BOOLEAN, ReorganizeBest(ok) PROVE LedgerOK'
    <2> DEFINE t == job.target
               mid == Intermediate(t)
               r == Reorganized(mid)
    <2>1. t \in mapBlockIndex \ {Genesis} /\ t \in Block \ {Genesis} /\ ~job.begun
          /\ nChainTrust[t] > nChainTrust[pindexBest]
      BY <1>0, <1>4, JobPhase DEF ReorganizeBest
    <2>2. ~strayed => pindexBest = db.best
      BY <1>0, <2>1 DEF BestOK
    <2>3. strayed' = strayed /\ nMoneySupply' = r.supply
      BY <1>4 DEF ReorganizeBest
    <2>4. (r.ok /\ db' = r.db) \/ db' = db
      BY <1>4 DEF ReorganizeBest
    <2>5. mid \in Ancestors[t] /\ nChainTrust[mid] > nChainTrust[pindexBest]
      BY <1>1, <2>1, IntermediateIs
    <2> HIDE DEF t, mid
    <2>6. mid \in mapBlockIndex /\ mid \in Block
      BY <1>0, <1>1, <2>1, <2>5, ClosedAncestors DEF StateOK
    <2>7. /\ \A x \in Ancestors[pindexBest] : r.supply[x] = nMoneySupply[x]
          /\ Stands(View, pindexBest) /\ r.ok => Stands(r, mid)
      BY <1>0, <2>5, <2>6, ReorganizedStands
    <2>8. r.db.best = mid
      BY DEF Reorganized, WithBest
    <2> HIDE DEF r
    <2>9. CASE strayed
      BY <2>3, <2>9 DEF LedgerOK
    <2>10. CASE ~strayed /\ r.ok /\ db' = r.db
      <3>1. Stands(r, mid)
        BY <2>2, <2>7, <2>10 DEF LedgerOK
      <3> QED
        BY <2>3, <2>8, <2>10, <3>1, StandsNow
    <2>11. CASE ~strayed /\ db' = db
      <3>1. \A a \in Ancestors[db.best] : nMoneySupply'[a] = nMoneySupply[a]
        BY <2>2, <2>3, <2>7, <2>11
      <3> QED
        BY <2>3, <2>11, <3>1, StandsStill
    <2> QED
      BY <2>4, <2>9, <2>10, <2>11
  <1>5. ASSUME NEW ok \in BOOLEAN, SecondaryFails(ok) PROVE LedgerOK'
    BY <1>5 DEF SecondaryFails, LedgerOK
  <1>6. ASSUME ConnectSecondary PROVE LedgerOK'
    <2> DEFINE t == job.target
               c == Head(job.secondary)
    <2>1. t \in mapBlockIndex \ {Genesis} /\ t \in Block /\ db.best \in Ancestors[t] \ {t}
          /\ job.secondary = After(db.best, t)
      BY <1>0, <1>6, JobPhase DEF ConnectSecondary
    <2>2. ConnectTip(c) /\ strayed' = strayed
      BY <1>6 DEF ConnectSecondary
    <2> HIDE DEF t
    <2>3. c \in Ancestors[t] \ {Genesis} /\ Prev[c] = db.best
      BY <2>1, AfterTail
    <2> HIDE DEF c
    <2>4. c \in mapBlockIndex \ {Genesis}
      BY <1>0, <2>1, <2>3, ClosedAncestors DEF StateOK
    <2> QED
      BY <2>2, <2>3, <2>4, ConnectTipLedger
  <1>7. ASSUME Restart PROVE LedgerOK'
    <2>1. db' = db /\ strayed' = strayed
      BY <1>7 DEF Restart
    <2>2. nMoneySupply' = [b \in Block |-> IF b \in DOMAIN db.idx THEN db.idx[b].supply ELSE 0]
      BY <1>7 DEF Restart
    <2>3. CASE strayed
      BY <2>1, <2>3 DEF LedgerOK
    <2>4. CASE ~strayed
      <3>1. Stands(View, db.best) /\ View.db = db /\ View.supply = nMoneySupply
        BY <2>4 DEF LedgerOK, View
      <3>2. \A a \in Ancestors[db.best] : a \in DOMAIN db.idx /\ db.idx[a].supply = nMoneySupply[a]
        BY <3>1 DEF Stands
      <3>3. \A a \in Ancestors[db.best] : nMoneySupply'[a] = nMoneySupply[a]
        BY <1>1, <2>2, <3>2, AncestorsType
      <3> QED
        BY <2>1, <3>3, StandsStill
    <2> QED
      BY <2>3, <2>4
  <1>8. ASSUME NEW t \in Tx, AcceptToMemoryPool(t) PROVE LedgerOK'
    <2>1. UNCHANGED <<db, nMoneySupply, strayed>>
      BY <1>8 DEF AcceptToMemoryPool
    <2> QED
      BY <2>1, StandsStill
  <1>9. CASE UNCHANGED vars
    <2>1. UNCHANGED <<db, nMoneySupply, strayed>>
      BY <1>9 DEF vars, mem
    <2> QED
      BY <2>1, StandsStill
  <1> QED
    BY <1>2, <1>3, <1>4, <1>5, <1>6, <1>7, <1>8, <1>9 DEF Next, SetBestChainStep

\* It holds of a node that has the genesis block only.
LEMMA InitLedger == Init => LedgerOK
  <1> SUFFICES ASSUME Init PROVE Stands(View, db.best)
    BY DEF LedgerOK
  <1> DEFINE idx == [b \in {Genesis} |-> [next |-> None, supply |-> 0]]
             tx == [t \in {} |-> t]
  <1>1. db = [idx |-> idx, best |-> Genesis, tx |-> tx] /\ nMoneySupply = [b \in Block |-> 0]
    BY DEF Init, InitDB
  <1>2. Entries(Genesis) = {} /\ Ancestors[Genesis] = {Genesis} /\ Genesis \in Block
    BY EntriesStep, GenesisAncestors, TreeAssumption
  <1>3. Unspent({}) = {}
    BY DEF Unspent
  <1>4. Ledgered({}) /\ ValueOf(Unspent({})) = 0
    <2>1. IsFiniteSet(Unspent({}))
      BY <1>3, FS_EmptySet
    <2> QED
      BY <1>3, <2>1, ValueStep DEF Ledgered, Distinct, Grounded
  <1>5. Exact(tx, {})
    BY DEF Exact
  <1>6. Genesis \in DOMAIN idx /\ idx[Genesis].supply = 0
    OBVIOUS
  <1> HIDE DEF idx, tx
  <1>7. View.db.idx = idx /\ View.db.tx = tx /\ View.supply[Genesis] = 0 /\ db.best = Genesis
    BY <1>1, <1>2 DEF View
  <1> QED
    BY <1>2, <1>4, <1>5, <1>6, <1>7 DEF Stands

\* Both invariants hold of every behaviour.
THEOREM LedgerInvariant == Spec => [](IInv /\ LedgerOK)
  <1>1. Init => IInv /\ LedgerOK
    BY InitInv, InitLedger
  <1>2. IInv /\ LedgerOK /\ [Next]_vars => IInv' /\ LedgerOK'
    BY NextInv, NextLedger
  <1> QED
    BY <1>1, <1>2, PTL DEF Spec

\* An exact index is the one the chain implies, and tells which outputs are unspent.
LEMMA ExactIs ==
    ASSUME NEW tx, IndexType(tx), NEW b \in Block, Exact(tx, Entries(b)), Ledgered(Entries(b))
    PROVE  /\ tx = IndexOf(b)
           /\ {o \in UNION {Outs(t) : t \in DOMAIN tx} : tx[o[1]].vSpent[o[2]] = None} = Unspent(Entries(b))
  <1> DEFINE L == Entries(b)
             Spender(t, n) == {e \in L : <<t, n>> \in Ins[e[2]]}
             v(t) == [n \in 0 .. NOut[t] - 1 |-> IF Spender(t, n) = {} THEN None ELSE CHOOSE e \in Spender(t, n) : TRUE]
             p(t) == CHOOSE e \in L : e[2] = t
  <1>1. /\ DOMAIN tx = {e[2] : e \in L}
        /\ \A t \in DOMAIN tx : tx[t].pos \in L /\ tx[t].pos[2] = t
        /\ \A t \in DOMAIN tx : \A n \in 0 .. NOut[t] - 1 : SpenderIs(tx[t].vSpent[n], <<t, n>>, L)
    BY DEF Exact
  <1>2. L \subseteq Block \X Tx /\ Distinct(L) /\ None \notin L
    BY BlockAssumption DEF Ledgered
  <1>3. ASSUME NEW t \in DOMAIN tx PROVE tx[t].pos = p(t)
    <2>1. tx[t].pos \in L /\ tx[t].pos[2] = t
      BY <1>1
    <2>2. p(t) \in L /\ p(t)[2] = t
      BY <2>1
    <2> HIDE DEF p
    <2> QED
      BY <1>2, <2>1, <2>2 DEF Distinct
  <1>4. ASSUME NEW t \in DOMAIN tx, NEW n \in 0 .. NOut[t] - 1 PROVE tx[t].vSpent[n] = v(t)[n]
    <2>1. v(t)[n] = IF Spender(t, n) = {} THEN None ELSE CHOOSE e \in Spender(t, n) : TRUE
      OBVIOUS
    <2>2. SpenderIs(tx[t].vSpent[n], <<t, n>>, L)
      BY <1>1
    <2>3. CASE Spender(t, n) = {}
      BY <2>1, <2>2, <2>3 DEF SpenderIs
    <2>4. CASE Spender(t, n) # {}
      <3> DEFINE e == CHOOSE x \in Spender(t, n) : TRUE
                 w == tx[t].vSpent[n]
      <3>1. e \in Spender(t, n)
        BY <2>4
      <3>2. e \in L /\ <<t, n>> \in Ins[e[2]]
        BY <3>1
      <3> HIDE DEF e
      <3>3. w \in L /\ <<t, n>> \in Ins[w[2]]
        BY <2>2, <3>2 DEF SpenderIs
      <3>4. w = e
        BY <1>2, <3>2, <3>3 DEF Distinct
      <3> QED
        BY <2>1, <2>4, <3>4 DEF e
    <2> QED
      BY <2>3, <2>4
  <1>5. ASSUME NEW t \in DOMAIN tx PROVE tx[t] = [pos |-> p(t), vSpent |-> v(t)]
    <2>1. /\ tx[t] = [pos |-> tx[t].pos, vSpent |-> tx[t].vSpent]
          /\ tx[t].vSpent = [n \in 0 .. NOut[t] - 1 |-> tx[t].vSpent[n]]
      BY DEF IndexType, IsFcn
    <2>2. tx[t].vSpent = v(t)
      <3>0. v(t) = [n \in 0 .. NOut[t] - 1 |-> v(t)[n]]
        OBVIOUS
      <3> HIDE DEF v
      <3> QED
        BY <1>4, <2>1, <3>0
    <2> QED
      BY <1>3, <2>1, <2>2
  <1>6. IndexOf(b) = [t \in {e[2] : e \in L} |-> [pos |-> p(t), vSpent |-> v(t)]]
    BY DEF IndexOf
  <1>7. tx = IndexOf(b)
    <2>1. tx = [t \in DOMAIN tx |-> tx[t]]
      BY DEF IndexType, IsFcn
    <2> HIDE DEF p, v, L
    <2> QED
      BY <1>1, <1>5, <1>6, <2>1
  <1>8. ASSUME NEW e \in L, NEW o \in Outs(e[2])
        PROVE  tx[o[1]].vSpent[o[2]] = None <=> \A f \in L : o \notin Ins[f[2]]
    <2>1. e[2] \in DOMAIN tx /\ o = <<e[2], o[2]>> /\ o[1] = e[2] /\ o[2] \in 0 .. NOut[e[2]] - 1
      BY <1>1 DEF Outs
    <2>2. SpenderIs(tx[o[1]].vSpent[o[2]], o, L)
      BY <1>1, <2>1
    <2> HIDE DEF L
    <2> QED
      BY <1>2, <2>2 DEF SpenderIs
  <1>9. UNION {Outs(t) : t \in DOMAIN tx} = UNION {Outs(e[2]) : e \in L}
    <2> HIDE DEF L
    <2> QED
      BY <1>1
  <1>10. {o \in UNION {Outs(t) : t \in DOMAIN tx} : tx[o[1]].vSpent[o[2]] = None} = Unspent(L)
    <2> HIDE DEF L
    <2> QED
      BY <1>8, <1>9 DEF Unspent
  <1> QED
    BY <1>7, <1>10

\* ConnectBlock, DisconnectBlock, Reorganize: after any connects, disconnects, rejected
\* branches, failing commits and crashes, the transaction index on disk is the one the
\* best chain implies, for every tree of blocks and transactions, until a postponed
\* block has failed.
THEOREM IndexFollowsChain == Spec => []TxIndexMatchesChain
  <1>1. IInv /\ LedgerOK => TxIndexMatchesChain
    <2> SUFFICES ASSUME IInv, LedgerOK, ~strayed PROVE db.tx = IndexOf(db.best)
      BY DEF TxIndexMatchesChain
    <2>1. db.best \in Block /\ IndexType(db.tx)
      BY DEF IInv, StateOK, DBType
    <2>2. Stands(View, db.best) /\ View.db = db
      BY DEF LedgerOK, View
    <2>3. Exact(db.tx, Entries(db.best)) /\ Ledgered(Entries(db.best))
      BY <2>1, <2>2, AncestorsType DEF Stands
    <2> QED
      BY <2>1, <2>3, ExactIs
  <1> QED
    BY <1>1, LedgerInvariant, PTL

\* ConnectBlock's nMoneySupply: whenever SetBestChain has returned, the money supply of
\* the best block is the value of the outputs that the index calls unspent, for all
\* values, fees, stakes and burnt outputs.
THEOREM SupplyIsUnspent == Spec => []MoneySupplyIsUnspent
  <1>1. IInv /\ LedgerOK => MoneySupplyIsUnspent
    <2> DEFINE U == {o \in UNION {Outs(t) : t \in DOMAIN db.tx} : db.tx[o[1]].vSpent[o[2]] = None}
    <2> SUFFICES ASSUME IInv, LedgerOK, ~strayed, Idle PROVE nMoneySupply[pindexBest] = ValueOf(U)
      BY DEF MoneySupplyIsUnspent
    <2>0. StateOK /\ JobOK /\ BestOK
      BY DEF IInv
    <2>1. db.best \in Block /\ IndexType(db.tx)
      BY <2>0 DEF StateOK, DBType
    <2>2. pindexBest = db.best
      BY <2>0, JobPhase DEF BestOK
    <2>3. Stands(View, db.best) /\ View.db = db /\ View.supply = nMoneySupply
      BY DEF LedgerOK, View
    <2>4. /\ Exact(db.tx, Entries(db.best)) /\ Ledgered(Entries(db.best))
          /\ nMoneySupply[db.best] = ValueOf(Unspent(Entries(db.best)))
      BY <2>1, <2>3, AncestorsType DEF Stands
    <2>5. U = Unspent(Entries(db.best))
      BY <2>1, <2>4, ExactIs
    <2> HIDE DEF U
    <2> QED
      BY <2>2, <2>4, <2>5
  <1> QED
    BY <1>1, LedgerInvariant, PTL
=============================================================================
