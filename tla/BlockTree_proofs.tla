-------------------------- MODULE BlockTree_proofs --------------------------
(***************************************************************************)
(* Facts about any tree of blocks: ancestors, heights, chain trust, the    *)
(* path to a block, forks and the blocks after a fork.                     *)
(***************************************************************************)
EXTENDS BlockTree, FiniteSetTheorems, WellFoundedInduction, TLAPS

-----------------------------------------------------------------------------
\* The ancestors of a block are blocks, itself among them.
LEMMA AncestorsType ==
    ASSUME NEW b \in Block
    PROVE  Ancestors[b] \subseteq Block /\ b \in Ancestors[b]
  BY DEF Ancestors

\* An ancestor of the parent is an ancestor (pprev).
LEMMA AncestorsPrev ==
    ASSUME NEW b \in Block \ {Genesis}, NEW a \in Ancestors[Prev[b]]
    PROVE  a \in Ancestors[b]
  <1>1. Prev[b] \in Block
    BY TreeAssumption
  <1>2. \A S \in PprevClosed : b \in S => a \in S
    BY <1>1 DEF Ancestors, PprevClosed
  <1> QED
    BY <1>1, <1>2 DEF Ancestors

\* A set closed under pprev has the ancestors of its members.
LEMMA ClosedAncestors ==
    ASSUME NEW S \in PprevClosed, NEW b \in S
    PROVE  Ancestors[b] \subseteq S
  <1>1. b \in Block
    BY DEF PprevClosed
  <1> QED
    BY <1>1 DEF Ancestors

\* Heights are integers.
LEMMA HeightType ==
    ASSUME NEW b \in Block
    PROVE  nHeight(b) \in Int
  <1>1. IsFiniteSet(Ancestors[b])
    BY AncestorsType, TreeAssumption, FS_Subset
  <1> QED
    BY <1>1, FS_CardinalityType DEF nHeight

\* The ancestors of a block are closed under pprev.
LEMMA AncestorsClosed ==
    ASSUME NEW b \in Block
    PROVE  Ancestors[b] \in PprevClosed
  <1>1. ASSUME NEW c \in Ancestors[b], c # Genesis PROVE Prev[c] \in Ancestors[b]
    <2>1. c \in Block /\ Prev[c] \in Block
      BY <1>1, AncestorsType, TreeAssumption
    <2>2. \A S \in PprevClosed : b \in S => c \in S
      BY DEF Ancestors
    <2>3. \A S \in PprevClosed : b \in S => Prev[c] \in S
      BY <1>1, <2>2 DEF PprevClosed
    <2> QED
      BY <2>1, <2>3 DEF Ancestors
  <1> QED
    BY <1>1, AncestorsType DEF PprevClosed

\* Ancestors of ancestors are ancestors.
LEMMA AncestorsTrans ==
    ASSUME NEW c \in Block, NEW b \in Ancestors[c], NEW a \in Ancestors[b]
    PROVE  a \in Ancestors[c]
  BY AncestorsClosed, ClosedAncestors

\* A block and the ancestors of its parent are all its ancestors.
LEMMA AncestorsStep ==
    ASSUME NEW b \in Block \ {Genesis}, NEW a \in Ancestors[b], a # b
    PROVE  a \in Ancestors[Prev[b]]
  <1> DEFINE S == {b} \cup Ancestors[Prev[b]]
  <1>1. Prev[b] \in Block
    BY TreeAssumption
  <1>2. Prev[b] \in Ancestors[Prev[b]] /\ Ancestors[Prev[b]] \in PprevClosed
    BY <1>1, AncestorsType, AncestorsClosed
  <1>3. S \in PprevClosed
    BY <1>2 DEF PprevClosed
  <1>4. Ancestors[b] \subseteq S
    BY <1>3, ClosedAncestors
  <1> QED
    BY <1>4

\* The ancestors of one block are comparable.
LEMMA AncestorsChain ==
    ASSUME NEW b \in Block, NEW a \in Ancestors[b], NEW s \in Ancestors[b]
    PROVE  a \in Ancestors[s] \/ s \in Ancestors[a]
  <1> DEFINE S == {x \in Ancestors[b] : x \in Ancestors[s] \/ s \in Ancestors[x]}
  <1>1. b \in S /\ S \subseteq Block /\ s \in Block
    BY AncestorsType
  <1>2. ASSUME NEW x \in S, x # Genesis PROVE Prev[x] \in S
    <2>1. x \in Block /\ Prev[x] \in Ancestors[b]
      BY <1>1, <1>2, AncestorsClosed DEF PprevClosed
    <2>2. CASE x \in Ancestors[s]
      BY <1>1, <1>2, <2>1, <2>2, AncestorsClosed DEF PprevClosed
    <2>3. CASE x \notin Ancestors[s]
      <3>1. s \in Ancestors[x] /\ s # x
        BY <1>1, <2>3, AncestorsType
      <3> QED
        BY <1>2, <2>1, <3>1, AncestorsStep
    <2> QED
      BY <2>2, <2>3
  <1>3. S \in PprevClosed
    BY <1>1, <1>2 DEF PprevClosed
  <1>4. Ancestors[b] \subseteq S
    BY <1>1, <1>3, ClosedAncestors
  <1> QED
    BY <1>4
-----------------------------------------------------------------------------
\* What holds of genesis and passes from parent to child holds of every block: the
\* others are closed under pprev, so that genesis would be one of them.
LEMMA TreeInduction ==
    ASSUME NEW S, Genesis \in S, \A b \in Block \ {Genesis} : Prev[b] \in S => b \in S
    PROVE  Block \subseteq S
  <1> DEFINE N == Block \ S
  <1>1. N \in PprevClosed
    BY TreeAssumption DEF PprevClosed
  <1>2. ASSUME NEW b \in N PROVE FALSE
    <2>1. Genesis \in Ancestors[b]
      BY TreeAssumption
    <2> QED
      BY <1>1, <2>1, ClosedAncestors
  <1> QED
    BY <1>2

\* Genesis has no other ancestor.
LEMMA GenesisAncestors == Ancestors[Genesis] = {Genesis}
  <1>1. {Genesis} \in PprevClosed
    BY TreeAssumption DEF PprevClosed
  <1> QED
    BY <1>1, ClosedAncestors, AncestorsType, TreeAssumption

\* No block comes before itself.
LEMMA Acyclic ==
    ASSUME NEW b \in Block \ {Genesis}
    PROVE  b \notin Ancestors[Prev[b]]
  <1> DEFINE S == {x \in Block : x = Genesis \/ x \notin Ancestors[Prev[x]]}
  <1>1. Genesis \in S
    BY TreeAssumption
  <1>2. ASSUME NEW x \in Block \ {Genesis}, Prev[x] \in S PROVE x \in S
    <2> DEFINE c == Prev[x]
    <2> SUFFICES ASSUME x \in Ancestors[c] PROVE FALSE
      OBVIOUS
    <2>1. c \in Block /\ c \in Ancestors[x]
      BY TreeAssumption, AncestorsType, AncestorsPrev
    <2>2. c # Genesis
      BY GenesisAncestors
    <2>3. c \notin Ancestors[Prev[c]] /\ Prev[c] \in Block
      BY <1>2, <2>1, <2>2, TreeAssumption
    <2>4. x # c
      BY <2>3, AncestorsType
    <2>5. x \in Ancestors[Prev[c]]
      BY <2>1, <2>2, <2>4, AncestorsStep
    <2> QED
      BY <2>1, <2>3, <2>5, AncestorsTrans
  <1>3. Block \subseteq S
    BY <1>1, <1>2, TreeInduction
  <1> QED
    BY <1>3

\* A block's ancestors are its parent's and itself.
LEMMA AncestorsSplit ==
    ASSUME NEW b \in Block \ {Genesis}
    PROVE  Ancestors[b] = Ancestors[Prev[b]] \cup {b}
  BY AncestorsStep, AncestorsPrev, AncestorsType

\* Ancestors are finite sets.
LEMMA AncestorsFinite ==
    ASSUME NEW b \in Block
    PROVE  IsFiniteSet(Ancestors[b])
  BY AncestorsType, TreeAssumption, FS_Subset

\* nHeight counts from genesis, one more for each block.
LEMMA HeightStep ==
    /\ nHeight(Genesis) = 0
    /\ \A b \in Block \ {Genesis} : nHeight(b) = nHeight(Prev[b]) + 1
  <1>1. nHeight(Genesis) = 0
    BY GenesisAncestors, FS_Singleton DEF nHeight
  <1>2. ASSUME NEW b \in Block \ {Genesis} PROVE nHeight(b) = nHeight(Prev[b]) + 1
    <2>1. Prev[b] \in Block
      BY TreeAssumption
    <2>2. IsFiniteSet(Ancestors[Prev[b]])
      BY <2>1, AncestorsFinite
    <2>3. Cardinality(Ancestors[Prev[b]] \cup {b}) = Cardinality(Ancestors[Prev[b]]) + 1
      BY <2>2, Acyclic, FS_AddElement
    <2>4. Cardinality(Ancestors[Prev[b]]) \in Nat
      BY <2>2, FS_CardinalityType
    <2>5. Cardinality(Ancestors[b]) = Cardinality(Ancestors[Prev[b]]) + 1
      BY <2>3, AncestorsSplit
    <2> QED
      BY <2>4, <2>5 DEF nHeight
  <1> QED
    BY <1>1, <1>2

\* Heights are natural numbers, genesis alone has height 0.
LEMMA HeightNat ==
    ASSUME NEW b \in Block
    PROVE  nHeight(b) \in Nat /\ (nHeight(b) = 0 => b = Genesis)
  <1> DEFINE S == {x \in Block : nHeight(x) \in Nat /\ (nHeight(x) = 0 => x = Genesis)}
  <1>1. Genesis \in S
    BY HeightStep, TreeAssumption
  <1>2. ASSUME NEW x \in Block \ {Genesis}, Prev[x] \in S PROVE x \in S
    BY <1>2, HeightStep
  <1>3. Block \subseteq S
    BY <1>1, <1>2, TreeInduction
  <1> QED
    BY <1>3

\* A proper ancestor is lower.
LEMMA AncestorsLower ==
    ASSUME NEW b \in Block, NEW a \in Ancestors[b], a # b
    PROVE  nHeight(a) < nHeight(b)
  <1> DEFINE S == {x \in Block : \A y \in Ancestors[x] : y # x => nHeight(y) < nHeight(x)}
  <1>1. Genesis \in S
    BY GenesisAncestors, TreeAssumption
  <1>2. ASSUME NEW x \in Block \ {Genesis}, Prev[x] \in S PROVE x \in S
    <2>1. Prev[x] \in Block /\ nHeight(x) = nHeight(Prev[x]) + 1 /\ nHeight(Prev[x]) \in Nat
      BY TreeAssumption, HeightStep, HeightNat
    <2>2. ASSUME NEW y \in Ancestors[x], y # x PROVE nHeight(y) < nHeight(x)
      <3>1. y \in Ancestors[Prev[x]]
        BY <2>2, AncestorsStep
      <3>2. y \in Block /\ nHeight(y) \in Nat
        BY <2>1, <3>1, AncestorsType, HeightNat
      <3> QED
        BY <1>2, <2>1, <3>1, <3>2
    <2> QED
      BY <2>2
  <1>3. Block \subseteq S
    BY <1>1, <1>2, TreeInduction
  <1> QED
    BY <1>3

\* A chain has one block of each height.
LEMMA AncestorsHeight ==
    ASSUME NEW b \in Block, NEW a \in Ancestors[b], NEW c \in Ancestors[b], nHeight(a) = nHeight(c)
    PROVE  a = c
  <1>1. a \in Block /\ c \in Block /\ nHeight(a) \in Nat /\ nHeight(c) \in Nat
    BY AncestorsType, HeightNat
  <1>2. a \in Ancestors[c] \/ c \in Ancestors[a]
    BY AncestorsChain
  <1> QED
    BY <1>1, <1>2, AncestorsLower
-----------------------------------------------------------------------------
\* A non-empty set of naturals has a least element.
LEMMA LeastNat ==
    ASSUME NEW T \in SUBSET Nat, T # {}
    PROVE  \E n \in T : \A m \in T : n <= m
  <1>1. \E x \in T : \A y \in T : <<y, x>> \notin OpToRel(<, Nat)
    BY WFMin, NatLessThanWellFounded
  <1>2. \A y, z \in Nat : y < z => <<y, z>> \in OpToRel(<, Nat)
    BY Zenon DEF OpToRel
  <1>3. \E n \in T : \A y \in T : ~(y < n)
    BY <1>1, <1>2, Zenon
  <1> QED
    BY <1>3

\* Induction up to a bound.
LEMMA UpTo ==
    ASSUME NEW n \in Nat, NEW S, 0 \in S, \A i \in 1 .. n : i - 1 \in S => i \in S
    PROVE  \A i \in 0 .. n : i \in S
  <1> DEFINE T == {i \in 0 .. n : i \notin S}
  <1> SUFFICES ASSUME T # {} PROVE FALSE
    OBVIOUS
  <1>1. T \in SUBSET Nat
    OBVIOUS
  <1>2. PICK k \in T : \A m \in T : k <= m
    <2> HIDE DEF T
    <2> QED
      BY <1>1, LeastNat
  <1>3. k \in 1 .. n /\ k - 1 \in 0 .. n /\ ~(k <= k - 1)
    BY <1>2
  <1>4. k - 1 \in S
    BY <1>2, <1>3
  <1> QED
    BY <1>2, <1>3, <1>4

\* Of some blocks of a chain one comes first ...
LEMMA FirstOnChain ==
    ASSUME NEW b \in Block, NEW T \in SUBSET Ancestors[b], T # {}
    PROVE  \E f \in T : \A g \in T : f \in Ancestors[g]
  <1> DEFINE H == {nHeight(x) : x \in T}
  <1>1. \A x \in T : x \in Block /\ nHeight(x) \in Nat
    BY AncestorsType, HeightNat
  <1>2. H \in SUBSET Nat /\ H # {}
    BY <1>1
  <1>3. PICK n \in H : \A m \in H : n <= m
    BY <1>2, LeastNat
  <1>4. PICK f \in T : nHeight(f) = n
    BY <1>3
  <1>5. ASSUME NEW g \in T PROVE f \in Ancestors[g]
    <2>1. f \in Ancestors[g] \/ g \in Ancestors[f]
      BY AncestorsChain
    <2>2. g \in Ancestors[f] /\ g # f => nHeight(g) < nHeight(f)
      BY <1>1, AncestorsLower
    <2>3. nHeight(f) <= nHeight(g)
      BY <1>3, <1>4
    <2> QED
      BY <1>1, <2>1, <2>2, <2>3, AncestorsType
  <1> QED
    BY <1>5

\* ... and one last.
LEMMA LastOnChain ==
    ASSUME NEW b \in Block, NEW T \in SUBSET Ancestors[b], T # {}
    PROVE  \E f \in T : \A g \in T : g \in Ancestors[f]
  <1> DEFINE H == {nHeight(b) - nHeight(x) : x \in T}
  <1>1. \A x \in T : x \in Block /\ nHeight(x) \in Nat
    BY AncestorsType, HeightNat
  <1>2. nHeight(b) \in Nat /\ \A x \in T : nHeight(x) <= nHeight(b)
    BY <1>1, HeightNat, AncestorsLower
  <1>3. H \in SUBSET Nat /\ H # {}
    BY <1>1, <1>2
  <1>4. PICK n \in H : \A m \in H : n <= m
    BY <1>3, LeastNat
  <1>5. PICK f \in T : nHeight(b) - nHeight(f) = n
    BY <1>4
  <1>6. ASSUME NEW g \in T PROVE g \in Ancestors[f]
    <2>1. f \in Ancestors[g] \/ g \in Ancestors[f]
      BY AncestorsChain
    <2>2. f \in Ancestors[g] /\ g # f => nHeight(f) < nHeight(g)
      BY <1>1, AncestorsLower
    <2>3. nHeight(g) <= nHeight(f)
      <3>1. nHeight(b) - nHeight(g) \in H
        OBVIOUS
      <3>2. nHeight(b) - nHeight(f) <= nHeight(b) - nHeight(g)
        BY <1>4, <1>5, <3>1
      <3> QED
        BY <1>1, <1>2, <3>2
    <2> QED
      BY <1>1, <2>1, <2>2, <2>3, AncestorsType
  <1> QED
    BY <1>6

\* Fork finds the last common ancestor.
LEMMA ForkIsLast ==
    ASSUME NEW a \in Block, NEW b \in Block
    PROVE  /\ Fork(a, b) \in Ancestors[a] \cap Ancestors[b]
           /\ \A g \in Ancestors[a] \cap Ancestors[b] : g \in Ancestors[Fork(a, b)]
  <1> DEFINE T == Ancestors[a] \cap Ancestors[b]
  <1>1. Genesis \in T
    BY TreeAssumption
  <1>2. PICK f \in T : \A g \in T : g \in Ancestors[f]
    <2>1. T \in SUBSET Ancestors[a] /\ T # {}
      BY <1>1
    <2> HIDE DEF T
    <2> QED
      BY <2>1, LastOnChain
  <1>3. f \in Block /\ \A g \in T : g \in Block
    BY AncestorsType
  <1> DEFINE IsFork(x) == x \in T /\ \A g \in Block : g \in T => g \in Ancestors[x]
  <1>4. IsFork(f)
    BY <1>2
  <1>5. Fork(a, b) = CHOOSE x \in Block : IsFork(x)
    BY DEF Fork, OnPath
  <1>6. IsFork(Fork(a, b))
    BY <1>3, <1>4, <1>5
  <1> QED
    BY <1>3, <1>6
-----------------------------------------------------------------------------
\* f is defined by recursion along pprev, G giving its value on a block from that on
\* the parent.
RecursiveFrom(f, base, G, V) ==
    /\ f \in [Block -> V]
    /\ f[Genesis] = base
    /\ \A b \in Block \ {Genesis} : f[b] = G[b][f[Prev[b]]]

\* Such definitions have a solution.
LEMMA TreeRecursion ==
    ASSUME NEW V, NEW base \in V, NEW G \in [Block -> [V -> V]]
    PROVE  \E f : RecursiveFrom(f, base, G, V)
  <1> DEFINE Below(n) == {b \in Block : nHeight(b) <= n}
             Rec(f, D) == f \in [D -> V] /\ \A b \in D : f[b] = IF b = Genesis THEN base ELSE G[b][f[Prev[b]]]
             Has(n) == \E f : Rec(f, Below(n))
             T == {n \in Nat : ~Has(n)}
  <1>0. \A b \in Block : nHeight(b) \in Nat
    BY HeightNat
  <1>1. T = {}
    <2> SUFFICES ASSUME T # {} PROVE FALSE
      OBVIOUS
    <2>1. PICK n \in T : \A m \in T : n <= m
      BY LeastNat
    <2>2. CASE n = 0
      <3> DEFINE f == [b \in Below(0) |-> base]
      <3>1. \A b \in Below(0) : b = Genesis
        BY <1>0, HeightNat
      <3>2. Rec(f, Below(0))
        BY <3>1
      <3> QED
        BY <2>1, <2>2, <3>2
    <2>3. CASE n # 0
      <3>1. n - 1 \in Nat /\ Has(n - 1)
        <4> HIDE DEF Has
        <4> QED
          BY <2>1, <2>3
      <3>2. PICK g : Rec(g, Below(n - 1))
        BY <3>1
      <3> DEFINE f == [b \in Below(n) |-> IF b \in Below(n - 1) THEN g[b] ELSE G[b][g[Prev[b]]]]
      <3>3. ASSUME NEW b \in Below(n), b # Genesis PROVE Prev[b] \in Below(n - 1)
        BY <3>1, <3>3, <1>0, HeightStep, TreeAssumption
      <3>4. Genesis \in Below(n - 1) /\ Below(n - 1) \subseteq Below(n)
        BY <3>1, <1>0, HeightStep, TreeAssumption
      <3>5. f \in [Below(n) -> V]
        <4>1. ASSUME NEW b \in Below(n) PROVE f[b] \in V
          <5>1. CASE b \in Below(n - 1)
            BY <3>2, <5>1
          <5>2. CASE b \notin Below(n - 1)
            <6>1. g[Prev[b]] \in V /\ b \in Block
              BY <3>2, <3>3, <3>4, <5>2
            <6> QED
              BY <5>2, <6>1
          <5> QED
            BY <5>1, <5>2
        <4> QED
          BY <4>1
      <3>6. ASSUME NEW b \in Below(n) PROVE f[b] = IF b = Genesis THEN base ELSE G[b][f[Prev[b]]]
        <4>1. CASE b = Genesis
          BY <3>2, <3>4, <4>1
        <4>2. CASE b # Genesis
          <5>1. Prev[b] \in Below(n - 1) /\ f[Prev[b]] = g[Prev[b]]
            BY <3>3, <3>4, <4>2
          <5>2. f[b] = G[b][g[Prev[b]]]
            BY <3>2, <4>2
          <5> QED
            BY <4>2, <5>1, <5>2
        <4> QED
          BY <4>1, <4>2
      <3>7. Rec(f, Below(n))
        BY <3>5, <3>6
      <3> HIDE DEF f
      <3> QED
        BY <2>1, <3>7
    <2> QED
      BY <2>2, <2>3
  <1>2. Cardinality(Block) \in Nat
    BY TreeAssumption, FS_CardinalityType
  <1>3. Below(Cardinality(Block)) = Block
    <2>1. ASSUME NEW b \in Block PROVE nHeight(b) <= Cardinality(Block)
      <3>1. Cardinality(Ancestors[b]) <= Cardinality(Block)
        BY AncestorsType, TreeAssumption, FS_Subset
      <3>2. Cardinality(Ancestors[b]) \in Nat
        BY AncestorsFinite, FS_CardinalityType
      <3> QED
        BY <1>2, <3>1, <3>2 DEF nHeight
    <2> QED
      BY <2>1
  <1>4. PICK f : Rec(f, Block)
    <2>1. Has(Cardinality(Block))
      BY <1>1, <1>2
    <2> QED
      BY <1>3, <2>1
  <1> QED
    BY <1>4, TreeAssumption DEF RecursiveFrom

\* nChainTrust adds up the trust of the blocks.
LEMMA ChainTrustStep ==
    /\ nChainTrust \in [Block -> Nat]
    /\ \A b \in Block \ {Genesis} : nChainTrust[b] = BlockTrust[b] + nChainTrust[Prev[b]]
  <1> DEFINE G == [b \in Block |-> [n \in Nat |-> BlockTrust[b] + n]]
             Rec(f) == f = [b \in Block |-> BlockTrust[b] + IF b = Genesis THEN 0 ELSE f[Prev[b]]]
  <1>1. G \in [Block -> [Nat -> Nat]] /\ BlockTrust[Genesis] \in Nat
    BY TreeAssumption
  <1>2. PICK f : RecursiveFrom(f, BlockTrust[Genesis], G, Nat)
    <2> HIDE DEF G
    <2> QED
      BY <1>1, TreeRecursion
  <1>3. ASSUME NEW b \in Block PROVE f[b] = BlockTrust[b] + IF b = Genesis THEN 0 ELSE f[Prev[b]]
    <2>1. CASE b = Genesis
      BY <1>1, <1>2, <2>1 DEF RecursiveFrom
    <2>2. CASE b # Genesis
      <3>1. Prev[b] \in Block /\ f[b] = G[b][f[Prev[b]]] /\ f[Prev[b]] \in Nat
        BY <1>2, <2>2, TreeAssumption DEF RecursiveFrom
      <3> QED
        BY <2>2, <3>1
    <2> QED
      BY <2>1, <2>2
  <1>4. Rec(f)
    BY <1>2, <1>3 DEF RecursiveFrom
  <1>5. Rec(nChainTrust)
    BY <1>4 DEF nChainTrust
  <1>6. nChainTrust \in [Block -> Nat]
    <2> DEFINE S == {b \in Block : nChainTrust[b] \in Nat}
    <2>1. Genesis \in S
      BY <1>5, TreeAssumption
    <2>2. ASSUME NEW b \in Block \ {Genesis}, Prev[b] \in S PROVE b \in S
      BY <1>5, <2>2, TreeAssumption
    <2>3. Block \subseteq S
      BY <2>1, <2>2, TreeInduction
    <2> QED
      BY <1>5, <2>3
  <1> QED
    BY <1>5, <1>6

\* A longer chain has more trust.
LEMMA TrustGrows ==
    ASSUME NEW b \in Block, NEW a \in Ancestors[b], a # b
    PROVE  nChainTrust[a] < nChainTrust[b]
  <1> DEFINE S == {x \in Block : \A y \in Ancestors[x] : y # x => nChainTrust[y] < nChainTrust[x]}
  <1>1. Genesis \in S
    BY GenesisAncestors, TreeAssumption
  <1>2. ASSUME NEW x \in Block \ {Genesis}, Prev[x] \in S PROVE x \in S
    <2>1. Prev[x] \in Block /\ BlockTrust[x] \in Nat \ {0}
      BY TreeAssumption
    <2>2. nChainTrust[Prev[x]] \in Nat /\ nChainTrust[x] = BlockTrust[x] + nChainTrust[Prev[x]]
      BY <2>1, ChainTrustStep
    <2>3. ASSUME NEW y \in Ancestors[x], y # x PROVE nChainTrust[y] < nChainTrust[x]
      <3>1. y \in Ancestors[Prev[x]]
        BY <2>3, AncestorsStep
      <3>2. y \in Block /\ nChainTrust[y] \in Nat
        BY <2>1, <3>1, AncestorsType, ChainTrustStep
      <3> QED
        BY <1>2, <2>1, <2>2, <3>1, <3>2
    <2> QED
      BY <2>3
  <1>3. Block \subseteq S
    BY <1>1, <1>2, TreeInduction
  <1> QED
    BY <1>3
-----------------------------------------------------------------------------
\* PathTo collects the chain of a block.
LEMMA PathStep ==
    /\ PathTo[Genesis] = <<>>
    /\ \A b \in Block \ {Genesis} : PathTo[b] = Append(PathTo[Prev[b]], b)
  <1> DEFINE V == Seq(Block)
             base == <<>>
             G == [b \in Block |-> [p \in V |-> Append(p, b)]]
             Rec(f) == f = [b \in Block |-> IF b = Genesis THEN <<>> ELSE Append(f[Prev[b]], b)]
  <1>1. base \in V /\ G \in [Block -> [V -> V]]
    OBVIOUS
  <1>2. PICK f : RecursiveFrom(f, base, G, V)
    <2> HIDE DEF V, G, base
    <2> QED
      BY <1>1, TreeRecursion
  <1>3. \A b \in Block : f[b] = IF b = Genesis THEN <<>> ELSE Append(f[Prev[b]], b)
    BY <1>2, TreeAssumption DEF RecursiveFrom
  <1>4. Rec(f)
    BY <1>2, <1>3 DEF RecursiveFrom
  <1>5. Rec(PathTo)
    <2>1. PathTo = CHOOSE p : Rec(p)
      BY DEF PathTo
    <2> HIDE DEF Rec
    <2> QED
      BY <1>4, <2>1
  <1> QED
    BY <1>5, TreeAssumption

\* The path to b: as long as b is high, and the ancestor of height i in place i.
LEMMA PathIsChain ==
    ASSUME NEW b \in Block
    PROVE  /\ PathTo[b] \in Seq(Block) /\ Len(PathTo[b]) = nHeight(b)
           /\ \A i \in 1 .. nHeight(b) : /\ PathTo[b][i] \in Ancestors[b] \ {Genesis}
                                        /\ nHeight(PathTo[b][i]) = i
           /\ \A a \in Ancestors[b] \ {Genesis} : PathTo[b][nHeight(a)] = a
  <1> DEFINE Shape(x) == PathTo[x] \in Seq(Block) /\ Len(PathTo[x]) = nHeight(x)
             Sound(x) == \A i \in 1 .. nHeight(x) : /\ PathTo[x][i] \in Ancestors[x] \ {Genesis}
                                                   /\ nHeight(PathTo[x][i]) = i
             S == {x \in Block : Shape(x) /\ Sound(x)}
  <1>1. Genesis \in S
    <2>1. PathTo[Genesis] = <<>> /\ nHeight(Genesis) = 0 /\ Genesis \in Block
      BY PathStep, HeightStep, TreeAssumption
    <2>2. Shape(Genesis)
      BY <2>1
    <2>3. Sound(Genesis)
      BY <2>1
    <2> QED
      BY <2>1, <2>2, <2>3
  <1>2. ASSUME NEW x \in Block \ {Genesis}, Prev[x] \in S PROVE x \in S
    <2> DEFINE p == PathTo[Prev[x]]
               n == nHeight(Prev[x])
    <2>1. Prev[x] \in Block /\ n \in Nat /\ nHeight(x) = n + 1 /\ PathTo[x] = Append(p, x)
      BY TreeAssumption, HeightNat, HeightStep, PathStep
    <2>2. p \in Seq(Block) /\ Len(p) = n
      BY <1>2
    <2>3. /\ Append(p, x) \in Seq(Block) /\ Len(Append(p, x)) = n + 1
          /\ \A i \in 1 .. n : Append(p, x)[i] = p[i]
          /\ Append(p, x)[n + 1] = x
      BY <2>1, <2>2
    <2>4. Shape(x)
      BY <2>1, <2>3
    <2>5. ASSUME NEW i \in 1 .. nHeight(x)
          PROVE  PathTo[x][i] \in Ancestors[x] \ {Genesis} /\ nHeight(PathTo[x][i]) = i
      <3>1. CASE i = n + 1
        BY <2>1, <2>3, <3>1, AncestorsType
      <3>2. CASE i # n + 1
        <4>1. i \in 1 .. n
          BY <2>1, <3>2
        <4>2. p[i] \in Ancestors[Prev[x]] \ {Genesis} /\ nHeight(p[i]) = i
          BY <1>2, <4>1
        <4> QED
          BY <2>1, <2>3, <4>1, <4>2, AncestorsPrev
      <3> QED
        BY <3>1, <3>2
    <2> QED
      BY <2>4, <2>5
  <1>3. Block \subseteq S
    BY <1>1, <1>2, TreeInduction
  <1>4. Shape(b) /\ Sound(b)
    BY <1>3
  <1>5. ASSUME NEW a \in Ancestors[b] \ {Genesis} PROVE PathTo[b][nHeight(a)] = a
    <2>1. a \in Block /\ nHeight(a) \in Nat /\ nHeight(a) # 0 /\ nHeight(b) \in Nat
      BY AncestorsType, HeightNat
    <2>2. nHeight(a) <= nHeight(b)
      BY <2>1, AncestorsLower
    <2>3. nHeight(a) \in 1 .. nHeight(b)
      BY <2>1, <2>2
    <2> QED
      BY <1>4, <2>3, AncestorsHeight
  <1> QED
    BY <1>4, <1>5

\* The blocks on the path are the ancestors but genesis.
LEMMA PathRange ==
    ASSUME NEW b \in Block
    PROVE  {PathTo[b][i] : i \in DOMAIN PathTo[b]} = Ancestors[b] \ {Genesis}
  <1>1. DOMAIN PathTo[b] = 1 .. nHeight(b) /\ nHeight(b) \in Nat
    BY PathIsChain, HeightNat
  <1>2. ASSUME NEW a \in Ancestors[b] \ {Genesis} PROVE \E i \in 1 .. nHeight(b) : PathTo[b][i] = a
    <2>1. a \in Block /\ nHeight(a) \in Nat /\ nHeight(a) # 0
      BY AncestorsType, HeightNat
    <2>2. nHeight(a) <= nHeight(b)
      BY <1>1, <2>1, AncestorsLower
    <2> QED
      BY <1>1, <2>1, <2>2, PathIsChain
  <1> QED
    BY <1>1, <1>2, PathIsChain

\* The blocks after an ancestor f on the way to b: each the parent of the next, f of
\* the first, b the last; they are the ancestors of b that are none of f.
LEMMA AfterIsBranch ==
    ASSUME NEW b \in Block, NEW f \in Ancestors[b]
    PROVE  /\ After(f, b) \in Seq(Block \ {Genesis})
           /\ Len(After(f, b)) = nHeight(b) - nHeight(f)
           /\ After(f, b) = <<>> <=> f = b
           /\ f # b => Prev[After(f, b)[1]] = f /\ After(f, b)[Len(After(f, b))] = b
           /\ \A i \in 2 .. Len(After(f, b)) : Prev[After(f, b)[i]] = After(f, b)[i - 1]
           /\ {After(f, b)[i] : i \in DOMAIN After(f, b)} = Ancestors[b] \ Ancestors[f]
           /\ \A i \in 1 .. Len(After(f, b)) : nHeight(After(f, b)[i]) = nHeight(f) + i
  <1> DEFINE p == PathTo[b]
             n == nHeight(b)
             m == nHeight(f)
             s == SubSeq(p, m + 1, n)
  <1>1. f \in Block /\ n \in Nat /\ m \in Nat /\ m <= n /\ (m = n => f = b)
    BY AncestorsType, HeightNat, AncestorsLower
  <1>2. p \in Seq(Block) /\ Len(p) = n
    BY PathIsChain
  <1>3. s \in Seq(Block) /\ Len(s) = n - m /\ \A i \in 1 .. n - m : s[i] = p[m + i]
    BY <1>1, <1>2
  <1>4. After(f, b) = s
    BY DEF After
  <1>5. ASSUME NEW i \in 1 .. n - m
        PROVE  s[i] \in Ancestors[b] \ {Genesis} /\ s[i] \in Block /\ nHeight(s[i]) = m + i
    <2>1. m + i \in 1 .. n
      BY <1>1
    <2>2. p[m + i] \in Ancestors[b] \ {Genesis} /\ nHeight(p[m + i]) = m + i
      BY <2>1, PathIsChain
    <2>3. s[i] = p[m + i]
      BY <1>3
    <2> HIDE DEF s
    <2> QED
      BY <2>2, <2>3, AncestorsType
  <1>6. ASSUME NEW i \in 1 .. n - m
        PROVE  /\ Prev[s[i]] \in Ancestors[b] /\ Prev[s[i]] \in Block
               /\ nHeight(Prev[s[i]]) = m + i - 1
    <2>1. Prev[s[i]] \in Block /\ Prev[s[i]] \in Ancestors[b]
      BY <1>5, AncestorsClosed, TreeAssumption DEF PprevClosed
    <2>2. nHeight(s[i]) = nHeight(Prev[s[i]]) + 1 /\ nHeight(Prev[s[i]]) \in Nat
      BY <1>5, <2>1, HeightStep, HeightNat
    <2> QED
      BY <1>1, <1>5, <2>1, <2>2
  <1>7. s \in Seq(Block \ {Genesis})
    <2>1. \A i \in 1 .. Len(s) : s[i] \in Block \ {Genesis}
      BY <1>3, <1>5
    <2> HIDE DEF s
    <2> QED
      BY <1>3, <2>1
  <1>8. s = <<>> <=> f = b
    <2>1. s = <<>> <=> n - m = 0
      <3> HIDE DEF s
      <3> QED
        BY <1>1, <1>3
    <2> QED
      BY <1>1, <2>1
  <1>9. f # b => Prev[s[1]] = f /\ s[Len(s)] = b
    <2> SUFFICES ASSUME f # b PROVE Prev[s[1]] = f /\ s[Len(s)] = b
      OBVIOUS
    <2>1. 1 \in 1 .. n - m /\ n - m \in 1 .. n - m
      BY <1>1
    <2>2. Prev[s[1]] = f
      BY <1>1, <1>6, <2>1, AncestorsHeight
    <2>3. b \in Ancestors[b] /\ nHeight(s[n - m]) = n
      BY <1>1, <1>5, <2>1, AncestorsType
    <2> QED
      BY <1>3, <1>5, <2>1, <2>2, <2>3, AncestorsHeight
  <1>10. ASSUME NEW i \in 2 .. Len(s) PROVE Prev[s[i]] = s[i - 1]
    <2>1. i \in 1 .. n - m /\ i - 1 \in 1 .. n - m
      BY <1>1, <1>3
    <2>2. nHeight(Prev[s[i]]) = m + (i - 1) /\ nHeight(s[i - 1]) = m + (i - 1)
      BY <1>1, <1>5, <1>6, <2>1
    <2>3. Prev[s[i]] \in Ancestors[b] /\ s[i - 1] \in Ancestors[b]
      BY <1>5, <1>6, <2>1
    <2> HIDE DEF s
    <2> QED
      BY <2>2, <2>3, AncestorsHeight
  <1>11. \A i \in 1 .. Len(s) : nHeight(s[i]) = nHeight(f) + i
    BY <1>3, <1>5
  <1>12. {s[i] : i \in 1 .. Len(s)} = Ancestors[b] \ Ancestors[f]
    <2>1. ASSUME NEW i \in 1 .. Len(s) PROVE s[i] \notin Ancestors[f]
      <3>1. nHeight(s[i]) > m
        BY <1>1, <1>3, <1>5
      <3> QED
        BY <1>1, <1>3, <1>5, <3>1, AncestorsLower
    <2>2. ASSUME NEW a \in Ancestors[b], a \notin Ancestors[f] PROVE \E i \in 1 .. Len(s) : s[i] = a
      <3>1. a \in Block /\ nHeight(a) \in Nat /\ f \in Ancestors[a] /\ f # a
        BY <1>1, <2>2, AncestorsType, HeightNat, AncestorsChain
      <3>2. m < nHeight(a) /\ nHeight(a) <= n
        BY <1>1, <3>1, AncestorsLower
      <3>3. nHeight(a) - m \in 1 .. n - m
        BY <1>1, <3>1, <3>2
      <3>4. a # Genesis
        BY <1>1, <2>2, TreeAssumption
      <3>5. s[nHeight(a) - m] = p[nHeight(a)]
        <4>1. s[nHeight(a) - m] = p[m + (nHeight(a) - m)]
          BY <1>3, <3>3
        <4>2. m + (nHeight(a) - m) = nHeight(a)
          BY <1>1, <3>1
        <4> QED
          BY <4>1, <4>2
      <3>6. p[nHeight(a)] = a
        BY <3>4, PathIsChain
      <3> QED
        BY <1>3, <3>3, <3>5, <3>6
    <2>3. \A i \in 1 .. Len(s) : s[i] \in Ancestors[b]
      BY <1>3, <1>5
    <2> HIDE DEF s
    <2> QED
      BY <2>1, <2>2, <2>3
  <1>13. DOMAIN s = 1 .. Len(s)
    BY <1>3
  <1>14. Len(s) = nHeight(b) - nHeight(f)
    BY <1>3
  <1> HIDE DEF s
  <1> QED
    BY <1>4, <1>7, <1>8, <1>9, <1>10, <1>11, <1>12, <1>13, <1>14

\* A branch: blocks each the parent of the next, no two with the same parent.
IsBranch(branch) ==
    /\ branch \in Seq(Block \ {Genesis})
    /\ \A i, j \in 1 .. Len(branch) : /\ Prev[branch[i]] = Prev[branch[j]] => i = j
                                      /\ Prev[branch[i]] = branch[j] <=> i = j + 1

\* The blocks after an ancestor are one.
LEMMA AfterBranch ==
    ASSUME NEW b \in Block, NEW f \in Ancestors[b]
    PROVE  IsBranch(After(f, b))
  <1> DEFINE s == After(f, b)
  <1>1. s \in Seq(Block \ {Genesis}) /\ Len(s) \in Nat
    BY AfterIsBranch
  <1>2. f \in Block /\ nHeight(f) \in Nat
    BY AncestorsType, HeightNat
  <1>3. ASSUME NEW i \in 1 .. Len(s)
        PROVE  /\ s[i] \in Block \ {Genesis} /\ Prev[s[i]] \in Block /\ nHeight(s[i]) = nHeight(f) + i
               /\ nHeight(Prev[s[i]]) = nHeight(f) + i - 1
    <2>1. s[i] \in Block \ {Genesis}
      BY <1>1
    <2>2. nHeight(s[i]) = nHeight(f) + i
      BY AfterIsBranch
    <2>3. Prev[s[i]] \in Block
      BY <2>1, TreeAssumption
    <2>4. nHeight(s[i]) = nHeight(Prev[s[i]]) + 1 /\ nHeight(Prev[s[i]]) \in Nat
      BY <2>1, <2>3, HeightStep, HeightNat
    <2> HIDE DEF s
    <2> QED
      BY <1>2, <2>1, <2>2, <2>3, <2>4
  <1>4. \A i \in 2 .. Len(s) : Prev[s[i]] = s[i - 1]
    BY AfterIsBranch
  <1> HIDE DEF s
  <1>5. ASSUME NEW i \in 1 .. Len(s), NEW j \in 1 .. Len(s)
        PROVE  /\ Prev[s[i]] = Prev[s[j]] => i = j
               /\ Prev[s[i]] = s[j] <=> i = j + 1
    <2>1. Prev[s[i]] = Prev[s[j]] => i = j
      BY <1>2, <1>3
    <2>2. Prev[s[i]] = s[j] => i = j + 1
      BY <1>2, <1>3
    <2>3. i = j + 1 => Prev[s[i]] = s[j]
      <3> SUFFICES ASSUME i = j + 1 PROVE Prev[s[i]] = s[j]
        OBVIOUS
      <3>1. i \in 2 .. Len(s) /\ i - 1 = j
        BY <1>1
      <3> QED
        BY <1>4, <3>1
    <2> QED
      BY <2>1, <2>2, <2>3
  <1> QED
    BY <1>1, <1>5 DEF s, IsBranch

\* The next block after an ancestor, and the rest.
LEMMA AfterTail ==
    ASSUME NEW b \in Block, NEW f \in Ancestors[b], f # b
    PROVE  LET c == Head(After(f, b))
           IN  /\ After(f, b) # <<>> /\ c \in Ancestors[b] \ {Genesis} /\ c \in Block
               /\ Prev[c] = f /\ Tail(After(f, b)) = After(c, b)
  <1> DEFINE s == After(f, b)
             c == Head(s)
             t == After(c, b)
  <1>1. s \in Seq(Block \ {Genesis}) /\ s # <<>> /\ Len(s) = nHeight(b) - nHeight(f)
    BY AfterIsBranch
  <1>2. c = s[1] /\ c \in Block \ {Genesis} /\ 1 \in DOMAIN s /\ 1 \in 1 .. Len(s)
    <2> HIDE DEF s
    <2> QED
      BY <1>1
  <1>3. Prev[c] = f
    BY <1>2, AfterIsBranch
  <1>4. c \in Ancestors[b]
    <2>1. s[1] \in {s[i] : i \in DOMAIN s}
      BY <1>2
    <2> QED
      BY <1>2, <2>1, AfterIsBranch
  <1>5. f \in Block /\ nHeight(f) \in Nat /\ nHeight(b) \in Nat /\ nHeight(c) = nHeight(f) + 1
    BY <1>2, <1>3, AncestorsType, HeightNat, HeightStep
  <1>6. t \in Seq(Block \ {Genesis}) /\ Len(t) = nHeight(b) - nHeight(c)
    BY <1>4, AfterIsBranch
  <1>7. Tail(s) \in Seq(Block \ {Genesis}) /\ Len(Tail(s)) = Len(s) - 1
        /\ \A i \in 1 .. Len(s) - 1 : Tail(s)[i] = s[i + 1]
    <2> HIDE DEF s
    <2> QED
      BY <1>1
  <1>8. ASSUME NEW i \in 1 .. Len(t) PROVE Tail(s)[i] = t[i]
    <2>1. i \in 1 .. Len(s) - 1 /\ i + 1 \in 1 .. Len(s)
      BY <1>1, <1>5, <1>6
    <2>2. nHeight(s[i + 1]) = nHeight(f) + (i + 1) /\ nHeight(t[i]) = nHeight(c) + i
      BY <1>4, <2>1, AfterIsBranch
    <2>3. s[i + 1] \in Ancestors[b] /\ t[i] \in Ancestors[b]
      <3>1. s[i + 1] \in {s[j] : j \in DOMAIN s}
        BY <1>1, <2>1
      <3>2. t[i] \in {t[j] : j \in DOMAIN t}
        BY <1>6
      <3> QED
        BY <1>4, <3>1, <3>2, AfterIsBranch
    <2>4. nHeight(s[i + 1]) = nHeight(t[i])
      <3> HIDE DEF s, t
      <3> QED
        BY <1>5, <2>2
    <2>5. s[i + 1] = t[i]
      BY <2>3, <2>4, AncestorsHeight
    <2> HIDE DEF s, t
    <2> QED
      BY <1>7, <2>1, <2>5
  <1>9. Tail(s) = t
    <2>1. Len(Tail(s)) = Len(t)
      BY <1>1, <1>5, <1>6, <1>7
    <2> HIDE DEF s, t
    <2> QED
      BY <1>6, <1>7, <1>8, <2>1
  <1> QED
    BY <1>1, <1>2, <1>3, <1>4, <1>9
=============================================================================
