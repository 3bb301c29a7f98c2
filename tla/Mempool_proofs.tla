--------------------------- MODULE Mempool_proofs ---------------------------
(***************************************************************************)
(* The safety of the memory pool for any set of transactions: the pool     *)
(* holds no double spend, nothing in it is confirmed, the orphan index is  *)
(* exact and bounded, and a reorganisation clears the conflicts it brings. *)
(***************************************************************************)
EXTENDS Mempool, FiniteSetTheorems, TLAPS

\* A pool value: two maps over transactions.
PoolType(p) ==
    /\ p.mapTx \subseteq Tx
    /\ p.mapNextTx \in [DOMAIN p.mapNextTx -> Tx]

\* The transactions of S spend pairwise different outputs.
ConflictFree(S) == \A t, u \in S : t # u => Ins[t] \cap Ins[u] = {}
-----------------------------------------------------------------------------
\* addUnchecked() of a transaction without conflicts keeps the maps in step.
LEMMA AddKeeps ==
    ASSUME NEW p, PoolType(p), Consistent(p), NEW t \in Tx,
           Ins[t] \cap DOMAIN p.mapNextTx = {}
    PROVE  /\ PoolType(AddUnchecked(p, t))
           /\ Consistent(AddUnchecked(p, t))
           /\ AddUnchecked(p, t).mapTx = p.mapTx \cup {t}
BY DEF PoolType, Consistent, AddUnchecked

\* remove() of any transactions keeps the maps in step.
LEMMA RemoveKeeps ==
    ASSUME NEW p, PoolType(p), Consistent(p), NEW S
    PROVE  /\ PoolType(RemoveTx(p, S))
           /\ Consistent(RemoveTx(p, S))
           /\ RemoveTx(p, S).mapTx = p.mapTx \ S
<1> DEFINE gone == DOMAIN p.mapNextTx \cap UNION {Ins[t] : t \in S \cap p.mapTx}
<1> DEFINE q == RemoveTx(p, S)
<1>1. /\ q.mapTx = p.mapTx \ S
      /\ q.mapNextTx = [o \in DOMAIN p.mapNextTx \ gone |-> p.mapNextTx[o]]
    BY DEF RemoveTx
<1>2. ASSUME NEW t \in p.mapTx \ S, NEW o \in Ins[t]
      PROVE  o \in DOMAIN p.mapNextTx /\ o \notin gone /\ p.mapNextTx[o] = t
    BY DEF Consistent
<1>3. ASSUME NEW o \in DOMAIN p.mapNextTx, o \notin gone
      PROVE  \E t \in p.mapTx \ S : o \in Ins[t]
    <2>1. PICK t \in p.mapTx : o \in Ins[t]
        BY DEF Consistent
    <2>2. t \notin S
        BY <2>1, <1>3
    <2>3. QED
        BY <2>1, <2>2
<1>4. DOMAIN q.mapNextTx = UNION {Ins[t] : t \in q.mapTx}
    <2>1. DOMAIN q.mapNextTx = DOMAIN p.mapNextTx \ gone
        BY <1>1
    <2> HIDE DEF q, gone
    <2>2. QED
        BY <2>1, <1>1, <1>2, <1>3
<1>5. \A t \in q.mapTx : \A o \in Ins[t] : q.mapNextTx[o] = t
    <2> HIDE DEF q, gone
    <2>1. QED
        BY <1>1, <1>2
<1>6. PoolType(q)
    BY <1>1 DEF PoolType
<1>7. QED
    BY <1>1, <1>4, <1>5, <1>6 DEF Consistent

\* The transactions resurrected into the pool keep the maps in step.
LEMMA ResurrectKeeps ==
    ASSUME NEW p, PoolType(p), Consistent(p), NEW S \in SUBSET Tx, ConflictFree(S)
    PROVE  /\ PoolType(Resurrect(p, S))
           /\ Consistent(Resurrect(p, S))
           /\ Resurrect(p, S).mapTx \subseteq p.mapTx \cup S
<1> DEFINE in == {t \in S \ p.mapTx : Ins[t] \cap DOMAIN p.mapNextTx = {}}
<1> DEFINE ins == UNION {Ins[t] : t \in in}
<1> DEFINE who(o) == CHOOSE t \in in : o \in Ins[t]
<1> DEFINE q == Resurrect(p, S)
<1>1. /\ q.mapTx = p.mapTx \cup in
      /\ q.mapNextTx = [o \in DOMAIN p.mapNextTx \cup ins |->
                           IF o \in ins THEN who(o) ELSE p.mapNextTx[o]]
    BY DEF Resurrect
<1>2. ASSUME NEW t \in in, NEW o \in Ins[t]
      PROVE  o \in ins /\ who(o) = t
    <2>1. \A u \in in : o \in Ins[u] => u = t
        BY <1>2 DEF ConflictFree
    <2>2. QED
        BY <2>1, <1>2
<1>3. \A o \in ins : o \notin DOMAIN p.mapNextTx
    OBVIOUS
<1>4. \A o \in ins : who(o) \in in
    BY <1>2
<1>5. in \subseteq Tx /\ in \subseteq S
    OBVIOUS
<1>6. DOMAIN q.mapNextTx = DOMAIN p.mapNextTx \cup ins
    BY <1>1
<1>6a. ins = UNION {Ins[t] : t \in in}
    OBVIOUS
<1> HIDE DEF q, in, ins, who
<1>7. PoolType(q)
    <2>1. \A o \in DOMAIN p.mapNextTx : p.mapNextTx[o] \in Tx
        BY DEF PoolType
    <2>2. p.mapTx \subseteq Tx
        BY DEF PoolType
    <2>3. q.mapNextTx \in [DOMAIN p.mapNextTx \cup ins -> Tx]
        BY <1>1, <1>4, <1>5, <2>1
    <2>4. QED
        BY <1>1, <1>5, <1>6, <2>2, <2>3 DEF PoolType
<1>8. Consistent(q)
    <2>1. DOMAIN q.mapNextTx = UNION {Ins[t] : t \in q.mapTx}
        BY <1>1, <1>6, <1>6a DEF Consistent
    <2>2. ASSUME NEW t \in q.mapTx, NEW o \in Ins[t] PROVE q.mapNextTx[o] = t
        <3>1. CASE t \in in
            BY <1>1, <1>2, <3>1
        <3>2. CASE t \in p.mapTx
            <4>1. o \in DOMAIN p.mapNextTx /\ p.mapNextTx[o] = t
                BY <3>2 DEF Consistent
            <4>2. o \notin ins
                BY <1>3, <4>1
            <4>3. QED
                BY <1>1, <4>1, <4>2
        <3>3. QED
            BY <1>1, <3>1, <3>2
    <2>3. QED
        BY <2>1, <2>2 DEF Consistent
<1>9. QED
    BY <1>1, <1>5, <1>7, <1>8 DEF q

\* removeConflicts() keeps the maps in step, and leaves no spender of an input
\* of S that is not itself in S.
LEMMA RemoveConflictsKeeps ==
    ASSUME NEW p, PoolType(p), Consistent(p), NEW S \in SUBSET Tx
    PROVE  /\ PoolType(RemoveConflicts(p, S))
           /\ Consistent(RemoveConflicts(p, S))
           /\ RemoveConflicts(p, S).mapTx \subseteq p.mapTx
           /\ p.mapTx \cap S = {} =>
                \A t \in RemoveConflicts(p, S).mapTx : Ins[t] \cap SpentBy(S) = {}
<1> DEFINE spent == UNION {{<<o, t>> : o \in Ins[t]} : t \in S}
<1> DEFINE rivals == {p.mapNextTx[s[1]] : s \in {s \in spent : /\ s[1] \in DOMAIN p.mapNextTx
                                                               /\ p.mapNextTx[s[1]] # s[2]}}
<1> DEFINE D == Dependents(p, rivals)
<1>1. RemoveConflicts(p, S) = RemoveTx(p, D)
    BY DEF RemoveConflicts, RemoveRecursive
<1>2. rivals \cap p.mapTx \subseteq D
    BY DEF Dependents
<1>3. ASSUME p.mapTx \cap S = {}, NEW t \in p.mapTx, NEW u \in S, NEW o \in Ins[t] \cap Ins[u]
      PROVE  t \in rivals
    <2>1. o \in DOMAIN p.mapNextTx /\ p.mapNextTx[o] = t
        BY <1>3 DEF Consistent
    <2>2. <<o, u>> \in spent
        OBVIOUS
    <2>3. t # u
        BY <1>3
    <2> HIDE DEF spent
    <2>4. QED
        BY <2>1, <2>2, <2>3
<1> HIDE DEF rivals, D
<1>4. /\ PoolType(RemoveTx(p, D))
      /\ Consistent(RemoveTx(p, D))
      /\ RemoveTx(p, D).mapTx = p.mapTx \ D
    BY RemoveKeeps
<1>5. p.mapTx \cap S = {} => \A t \in p.mapTx \ D : Ins[t] \cap SpentBy(S) = {}
    BY <1>2, <1>3 DEF SpentBy
<1>6. QED
    BY <1>1, <1>4, <1>5
-----------------------------------------------------------------------------
\* The blocks of c are disjoint and no two of their transactions conflict.
ChainOK(c) ==
    /\ \A i, j \in DOMAIN c : i # j => c[i] \cap c[j] = {}
    /\ ConflictFree(ConfirmedIn(c))

\* The inductive invariant: reorganisations are safe for the pool only because
\* the chain they take apart is free of conflicts and duplicates.
IInv ==
    /\ TypeOK
    /\ PoolConsistent
    /\ PoolNotConfirmed
    /\ OrphansIndexed
    /\ OrphansBounded
    /\ IsFiniteSet(orphans)
    /\ ChainOK(chain)

\* A connectable block keeps a chain free of conflicts and duplicates.
LEMMA ConnectKeeps ==
    ASSUME NEW c \in Seq(SUBSET Tx), NEW B \in SUBSET Tx, ChainOK(c),
           Connectable(ConfirmedIn(c), B)
    PROVE  /\ Append(c, B) \in Seq(SUBSET Tx)
           /\ ConfirmedIn(Append(c, B)) = ConfirmedIn(c) \cup B
           /\ ChainOK(Append(c, B))
<1> DEFINE d == Append(c, B)
<1>1. /\ d \in Seq(SUBSET Tx)
      /\ DOMAIN c = 1 .. Len(c) /\ Len(c) \in Nat
      /\ DOMAIN d = 1 .. Len(c) + 1
      /\ \A i \in 1 .. Len(c) : d[i] = c[i]
      /\ d[Len(c) + 1] = B
    OBVIOUS
<1> HIDE DEF d
<1>2. ConfirmedIn(d) = ConfirmedIn(c) \cup B
    <2>1. ASSUME NEW t \in ConfirmedIn(d) PROVE t \in ConfirmedIn(c) \cup B
        <3>1. PICK i \in DOMAIN d : t \in d[i]
            BY <2>1 DEF ConfirmedIn
        <3>2. CASE i = Len(c) + 1
            BY <1>1, <3>1, <3>2
        <3>3. CASE i \in 1 .. Len(c)
            BY <1>1, <3>1, <3>3 DEF ConfirmedIn
        <3>4. QED
            BY <1>1, <3>2, <3>3
    <2>2. ASSUME NEW t \in ConfirmedIn(c) PROVE t \in ConfirmedIn(d)
        <3>1. PICK i \in DOMAIN c : t \in c[i]
            BY <2>2 DEF ConfirmedIn
        <3>2. i \in DOMAIN d /\ d[i] = c[i]
            BY <1>1
        <3>3. QED
            BY <3>1, <3>2 DEF ConfirmedIn
    <2>3. B \subseteq ConfirmedIn(d)
        <3>1. Len(c) + 1 \in DOMAIN d
            BY <1>1
        <3>2. QED
            BY <1>1, <3>1 DEF ConfirmedIn
    <2>4. QED
        BY <2>1, <2>2, <2>3
<1>3. \A i \in DOMAIN c : c[i] \cap B = {}
    BY DEF Connectable, ConfirmedIn
<1>4. \A i, j \in DOMAIN d : i # j => d[i] \cap d[j] = {}
    BY <1>1, <1>3 DEF ChainOK
<1>5. ConflictFree(ConfirmedIn(c) \cup B)
    <2> SUFFICES ASSUME NEW t \in ConfirmedIn(c) \cup B, NEW u \in ConfirmedIn(c) \cup B, t # u
                 PROVE  Ins[t] \cap Ins[u] = {}
        BY DEF ConflictFree
    <2>1. CASE t \in ConfirmedIn(c) /\ u \in ConfirmedIn(c)
        BY <2>1 DEF ChainOK, ConflictFree
    <2>2. CASE t \in B /\ u \in B
        BY <2>2 DEF Connectable
    <2>3. ASSUME NEW v \in ConfirmedIn(c), NEW w \in B PROVE Ins[v] \cap Ins[w] = {}
        BY <2>3 DEF Connectable, SpentBy
    <2>4. QED
        BY <2>1, <2>2, <2>3
<1>6. QED
    BY <1>1, <1>2, <1>4, <1>5 DEF ChainOK, d

\* Cutting a chain at height k: the part kept is still a good chain, what is
\* cut off has nothing in common with it and no conflicts inside.
LEMMA CutKeeps ==
    ASSUME NEW c \in Seq(SUBSET Tx), ChainOK(c), NEW k \in Nat, k < Len(c)
    PROVE  LET kept == SubSeq(c, 1, k)
               old  == ConfirmedIn(SubSeq(c, k + 1, Len(c)))
           IN  /\ kept \in Seq(SUBSET Tx)
               /\ Len(kept) = k
               /\ ChainOK(kept)
               /\ ConfirmedIn(kept) \subseteq ConfirmedIn(c)
               /\ old \in SUBSET Tx
               /\ old \subseteq ConfirmedIn(c)
               /\ ConflictFree(old)
               /\ old \cap ConfirmedIn(kept) = {}
<1> DEFINE kept == SubSeq(c, 1, k)
<1> DEFINE rest == SubSeq(c, k + 1, Len(c))
<1>1. /\ kept \in Seq(SUBSET Tx) /\ Len(kept) = k
      /\ DOMAIN kept = 1 .. k
      /\ \A i \in 1 .. k : kept[i] = c[i]
      /\ DOMAIN c = 1 .. Len(c) /\ Len(c) \in Nat
    OBVIOUS
<1>2. /\ DOMAIN rest = 1 .. Len(c) - k
      /\ \A i \in 1 .. Len(c) - k : rest[i] = c[k + i]
    OBVIOUS
<1> HIDE DEF kept, rest
<1>3. ConfirmedIn(kept) \subseteq ConfirmedIn(c)
    BY <1>1 DEF ConfirmedIn
<1>4. ASSUME NEW t \in ConfirmedIn(rest) PROVE \E j \in DOMAIN c : j > k /\ t \in c[j]
    <2>1. PICK i \in DOMAIN rest : t \in rest[i]
        BY <1>4 DEF ConfirmedIn
    <2>2. k + i \in DOMAIN c /\ k + i > k /\ rest[i] = c[k + i]
        BY <1>1, <1>2
    <2>3. QED
        BY <2>1, <2>2
<1>5. ConfirmedIn(rest) \subseteq ConfirmedIn(c)
    BY <1>4 DEF ConfirmedIn
<1>6. ConfirmedIn(c) \subseteq Tx
    BY DEF ConfirmedIn
<1>7. ConflictFree(ConfirmedIn(rest)) /\ ConflictFree(ConfirmedIn(kept))
    BY <1>3, <1>5 DEF ChainOK, ConflictFree
<1>8. ConfirmedIn(rest) \cap ConfirmedIn(kept) = {}
    <2>1. SUFFICES ASSUME NEW t \in ConfirmedIn(rest), t \in ConfirmedIn(kept) PROVE FALSE
        OBVIOUS
    <2>2. PICK j \in DOMAIN c : j > k /\ t \in c[j]
        BY <1>4
    <2>3. PICK i \in DOMAIN kept : t \in kept[i]
        BY <2>1 DEF ConfirmedIn
    <2>4. i \in DOMAIN c /\ i <= k /\ t \in c[i] /\ i # j
        BY <1>1, <2>2, <2>3
    <2>5. QED
        BY <2>2, <2>4 DEF ChainOK
<1>9. ChainOK(kept)
    BY <1>1, <1>7 DEF ChainOK
<1>10. QED
    BY <1>1, <1>3, <1>5, <1>6, <1>7, <1>8, <1>9 DEF kept, rest

\* Nothing of the chain is lost between the two parts.
LEMMA CutAll ==
    ASSUME NEW c \in Seq(SUBSET Tx), NEW k \in Nat, k < Len(c)
    PROVE  ConfirmedIn(c) \subseteq ConfirmedIn(SubSeq(c, 1, k)) \cup ConfirmedIn(SubSeq(c, k + 1, Len(c)))
<1> DEFINE kept == SubSeq(c, 1, k)
<1> DEFINE rest == SubSeq(c, k + 1, Len(c))
<1>1. /\ DOMAIN kept = 1 .. k /\ \A i \in 1 .. k : kept[i] = c[i]
      /\ DOMAIN rest = 1 .. Len(c) - k /\ \A i \in 1 .. Len(c) - k : rest[i] = c[k + i]
      /\ DOMAIN c = 1 .. Len(c) /\ Len(c) \in Nat
    OBVIOUS
<1> HIDE DEF kept, rest
<1>2. ASSUME NEW t, NEW i \in DOMAIN c, t \in c[i]
      PROVE  t \in ConfirmedIn(kept) \cup ConfirmedIn(rest)
    <2>1. CASE i <= k
        <3>1. i \in DOMAIN kept /\ kept[i] = c[i]
            BY <1>1, <2>1
        <3>2. QED
            BY <1>2, <3>1 DEF ConfirmedIn
    <2>2. CASE i > k
        <3>1. i - k \in DOMAIN rest /\ rest[i - k] = c[i]
            BY <1>1, <2>2
        <3>2. QED
            BY <1>2, <3>1 DEF ConfirmedIn
    <2>3. QED
        BY <1>1, <2>1, <2>2
<1>3. QED
    BY <1>2 DEF ConfirmedIn, kept, rest

\* What Reorganize makes of the pool.
LEMMA ReorganizeKeeps ==
    ASSUME NEW p, PoolType(p), Consistent(p), NEW old \in SUBSET Tx, ConflictFree(old),
           NEW new \in SUBSET Tx
    PROVE  LET q == PoolAfterReorganize(p, old, new)
           IN  /\ PoolType(q)
               /\ Consistent(q)
               /\ q.mapTx \subseteq (p.mapTx \cup old) \ new
               /\ \A t \in q.mapTx : Ins[t] \cap SpentBy(new) = {}
<1> DEFINE back == old \ (Gen \cup Nonstandard)
<1> DEFINE p1 == Resurrect(p, back)
<1> DEFINE p2 == RemoveTx(p1, new)
<1> DEFINE p3 == RemoveConflicts(p2, new)
<1>1. back \in SUBSET Tx /\ back \subseteq old /\ ConflictFree(back)
    BY DEF ConflictFree
<1>1a. PoolAfterReorganize(p, old, new) = p3
    BY DEF PoolAfterReorganize
<1> HIDE DEF back
<1>2. PoolType(p1) /\ Consistent(p1) /\ p1.mapTx \subseteq p.mapTx \cup back
    BY <1>1, ResurrectKeeps
<1> HIDE DEF p1
<1>3. PoolType(p2) /\ Consistent(p2) /\ p2.mapTx = p1.mapTx \ new
    BY <1>2, RemoveKeeps
<1> HIDE DEF p2
<1>4. /\ PoolType(p3) /\ Consistent(p3)
      /\ p3.mapTx \subseteq p2.mapTx
      /\ p2.mapTx \cap new = {} => \A t \in p3.mapTx : Ins[t] \cap SpentBy(new) = {}
    BY <1>3, RemoveConflictsKeeps
<1> HIDE DEF p3
<1>5. QED
    BY <1>1, <1>1a, <1>2, <1>3, <1>4
-----------------------------------------------------------------------------
\* IInv holds initially.
LEMMA InitIInv == Init => IInv
<1> SUFFICES ASSUME Init PROVE IInv
    OBVIOUS
<1>1. TypeOK
    BY DEF Init, TypeOK, EmptyPool
<1>2. PoolConsistent
    BY DEF Init, PoolConsistent, Consistent, EmptyPool
<1>3. ChainOK(chain) /\ PoolNotConfirmed
    BY DEF Init, ChainOK, PoolNotConfirmed, ConflictFree, ConfirmedIn, EmptyPool
<1>4. IsFiniteSet(orphans) /\ OrphansBounded
    BY FS_EmptySet, PoolAssumption DEF Init, OrphansBounded
<1>5. OrphansIndexed
    BY DEF Init, OrphansIndexed
<1>6. QED
    BY <1>1, <1>2, <1>3, <1>4, <1>5 DEF IInv

\* A transaction that passes accept() leaves the pool part of IInv intact.
LEMMA AcceptKeeps ==
    ASSUME IInv, NEW t \in Tx, Accepts(t, TRUE), pool' = AddUnchecked(pool, t), UNCHANGED chain
    PROVE  PoolType(pool)' /\ PoolConsistent' /\ PoolNotConfirmed'
<1>1. Ins[t] \cap DOMAIN pool.mapNextTx = {} /\ t \notin Confirmed
    BY DEF Accepts, RefusedEarly
<1>2. PoolType(pool) /\ Consistent(pool)
    BY DEF IInv, TypeOK, PoolConsistent, PoolType
<1>3. /\ PoolType(AddUnchecked(pool, t)) /\ Consistent(AddUnchecked(pool, t))
      /\ AddUnchecked(pool, t).mapTx = pool.mapTx \cup {t}
    BY <1>1, <1>2, AddKeeps
<1>4. Confirmed' = Confirmed
    BY DEF Confirmed
<1>5. QED
    BY <1>1, <1>3, <1>4 DEF IInv, PoolConsistent, PoolNotConfirmed, PoolType

\* EraseOrphanTx keeps the orphan index exact and the map within its bound.
LEMMA EraseKeeps ==
    ASSUME IInv, NEW S, EraseOrphans(S)
    PROVE  /\ orphans' \subseteq Tx /\ byPrev' \in [Tx -> SUBSET Tx]
           /\ OrphansIndexed' /\ OrphansBounded' /\ IsFiniteSet(orphans)'
<1>1. orphans' \subseteq orphans
    BY DEF EraseOrphans
<1>2. /\ IsFiniteSet(orphans')
      /\ Cardinality(orphans') <= Cardinality(orphans)
      /\ Cardinality(orphans') \in Nat /\ Cardinality(orphans) \in Nat
    BY <1>1, FS_Subset, FS_CardinalityType DEF IInv
<1>3. OrphansBounded'
    BY <1>2, PoolAssumption DEF IInv, OrphansBounded
<1>4. OrphansIndexed'
    BY DEF IInv, OrphansIndexed, EraseOrphans
<1>5. orphans' \subseteq Tx /\ byPrev' \in [Tx -> SUBSET Tx]
    BY DEF IInv, TypeOK, EraseOrphans
<1>6. QED
    BY <1>2, <1>3, <1>4, <1>5

\* AddOrphanTx with LimitOrphanTxSize does so as well.
LEMMA StoreKeeps ==
    ASSUME IInv, NEW t \in Tx, StoreOrphan(t)
    PROVE  /\ orphans' \subseteq Tx /\ byPrev' \in [Tx -> SUBSET Tx]
           /\ OrphansIndexed' /\ OrphansBounded' /\ IsFiniteSet(orphans)'
<1>1. PICK gone \in SUBSET (orphans \cup {t}) :
          /\ Cardinality((orphans \cup {t}) \ gone) <= MaxOrphans
          /\ orphans' = (orphans \cup {t}) \ gone
          /\ byPrev' = [h \in Tx |-> (byPrev[h] \cup IF h \in Prevs(t) THEN {t} ELSE {})
                                     \ {g \in gone : h \in Prevs(g)}]
    BY DEF StoreOrphan
<1>2. IsFiniteSet(orphans \cup {t})
    BY FS_AddElement DEF IInv
<1>3. IsFiniteSet(orphans')
    BY <1>1, <1>2, FS_Subset
<1>4. OrphansIndexed'
    <2> SUFFICES ASSUME NEW h \in Tx
                 PROVE  byPrev'[h] = {o \in orphans' : h \in Prevs(o)}
        BY DEF OrphansIndexed
    <2>1. byPrev[h] = {o \in orphans : h \in Prevs(o)}
        BY DEF IInv, OrphansIndexed
    <2>2. byPrev'[h] = (byPrev[h] \cup IF h \in Prevs(t) THEN {t} ELSE {})
                       \ {g \in gone : h \in Prevs(g)}
        BY <1>1
    <2>3. QED
        BY <1>1, <2>1, <2>2
<1>5. orphans' \subseteq Tx /\ byPrev' \in [Tx -> SUBSET Tx]
    BY <1>1 DEF IInv, TypeOK
<1>6. QED
    BY <1>1, <1>3, <1>4, <1>5 DEF OrphansBounded

\* Every step keeps IInv.
LEMMA NextIInv == IInv /\ [Next]_vars => IInv'
<1> SUFFICES ASSUME IInv, [Next]_vars PROVE IInv'
    OBVIOUS
<1> DEFINE OrphanPart == orphans \subseteq Tx /\ byPrev \in [Tx -> SUBSET Tx]
                         /\ OrphansIndexed /\ OrphansBounded /\ IsFiniteSet(orphans)
<1> DEFINE PoolPart == PoolType(pool) /\ PoolConsistent /\ PoolNotConfirmed
<1> DEFINE ChainPart == chain \in Seq(SUBSET Tx) /\ ChainOK(chain)
<1> DEFINE HandlerPart == /\ vWorkQueue \in Seq(Tx) /\ pos \in Nat
                          /\ todo \subseteq Tx /\ vEraseQueue \subseteq Tx
                          /\ walletTold \subseteq Tx
<1>a. OrphanPart /\ PoolPart /\ ChainPart /\ HandlerPart
    BY DEF IInv, TypeOK, PoolType
<1>b. OrphanPart' /\ PoolPart' /\ ChainPart' /\ HandlerPart' => IInv'
    BY DEF IInv, TypeOK, PoolType
<1>c. UNCHANGED <<orphans, byPrev>> => OrphanPart'
    BY <1>a DEF OrphansIndexed, OrphansBounded
<1>d. UNCHANGED <<pool, chain>> => PoolPart'
    BY <1>a DEF PoolConsistent, PoolNotConfirmed, Confirmed
<1>e. UNCHANGED chain => ChainPart'
    BY <1>a
<1>1. ASSUME NEW t \in Tx, ReceiveAccepted(t) PROVE IInv'
    <2>1. PoolPart'
        BY <1>1, AcceptKeeps DEF ReceiveAccepted
    <2>2. HandlerPart'
        BY <1>1, <1>a DEF ReceiveAccepted
    <2>3. QED
        BY <1>1, <1>b, <1>c, <1>e, <2>1, <2>2 DEF ReceiveAccepted
<1>2. ASSUME NEW t \in Tx, ReceiveOrphan(t) PROVE IInv'
    <2>1. OrphanPart'
        BY <1>2, StoreKeeps DEF ReceiveOrphan
    <2>2. HandlerPart'
        BY <1>2, <1>a DEF ReceiveOrphan, handler
    <2>3. QED
        BY <1>2, <1>b, <1>d, <1>e, <2>1, <2>2 DEF ReceiveOrphan
<1>3. ASSUME NEW t \in Tx, SendRawTransaction(t) PROVE IInv'
    <2>1. PoolPart'
        BY <1>3, AcceptKeeps DEF SendRawTransaction
    <2>2. HandlerPart'
        BY <1>3, <1>a DEF SendRawTransaction, handler
    <2>3. QED
        BY <1>3, <1>b, <1>c, <1>e, <2>1, <2>2 DEF SendRawTransaction
<1>4. ASSUME NEW o \in Tx, OrphanAccepted(o) PROVE IInv'
    <2>1. PoolPart'
        BY <1>4, AcceptKeeps DEF OrphanAccepted
    <2>2. vWorkQueue[1] \in Tx
        BY <1>4, <1>a DEF OrphanAccepted, Idle
    <2>3. HandlerPart'
        BY <1>4, <1>a, <2>2 DEF OrphanAccepted
    <2>4. QED
        BY <1>4, <1>b, <1>c, <1>e, <2>1, <2>3 DEF OrphanAccepted
<1>5. ASSUME NEW o \in Tx, NEW ok \in BOOLEAN, OrphanRefused(o, ok) PROVE IInv'
    <2>1. HandlerPart'
        BY <1>5, <1>a DEF OrphanRefused
    <2>2. QED
        BY <1>5, <1>b, <1>c, <1>d, <1>e, <2>1 DEF OrphanRefused
<1>6. ASSUME NextEntry PROVE IInv'
    <2>1. vWorkQueue[pos + 1] \in Tx
        BY <1>6, <1>a DEF NextEntry
    <2>2. HandlerPart'
        BY <1>6, <1>a, <2>1 DEF NextEntry
    <2>3. QED
        BY <1>6, <1>b, <1>c, <1>d, <1>e, <2>2 DEF NextEntry
<1>7. ASSUME FinishHandler PROVE IInv'
    <2>1. OrphanPart'
        BY <1>7, EraseKeeps DEF FinishHandler
    <2>2. HandlerPart'
        BY <1>7, <1>a DEF FinishHandler
    <2>3. QED
        BY <1>7, <1>b, <1>d, <1>e, <2>1, <2>2 DEF FinishHandler
<1>8. ASSUME NEW B \in SUBSET Tx, ExtendChain(B) PROVE IInv'
    <2>1. /\ chain' = Append(chain, B)
          /\ Connectable(ConfirmedIn(chain), B)
          /\ pool' = RemoveTx(pool, B)
        BY <1>8 DEF ExtendChain, Confirmed
    <2>2. ChainPart' /\ ConfirmedIn(chain') = ConfirmedIn(chain) \cup B
        BY <1>a, <2>1, ConnectKeeps
    <2>3. /\ PoolType(RemoveTx(pool, B)) /\ Consistent(RemoveTx(pool, B))
          /\ RemoveTx(pool, B).mapTx = pool.mapTx \ B
        BY <1>a, RemoveKeeps DEF PoolConsistent
    <2>4. PoolPart'
        BY <1>a, <2>1, <2>2, <2>3 DEF PoolConsistent, PoolNotConfirmed, Confirmed, PoolType
    <2>5. HandlerPart'
        BY <1>8, <1>a DEF ExtendChain, handler
    <2>6. QED
        BY <1>8, <1>b, <1>c, <2>2, <2>4, <2>5 DEF ExtendChain
<1>9. ASSUME NEW k \in 0 .. MaxChain, NEW B \in SUBSET Tx, Reorganize(k, B) PROVE IInv'
    <2> DEFINE kept == SubSeq(chain, 1, k)
    <2> DEFINE old == ConfirmedIn(SubSeq(chain, k + 1, Len(chain)))
    <2>1. /\ chain' = Append(kept, B)
          /\ Connectable(ConfirmedIn(kept), B)
          /\ pool' = PoolAfterReorganize(pool, old, B)
          /\ k < Len(chain) /\ k \in Nat
        BY <1>9 DEF Reorganize
    <2>2. /\ kept \in Seq(SUBSET Tx) /\ ChainOK(kept)
          /\ old \in SUBSET Tx /\ ConflictFree(old)
          /\ ConfirmedIn(kept) \subseteq ConfirmedIn(chain)
          /\ old \cap ConfirmedIn(kept) = {}
        BY <1>a, <2>1, CutKeeps
    <2> HIDE DEF kept, old
    <2>3. ChainPart' /\ ConfirmedIn(chain') = ConfirmedIn(kept) \cup B
        BY <2>1, <2>2, ConnectKeeps
    <2>4. /\ PoolType(pool') /\ Consistent(pool')
          /\ pool'.mapTx \subseteq (pool.mapTx \cup old) \ B
        BY <1>a, <2>1, <2>2, ReorganizeKeeps DEF PoolConsistent
    <2>5. pool'.mapTx \cap ConfirmedIn(chain') = {}
        BY <1>a, <2>2, <2>3, <2>4 DEF PoolNotConfirmed, Confirmed
    <2>6. PoolPart'
        BY <2>4, <2>5 DEF PoolConsistent, PoolNotConfirmed, Confirmed, PoolType
    <2>7. HandlerPart'
        BY <1>9, <1>a DEF Reorganize, handler
    <2>8. QED
        BY <1>9, <1>b, <1>c, <2>3, <2>6, <2>7 DEF Reorganize
<1>10. CASE UNCHANGED vars
    <2>1. HandlerPart'
        BY <1>10, <1>a DEF vars
    <2>2. QED
        BY <1>10, <1>b, <1>c, <1>d, <1>e, <2>1 DEF vars
<1>11. QED
    BY <1>1, <1>2, <1>3, <1>4, <1>5, <1>6, <1>7, <1>8, <1>9, <1>10 DEF Next, HandlerStep

\* The inductive invariant holds in every reachable state.
LEMMA Invariance == Spec => []IInv
BY InitIInv, NextIInv, PTL DEF Spec

\* Types of the pool, the orphan maps and the handler's queues.
THEOREM TypeCorrect == Spec => []TypeOK
BY Invariance, PTL DEF IInv

\* The pool never holds two transactions that spend the same output, and
\* mapNextTx is exact, after any history of accepts, blocks and reorganisations.
THEOREM PoolIsConsistent == Spec => []PoolConsistent
BY Invariance, PTL DEF IInv

\* Nothing in the pool is also in the best chain.
THEOREM PoolIsUnconfirmed == Spec => []PoolNotConfirmed
BY Invariance, PTL DEF IInv

\* mapOrphanTransactionsByPrev lists every orphan under each of its parents.
THEOREM OrphanIndexIsExact == Spec => []OrphansIndexed
BY Invariance, PTL DEF IInv

\* mapOrphanTransactions never exceeds MAX_ORPHAN_TRANSACTIONS.
THEOREM OrphansAreBounded == Spec => []OrphansBounded
BY Invariance, PTL DEF IInv

\* The chain does not get longer only by Reorganize.
LEMMA ReorganizesOnly ==
    ASSUME IInv, [Next]_vars, Reorganizes
    PROVE  \E k \in 0 .. MaxChain, B \in SUBSET Tx : Reorganize(k, B)
<1>1. ASSUME NEW B \in SUBSET Tx, ExtendChain(B) PROVE FALSE
    <2>1. Len(chain') = Len(chain) + 1 /\ Len(chain) \in Nat
        BY <1>1 DEF ExtendChain, IInv, TypeOK
    <2>2. QED
        BY <2>1 DEF Reorganizes
<1>2. QED
    BY <1>1 DEF Next, HandlerStep, vars, Reorganizes, ReceiveAccepted, ReceiveOrphan,
        SendRawTransaction, OrphanAccepted, OrphanRefused, NextEntry, FinishHandler

\* After a reorganisation no pool transaction spends what the new block spends.
THEOREM ReorganizeIsClean == Spec => ReorganizeClearsConflicts
<1> DEFINE A == Reorganizes =>
        \A t \in pool'.mapTx : Ins[t] \cap SpentBy(chain'[Len(chain')]) = {}
<1>1. ASSUME IInv, [Next]_vars PROVE [A]_vars
    <2> SUFFICES ASSUME Reorganizes
                 PROVE  \A t \in pool'.mapTx : Ins[t] \cap SpentBy(chain'[Len(chain')]) = {}
        OBVIOUS
    <2>1. chain \in Seq(SUBSET Tx) /\ ChainOK(chain) /\ PoolType(pool) /\ Consistent(pool)
        BY <1>1 DEF IInv, TypeOK, PoolConsistent, PoolType
    <2>4. PICK k \in 0 .. MaxChain, B \in SUBSET Tx : Reorganize(k, B)
        BY <1>1, ReorganizesOnly
    <2> DEFINE kept == SubSeq(chain, 1, k)
    <2> DEFINE old == ConfirmedIn(SubSeq(chain, k + 1, Len(chain)))
    <2>5. /\ chain' = Append(kept, B)
          /\ pool' = PoolAfterReorganize(pool, old, B)
          /\ k < Len(chain) /\ k \in Nat
        BY <2>4 DEF Reorganize
    <2>6. kept \in Seq(SUBSET Tx) /\ old \in SUBSET Tx /\ ConflictFree(old)
        BY <2>1, <2>5, CutKeeps
    <2> HIDE DEF kept, old
    <2>7. chain'[Len(chain')] = B
        BY <2>5, <2>6
    <2>8. \A t \in pool'.mapTx : Ins[t] \cap SpentBy(B) = {}
        BY <2>1, <2>5, <2>6, ReorganizeKeeps
    <2>9. QED
        BY <2>7, <2>8
<1>2. QED
    BY <1>1, Invariance, PTL DEF Spec, ReorganizeClearsConflicts
-----------------------------------------------------------------------------
\* What remove(t, TRUE) takes away besides what it was called for depends on
\* something else that it takes away.
LEMMA DependentsDepend ==
    ASSUME NEW p, PoolType(p), Consistent(p), NEW R, NEW t \in Dependents(p, R), t \notin R
    PROVE  \E u \in Dependents(p, R) : u # t /\ u \in Prevs(t)
<1> DEFINE D == Dependents(p, R)
<1> DEFINE E == D \ {t}
<1>1. D \subseteq p.mapTx /\ R \cap p.mapTx \subseteq D
    BY DEF Dependents
<1>2. \A C \in SUBSET p.mapTx : R \cap p.mapTx \subseteq C /\ ClosedUnderSpends(p, C) => D \subseteq C
    BY DEF Dependents
<1>3. ClosedUnderSpends(p, D)
    <2> SUFFICES ASSUME NEW u \in D, NEW o \in Outs(u) \cap DOMAIN p.mapNextTx
                 PROVE  p.mapNextTx[o] \in D
        BY DEF ClosedUnderSpends
    <2>1. p.mapNextTx[o] \in p.mapTx
        BY DEF Consistent
    <2>2. ASSUME NEW C \in SUBSET p.mapTx, R \cap p.mapTx \subseteq C, ClosedUnderSpends(p, C)
          PROVE  p.mapNextTx[o] \in C
        BY <1>2, <2>2 DEF ClosedUnderSpends
    <2>3. QED
        BY <2>1, <2>2 DEF Dependents
<1>4. E \in SUBSET p.mapTx /\ R \cap p.mapTx \subseteq E
    BY <1>1
<1>5. ~ClosedUnderSpends(p, E)
    BY <1>2, <1>4
<1>6. PICK u \in E : \E o \in Outs(u) \cap DOMAIN p.mapNextTx : p.mapNextTx[o] \notin E
    BY <1>5 DEF ClosedUnderSpends
<1>6a. PICK o \in Outs(u) \cap DOMAIN p.mapNextTx : p.mapNextTx[o] \notin E
    BY <1>6
<1>7. p.mapNextTx[o] = t
    BY <1>3, <1>6a DEF ClosedUnderSpends
<1>8. o \in Ins[t]
    BY <1>6a, <1>7 DEF Consistent
<1>9. o[1] = u /\ u \in Tx
    BY <1>1, <1>6 DEF Outs, PoolType
<1>10. u \in Prevs(t)
    BY <1>8, <1>9 DEF Prevs
<1>11. QED
    BY <1>6, <1>10

\* What Reorganize does not put back, or puts back and removes again, has lost an
\* input to the new branch or to the pool, or a transaction it depends on.
LEMMA ReorganizeLoses ==
    ASSUME NEW p, PoolType(p), Consistent(p), NEW old \in SUBSET Tx, ConflictFree(old),
           p.mapTx \cap old = {}, NEW new \in SUBSET Tx,
           NEW t \in old \ (new \cup Gen \cup Nonstandard),
           t \notin PoolAfterReorganize(p, old, new).mapTx
    PROVE  \/ Ins[t] \cap SpentBy(new) # {}
           \/ Ins[t] \cap DOMAIN p.mapNextTx # {}
           \/ \E h \in Prevs(t) : /\ h \in (p.mapTx \cup old) \ new
                                  /\ h \notin PoolAfterReorganize(p, old, new).mapTx
<1> SUFFICES ASSUME Ins[t] \cap SpentBy(new) = {}, Ins[t] \cap DOMAIN p.mapNextTx = {}
             PROVE  \E h \in Prevs(t) : /\ h \in (p.mapTx \cup old) \ new
                                        /\ h \notin PoolAfterReorganize(p, old, new).mapTx
    OBVIOUS
<1> DEFINE back == old \ (Gen \cup Nonstandard)
<1> DEFINE p1 == Resurrect(p, back)
<1> DEFINE p2 == RemoveTx(p1, new)
<1> DEFINE spent == UNION {{<<o, u>> : o \in Ins[u]} : u \in new}
<1> DEFINE rivals == {p2.mapNextTx[s[1]] : s \in {s \in spent : /\ s[1] \in DOMAIN p2.mapNextTx
                                                                /\ p2.mapNextTx[s[1]] # s[2]}}
<1> DEFINE D == Dependents(p2, rivals)
<1>1. back \in SUBSET Tx /\ ConflictFree(back) /\ t \in back
    BY DEF ConflictFree
<1>2. PoolAfterReorganize(p, old, new) = RemoveTx(p2, D)
    BY DEF PoolAfterReorganize, RemoveConflicts, RemoveRecursive
<1>3. back \subseteq old
    OBVIOUS
<1> HIDE DEF back
<1>4. PoolType(p1) /\ Consistent(p1) /\ p1.mapTx \subseteq p.mapTx \cup back
    BY <1>1, ResurrectKeeps
<1>5. t \in p1.mapTx
    BY <1>1, <1>3 DEF Resurrect
<1> HIDE DEF p1
<1>6. PoolType(p2) /\ Consistent(p2) /\ p2.mapTx = p1.mapTx \ new
    BY <1>4, RemoveKeeps
<1> HIDE DEF p2
<1>7. RemoveTx(p2, D).mapTx = p2.mapTx \ D
    BY <1>6, RemoveKeeps
<1>8. ASSUME t \in rivals PROVE FALSE
    <2>1. PICK s \in spent : s[1] \in DOMAIN p2.mapNextTx /\ p2.mapNextTx[s[1]] = t
        BY <1>8
    <2>2. s[1] \in Ins[t]
        BY <1>6, <2>1 DEF Consistent
    <2>3. s[1] \in SpentBy(new)
        BY DEF SpentBy
    <2>4. QED
        BY <2>2, <2>3
<1> HIDE DEF rivals
<1>9. t \in D
    BY <1>2, <1>5, <1>6, <1>7
<1>10. PICK u \in D : u # t /\ u \in Prevs(t)
    BY <1>6, <1>8, <1>9, DependentsDepend
<1>11. u \in p2.mapTx
    BY <1>10 DEF Dependents
<1>12. QED
    BY <1>2, <1>3, <1>4, <1>6, <1>7, <1>10, <1>11

\* A reorganisation loses a loose transaction of the old branch only to a conflict, its
\* own or one of a transaction it depends on.
THEOREM LostOnlyToConflicts == Spec => ReorganizeKeepsTransactions
<1> DEFINE A == Reorganizes =>
        \A t \in Confirmed \ (Confirmed' \cup Gen \cup Nonstandard) :
            \/ t \in pool'.mapTx
            \/ Ins[t] \cap SpentBy(chain'[Len(chain')]) # {}
            \/ Ins[t] \cap DOMAIN pool.mapNextTx # {}
            \/ \E h \in Prevs(t) : h \notin pool'.mapTx \cup Confirmed'
<1>1. ASSUME IInv, [Next]_vars PROVE [A]_vars
    <2> SUFFICES ASSUME Reorganizes,
                        NEW t \in Confirmed \ (Confirmed' \cup Gen \cup Nonstandard),
                        t \notin pool'.mapTx
                 PROVE  \/ Ins[t] \cap SpentBy(chain'[Len(chain')]) # {}
                        \/ Ins[t] \cap DOMAIN pool.mapNextTx # {}
                        \/ \E h \in Prevs(t) : h \notin pool'.mapTx \cup Confirmed'
        OBVIOUS
    <2>1. PICK k \in 0 .. MaxChain, B \in SUBSET Tx : Reorganize(k, B)
        BY <1>1, ReorganizesOnly
    <2>2. /\ chain \in Seq(SUBSET Tx) /\ ChainOK(chain) /\ PoolType(pool) /\ Consistent(pool)
          /\ pool.mapTx \cap ConfirmedIn(chain) = {}
        BY <1>1 DEF IInv, TypeOK, PoolConsistent, PoolType, PoolNotConfirmed, Confirmed
    <2> DEFINE kept == SubSeq(chain, 1, k)
    <2> DEFINE old == ConfirmedIn(SubSeq(chain, k + 1, Len(chain)))
    <2>3. /\ chain' = Append(kept, B)
          /\ Connectable(ConfirmedIn(kept), B)
          /\ pool' = PoolAfterReorganize(pool, old, B)
          /\ k < Len(chain) /\ k \in Nat
        BY <2>1 DEF Reorganize
    <2>4. /\ kept \in Seq(SUBSET Tx) /\ ChainOK(kept) /\ old \in SUBSET Tx /\ ConflictFree(old)
          /\ ConfirmedIn(kept) \subseteq ConfirmedIn(chain) /\ old \subseteq ConfirmedIn(chain)
          /\ old \cap ConfirmedIn(kept) = {}
        BY <2>2, <2>3, CutKeeps
    <2>5. ConfirmedIn(chain) \subseteq ConfirmedIn(kept) \cup old
        BY <2>2, <2>3, CutAll
    <2> HIDE DEF kept, old
    <2>6. ConfirmedIn(chain') = ConfirmedIn(kept) \cup B
        BY <2>3, <2>4, ConnectKeeps
    <2>7. chain'[Len(chain')] = B
        BY <2>3, <2>4
    <2>8. t \in old \ (B \cup Gen \cup Nonstandard)
        BY <2>5, <2>6 DEF Confirmed
    <2>9. \/ Ins[t] \cap SpentBy(B) # {}
          \/ Ins[t] \cap DOMAIN pool.mapNextTx # {}
          \/ \E h \in Prevs(t) : h \in (pool.mapTx \cup old) \ B /\ h \notin pool'.mapTx
        <3>1. pool.mapTx \cap old = {} /\ t \notin PoolAfterReorganize(pool, old, B).mapTx
            BY <2>2, <2>3, <2>4
        <3>2. QED
            BY <2>2, <2>3, <2>4, <2>8, <3>1, ReorganizeLoses
    <2>10. \A h \in (pool.mapTx \cup old) \ B : h \notin Confirmed'
        BY <2>2, <2>4, <2>6 DEF Confirmed
    <2>11. QED
        BY <2>7, <2>9, <2>10
<1>2. QED
    BY <1>1, Invariance, PTL DEF Spec, ReorganizeKeepsTransactions
-----------------------------------------------------------------------------
\* The handler at entry pos of its queue: an orphan that spends an output of an entry
\* dealt with is still to be looked at for the present entry, will be erased, misses
\* an input, or waits for a later entry, and only the last two can change.
Settled(o) ==
    \/ o \in vEraseQueue \/ o \in todo
    \/ \E h \in Prevs(o) : ~Found(h)
    \/ \E j \in pos + 1 .. Len(vWorkQueue) : vWorkQueue[j] \in Prevs(o)

QueueInv ==
    ~Idle => /\ pos \in 1 .. Len(vWorkQueue)
             /\ \A o \in orphans, i \in 1 .. pos : vWorkQueue[i] \in Prevs(o) => Settled(o)

\* An orphan whose inputs are not all known misses one of the transactions it names.
LEMMA MissingIsPrev ==
    ASSUME NEW o \in Tx, MissingInputs(o)
    PROVE  \E h \in Prevs(o) : ~Found(h)
<1>1. PICK i \in Ins[o] : ~Found(i[1])
    BY DEF MissingInputs
<1>2. i[1] \in Tx
    BY <1>1, TxAssumption DEF Found, Outpoint
<1>3. QED
    BY <1>1, <1>2 DEF Prevs

LEMMA NextQueueInv == IInv /\ QueueInv /\ [Next]_vars => QueueInv'
<1> SUFFICES ASSUME IInv, QueueInv, [Next]_vars PROVE QueueInv'
    OBVIOUS
<1>a. /\ vWorkQueue \in Seq(Tx) /\ pos \in Nat /\ orphans \subseteq Tx
      /\ \A h \in Tx : byPrev[h] = {o \in orphans : h \in Prevs(o)}
    BY DEF IInv, TypeOK, OrphansIndexed
<1>1. ASSUME NEW t \in Tx, ReceiveAccepted(t) PROVE QueueInv'
    <2>1. /\ vWorkQueue' = <<t>> /\ pos' = 1 /\ todo' = byPrev[t] /\ orphans' = orphans
        BY <1>1 DEF ReceiveAccepted
    <2>2. Len(vWorkQueue') = 1 /\ vWorkQueue'[1] = t
        BY <2>1
    <2>3. ASSUME NEW o \in orphans', NEW i \in 1 .. pos', vWorkQueue'[i] \in Prevs(o)
          PROVE  Settled(o)'
        <3>1. i = 1
            BY <2>1
        <3>2. o \in todo'
            BY <1>a, <2>1, <2>2, <2>3, <3>1
        <3>3. QED
            BY <3>2 DEF Settled
    <2>4. pos' \in 1 .. Len(vWorkQueue')
        BY <2>1, <2>2
    <2>5. QED
        BY <2>3, <2>4 DEF QueueInv
<1>2. ASSUME Idle, Idle' PROVE QueueInv'
    BY <1>2 DEF QueueInv
<1>3. ASSUME NEW p \in Tx, OrphanAccepted(p) PROVE QueueInv'
    <2>1. /\ vWorkQueue' = Append(vWorkQueue, p) /\ vEraseQueue' = vEraseQueue \cup {p}
          /\ todo' = todo \ {p} /\ pos' = pos /\ orphans' = orphans /\ chain' = chain
          /\ pool'.mapTx = pool.mapTx \cup {p} /\ ~Idle
        BY <1>3 DEF OrphanAccepted, AddUnchecked
    <2>2. /\ Len(vWorkQueue') = Len(vWorkQueue) + 1 /\ vWorkQueue'[Len(vWorkQueue) + 1] = p
          /\ \A i \in 1 .. Len(vWorkQueue) : vWorkQueue'[i] = vWorkQueue[i]
          /\ Len(vWorkQueue) \in Nat
        BY <1>a, <2>1
    <2>3. pos \in 1 .. Len(vWorkQueue)
        BY <2>1 DEF QueueInv
    <2>4. \A h : Found(h)' => Found(h) \/ h = p
        BY <2>1 DEF Found, Confirmed
    <2>5. ASSUME NEW o \in orphans', NEW i \in 1 .. pos', vWorkQueue'[i] \in Prevs(o)
          PROVE  Settled(o)'
        <3>1. vWorkQueue[i] \in Prevs(o) /\ i \in 1 .. pos
            BY <1>a, <2>1, <2>2, <2>3, <2>5
        <3>2. Settled(o)
            BY <2>1, <3>1 DEF QueueInv
        <3>3. CASE o \in vEraseQueue \/ o \in todo
            BY <2>1, <3>3 DEF Settled
        <3>4. CASE \E h \in Prevs(o) : ~Found(h)
            <4>1. PICK h \in Prevs(o) : ~Found(h)
                BY <3>4
            <4>2. CASE h = p
                <5>1. Len(vWorkQueue) + 1 \in pos' + 1 .. Len(vWorkQueue')
                    BY <1>a, <2>1, <2>2, <2>3
                <5>2. vWorkQueue'[Len(vWorkQueue) + 1] \in Prevs(o)
                    BY <2>2, <4>1, <4>2
                <5>3. QED
                    BY <5>1, <5>2 DEF Settled
            <4>3. CASE h # p
                BY <2>4, <4>1, <4>3 DEF Settled
            <4>4. QED
                BY <4>2, <4>3
        <3>5. CASE \E j \in pos + 1 .. Len(vWorkQueue) : vWorkQueue[j] \in Prevs(o)
            <4>1. PICK j \in pos + 1 .. Len(vWorkQueue) : vWorkQueue[j] \in Prevs(o)
                BY <3>5
            <4>2. j \in pos' + 1 .. Len(vWorkQueue') /\ vWorkQueue'[j] = vWorkQueue[j]
                BY <1>a, <2>1, <2>2, <2>3, <4>1
            <4>3. QED
                BY <4>1, <4>2 DEF Settled
        <3>6. QED
            BY <3>2, <3>3, <3>4, <3>5 DEF Settled
    <2>6. pos' \in 1 .. Len(vWorkQueue')
        BY <2>1, <2>2, <2>3
    <2>7. QED
        BY <2>5, <2>6 DEF QueueInv
<1>4. ASSUME NEW p \in Tx, NEW ok \in BOOLEAN, OrphanRefused(p, ok) PROVE QueueInv'
    <2>1. /\ vWorkQueue' = vWorkQueue /\ pos' = pos /\ orphans' = orphans /\ chain' = chain
          /\ todo' = todo \ {p} /\ pool' = pool /\ ~Idle
          /\ vEraseQueue' = IF MissingInputs(p) THEN vEraseQueue ELSE vEraseQueue \cup {p}
        BY <1>4 DEF OrphanRefused
    <2>2. \A h : Found(h)' <=> Found(h)
        BY <2>1 DEF Found, Confirmed
    <2>3. ASSUME NEW o \in orphans', NEW i \in 1 .. pos', vWorkQueue'[i] \in Prevs(o)
          PROVE  Settled(o)'
        <3>1. Settled(o)
            BY <2>1, <2>3 DEF QueueInv
        <3>2. CASE o = p
            <4>1. MissingInputs(p) => \E h \in Prevs(o) : ~Found(h)
                BY <3>2, MissingIsPrev
            <4>2. QED
                BY <2>1, <2>2, <3>2, <4>1 DEF Settled
        <3>3. CASE o # p
            <4>1. o \in vEraseQueue \/ o \in todo => o \in vEraseQueue' \/ o \in todo'
                BY <2>1, <3>3
            <4>2. QED
                BY <2>1, <2>2, <3>1, <4>1 DEF Settled
        <3>4. QED
            BY <3>2, <3>3
    <2>4. QED
        BY <2>1, <2>3 DEF QueueInv
<1>5. ASSUME NextEntry PROVE QueueInv'
    <2>1. /\ vWorkQueue' = vWorkQueue /\ pos' = pos + 1 /\ orphans' = orphans /\ chain' = chain
          /\ todo' = byPrev[vWorkQueue[pos + 1]] /\ pool' = pool /\ ~Idle /\ todo = {}
          /\ vEraseQueue' = vEraseQueue /\ pos < Len(vWorkQueue)
        BY <1>5 DEF NextEntry
    <2>2. \A h : Found(h)' <=> Found(h)
        BY <2>1 DEF Found, Confirmed
    <2>3. pos' \in 1 .. Len(vWorkQueue') /\ vWorkQueue[pos + 1] \in Tx
        BY <1>a, <2>1 DEF QueueInv
    <2>4. ASSUME NEW o \in orphans', NEW i \in 1 .. pos', vWorkQueue'[i] \in Prevs(o)
          PROVE  Settled(o)'
        <3>1. CASE vWorkQueue[pos + 1] \in Prevs(o)
            <4>1. o \in todo'
                BY <1>a, <2>1, <2>3, <3>1
            <4>2. QED
                BY <4>1 DEF Settled
        <3>2. CASE vWorkQueue[pos + 1] \notin Prevs(o)
            <4>1. i \in 1 .. pos
                BY <1>a, <2>1, <2>4, <3>2
            <4>2. Settled(o)
                BY <2>1, <2>4, <4>1 DEF QueueInv
            <4>3. CASE \E j \in pos + 1 .. Len(vWorkQueue) : vWorkQueue[j] \in Prevs(o)
                <5>1. PICK j \in pos + 1 .. Len(vWorkQueue) : vWorkQueue[j] \in Prevs(o)
                    BY <4>3
                <5>2. j \in pos' + 1 .. Len(vWorkQueue')
                    BY <1>a, <2>1, <3>2, <5>1
                <5>3. QED
                    BY <2>1, <5>1, <5>2 DEF Settled
            <4>4. QED
                BY <2>1, <2>2, <4>2, <4>3 DEF Settled
        <3>3. QED
            BY <3>1, <3>2
    <2>5. QED
        BY <2>3, <2>4 DEF QueueInv
<1>6. ASSUME UNCHANGED vars PROVE QueueInv'
    BY <1>6 DEF vars, QueueInv, Idle, Settled, Found, Confirmed
<1>7. FinishHandler => Idle'
    BY DEF FinishHandler, Idle
<1>8. ASSUME NEW t \in Tx, ReceiveOrphan(t) \/ SendRawTransaction(t) PROVE Idle /\ Idle'
    BY <1>8 DEF ReceiveOrphan, SendRawTransaction, handler, Idle
<1>9. ASSUME NEW B \in SUBSET Tx, ExtendChain(B) PROVE Idle /\ Idle'
    BY <1>9 DEF ExtendChain, handler, Idle
<1>10. ASSUME NEW k \in 0 .. MaxChain, NEW B \in SUBSET Tx, Reorganize(k, B) PROVE Idle /\ Idle'
    BY <1>10 DEF Reorganize, handler, Idle
<1>11. Idle' => QueueInv'
    BY DEF QueueInv
<1>12. QED
    BY <1>1, <1>3, <1>4, <1>5, <1>6, <1>7, <1>8, <1>9, <1>10, <1>11 DEF Next, HandlerStep

\* When the "tx" handler returns, every orphan of a transaction that it accepted still
\* misses an input: none is left behind for good.
THEOREM NoOrphanLeftBehind == Spec => OrphansResolved
<1> DEFINE A == FinishHandler =>
        \A o \in orphans', i \in DOMAIN vWorkQueue :
            vWorkQueue[i] \in Prevs(o) => \E h \in Prevs(o) : ~Found(h)
<1>1. Init => QueueInv
    BY DEF Init, QueueInv, Idle
<1>2. ASSUME IInv, QueueInv, [Next]_vars PROVE [A]_vars
    <2> SUFFICES ASSUME FinishHandler, NEW o \in orphans', NEW i \in DOMAIN vWorkQueue,
                        vWorkQueue[i] \in Prevs(o)
                 PROVE  \E h \in Prevs(o) : ~Found(h)
        OBVIOUS
    <2>1. /\ ~Idle /\ todo = {} /\ pos = Len(vWorkQueue) /\ orphans' = orphans \ vEraseQueue
        BY DEF FinishHandler, EraseOrphans
    <2>2. vWorkQueue \in Seq(Tx)
        BY <1>2 DEF IInv, TypeOK
    <2>3. i \in 1 .. pos /\ pos + 1 .. Len(vWorkQueue) = {}
        BY <2>1, <2>2
    <2>4. Settled(o)
        BY <1>2, <2>1, <2>3 DEF QueueInv
    <2>5. QED
        BY <2>1, <2>3, <2>4 DEF Settled
<1>3. QED
    BY <1>1, <1>2, Invariance, NextQueueInv, PTL DEF Spec, OrphansResolved
=============================================================================
