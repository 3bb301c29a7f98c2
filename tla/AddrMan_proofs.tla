--------------------------- MODULE AddrMan_proofs ---------------------------
(***************************************************************************)
(* The address manager for any addresses, sources, bucket functions and    *)
(* sizes: Check_ never finds an inconsistency, no bucket outgrows its      *)
(* size, a tried address is only ever evicted back to the new table, and   *)
(* peers.dat loses nothing.                                                *)
(***************************************************************************)
EXTENDS AddrMan, FiniteSetTheorems, WellFoundedInduction, TLAPS

-----------------------------------------------------------------------------
(***************************************************************************)
(* The inductive invariant, of a CAddrMan object m.  The new buckets are a *)
(* parameter V of their own: Add_ counts a reference before it puts the    *)
(* entry in the bucket, so that between the two V is what m.vvNew is about *)
(* to be.                                                                  *)
(***************************************************************************)
TriedOf(m) == {x \in DOMAIN m.mapInfo : m.mapInfo[x].fInTried}
Holding(V, x) == {b \in NewBucket : x \in V[b]}

\* The object has its fields, and its entries theirs.
Shape(m) ==
    /\ DOMAIN m = {"nIdCount", "mapInfo", "mapAddr", "vRandom", "nTried", "vvTried",
                   "nNew", "vvNew", "vSuccess"}
    /\ m.nIdCount \in 0 .. MaxId
    /\ \A x \in DOMAIN m.mapInfo : x \in 0 .. m.nIdCount - 1 /\ m.mapInfo[x] \in Info

\* mapAddr is the inverse of the addresses of the entries ...
AddrOK(m) ==
    /\ \A a \in DOMAIN m.mapAddr : /\ a \in Addr /\ m.mapAddr[a] \in DOMAIN m.mapInfo
                                   /\ m.mapInfo[m.mapAddr[a]].addr = a
    /\ \A x \in DOMAIN m.mapInfo : /\ m.mapInfo[x].addr \in DOMAIN m.mapAddr
                                   /\ m.mapAddr[m.mapInfo[x].addr] = x

\* ... and vRandom that of their positions.
RandomOK(m) ==
    /\ m.vRandom \in Seq(Nat)
    /\ \A i \in 1 .. Len(m.vRandom) : /\ m.vRandom[i] \in DOMAIN m.mapInfo
                                      /\ m.mapInfo[m.vRandom[i]].nRandomPos = i
    /\ \A x \in DOMAIN m.mapInfo : /\ m.mapInfo[x].nRandomPos \in 1 .. Len(m.vRandom)
                                   /\ m.vRandom[m.mapInfo[x].nRandomPos] = x

CountOK(m) ==
    /\ m.nTried = Cardinality(TriedOf(m))
    /\ m.nNew = Cardinality(DOMAIN m.mapInfo \ TriedOf(m))

\* An entry that is not tried is in as many new buckets as its nRefCount says.
RefAt(m, V, x) ==
    /\ m.mapInfo[x].nRefCount = Cardinality(Holding(V, x))
    /\ IF m.mapInfo[x].fInTried THEN m.mapInfo[x].nRefCount = 0
       ELSE m.mapInfo[x].nRefCount \in 1 .. ADDRMAN_NEW_BUCKETS_PER_ADDRESS
RefOK(m, V) ==
    /\ V \in [NewBucket -> SUBSET DOMAIN m.mapInfo]
    /\ \A x \in DOMAIN m.mapInfo : RefAt(m, V, x)

\* A tried entry is once in the bucket of its address, and there are no others.
TriedOK(m) ==
    /\ DOMAIN m.vvTried = TriedBucket
    /\ \A b \in TriedBucket :
        /\ m.vvTried[b] \in Seq(Nat)
        /\ \A i \in 1 .. Len(m.vvTried[b]) :
            /\ m.vvTried[b][i] \in DOMAIN m.mapInfo
            /\ m.mapInfo[m.vvTried[b][i]].fInTried
            /\ GetTriedBucket[m.mapInfo[m.vvTried[b][i]].addr] = b
            /\ \A j \in 1 .. Len(m.vvTried[b]) : m.vvTried[b][i] = m.vvTried[b][j] => i = j
    /\ \A x \in DOMAIN m.mapInfo : m.mapInfo[x].fInTried =>
        \E i \in 1 .. Len(m.vvTried[GetTriedBucket[m.mapInfo[x].addr]]) :
            m.vvTried[GetTriedBucket[m.mapInfo[x].addr]][i] = x

Bounded(m) ==
    /\ \A b \in TriedBucket : Len(m.vvTried[b]) <= ADDRMAN_TRIED_BUCKET_SIZE
    /\ \A b \in NewBucket : Cardinality(m.vvNew[b]) <= ADDRMAN_NEW_BUCKET_SIZE

Consistent(m, V) == Shape(m) /\ AddrOK(m) /\ RandomOK(m) /\ CountOK(m) /\ RefOK(m, V) /\ TriedOK(m)

IInv == Consistent(am, am.vvNew) /\ Bounded(am)
-----------------------------------------------------------------------------
\* The ids in use are finitely many naturals.
LEMMA IdsFinite ==
    ASSUME NEW m, Shape(m)
    PROVE  /\ IsFiniteSet(DOMAIN m.mapInfo) /\ DOMAIN m.mapInfo \in SUBSET Nat
           /\ Cardinality(DOMAIN m.mapInfo) <= m.nIdCount
  <1>1. m.nIdCount \in Nat /\ DOMAIN m.mapInfo \in SUBSET (0 .. m.nIdCount - 1)
    BY AddrManAssumption DEF Shape
  <1> DEFINE n == m.nIdCount - 1
  <1>2. IsFiniteSet(0 .. n) /\ Cardinality(0 .. n) = IF 0 > n THEN 0 ELSE n - 0 + 1
    <2>1. n \in Int
      BY <1>1
    <2> HIDE DEF n
    <2> QED
      BY <2>1, FS_Interval
  <1>3. Cardinality(0 .. n) = m.nIdCount
    BY <1>1, <1>2
  <1>4. /\ IsFiniteSet(DOMAIN m.mapInfo)
        /\ Cardinality(DOMAIN m.mapInfo) <= Cardinality(0 .. m.nIdCount - 1)
    BY <1>1, <1>2, FS_Subset
  <1> QED
    BY <1>1, <1>3, <1>4

\* The new buckets that hold an entry are finitely many.
LEMMA HoldingFinite ==
    ASSUME NEW V, NEW x
    PROVE  /\ IsFiniteSet(Holding(V, x)) /\ Cardinality(Holding(V, x)) \in Nat
           /\ Cardinality(Holding(V, x)) = 0 <=> Holding(V, x) = {}
  <1>1. Holding(V, x) \in SUBSET NewBucket
    BY DEF Holding
  <1>2. IsFiniteSet(Holding(V, x))
    BY <1>1, FS_Subset, AddrManAssumption
  <1> QED
    BY <1>2, FS_CardinalityType, FS_EmptySet

\* What an operation leaves alone: the entries up to their positions, or all but
\* the entries.
SameEntries(m, w) ==
    /\ DOMAIN w.mapInfo = DOMAIN m.mapInfo
    /\ \A x \in DOMAIN m.mapInfo :
        /\ w.mapInfo[x].addr = m.mapInfo[x].addr /\ w.mapInfo[x].source = m.mapInfo[x].source
        /\ w.mapInfo[x].nRefCount = m.mapInfo[x].nRefCount
        /\ w.mapInfo[x].fInTried = m.mapInfo[x].fInTried
SameTables(m, w) ==
    /\ w.nIdCount = m.nIdCount /\ w.mapAddr = m.mapAddr /\ w.nTried = m.nTried
    /\ w.vvTried = m.vvTried /\ w.nNew = m.nNew /\ w.vvNew = m.vvNew

\* SwapRandom moves two entries in vRandom and touches nothing else.
LEMMA SwapRandomEffect ==
    ASSUME NEW m, Shape(m), RandomOK(m),
           NEW p \in 1 .. Len(m.vRandom), NEW q \in 1 .. Len(m.vRandom)
    PROVE  LET w == SwapRandom(m, p, q)
           IN  /\ Shape(w) /\ RandomOK(w) /\ SameEntries(m, w) /\ SameTables(m, w)
               /\ Len(w.vRandom) = Len(m.vRandom)
               /\ w.vRandom[q] = m.vRandom[p]
  <1> DEFINE w == SwapRandom(m, p, q)
             x == m.vRandom[p]
             y == m.vRandom[q]
             f == [m.mapInfo EXCEPT ![x].nRandomPos = q, ![y].nRandomPos = p]
             g == [m.vRandom EXCEPT ![p] = y, ![q] = x]
  <1>1. /\ DOMAIN w = DOMAIN m /\ w.mapInfo = f /\ w.vRandom = g /\ SameTables(m, w)
    BY DEF Shape, SwapRandom, SameTables
  <1>2. x \in DOMAIN m.mapInfo /\ y \in DOMAIN m.mapInfo /\ (x = y <=> p = q)
    BY DEF RandomOK
  <1>3. /\ DOMAIN f = DOMAIN m.mapInfo
        /\ \A z \in DOMAIN f : /\ f[z] \in Info
                               /\ f[z].addr = m.mapInfo[z].addr /\ f[z].source = m.mapInfo[z].source
                               /\ f[z].nRefCount = m.mapInfo[z].nRefCount
                               /\ f[z].fInTried = m.mapInfo[z].fInTried
                               /\ f[z].nRandomPos = IF z = y THEN p ELSE IF z = x THEN q
                                                    ELSE m.mapInfo[z].nRandomPos
    <2>1. DOMAIN f = DOMAIN m.mapInfo
      OBVIOUS
    <2>2. ASSUME NEW z \in DOMAIN m.mapInfo, z # x, z # y PROVE f[z] = m.mapInfo[z]
      BY <2>2
    <2>3. f[y] = [m.mapInfo[y] EXCEPT !.nRandomPos = p]
      BY <1>2
    <2>4. x # y => f[x] = [m.mapInfo[x] EXCEPT !.nRandomPos = q]
      BY <1>2
    <2>5. /\ p \in Nat /\ q \in Nat /\ \A z \in DOMAIN m.mapInfo : m.mapInfo[z] \in Info
      BY DEF Shape, RandomOK
    <2> HIDE DEF f
    <2>6. ASSUME NEW z \in DOMAIN f, NEW r \in Nat, f[z] = [m.mapInfo[z] EXCEPT !.nRandomPos = r]
          PROVE  /\ f[z] \in Info
                 /\ f[z].addr = m.mapInfo[z].addr /\ f[z].source = m.mapInfo[z].source
                 /\ f[z].nRefCount = m.mapInfo[z].nRefCount
                 /\ f[z].fInTried = m.mapInfo[z].fInTried
                 /\ f[z].nRandomPos = r
      BY <2>1, <2>5, <2>6 DEF Info
    <2> QED
      BY <1>2, <2>1, <2>2, <2>3, <2>4, <2>5, <2>6
  <1>4. /\ g \in Seq(Nat) /\ Len(g) = Len(m.vRandom)
        /\ \A i \in 1 .. Len(g) : g[i] = IF i = q THEN x ELSE IF i = p THEN y ELSE m.vRandom[i]
    BY <1>2, SMTT(60) DEF Shape, RandomOK
  <1> HIDE DEF f, g
  <1>5. Shape(w)
    BY <1>1, <1>3 DEF Shape, SameTables
  <1>6. RandomOK(w)
    <2>1. ASSUME NEW i \in 1 .. Len(g) PROVE g[i] \in DOMAIN f /\ f[g[i]].nRandomPos = i
      <3>1. i = q \/ i = p \/ (i # q /\ i # p)
        OBVIOUS
      <3>2. /\ m.vRandom[i] \in DOMAIN m.mapInfo /\ m.mapInfo[m.vRandom[i]].nRandomPos = i
            /\ m.mapInfo[x].nRandomPos = p /\ m.mapInfo[y].nRandomPos = q
        BY <1>4 DEF RandomOK
      <3>3. x \in DOMAIN f /\ y \in DOMAIN f /\ m.vRandom[i] \in DOMAIN f
        BY <1>2, <1>3, <3>2
      <3>4. /\ f[y].nRandomPos = p
            /\ x # y => f[x].nRandomPos = q
            /\ m.vRandom[i] # x /\ m.vRandom[i] # y =>
                    f[m.vRandom[i]].nRandomPos = m.mapInfo[m.vRandom[i]].nRandomPos
        BY <1>3, <3>3
      <3>5. g[i] = IF i = q THEN x ELSE IF i = p THEN y ELSE m.vRandom[i]
        BY <1>4
      <3> HIDE DEF x, y
      <3> QED
        BY <1>2, <3>1, <3>2, <3>3, <3>4, <3>5
    <2>2. ASSUME NEW z \in DOMAIN f PROVE f[z].nRandomPos \in 1 .. Len(g) /\ g[f[z].nRandomPos] = z
      <3>1. /\ m.mapInfo[z].nRandomPos \in 1 .. Len(m.vRandom)
            /\ m.vRandom[m.mapInfo[z].nRandomPos] = z
            /\ m.mapInfo[x].nRandomPos = p /\ m.mapInfo[y].nRandomPos = q
        BY <1>3 DEF RandomOK
      <3> HIDE DEF x, y
      <3>2. m.vRandom[p] = x /\ m.vRandom[q] = y
        BY DEF x, y
      <3>3. CASE z = y
        BY <1>2, <1>3, <1>4, <3>2, <3>3
      <3>4. CASE z = x
        BY <1>2, <1>3, <1>4, <3>2, <3>4
      <3>5. CASE z # x /\ z # y
        <4>1. f[z].nRandomPos = m.mapInfo[z].nRandomPos
          BY <1>3, <3>5
        <4>2. f[z].nRandomPos # p /\ f[z].nRandomPos # q
          BY <3>1, <3>2, <3>5, <4>1
        <4> QED
          BY <1>4, <3>1, <4>1, <4>2
      <3> QED
        BY <3>3, <3>4, <3>5
    <2> QED
      BY <1>1, <1>4, <2>1, <2>2 DEF RandomOK
  <1>7. SameEntries(m, w)
    BY <1>1, <1>3 DEF SameEntries
  <1> QED
    BY <1>1, <1>4, <1>5, <1>6, <1>7

\* The tried table is as good as before if its entries are.
LEMMA TriedKeeps ==
    ASSUME NEW m, NEW w, TriedOK(m), w.vvTried = m.vvTried,
           \A x \in DOMAIN m.mapInfo : m.mapInfo[x].fInTried =>
                x \in DOMAIN w.mapInfo /\ w.mapInfo[x].fInTried /\ w.mapInfo[x].addr = m.mapInfo[x].addr,
           \A x \in DOMAIN w.mapInfo : w.mapInfo[x].fInTried =>
                x \in DOMAIN m.mapInfo /\ m.mapInfo[x].fInTried
    PROVE  TriedOK(w)
  <1>1. ASSUME NEW b \in TriedBucket
        PROVE  /\ w.vvTried[b] \in Seq(Nat)
               /\ \A i \in 1 .. Len(w.vvTried[b]) :
                    /\ w.vvTried[b][i] \in DOMAIN w.mapInfo
                    /\ w.mapInfo[w.vvTried[b][i]].fInTried
                    /\ GetTriedBucket[w.mapInfo[w.vvTried[b][i]].addr] = b
                    /\ \A j \in 1 .. Len(w.vvTried[b]) : w.vvTried[b][i] = w.vvTried[b][j] => i = j
    <2> DEFINE t == m.vvTried[b]
    <2>1. /\ t \in Seq(Nat)
          /\ \A i \in 1 .. Len(t) : /\ t[i] \in DOMAIN m.mapInfo /\ m.mapInfo[t[i]].fInTried
                                    /\ GetTriedBucket[m.mapInfo[t[i]].addr] = b
                                    /\ \A j \in 1 .. Len(t) : t[i] = t[j] => i = j
      BY DEF TriedOK
    <2>2. w.vvTried[b] = t
      OBVIOUS
    <2> HIDE DEF t
    <2> QED
      BY <2>1, <2>2
  <1>2. ASSUME NEW x \in DOMAIN w.mapInfo, w.mapInfo[x].fInTried
        PROVE  \E i \in 1 .. Len(w.vvTried[GetTriedBucket[w.mapInfo[x].addr]]) :
                    w.vvTried[GetTriedBucket[w.mapInfo[x].addr]][i] = x
    <2>1. x \in DOMAIN m.mapInfo /\ m.mapInfo[x].fInTried /\ w.mapInfo[x].addr = m.mapInfo[x].addr
      BY <1>2
    <2>2. \A y \in DOMAIN m.mapInfo : m.mapInfo[y].fInTried =>
            \E i \in 1 .. Len(m.vvTried[GetTriedBucket[m.mapInfo[y].addr]]) :
                m.vvTried[GetTriedBucket[m.mapInfo[y].addr]][i] = y
      BY DEF TriedOK
    <2> DEFINE t == m.vvTried[GetTriedBucket[m.mapInfo[x].addr]]
    <2>3. \E i \in 1 .. Len(t) : t[i] = x
      BY <2>1, <2>2
    <2>4. w.vvTried[GetTriedBucket[w.mapInfo[x].addr]] = t
      BY <2>1
    <2> HIDE DEF t
    <2> QED
      BY <2>3, <2>4
  <1>3. DOMAIN w.vvTried = TriedBucket
    BY DEF TriedOK
  <1> QED
    BY <1>1, <1>2, <1>3 DEF TriedOK

\* Only the order of vRandom has changed: the object stays consistent.
LEMMA SameKeeps ==
    ASSUME NEW m, NEW w, NEW V, Consistent(m, V),
           Shape(w), RandomOK(w), SameEntries(m, w), SameTables(m, w)
    PROVE  Consistent(w, V)
  <1>1. AddrOK(w)
    BY DEF Consistent, AddrOK, SameEntries, SameTables
  <1>2. CountOK(w)
    <2>1. TriedOf(w) = TriedOf(m)
      BY DEF TriedOf, SameEntries
    <2> QED
      BY <2>1 DEF Consistent, CountOK, SameEntries, SameTables
  <1>3. RefOK(w, V)
    BY DEF Consistent, RefOK, RefAt, SameEntries
  <1>4. TriedOK(w)
    BY TriedKeeps DEF Consistent, SameEntries, SameTables
  <1> QED
    BY <1>1, <1>2, <1>3, <1>4 DEF Consistent

\* What Delete does: entry x is gone from mapInfo, mapAddr and vRandom.
Deleted(m, w, x) ==
    /\ DOMAIN w.mapInfo = DOMAIN m.mapInfo \ {x}
    /\ \A y \in DOMAIN w.mapInfo :
        /\ w.mapInfo[y].addr = m.mapInfo[y].addr /\ w.mapInfo[y].source = m.mapInfo[y].source
        /\ w.mapInfo[y].nRefCount = m.mapInfo[y].nRefCount
        /\ w.mapInfo[y].fInTried = m.mapInfo[y].fInTried
    /\ w.mapAddr = Without(m.mapAddr, m.mapInfo[x].addr)
    /\ w.nIdCount = m.nIdCount /\ w.nTried = m.nTried /\ w.vvTried = m.vvTried
    /\ w.nNew = m.nNew - 1 /\ w.vvNew = m.vvNew

LEMMA DeleteEffect ==
    ASSUME NEW m, Shape(m), RandomOK(m), NEW x \in DOMAIN m.mapInfo
    PROVE  Shape(Delete(m, x)) /\ RandomOK(Delete(m, x)) /\ Deleted(m, Delete(m, x), x)
  <1> DEFINE n == Len(m.vRandom)
             p == m.mapInfo[x].nRandomPos
             v == SwapRandom(m, p, n)
             w == Delete(m, x)
  <1>1. p \in 1 .. n /\ n \in 1 .. n /\ m.vRandom[p] = x
    BY DEF RandomOK
  <1>2. /\ Shape(v) /\ RandomOK(v) /\ SameEntries(m, v) /\ SameTables(m, v)
        /\ Len(v.vRandom) = n /\ v.vRandom[n] = x
    <2> HIDE DEF p, v
    <2> QED
      BY <1>1, SwapRandomEffect DEF v
  <1>3. w = [v EXCEPT !.vRandom = Front(@), !.mapInfo = Without(@, x),
                      !.mapAddr = Without(@, m.mapInfo[x].addr), !.nNew = @ - 1]
    BY DEF Delete
  <1> HIDE DEF v, w
  <1>4. /\ DOMAIN w = DOMAIN v /\ w.vRandom = Front(v.vRandom) /\ w.mapInfo = Without(v.mapInfo, x)
        /\ w.mapAddr = Without(v.mapAddr, m.mapInfo[x].addr) /\ w.nNew = v.nNew - 1
        /\ w.nIdCount = v.nIdCount /\ w.nTried = v.nTried /\ w.vvTried = v.vvTried
        /\ w.vvNew = v.vvNew
    BY <1>2, <1>3 DEF Shape
  <1>5. /\ DOMAIN w.mapInfo = DOMAIN m.mapInfo \ {x}
        /\ \A y \in DOMAIN w.mapInfo : w.mapInfo[y] = v.mapInfo[y]
    BY <1>2, <1>4 DEF Without, SameEntries
  <1>6. Deleted(m, w, x)
    BY <1>2, <1>4, <1>5 DEF Deleted, SameEntries, SameTables
  <1>7. Shape(w)
    BY <1>2, <1>4, <1>5 DEF Shape, SameEntries
  <1>8. RandomOK(w)
    <2>1. /\ w.vRandom \in Seq(Nat) /\ Len(w.vRandom) = n - 1
          /\ \A i \in 1 .. n - 1 : w.vRandom[i] = v.vRandom[i]
      <3>1. v.vRandom \in Seq(Nat) /\ Len(v.vRandom) = n /\ n \in Nat /\ n >= 1
        BY <1>1, <1>2 DEF RandomOK
      <3>2. w.vRandom = SubSeq(v.vRandom, 1, n - 1)
        BY <1>2, <1>4 DEF Front
      <3> HIDE DEF n
      <3> QED
        BY <3>1, <3>2
    <2>2. ASSUME NEW i \in 1 .. n - 1
          PROVE  w.vRandom[i] \in DOMAIN w.mapInfo /\ w.mapInfo[w.vRandom[i]].nRandomPos = i
      <3>1. i \in 1 .. n /\ i # n
        BY <1>1
      <3>2. /\ v.vRandom[i] \in DOMAIN v.mapInfo /\ v.mapInfo[v.vRandom[i]].nRandomPos = i
            /\ v.mapInfo[v.vRandom[n]].nRandomPos = n
        BY <1>1, <1>2, <3>1 DEF RandomOK
      <3>3. v.vRandom[i] # x
        BY <1>2, <3>1, <3>2
      <3>4. v.vRandom[i] \in DOMAIN w.mapInfo
        BY <1>2, <1>5, <3>2, <3>3 DEF SameEntries
      <3> QED
        BY <1>5, <2>1, <3>2, <3>4
    <2>3. ASSUME NEW y \in DOMAIN w.mapInfo
          PROVE  w.mapInfo[y].nRandomPos \in 1 .. n - 1 /\ w.vRandom[w.mapInfo[y].nRandomPos] = y
      <3>1. y \in DOMAIN v.mapInfo /\ y # x /\ w.mapInfo[y] = v.mapInfo[y]
        BY <1>2, <1>5 DEF SameEntries
      <3>2. v.mapInfo[y].nRandomPos \in 1 .. n /\ v.vRandom[v.mapInfo[y].nRandomPos] = y
        BY <1>2, <3>1 DEF RandomOK
      <3>3. v.mapInfo[y].nRandomPos # n
        BY <1>2, <3>1, <3>2
      <3>4. v.mapInfo[y].nRandomPos \in 1 .. n - 1
        BY <1>1, <3>2, <3>3
      <3> QED
        BY <2>1, <3>1, <3>2, <3>4
    <2> QED
      BY <2>1, <2>2, <2>3 DEF RandomOK
  <1> QED
    BY <1>6, <1>7, <1>8 DEF w

\* An entry that no new bucket holds and that is not tried can go.
LEMMA DeleteKeeps ==
    ASSUME NEW m, Shape(m), AddrOK(m), RandomOK(m), CountOK(m), TriedOK(m),
           NEW x \in DOMAIN m.mapInfo, ~m.mapInfo[x].fInTried,
           NEW V \in [NewBucket -> SUBSET (DOMAIN m.mapInfo \ {x})],
           \A y \in DOMAIN m.mapInfo \ {x} : RefAt(m, V, y)
    PROVE  Consistent(Delete(m, x), V)
  <1> DEFINE w == Delete(m, x)
  <1>1. Shape(w) /\ RandomOK(w) /\ Deleted(m, w, x)
    BY DeleteEffect
  <1> HIDE DEF w
  <1>2. AddrOK(w)
    <2>1. \A y \in DOMAIN m.mapInfo \ {x} : m.mapInfo[y].addr # m.mapInfo[x].addr
      BY DEF AddrOK
    <2>2. /\ DOMAIN w.mapAddr = DOMAIN m.mapAddr \ {m.mapInfo[x].addr}
          /\ \A a \in DOMAIN w.mapAddr : w.mapAddr[a] = m.mapAddr[a]
      BY <1>1 DEF Deleted, Without
    <2>3. ASSUME NEW a \in DOMAIN w.mapAddr
          PROVE  a \in Addr /\ w.mapAddr[a] \in DOMAIN w.mapInfo /\ w.mapInfo[w.mapAddr[a]].addr = a
      BY <1>1, <2>2 DEF AddrOK, Deleted
    <2>4. ASSUME NEW y \in DOMAIN w.mapInfo
          PROVE  w.mapInfo[y].addr \in DOMAIN w.mapAddr /\ w.mapAddr[w.mapInfo[y].addr] = y
      BY <1>1, <2>1, <2>2 DEF AddrOK, Deleted
    <2> QED
      BY <2>3, <2>4 DEF AddrOK
  <1>3. CountOK(w)
    <2>1. TriedOf(w) = TriedOf(m)
      BY <1>1 DEF TriedOf, Deleted
    <2> DEFINE S == DOMAIN m.mapInfo \ TriedOf(m)
    <2>2. x \in S /\ DOMAIN w.mapInfo \ TriedOf(w) = S \ {x}
      BY <1>1, <2>1 DEF TriedOf, Deleted
    <2>3. IsFiniteSet(S)
      BY IdsFinite, FS_Difference
    <2>4. Cardinality(S \ {x}) = Cardinality(S) - 1
      BY <2>2, <2>3, FS_RemoveElement
    <2> QED
      BY <1>1, <2>1, <2>2, <2>4 DEF CountOK, Deleted
  <1>4. RefOK(w, V)
    BY <1>1 DEF RefOK, RefAt, Deleted
  <1>5. TriedOK(w)
    BY <1>1, TriedKeeps DEF Deleted
  <1> QED
    BY <1>1, <1>2, <1>3, <1>4, <1>5 DEF Consistent, w

\* Bucket b without entry x, and with it.
Cut(V, b, x) == [V EXCEPT ![b] = @ \ {x}]
Put(V, b, x) == [V EXCEPT ![b] = @ \cup {x}]

\* A bucket gives up an entry: only the buckets that hold that entry change.
LEMMA HoldingCut ==
    ASSUME NEW V, DOMAIN V = NewBucket, NEW b \in NewBucket, NEW x \in V[b]
    PROVE  /\ Cardinality(Holding(Cut(V, b, x), x)) = Cardinality(Holding(V, x)) - 1
           /\ \A y : y # x => Holding(Cut(V, b, x), y) = Holding(V, y)
  <1>1. Holding(Cut(V, b, x), x) = Holding(V, x) \ {b} /\ b \in Holding(V, x)
    BY DEF Holding, Cut
  <1>2. Cardinality(Holding(V, x) \ {b}) = Cardinality(Holding(V, x)) - 1
    BY <1>1, HoldingFinite, FS_RemoveElement
  <1>3. \A y : y # x => Holding(Cut(V, b, x), y) = Holding(V, y)
    BY DEF Holding, Cut
  <1> QED
    BY <1>1, <1>2, <1>3 DEF Cut

\* ... or takes one.
LEMMA HoldingPut ==
    ASSUME NEW V, DOMAIN V = NewBucket, NEW b \in NewBucket, NEW x, x \notin V[b]
    PROVE  /\ Cardinality(Holding(Put(V, b, x), x)) = Cardinality(Holding(V, x)) + 1
           /\ \A y : y # x => Holding(Put(V, b, x), y) = Holding(V, y)
  <1>1. Holding(Put(V, b, x), x) = Holding(V, x) \cup {b} /\ b \notin Holding(V, x)
    BY DEF Holding, Put
  <1>2. Cardinality(Holding(V, x) \cup {b}) = Cardinality(Holding(V, x)) + 1
    BY <1>1, HoldingFinite, FS_AddElement
  <1>3. \A y : y # x => Holding(Put(V, b, x), y) = Holding(V, y)
    BY DEF Holding, Put
  <1> QED
    BY <1>1, <1>2, <1>3 DEF Put

\* A reference is counted or given up, and nothing else changes.
Recounted(m, w, x, n) ==
    /\ DOMAIN w = DOMAIN m /\ DOMAIN w.mapInfo = DOMAIN m.mapInfo
    /\ w.mapInfo[x] = [m.mapInfo[x] EXCEPT !.nRefCount = n]
    /\ \A y \in DOMAIN m.mapInfo : y # x => w.mapInfo[y] = m.mapInfo[y]
    /\ w.nIdCount = m.nIdCount /\ w.mapAddr = m.mapAddr /\ w.vRandom = m.vRandom
    /\ w.nTried = m.nTried /\ w.vvTried = m.vvTried /\ w.nNew = m.nNew

LEMMA RecountKeeps ==
    ASSUME NEW m, Shape(m), AddrOK(m), RandomOK(m), CountOK(m), TriedOK(m),
           NEW x \in DOMAIN m.mapInfo, NEW n \in Nat, NEW w, Recounted(m, w, x, n)
    PROVE  /\ Shape(w) /\ AddrOK(w) /\ RandomOK(w) /\ CountOK(w) /\ TriedOK(w)
           /\ w.mapInfo[x].nRefCount = n /\ w.mapInfo[x].fInTried = m.mapInfo[x].fInTried
  <1>1. /\ w.mapInfo[x] \in Info /\ w.mapInfo[x].nRefCount = n
        /\ w.mapInfo[x].fInTried = m.mapInfo[x].fInTried /\ w.mapInfo[x].addr = m.mapInfo[x].addr
        /\ w.mapInfo[x].nRandomPos = m.mapInfo[x].nRandomPos
    BY DEF Shape, Info, Recounted
  <1>2. Shape(w)
    BY <1>1 DEF Shape, Recounted
  <1>3. \A y \in DOMAIN m.mapInfo : /\ w.mapInfo[y].addr = m.mapInfo[y].addr
                                    /\ w.mapInfo[y].nRandomPos = m.mapInfo[y].nRandomPos
                                    /\ w.mapInfo[y].fInTried = m.mapInfo[y].fInTried
    BY <1>1 DEF Recounted
  <1>4. AddrOK(w)
    BY <1>3 DEF AddrOK, Recounted
  <1>5. RandomOK(w)
    BY <1>3, SMTT(60) DEF RandomOK, Recounted
  <1>6. TriedOK(w)
    BY <1>3, TriedKeeps DEF Recounted
  <1>7. CountOK(w)
    <2>1. TriedOf(w) = TriedOf(m)
      BY <1>3 DEF TriedOf, Recounted
    <2> QED
      BY <2>1 DEF CountOK, Recounted
  <1> QED
    BY <1>1, <1>2, <1>4, <1>5, <1>6, <1>7

\* The tried entries are the same, and so are their addresses.
TriedSame(m, w) ==
    TriedOf(w) = TriedOf(m) /\ \A x \in TriedOf(m) : w.mapInfo[x].addr = m.mapInfo[x].addr

\* ShrinkNew leaves a consistent object without entry x in bucket b.
LEMMA ShrinkNewKeeps ==
    ASSUME NEW m, NEW V, Consistent(m, V), DOMAIN m.vvNew = NewBucket,
           NEW b \in NewBucket, NEW x \in V[b]
    PROVE  LET w == ShrinkNew(m, b, x)
           IN  /\ Consistent(w, Cut(V, b, x))
               /\ w.vvNew = Cut(m.vvNew, b, x)
               /\ TriedSame(m, w)
  <1> DEFINE n == m.mapInfo[x].nRefCount
             v == [m EXCEPT !.mapInfo[x].nRefCount = @ - 1, !.vvNew[b] = @ \ {x}]
             U == Cut(V, b, x)
  <1>1. /\ V \in [NewBucket -> SUBSET DOMAIN m.mapInfo] /\ x \in DOMAIN m.mapInfo
        /\ \A y \in DOMAIN m.mapInfo : RefAt(m, V, y)
    BY DEF Consistent, RefOK
  <1>2. /\ U \in [NewBucket -> SUBSET DOMAIN m.mapInfo]
        /\ Cardinality(Holding(U, x)) = Cardinality(Holding(V, x)) - 1
        /\ \A y : y # x => Holding(U, y) = Holding(V, y)
    <2>1. U \in [NewBucket -> SUBSET DOMAIN m.mapInfo] /\ DOMAIN V = NewBucket
      BY <1>1 DEF Cut
    <2> QED
      BY <2>1, HoldingCut
  <1>3. Cardinality(Holding(U, x)) \in Nat /\ (Cardinality(Holding(U, x)) = 0 <=> Holding(U, x) = {})
    BY HoldingFinite
  <1> HIDE DEF U
  <1>4. n = Cardinality(Holding(U, x)) + 1
    <2>1. Cardinality(Holding(V, x)) \in Nat
      BY HoldingFinite
    <2> QED
      BY <1>1, <1>2, <2>1 DEF RefAt
  <1>5. n - 1 \in Nat /\ ~m.mapInfo[x].fInTried /\ n \in 1 .. ADDRMAN_NEW_BUCKETS_PER_ADDRESS
    BY <1>1, <1>3, <1>4 DEF RefAt
  <1>6. Recounted(m, v, x, n - 1) /\ v.vvNew = Cut(m.vvNew, b, x)
    BY <1>1 DEF Cut, Consistent, Shape, Recounted
  <1>7. ShrinkNew(m, b, x) = IF v.mapInfo[x].nRefCount = 0 THEN Delete(v, x) ELSE v
    BY DEF ShrinkNew
  <1> HIDE DEF v, n
  <1>8. /\ Shape(v) /\ AddrOK(v) /\ RandomOK(v) /\ CountOK(v) /\ TriedOK(v)
        /\ v.mapInfo[x].nRefCount = n - 1 /\ v.mapInfo[x].fInTried = m.mapInfo[x].fInTried
    BY <1>1, <1>5, <1>6, RecountKeeps DEF Consistent
  <1>9. ASSUME NEW y \in DOMAIN m.mapInfo, y # x PROVE RefAt(v, U, y)
    BY <1>1, <1>2, <1>6, <1>9 DEF RefAt, Recounted
  <1>10. DOMAIN v.mapInfo = DOMAIN m.mapInfo
    BY <1>6 DEF Recounted
  <1>11. \A y \in DOMAIN m.mapInfo : /\ v.mapInfo[y].addr = m.mapInfo[y].addr
                                     /\ v.mapInfo[y].fInTried = m.mapInfo[y].fInTried
    BY <1>1, <1>6 DEF Recounted, Consistent, Shape, Info
  <1>12. CASE n - 1 = 0
    <2>1. U \in [NewBucket -> SUBSET (DOMAIN v.mapInfo \ {x})]
      <3>1. Holding(U, x) = {}
        BY <1>3, <1>4, <1>12
      <3>2. \A c \in NewBucket : x \notin U[c]
        BY <3>1 DEF Holding
      <3> QED
        BY <1>2, <1>10, <3>2
    <2>2. Consistent(Delete(v, x), U)
      BY <1>1, <1>5, <1>8, <1>9, <1>10, <2>1, DeleteKeeps
    <2>3. Deleted(v, Delete(v, x), x)
      BY <1>1, <1>8, <1>10, DeleteEffect
    <2>4. ShrinkNew(m, b, x) = Delete(v, x)
      BY <1>7, <1>8, <1>12
    <2> QED
      BY <1>1, <1>5, <1>6, <1>10, <1>11, <2>2, <2>3, <2>4 DEF Deleted, TriedOf, TriedSame, U
  <1>13. CASE n - 1 # 0
    <2>1. RefAt(v, U, x)
      BY <1>3, <1>4, <1>5, <1>8, <1>13, AddrManAssumption DEF RefAt
    <2>2. RefOK(v, U)
      BY <1>2, <1>9, <1>10, <2>1 DEF RefOK
    <2>3. ShrinkNew(m, b, x) = v
      BY <1>7, <1>8, <1>13
    <2> QED
      BY <1>6, <1>8, <1>10, <1>11, <2>2, <2>3 DEF Consistent, TriedOf, TriedSame, U
  <1> QED
    BY <1>5, <1>12, <1>13
-----------------------------------------------------------------------------
\* The objects differ in the new buckets and the last successes at most.
SameButNew(m, w) ==
    /\ DOMAIN w = DOMAIN m /\ w.nIdCount = m.nIdCount /\ w.mapInfo = m.mapInfo
    /\ w.mapAddr = m.mapAddr /\ w.vRandom = m.vRandom
    /\ w.nTried = m.nTried /\ w.vvTried = m.vvTried /\ w.nNew = m.nNew

LEMMA SameButNewKeeps ==
    ASSUME NEW m, NEW w, NEW V, Consistent(m, V), SameButNew(m, w)
    PROVE  Consistent(w, V) /\ TriedSame(m, w)
  <1>1. Shape(w) /\ AddrOK(w) /\ RandomOK(w)
    BY DEF Consistent, SameButNew, Shape, AddrOK, RandomOK
  <1>2. TriedOf(w) = TriedOf(m)
    BY DEF SameButNew, TriedOf
  <1>3. CountOK(w) /\ RefOK(w, V) /\ TriedSame(m, w)
    BY <1>2 DEF Consistent, SameButNew, CountOK, RefOK, RefAt, TriedSame
  <1>4. TriedOK(w)
    BY TriedKeeps DEF Consistent, SameButNew
  <1> QED
    BY <1>1, <1>3, <1>4 DEF Consistent

\* The end of Add_: the entry, whose reference is counted, goes into its bucket,
\* which first makes place if it is full.
LEMMA PlaceKeeps ==
    ASSUME NEW w, NEW b \in NewBucket, NEW nId, Consistent(w, Put(w.vvNew, b, nId)),
           w.vvNew \in [NewBucket -> SUBSET DOMAIN w.mapInfo],
           Bounded(w), nId \notin w.vvNew[b], NEW z,
           IF Cardinality(w.vvNew[b]) = ADDRMAN_NEW_BUCKET_SIZE
           THEN \E x \in w.vvNew[b] : z = [ShrinkNew(w, b, x) EXCEPT !.vvNew[b] = @ \cup {nId}]
           ELSE z = [w EXCEPT !.vvNew[b] = @ \cup {nId}]
    PROVE  Consistent(z, z.vvNew) /\ Bounded(z) /\ TriedSame(w, z)
  <1> DEFINE S == w.vvNew[b]
             V == Put(w.vvNew, b, nId)
  <1>1. w.vvNew \in [NewBucket -> SUBSET DOMAIN w.mapInfo] /\ Shape(w)
    BY DEF Consistent
  <1>2. IsFiniteSet(S) /\ Cardinality(S) \in Nat
    <2>1. S \in SUBSET DOMAIN w.mapInfo
      BY <1>1
    <2>2. IsFiniteSet(S)
      BY <1>1, <2>1, IdsFinite, FS_Subset
    <2> QED
      BY <2>2, FS_CardinalityType
  <1>3. CASE Cardinality(S) = ADDRMAN_NEW_BUCKET_SIZE
    <2>1. PICK x \in S : z = [ShrinkNew(w, b, x) EXCEPT !.vvNew[b] = @ \cup {nId}]
      BY <1>3
    <2> DEFINE v == ShrinkNew(w, b, x)
    <2>2. x \in V[b] /\ x # nId
      BY <1>1 DEF Put
    <2>3. Consistent(v, Cut(V, b, x)) /\ v.vvNew = Cut(w.vvNew, b, x) /\ TriedSame(w, v)
      <3> HIDE DEF V, v
      <3> QED
        BY <1>1, <2>2, ShrinkNewKeeps DEF V, v
    <2> HIDE DEF v
    <2>4. z = [v EXCEPT !.vvNew[b] = @ \cup {nId}]
      BY <2>1 DEF v
    <2>5. SameButNew(v, z) /\ z.vvNew = [v.vvNew EXCEPT ![b] = @ \cup {nId}]
      BY <2>3, <2>4 DEF Consistent, Shape, SameButNew
    <2>6. z.vvNew = Cut(V, b, x)
      BY <1>1, <2>2, <2>3, <2>5 DEF Cut, Put
    <2>7. Consistent(z, z.vvNew) /\ TriedSame(v, z)
      BY <2>3, <2>5, <2>6, SameButNewKeeps
    <2>8. TriedSame(w, z)
      BY <2>3, <2>7 DEF TriedSame
    <2>9. Cardinality((S \ {x}) \cup {nId}) = Cardinality(S)
      <3>1. IsFiniteSet(S \ {x}) /\ Cardinality(S \ {x}) = Cardinality(S) - 1
        BY <1>2, FS_RemoveElement
      <3>2. Cardinality((S \ {x}) \cup {nId}) = Cardinality(S \ {x}) + 1
        BY <3>1, FS_AddElement
      <3> QED
        BY <1>2, <3>1, <3>2
    <2>10. /\ z.vvNew[b] = (S \ {x}) \cup {nId}
           /\ \A c \in NewBucket : c # b => z.vvNew[c] = w.vvNew[c]
      BY <1>1, <2>3, <2>5 DEF Cut
    <2>11. z.vvTried = w.vvTried
      <3> DEFINE u == [w EXCEPT !.mapInfo[x].nRefCount = @ - 1, !.vvNew[b] = @ \ {x}]
      <3>1. u.vvTried = w.vvTried /\ DOMAIN u = DOMAIN w
        BY <1>1 DEF Shape
      <3>2. v = IF u.mapInfo[x].nRefCount = 0 THEN Delete(u, x) ELSE u
        BY DEF v, ShrinkNew
      <3>3. Delete(u, x).vvTried = u.vvTried
        <4> HIDE DEF u
        <4> QED
          BY <1>1, <3>1 DEF Delete, SwapRandom, Shape
      <3> HIDE DEF u
      <3> QED
        BY <2>5, <3>1, <3>2, <3>3 DEF SameButNew
    <2> QED
      BY <1>3, <2>7, <2>8, <2>9, <2>10, <2>11, AddrManAssumption DEF Bounded
  <1>4. CASE Cardinality(S) # ADDRMAN_NEW_BUCKET_SIZE
    <2>1. z = [w EXCEPT !.vvNew[b] = @ \cup {nId}]
      BY <1>4
    <2>2. SameButNew(w, z) /\ z.vvNew = V
      BY <1>1, <2>1 DEF Shape, SameButNew, Put
    <2>3. Consistent(z, z.vvNew) /\ TriedSame(w, z)
      BY <2>2, SameButNewKeeps
    <2>4. Cardinality(S \cup {nId}) = Cardinality(S) + 1
      BY <1>2, FS_AddElement
    <2>5. Cardinality(S \cup {nId}) <= ADDRMAN_NEW_BUCKET_SIZE
      BY <1>2, <1>4, <2>4, AddrManAssumption DEF Bounded
    <2>6. z.vvNew[b] = S \cup {nId} /\ \A c \in NewBucket : c # b => z.vvNew[c] = w.vvNew[c]
      BY <1>1, <2>2 DEF Put
    <2> QED
      BY <2>2, <2>3, <2>5, <2>6 DEF Bounded, SameButNew
  <1> QED
    BY <1>3, <1>4

\* Add_ of an unknown address.
LEMMA AddNewKeeps ==
    ASSUME IInv, NEW a, NEW s, <<a, s>> \in Heard, AddNew(a, s)
    PROVE  IInv' /\ TriedSame(am, am')
  <1> DEFINE nId == am.nIdCount
             b == GetNewBucket[<<a, s>>]
             n == Len(am.vRandom) + 1
             c == Create(am, a, s)
             m == [c EXCEPT !.nNew = @ + 1]
             w == [m EXCEPT !.mapInfo[nId].nRefCount = @ + 1]
             e == [addr |-> a, source |-> s, nRefCount |-> 0, fInTried |-> FALSE, nRandomPos |-> n]
             new == [e EXCEPT !.nRefCount = @ + 1]
             V == am.vvNew
  <1>1. /\ a \in Addr /\ s \in Source /\ b \in NewBucket /\ Consistent(am, V) /\ Bounded(am)
        /\ a \notin DOMAIN am.mapAddr /\ nId \in Nat /\ nId < MaxId /\ nId \notin DOMAIN am.mapInfo
        /\ V \in [NewBucket -> SUBSET DOMAIN am.mapInfo] /\ n \in Nat
        /\ am.vRandom \in Seq(Nat) /\ Shape(am)
    <2>1. /\ Consistent(am, V) /\ Bounded(am) /\ Shape(am) /\ RandomOK(am) /\ RefOK(am, V)
      BY DEF IInv, Consistent
    <2>2. a \notin DOMAIN am.mapAddr /\ nId < MaxId
      BY DEF AddNew
    <2>3. nId \in Nat /\ nId \notin DOMAIN am.mapInfo
      BY <2>1, AddrManAssumption DEF Shape
    <2>4. a \in Addr /\ s \in Source /\ b \in NewBucket
      BY AddrManAssumption
    <2>5. V \in [NewBucket -> SUBSET DOMAIN am.mapInfo]
      BY <2>1 DEF RefOK
    <2>6. am.vRandom \in Seq(Nat)
      BY <2>1 DEF RandomOK
    <2>7. n \in Nat
      BY <2>6
    <2> QED
      BY <2>1, <2>2, <2>3, <2>4, <2>5, <2>6, <2>7
  <1>2. /\ DOMAIN w = DOMAIN am /\ w.nIdCount = nId + 1 /\ w.mapAddr = With(am.mapAddr, a, nId)
        /\ w.vRandom = Append(am.vRandom, nId) /\ w.nTried = am.nTried
        /\ w.vvTried = am.vvTried /\ w.nNew = am.nNew + 1 /\ w.vvNew = V
    BY <1>1 DEF Shape, Create
  <1>3. /\ DOMAIN w.mapInfo = DOMAIN am.mapInfo \cup {nId} /\ w.mapInfo[nId] = new
        /\ \A x \in DOMAIN am.mapInfo : w.mapInfo[x] = am.mapInfo[x]
    <2> DEFINE f == With(am.mapInfo, nId, e)
    <2>1. c.mapInfo = f /\ DOMAIN c = DOMAIN am
      BY <1>1 DEF Shape, Create
    <2>2. m.mapInfo = f
      BY <1>1, <2>1 DEF Shape
    <2>3. w.mapInfo = [f EXCEPT ![nId].nRefCount = @ + 1]
      BY <1>1, <2>1, <2>2 DEF Shape
    <2>4. DOMAIN f = DOMAIN am.mapInfo \cup {nId} /\ f[nId] = e /\ \A x \in DOMAIN am.mapInfo : f[x] = am.mapInfo[x]
      BY <1>1 DEF With
    <2> HIDE DEF f, e
    <2> QED
      BY <1>1, <2>3, <2>4
  <1>4. IF Cardinality(w.vvNew[b]) = ADDRMAN_NEW_BUCKET_SIZE
        THEN \E x \in w.vvNew[b] : am' = [ShrinkNew(w, b, x) EXCEPT !.vvNew[b] = @ \cup {nId}]
        ELSE am' = [w EXCEPT !.vvNew[b] = @ \cup {nId}]
    BY DEF AddNew
  <1> HIDE DEF w, nId, b
  <1>5. new \in Info /\ new.addr = a /\ new.nRefCount = 1 /\ ~new.fInTried /\ new.nRandomPos = n
    <2>1. e \in Info /\ e.addr = a /\ e.nRefCount = 0 /\ e.fInTried = FALSE /\ e.nRandomPos = n
      BY <1>1 DEF Info
    <2> HIDE DEF e
    <2>2. new \in Info /\ new.addr = a /\ new.nRefCount = 1 /\ new.fInTried = FALSE /\ new.nRandomPos = n
      BY <2>1 DEF Info
    <2> HIDE DEF new
    <2> QED
      BY <2>2
  <1> HIDE DEF new, e
  <1>6. Shape(w)
    BY <1>1, <1>2, <1>3, <1>5, AddrManAssumption DEF Shape, nId
  <1>7. AddrOK(w)
    BY <1>1, <1>2, <1>3, <1>5 DEF Consistent, AddrOK, With
  <1>8. RandomOK(w)
    <2>1. /\ w.vRandom \in Seq(Nat) /\ Len(w.vRandom) = n /\ w.vRandom[n] = nId
          /\ \A i \in 1 .. n - 1 : w.vRandom[i] = am.vRandom[i]
      BY <1>1, <1>2
    <2>2. ASSUME NEW i \in 1 .. n
          PROVE  w.vRandom[i] \in DOMAIN w.mapInfo /\ w.mapInfo[w.vRandom[i]].nRandomPos = i
      <3>1. CASE i = n
        BY <1>3, <1>5, <2>1, <3>1
      <3>2. CASE i # n
        <4>1. i \in 1 .. Len(am.vRandom) /\ i \in 1 .. n - 1
          BY <1>1, <3>2
        <4>2. am.vRandom[i] \in DOMAIN am.mapInfo /\ am.mapInfo[am.vRandom[i]].nRandomPos = i
          BY <1>1, <4>1 DEF Consistent, RandomOK
        <4> QED
          BY <1>3, <2>1, <4>1, <4>2
      <3> QED
        BY <3>1, <3>2
    <2>3. ASSUME NEW x \in DOMAIN w.mapInfo
          PROVE  w.mapInfo[x].nRandomPos \in 1 .. n /\ w.vRandom[w.mapInfo[x].nRandomPos] = x
      <3>1. CASE x = nId
        BY <1>1, <1>3, <1>5, <2>1, <3>1, SMTT(60)
      <3>2. CASE x # nId
        <4>1. x \in DOMAIN am.mapInfo /\ w.mapInfo[x] = am.mapInfo[x]
          BY <1>3, <3>2
        <4>2. am.mapInfo[x].nRandomPos \in 1 .. n - 1 /\ am.vRandom[am.mapInfo[x].nRandomPos] = x
          BY <1>1, <4>1 DEF Consistent, RandomOK
        <4>3. w.mapInfo[x].nRandomPos \in 1 .. n
          BY <1>1, <4>1, <4>2
        <4> QED
          BY <2>1, <4>1, <4>2, <4>3
      <3> QED
        BY <3>1, <3>2
    <2> QED
      BY <2>1, <2>2, <2>3 DEF RandomOK
  <1>9. TriedOf(w) = TriedOf(am) /\ TriedSame(am, w)
    BY <1>1, <1>3, <1>5 DEF TriedOf, TriedSame
  <1>10. CountOK(w)
    <2> DEFINE S == DOMAIN am.mapInfo \ TriedOf(am)
    <2>1. DOMAIN w.mapInfo \ TriedOf(w) = S \cup {nId} /\ nId \notin S
      BY <1>1, <1>3, <1>9 DEF TriedOf
    <2>2. IsFiniteSet(S)
      BY <1>1, IdsFinite, FS_Difference
    <2>3. Cardinality(S \cup {nId}) = Cardinality(S) + 1
      BY <2>1, <2>2, FS_AddElement
    <2> QED
      BY <1>1, <1>2, <1>9, <2>1, <2>3 DEF Consistent, CountOK
  <1>11. TriedOK(w)
    <2>1. \A x \in DOMAIN w.mapInfo : w.mapInfo[x].fInTried => x \in DOMAIN am.mapInfo /\ am.mapInfo[x].fInTried
      BY <1>3, <1>5
    <2>2. TriedOK(am)
      BY <1>1 DEF Consistent
    <2> QED
      BY <1>2, <1>3, <2>1, <2>2, TriedKeeps
  <1>12. RefOK(w, Put(V, b, nId))
    <2>1. nId \notin V[b] /\ Holding(V, nId) = {}
      BY <1>1 DEF Holding
    <2>2. /\ Put(V, b, nId) \in [NewBucket -> SUBSET (DOMAIN am.mapInfo \cup {nId})]
          /\ Cardinality(Holding(Put(V, b, nId), nId)) = Cardinality(Holding(V, nId)) + 1
          /\ \A y : y # nId => Holding(Put(V, b, nId), y) = Holding(V, y)
      <3>1. DOMAIN V = NewBucket /\ Put(V, b, nId) \in [NewBucket -> SUBSET (DOMAIN am.mapInfo \cup {nId})]
        BY <1>1 DEF Put
      <3> HIDE DEF V
      <3>2. b \in NewBucket /\ nId \notin V[b]
        BY <1>1, <2>1
      <3>3. /\ Cardinality(Holding(Put(V, b, nId), nId)) = Cardinality(Holding(V, nId)) + 1
            /\ \A y : y # nId => Holding(Put(V, b, nId), y) = Holding(V, y)
        BY <3>1, <3>2, HoldingPut
      <3> QED
        BY <3>1, <3>3
    <2>3. Cardinality(Holding(Put(V, b, nId), nId)) = 1
      BY <2>1, <2>2, FS_EmptySet
    <2>4. RefAt(w, Put(V, b, nId), nId)
      BY <1>3, <1>5, <2>3, AddrManAssumption DEF RefAt
    <2>5. ASSUME NEW y \in DOMAIN am.mapInfo PROVE RefAt(w, Put(V, b, nId), y)
      BY <1>1, <1>3, <2>2 DEF RefAt, Consistent, RefOK
    <2> QED
      BY <1>3, <2>2, <2>4, <2>5 DEF RefOK
  <1>13. /\ Consistent(w, Put(w.vvNew, b, nId)) /\ Bounded(w) /\ nId \notin w.vvNew[b]
         /\ w.vvNew \in [NewBucket -> SUBSET DOMAIN w.mapInfo]
    BY <1>1, <1>2, <1>3, <1>6, <1>7, <1>8, <1>10, <1>11, <1>12 DEF Consistent, Bounded
  <1>14. Consistent(am', am'.vvNew) /\ Bounded(am') /\ TriedSame(w, am')
    BY <1>1, <1>4, <1>13, PlaceKeeps
  <1> QED
    BY <1>9, <1>14 DEF IInv, TriedSame

\* Add_ of a known address.
LEMMA AddAgainKeeps ==
    ASSUME IInv, NEW a, NEW s, <<a, s>> \in Heard, AddAgain(a, s)
    PROVE  IInv' /\ TriedSame(am, am')
  <1> DEFINE x == am.mapAddr[a]
             b == GetNewBucket[<<a, s>>]
             n == am.mapInfo[x].nRefCount
             w == [am EXCEPT !.mapInfo[x].nRefCount = @ + 1]
             V == am.vvNew
  <1>1. /\ a \in Addr /\ s \in Source /\ b \in NewBucket /\ Consistent(am, V) /\ Bounded(am)
        /\ x \in DOMAIN am.mapInfo /\ ~am.mapInfo[x].fInTried /\ x \notin V[b]
        /\ n # ADDRMAN_NEW_BUCKETS_PER_ADDRESS
        /\ V \in [NewBucket -> SUBSET DOMAIN am.mapInfo] /\ Shape(am)
        /\ AddrOK(am) /\ RandomOK(am) /\ CountOK(am) /\ TriedOK(am)
        /\ \A y \in DOMAIN am.mapInfo : RefAt(am, V, y)
    BY AddrManAssumption DEF IInv, AddAgain, Consistent, AddrOK, RefOK
  <1>2. n \in 1 .. ADDRMAN_NEW_BUCKETS_PER_ADDRESS /\ n = Cardinality(Holding(V, x))
    BY <1>1 DEF RefAt
  <1>3. n + 1 \in Nat /\ n + 1 \in 1 .. ADDRMAN_NEW_BUCKETS_PER_ADDRESS
    BY <1>1, <1>2, AddrManAssumption
  <1>4. Recounted(am, w, x, n + 1) /\ w.vvNew = V
    BY <1>1 DEF Shape, Recounted
  <1>5. IF Cardinality(w.vvNew[b]) = ADDRMAN_NEW_BUCKET_SIZE
        THEN \E y \in w.vvNew[b] : am' = [ShrinkNew(w, b, y) EXCEPT !.vvNew[b] = @ \cup {x}]
        ELSE am' = [w EXCEPT !.vvNew[b] = @ \cup {x}]
    BY DEF AddAgain
  <1> HIDE DEF w, x, b, n
  <1>6. /\ Shape(w) /\ AddrOK(w) /\ RandomOK(w) /\ CountOK(w) /\ TriedOK(w)
        /\ w.mapInfo[x].nRefCount = n + 1 /\ w.mapInfo[x].fInTried = am.mapInfo[x].fInTried
    BY <1>1, <1>3, <1>4, RecountKeeps
  <1>7. RefOK(w, Put(V, b, x))
    <2>1. DOMAIN V = NewBucket /\ Put(V, b, x) \in [NewBucket -> SUBSET DOMAIN w.mapInfo]
      BY <1>1, <1>4 DEF Put, Recounted
    <2>2. b \in NewBucket /\ x \notin V[b]
      BY <1>1
    <2> HIDE DEF V
    <2>3. /\ Cardinality(Holding(Put(V, b, x), x)) = Cardinality(Holding(V, x)) + 1
          /\ \A y : y # x => Holding(Put(V, b, x), y) = Holding(V, y)
      BY <2>1, <2>2, HoldingPut
    <2>4. RefAt(w, Put(V, b, x), x)
      BY <1>1, <1>2, <1>3, <1>6, <2>3 DEF RefAt
    <2>5. ASSUME NEW y \in DOMAIN am.mapInfo, y # x PROVE RefAt(w, Put(V, b, x), y)
      BY <1>1, <1>4, <2>3, <2>5 DEF RefAt, Recounted
    <2> QED
      BY <1>4, <2>1, <2>4, <2>5 DEF RefOK, Recounted
  <1>8. TriedSame(am, w)
    <2>1. w.mapInfo[x].addr = am.mapInfo[x].addr
      BY <1>1, <1>4 DEF Recounted, Shape, Info
    <2> QED
      BY <1>1, <1>4, <1>6, <2>1 DEF TriedSame, TriedOf, Recounted
  <1>9. /\ Consistent(w, Put(w.vvNew, b, x)) /\ Bounded(w) /\ x \notin w.vvNew[b]
        /\ w.vvNew \in [NewBucket -> SUBSET DOMAIN w.mapInfo]
    BY <1>1, <1>4, <1>6, <1>7 DEF Consistent, Bounded, Recounted
  <1>10. Consistent(am', am'.vvNew) /\ Bounded(am') /\ TriedSame(w, am')
    BY <1>1, <1>5, <1>9, PlaceKeeps
  <1> QED
    BY <1>8, <1>10 DEF IInv, TriedSame
-----------------------------------------------------------------------------
\* A non-empty set of naturals has a least element.
LEMMA LeastNat ==
    ASSUME NEW T \in SUBSET Nat, T # {}
    PROVE  \E n \in T : \A m \in T : n <= m
  <1>1. \E x \in T : \A y \in T : <<y, x>> \notin OpToRel(<, Nat)
    BY WFMin, NatLessThanWellFounded
  <1>2. \A y, z \in Nat : y < z => <<y, z>> \in OpToRel(<, Nat)
    BY Zenon DEF OpToRel
  <1>3. \E n \in T : \A y \in T : ~(y < n)
    BY <1>1, <1>2, Zenon
  <1> QED
    BY <1>3

\* Induction up to a bound.
LEMMA UpTo ==
    ASSUME NEW n \in Nat, NEW S, 0 \in S, \A i \in 1 .. n : i - 1 \in S => i \in S
    PROVE  \A i \in 0 .. n : i \in S
  <1> DEFINE T == {i \in 0 .. n : i \notin S}
  <1> SUFFICES ASSUME T # {} PROVE FALSE
    OBVIOUS
  <1>1. T \in SUBSET Nat
    OBVIOUS
  <1>2. PICK k \in T : \A m \in T : k <= m
    <2> HIDE DEF T
    <2> QED
      BY <1>1, LeastNat
  <1>3. k \in 1 .. n /\ k - 1 \in 0 .. n /\ ~(k <= k - 1)
    BY <1>2
  <1>4. k - 1 \in S
    BY <1>2, <1>3
  <1> QED
    BY <1>2, <1>3, <1>4

\* The random positions of a loop over the front of v: a turn for each.
LEMMA DrawsAre ==
    ASSUME NEW v \in Seq(Nat), NEW n \in Nat, NEW r \in Draws(v, n)
    PROVE  /\ r \in Seq(Nat) /\ Len(r) <= Len(v) /\ (n # 0 /\ Len(v) # 0 => Len(r) # 0)
           /\ \A i \in 1 .. Len(r) : i \in 1 .. Len(v) /\ r[i] \in 1 .. Len(v)
  <1> DEFINE k == IF n < Len(v) THEN n ELSE Len(v)
  <1>1. k \in Nat /\ k <= Len(v) /\ (n # 0 /\ Len(v) # 0 => k # 0)
    OBVIOUS
  <1>2. r \in [1 .. k -> 1 .. Len(v)]
    BY DEF Draws
  <1> HIDE DEF k
  <1>3. r \in Seq(Nat) /\ Len(r) = k
    BY <1>1, <1>2
  <1> QED
    BY <1>1, <1>2, <1>3

\* The loop of GetAddr_ has a run ...
ShuffleRun(q, m, r) ==
    /\ q[0] = m
    /\ \A n \in 1 .. Len(r) : q[n] = SwapRandom(q[n - 1], n, r[n])

LEMMA ShuffledRuns ==
    ASSUME NEW m, NEW r \in Seq(Nat)
    PROVE  \E q : ShuffleRun(q, m, r) /\ Shuffled(m, r) = q[Len(r)]
  <1> DEFINE Run(q, k) == q = [n \in 0 .. k |-> IF n = 0 THEN m ELSE SwapRandom(q[n - 1], n, r[n])]
             Size == Len(r)
             Has(k) == \E q : Run(q, k)
             S == {k \in 0 .. Size : Has(k)}
  <1>1. Size \in Nat
    OBVIOUS
  <1>2. 0 \in S
    <2> DEFINE q == [n \in 0 .. 0 |-> m]
    <2>1. Run(q, 0)
      OBVIOUS
    <2>2. Has(0)
      BY <2>1
    <2> HIDE DEF Has, Size
    <2> QED
      BY <1>1, <2>2
  <1>3. ASSUME NEW k \in 1 .. Size, k - 1 \in S PROVE k \in S
    <2>0. k \in Nat /\ k - 1 \in Nat /\ Has(k - 1)
      <3> HIDE DEF Has, Size
      <3> QED
        BY <1>1, <1>3
    <2>1. PICK q : Run(q, k - 1)
      BY <2>0
    <2> DEFINE p == [n \in 0 .. k |-> IF n = 0 THEN m ELSE SwapRandom(q[n - 1], n, r[n])]
    <2>2. \A n \in 0 .. k - 1 : p[n] = q[n]
      <3>1. \A n \in 0 .. k - 1 : n \in 0 .. k
        BY <2>0
      <3> QED
        BY <2>1, <3>1
    <2>3. ASSUME NEW n \in 0 .. k, n # 0 PROVE q[n - 1] = p[n - 1]
      <3>1. n - 1 \in 0 .. k - 1
        BY <2>0, <2>3
      <3> HIDE DEF p
      <3> QED
        BY <2>2, <3>1
    <2>4. Run(p, k)
      BY <2>3
    <2>5. Has(k)
      <3> HIDE DEF p
      <3> QED
        BY <2>4
    <2> HIDE DEF Has, Size
    <2> QED
      BY <1>1, <2>5
  <1>4. Has(Size)
    <2> HIDE DEF Size, Has
    <2>1. 0 \in S /\ \A k \in 1 .. Size : k - 1 \in S => k \in S
      BY <1>2, <1>3
    <2> HIDE DEF S
    <2>2. \A k \in 0 .. Size : k \in S
      BY <1>1, <2>1, UpTo
    <2> QED
      BY <1>1, <2>2 DEF S
  <1>5. PICK q : Run(q, Size)
    BY <1>4
  <1> DEFINE p == CHOOSE u : Run(u, Size)
  <1>6. Run(p, Size)
    <2> HIDE DEF Run
    <2> QED
      BY <1>5
  <1>7. Shuffled(m, r) = p[Size]
    BY DEF Shuffled
  <1> HIDE DEF p
  <1>8. p[0] = m
    BY <1>1, <1>6
  <1>9. ASSUME NEW n \in 1 .. Size PROVE p[n] = SwapRandom(p[n - 1], n, r[n])
    <2>1. n \in 0 .. Size /\ n # 0
      BY <1>1
    <2> QED
      BY <1>6, <2>1
  <1> QED
    BY <1>7, <1>8, <1>9 DEF ShuffleRun

\* ... and changes the order of vRandom only.
LEMMA GetAddrKeeps ==
    ASSUME IInv, GetAddr
    PROVE  IInv' /\ TriedSame(am, am')
  <1> DEFINE nNodes == (ADDRMAN_GETADDR_MAX_PCT * Len(am.vRandom)) \div 100
             V == am.vvNew
  <1>1. /\ Consistent(am, V) /\ Shape(am) /\ RandomOK(am) /\ Bounded(am)
        /\ am.vRandom \in Seq(Nat) /\ Len(am.vRandom) \in Nat
    BY DEF IInv, Consistent, RandomOK
  <1>2. nNodes \in Nat
    <2>1. ADDRMAN_GETADDR_MAX_PCT * Len(am.vRandom) \in Nat
      <3>1. \A i, j \in Nat : i * j \in Nat
        OBVIOUS
      <3>2. ADDRMAN_GETADDR_MAX_PCT \in Nat
        BY AddrManAssumption
      <3> QED
        BY <1>1, <3>1, <3>2
    <2> DEFINE k == ADDRMAN_GETADDR_MAX_PCT * Len(am.vRandom)
    <2> HIDE DEF k
    <2>2. k \div 100 \in Nat
      BY <2>1 DEF k
    <2> QED
      BY <2>2 DEF k
  <1>3. PICK r \in Draws(am.vRandom, nNodes) : am' = Shuffled(am, r)
    BY DEF GetAddr
  <1> HIDE DEF nNodes
  <1>4. /\ r \in Seq(Nat)
        /\ \A i \in 1 .. Len(r) : i \in 1 .. Len(am.vRandom) /\ r[i] \in 1 .. Len(am.vRandom)
    BY <1>1, <1>2, <1>3, DrawsAre
  <1>5. PICK q : ShuffleRun(q, am, r) /\ am' = q[Len(r)]
    BY <1>3, <1>4, ShuffledRuns
  <1> DEFINE Fine(m) == /\ Shape(m) /\ RandomOK(m) /\ SameEntries(am, m) /\ SameTables(am, m)
                        /\ Len(m.vRandom) = Len(am.vRandom)
             S == {n \in 0 .. Len(r) : Fine(q[n])}
  <1>6. Fine(q[0])
    BY <1>1, <1>5 DEF ShuffleRun, SameEntries, SameTables
  <1>7. ASSUME NEW n \in 1 .. Len(r), Fine(q[n - 1]) PROVE Fine(q[n])
    <2> DEFINE m == q[n - 1]
               w == SwapRandom(m, n, r[n])
    <2>1. q[n] = w
      BY <1>5 DEF ShuffleRun
    <2>2. n \in 1 .. Len(m.vRandom) /\ r[n] \in 1 .. Len(m.vRandom)
      BY <1>4, <1>7
    <2>3. Shape(m) /\ RandomOK(m)
      BY <1>7
    <2>4. /\ Shape(w) /\ RandomOK(w) /\ SameEntries(m, w) /\ SameTables(m, w)
          /\ Len(w.vRandom) = Len(m.vRandom)
      <3> HIDE DEF m, Fine
      <3> QED
        BY <2>2, <2>3, SwapRandomEffect
    <2> HIDE DEF w
    <2> QED
      BY <1>7, <2>1, <2>4 DEF SameEntries, SameTables
  <1>8. Fine(am')
    <2>1. Len(r) \in Nat
      BY <1>4
    <2> HIDE DEF Fine
    <2>2. 0 \in S /\ \A n \in 1 .. Len(r) : n - 1 \in S => n \in S
      BY <1>6, <1>7, <2>1
    <2> HIDE DEF S
    <2>3. \A n \in 0 .. Len(r) : n \in S
      BY <2>1, <2>2, UpTo
    <2> QED
      BY <1>5, <2>1, <2>3 DEF S
  <1>9. Consistent(am', V)
    BY <1>1, <1>8, SameKeeps
  <1>10. am'.vvNew = V /\ Bounded(am') /\ TriedSame(am, am')
    BY <1>1, <1>8 DEF SameTables, Bounded, TriedSame, TriedOf, SameEntries
  <1> QED
    BY <1>9, <1>10 DEF IInv
-----------------------------------------------------------------------------
\* The loop of SelectTried has a run ...
Unseen(m, b) == [vTried |-> m.vvTried[b], nOldest |-> 0, nOldestPos |-> 0]
SelectRun(q, m, b, r) ==
    /\ q[0] = Unseen(m, b)
    /\ \A n \in 1 .. Len(r) : q[n] = LookAt(m, q[n - 1], n, r[n])

LEMMA SelectTriedRuns ==
    ASSUME NEW m, NEW b, NEW r \in Seq(Nat)
    PROVE  \E q : SelectRun(q, m, b, r) /\ SelectTried(m, b, r) = q[Len(r)]
  <1> DEFINE Run(q, k) == q = [n \in 0 .. k |-> IF n = 0 THEN Unseen(m, b) ELSE LookAt(m, q[n - 1], n, r[n])]
             Size == Len(r)
             Has(k) == \E q : Run(q, k)
             S == {k \in 0 .. Size : Has(k)}
  <1>1. Size \in Nat
    OBVIOUS
  <1>2. 0 \in S
    <2> DEFINE q == [n \in 0 .. 0 |-> Unseen(m, b)]
    <2>1. Run(q, 0)
      OBVIOUS
    <2>2. Has(0)
      BY <2>1
    <2> HIDE DEF Has, Size
    <2> QED
      BY <1>1, <2>2
  <1>3. ASSUME NEW k \in 1 .. Size, k - 1 \in S PROVE k \in S
    <2>0. k \in Nat /\ k - 1 \in Nat /\ Has(k - 1)
      <3> HIDE DEF Has, Size
      <3> QED
        BY <1>1, <1>3
    <2>1. PICK q : Run(q, k - 1)
      BY <2>0
    <2> DEFINE p == [n \in 0 .. k |-> IF n = 0 THEN Unseen(m, b) ELSE LookAt(m, q[n - 1], n, r[n])]
    <2>2. \A n \in 0 .. k - 1 : p[n] = q[n]
      <3>1. \A n \in 0 .. k - 1 : n \in 0 .. k
        BY <2>0
      <3> QED
        BY <2>1, <3>1
    <2>3. ASSUME NEW n \in 0 .. k, n # 0 PROVE q[n - 1] = p[n - 1]
      <3>1. n - 1 \in 0 .. k - 1
        BY <2>0, <2>3
      <3> HIDE DEF p
      <3> QED
        BY <2>2, <3>1
    <2>4. Run(p, k)
      BY <2>3
    <2>5. Has(k)
      <3> HIDE DEF p
      <3> QED
        BY <2>4
    <2> HIDE DEF Has, Size
    <2> QED
      BY <1>1, <2>5
  <1>4. Has(Size)
    <2> HIDE DEF Size, Has
    <2>1. 0 \in S /\ \A k \in 1 .. Size : k - 1 \in S => k \in S
      BY <1>2, <1>3
    <2> HIDE DEF S
    <2>2. \A k \in 0 .. Size : k \in S
      BY <1>1, <2>1, UpTo
    <2> QED
      BY <1>1, <2>2 DEF S
  <1>5. PICK q : Run(q, Size)
    BY <1>4
  <1> DEFINE p == CHOOSE u : Run(u, Size)
  <1>6. Run(p, Size)
    <2> HIDE DEF Run
    <2> QED
      BY <1>5
  <1>7. SelectTried(m, b, r) = p[Size]
    BY DEF SelectTried, Unseen
  <1> HIDE DEF p
  <1>8. p[0] = Unseen(m, b)
    BY <1>1, <1>6
  <1>9. ASSUME NEW n \in 1 .. Size PROVE p[n] = LookAt(m, p[n - 1], n, r[n])
    <2>1. n \in 0 .. Size /\ n # 0
      BY <1>1
    <2> QED
      BY <1>6, <2>1
  <1> QED
    BY <1>7, <1>8, <1>9 DEF SelectRun

\* ... which only changes the order of the bucket ...
Permuted(v, u) ==
    /\ u \in Seq(Nat) /\ Len(u) = Len(v)
    /\ \A i \in 1 .. Len(v) : \E j \in 1 .. Len(v) : u[i] = v[j]
    /\ \A j \in 1 .. Len(v) : \E i \in 1 .. Len(v) : u[i] = v[j]
    /\ \A i, j \in 1 .. Len(v) : u[i] = u[j] => i = j

LEMMA SwapPermutes ==
    ASSUME NEW v \in Seq(Nat), NEW u, Permuted(v, u), NEW i \in 1 .. Len(v), NEW p \in 1 .. Len(v)
    PROVE  Permuted(v, [u EXCEPT ![p] = u[i], ![i] = u[p]])
  <1> DEFINE x == u[p]
             y == u[i]
             w == [u EXCEPT ![p] = y, ![i] = x]
  <1>1. /\ \A k \in 1 .. Len(v) : \E j \in 1 .. Len(v) : u[k] = v[j]
        /\ \A j \in 1 .. Len(v) : \E k \in 1 .. Len(v) : u[k] = v[j]
        /\ \A k, j \in 1 .. Len(v) : u[k] = u[j] => k = j
    BY DEF Permuted
  <1>2. u \in Seq(Nat) /\ Len(u) = Len(v) /\ Len(u) \in Nat
    BY DEF Permuted
  <1>3. /\ w \in Seq(Nat) /\ Len(w) = Len(u)
        /\ \A k \in 1 .. Len(w) : w[k] = IF k = i THEN x ELSE IF k = p THEN y ELSE u[k]
    <2>1. i \in 1 .. Len(u) /\ p \in 1 .. Len(u)
      BY <1>2
    <2>2. x \in Nat /\ y \in Nat
      BY <1>2, <2>1, SMTT(60)
    <2> HIDE DEF x, y
    <2> QED
      BY <1>2, <2>1, <2>2, SMTT(60)
  <1> HIDE DEF x, y
  <1> DEFINE K == 1 .. Len(v)
  <1>4. /\ i \in K /\ p \in K
        /\ \A k \in K : w[k] = IF k = i THEN u[p] ELSE IF k = p THEN u[i] ELSE u[k]
    BY <1>2, <1>3 DEF x, y
  <1>5. /\ w \in Seq(Nat) /\ Len(w) = Len(v)
        /\ \A k \in K : \E j \in K : u[k] = v[j]
        /\ \A j \in K : \E k \in K : u[k] = v[j]
        /\ \A k, j \in K : u[k] = u[j] => k = j
    BY <1>1, <1>2, <1>3
  <1>6. Permuted(v, w) <=> /\ w \in Seq(Nat) /\ Len(w) = Len(v)
                           /\ \A k \in K : \E j \in K : w[k] = v[j]
                           /\ \A j \in K : \E k \in K : w[k] = v[j]
                           /\ \A k, j \in K : w[k] = w[j] => k = j
    <2> HIDE DEF w
    <2> QED
      BY DEF Permuted
  <1>7. w = [u EXCEPT ![p] = u[i], ![i] = u[p]]
    BY DEF x, y
  <1> HIDE DEF w, K
  <1>8. ASSUME NEW k \in K PROVE \E j \in K : w[k] = u[j]
    BY <1>4
  <1>9. ASSUME NEW j \in K PROVE \E k \in K : w[k] = u[j]
    <2>1. j = i \/ j = p \/ (j # i /\ j # p)
      OBVIOUS
    <2>2. w[i] = u[p] /\ (p # i => w[p] = u[i])
      BY <1>4
    <2> QED
      BY <1>4, <2>1, <2>2
  <1>10. \A k \in K : \E j \in K : w[k] = v[j]
    BY <1>5, <1>8
  <1>11. \A j \in K : \E k \in K : w[k] = v[j]
    BY <1>5, <1>9
  <1>12. ASSUME NEW k \in K, NEW j \in K, w[k] = w[j] PROVE k = j
    <2> DEFINE At(z) == IF z = i THEN p ELSE IF z = p THEN i ELSE z
    <2>1. \A z \in K : At(z) \in K /\ w[z] = u[At(z)]
      BY <1>4
    <2>2. At(k) = At(j)
      <3> HIDE DEF At
      <3> QED
        BY <1>5, <1>12, <2>1
    <2> QED
      BY <2>2
  <1> QED
    BY <1>5, <1>6, <1>7, <1>10, <1>11, <1>12

\* ... and returns a position in it.
LEMMA SelectTriedEffect ==
    ASSUME NEW m, NEW b, NEW v, v = m.vvTried[b], v \in Seq(Nat),
           \A i, j \in 1 .. Len(v) : v[i] = v[j] => i = j,
           NEW r \in Seq(Nat), Len(r) # 0,
           \A i \in 1 .. Len(r) : i \in 1 .. Len(v) /\ r[i] \in 1 .. Len(v)
    PROVE  /\ Permuted(v, SelectTried(m, b, r).vTried)
           /\ SelectTried(m, b, r).nOldestPos \in 1 .. Len(v)
  <1>1. PICK q : SelectRun(q, m, b, r) /\ SelectTried(m, b, r) = q[Len(r)]
    BY SelectTriedRuns, SMTT(60)
  <1> DEFINE Fine(n) == /\ Permuted(v, q[n].vTried) /\ q[n].nOldestPos \in 0 .. Len(v)
                        /\ n # 0 => q[n].nOldestPos # 0
             S == {n \in 0 .. Len(r) : Fine(n)}
  <1>2. Fine(0)
    BY <1>1 DEF SelectRun, Unseen, Permuted
  <1>3. ASSUME NEW n \in 1 .. Len(r), Fine(n - 1) PROVE Fine(n)
    <2> DEFINE st == q[n - 1]
               u == st.vTried
    <2>1. q[n] = LookAt(m, st, n, r[n])
      BY <1>1 DEF SelectRun
    <2>2. /\ q[n].vTried = [u EXCEPT ![r[n]] = u[n], ![n] = u[r[n]]]
          /\ q[n].nOldestPos = r[n] \/ (q[n].nOldestPos = st.nOldestPos /\ st.nOldestPos # 0)
      BY <2>1 DEF LookAt
    <2>3. n \in 1 .. Len(v) /\ r[n] \in 1 .. Len(v)
      OBVIOUS
    <2>4. Permuted(v, u) /\ st.nOldestPos \in 0 .. Len(v)
      BY <1>3
    <2>5. Permuted(v, [u EXCEPT ![r[n]] = u[n], ![n] = u[r[n]]])
      <3> HIDE DEF u
      <3> QED
        BY <2>3, <2>4, SwapPermutes
    <2> QED
      BY <2>2, <2>3, <2>4, <2>5, SMTT(60)
  <1>4. Fine(Len(r))
    <2>1. Len(r) \in Nat
      OBVIOUS
    <2> HIDE DEF Fine
    <2>2. 0 \in S /\ \A n \in 1 .. Len(r) : n - 1 \in S => n \in S
      BY <1>2, <1>3, <2>1
    <2> HIDE DEF S
    <2>3. \A n \in 0 .. Len(r) : n \in S
      BY <2>1, <2>2, UpTo
    <2> QED
      BY <2>1, <2>3 DEF S
  <1> QED
    BY <1>1, <1>4
-----------------------------------------------------------------------------
\* The entries and their indexes stay; what tables they are in may change.
Retabled(m, z) ==
    /\ DOMAIN z = DOMAIN m /\ DOMAIN z.mapInfo = DOMAIN m.mapInfo
    /\ \A y \in DOMAIN m.mapInfo :
        /\ z.mapInfo[y] \in Info
        /\ z.mapInfo[y].addr = m.mapInfo[y].addr
        /\ z.mapInfo[y].nRandomPos = m.mapInfo[y].nRandomPos
    /\ z.nIdCount = m.nIdCount /\ z.mapAddr = m.mapAddr /\ z.vRandom = m.vRandom

LEMMA RetabledKeeps ==
    ASSUME NEW m, NEW z, Shape(m), AddrOK(m), RandomOK(m), Retabled(m, z)
    PROVE  Shape(z) /\ AddrOK(z) /\ RandomOK(z)
  <1>1. Shape(z)
    BY DEF Shape, Retabled
  <1>2. AddrOK(z)
    BY DEF AddrOK, Retabled
  <1>3. RandomOK(z)
    BY SMTT(60) DEF RandomOK, Retabled
  <1> QED
    BY <1>1, <1>2, <1>3

\* A tried bucket changes, and the others do not.
LEMMA TriedBucketKeeps ==
    ASSUME NEW m, NEW z, TriedOK(m), Retabled(m, z), NEW b \in TriedBucket, NEW t \in Seq(Nat),
           DOMAIN z.vvTried = TriedBucket, z.vvTried[b] = t,
           \A c \in TriedBucket : c # b => z.vvTried[c] = m.vvTried[c],
           \A y \in DOMAIN m.mapInfo : GetTriedBucket[m.mapInfo[y].addr] # b =>
                z.mapInfo[y].fInTried = m.mapInfo[y].fInTried,
           \A i \in 1 .. Len(t) : /\ t[i] \in DOMAIN m.mapInfo /\ z.mapInfo[t[i]].fInTried
                                  /\ GetTriedBucket[m.mapInfo[t[i]].addr] = b,
           \A i, j \in 1 .. Len(t) : t[i] = t[j] => i = j,
           \A y \in DOMAIN m.mapInfo : z.mapInfo[y].fInTried /\ GetTriedBucket[m.mapInfo[y].addr] = b =>
                \E i \in 1 .. Len(t) : t[i] = y
    PROVE  TriedOK(z)
  <1>1. ASSUME NEW c \in TriedBucket
        PROVE  /\ z.vvTried[c] \in Seq(Nat)
               /\ \A i \in 1 .. Len(z.vvTried[c]) :
                    /\ z.vvTried[c][i] \in DOMAIN z.mapInfo
                    /\ z.mapInfo[z.vvTried[c][i]].fInTried
                    /\ GetTriedBucket[z.mapInfo[z.vvTried[c][i]].addr] = c
                    /\ \A j \in 1 .. Len(z.vvTried[c]) : z.vvTried[c][i] = z.vvTried[c][j] => i = j
    <2>1. CASE c = b
      BY <2>1, SMTT(60) DEF Retabled
    <2>2. CASE c # b
      <3> DEFINE s == m.vvTried[c]
      <3>1. /\ s \in Seq(Nat)
            /\ \A i \in 1 .. Len(s) : /\ s[i] \in DOMAIN m.mapInfo /\ m.mapInfo[s[i]].fInTried
                                      /\ GetTriedBucket[m.mapInfo[s[i]].addr] = c
                                      /\ \A j \in 1 .. Len(s) : s[i] = s[j] => i = j
        BY SMTT(60) DEF TriedOK
      <3>2. z.vvTried[c] = s
        BY <2>2
      <3> HIDE DEF s
      <3>3. ASSUME NEW y \in DOMAIN m.mapInfo, m.mapInfo[y].fInTried,
                   GetTriedBucket[m.mapInfo[y].addr] = c
            PROVE  /\ y \in DOMAIN z.mapInfo /\ z.mapInfo[y].fInTried
                   /\ GetTriedBucket[z.mapInfo[y].addr] = c
        BY <2>2, <3>3 DEF Retabled
      <3>4. \A i \in 1 .. Len(s) : /\ s[i] \in DOMAIN z.mapInfo /\ z.mapInfo[s[i]].fInTried
                                   /\ GetTriedBucket[z.mapInfo[s[i]].addr] = c
        BY <3>1, <3>3
      <3> QED
        BY <3>1, <3>2, <3>4
    <2> QED
      BY <2>1, <2>2
  <1>2. ASSUME NEW y \in DOMAIN z.mapInfo, z.mapInfo[y].fInTried
        PROVE  \E i \in 1 .. Len(z.vvTried[GetTriedBucket[z.mapInfo[y].addr]]) :
                    z.vvTried[GetTriedBucket[z.mapInfo[y].addr]][i] = y
    <2> DEFINE c == GetTriedBucket[m.mapInfo[y].addr]
    <2>1. /\ y \in DOMAIN m.mapInfo /\ z.mapInfo[y].addr = m.mapInfo[y].addr
          /\ m.mapInfo[y].addr \in Addr
      BY DEF Retabled, Info
    <2>2. c \in TriedBucket
      BY <2>1, AddrManAssumption
    <2>3. CASE c = b
      BY <1>2, <2>1, <2>3
    <2>4. CASE c # b
      <3>1. m.mapInfo[y].fInTried /\ z.vvTried[c] = m.vvTried[c]
        BY <1>2, <2>1, <2>2, <2>4
      <3>2. \E i \in 1 .. Len(m.vvTried[c]) : m.vvTried[c][i] = y
        BY <2>1, <3>1 DEF TriedOK
      <3>3. c = GetTriedBucket[z.mapInfo[y].addr]
        BY <2>1
      <3> HIDE DEF c
      <3> QED
        BY <3>1, <3>2, <3>3, ZenonT(60)
    <2> QED
      BY <2>3, <2>4
  <1> QED
    BY <1>1, <1>2 DEF TriedOK

\* An entry changes its tables.
LEMMA InfoSet ==
    ASSUME NEW e \in Info, NEW n \in Nat
    PROVE  /\ LET f == [e EXCEPT !.nRefCount = n, !.fInTried = TRUE]
              IN  /\ f \in Info /\ f.addr = e.addr /\ f.nRandomPos = e.nRandomPos
                  /\ f.nRefCount = n /\ f.fInTried = TRUE
           /\ LET f == [e EXCEPT !.nRefCount = n, !.fInTried = FALSE]
              IN  /\ f \in Info /\ f.addr = e.addr /\ f.nRandomPos = e.nRandomPos
                  /\ f.nRefCount = n /\ f.fInTried = FALSE
  <1>1. /\ e.addr \in Addr /\ e.source \in Source /\ e.nRandomPos \in Nat
        /\ DOMAIN e = {"addr", "source", "nRefCount", "fInTried", "nRandomPos"}
    BY DEF Info
  <1> DEFINE g == [e EXCEPT !.nRefCount = n]
  <1>2. g \in Info /\ g.addr = e.addr /\ g.nRandomPos = e.nRandomPos /\ g.nRefCount = n
    BY DEF Info
  <1>3. /\ [e EXCEPT !.nRefCount = n, !.fInTried = TRUE] = [g EXCEPT !.fInTried = TRUE]
        /\ [e EXCEPT !.nRefCount = n, !.fInTried = FALSE] = [g EXCEPT !.fInTried = FALSE]
    OBVIOUS
  <1> HIDE DEF g
  <1> DEFINE f == [g EXCEPT !.fInTried = TRUE]
             h == [g EXCEPT !.fInTried = FALSE]
  <1>4. /\ f \in Info /\ f.addr = e.addr /\ f.nRandomPos = e.nRandomPos
        /\ f.nRefCount = n /\ f.fInTried = TRUE
    BY <1>2 DEF Info
  <1>5. /\ h \in Info /\ h.addr = e.addr /\ h.nRandomPos = e.nRandomPos
        /\ h.nRefCount = n /\ h.fInTried = FALSE
    BY <1>2 DEF Info
  <1> QED
    BY <1>3, <1>4, <1>5

\* What LeaveNew does: no new bucket holds entry x, and its nRefCount is 0.
Left(m, w, x) ==
    /\ DOMAIN w = DOMAIN m /\ DOMAIN w.mapInfo = DOMAIN m.mapInfo
    /\ w.mapInfo[x] = [m.mapInfo[x] EXCEPT !.nRefCount = 0]
    /\ \A y \in DOMAIN m.mapInfo : y # x => w.mapInfo[y] = m.mapInfo[y]
    /\ w.nIdCount = m.nIdCount /\ w.mapAddr = m.mapAddr /\ w.vRandom = m.vRandom
    /\ w.nTried = m.nTried /\ w.vvTried = m.vvTried /\ w.nNew = m.nNew - 1
    /\ w.vvNew = [b \in NewBucket |-> m.vvNew[b] \ {x}]

LEMMA LeaveNewEffect ==
    ASSUME NEW m, Consistent(m, m.vvNew), NEW x \in DOMAIN m.mapInfo
    PROVE  Left(m, LeaveNew(m, x), x)
  <1> DEFINE H == Holding(m.vvNew, x)
             w == [m EXCEPT !.vvNew = [b \in NewBucket |-> @[b] \ {x}],
                            !.mapInfo[x].nRefCount = @ - Cardinality(H),
                            !.nNew = @ - 1]
  <1>1. LeaveNew(m, x) = w
    BY DEF LeaveNew, Holding
  <1>2. Cardinality(H) \in Nat /\ m.mapInfo[x].nRefCount = Cardinality(H)
    BY HoldingFinite DEF Consistent, RefOK, RefAt
  <1>3. m.mapInfo[x].nRefCount - Cardinality(H) = 0
    BY <1>2
  <1> HIDE DEF H
  <1>4. w.mapInfo[x] = [m.mapInfo[x] EXCEPT !.nRefCount = m.mapInfo[x].nRefCount - Cardinality(H)]
    BY DEF Consistent, Shape
  <1>5. /\ DOMAIN w = DOMAIN m /\ DOMAIN w.mapInfo = DOMAIN m.mapInfo
        /\ \A y \in DOMAIN m.mapInfo : y # x => w.mapInfo[y] = m.mapInfo[y]
        /\ w.nIdCount = m.nIdCount /\ w.mapAddr = m.mapAddr /\ w.vRandom = m.vRandom
        /\ w.nTried = m.nTried /\ w.vvTried = m.vvTried /\ w.nNew = m.nNew - 1
        /\ w.vvNew = [b \in NewBucket |-> m.vvNew[b] \ {x}]
    BY DEF Consistent, Shape
  <1> HIDE DEF w
  <1> QED
    BY <1>1, <1>3, <1>4, <1>5 DEF Left

\* The new buckets once an entry has left them all.
Purged(V, x) == [b \in NewBucket |-> V[b] \ {x}]

LEMMA HoldingPurged ==
    ASSUME NEW V, NEW x
    PROVE  /\ Holding(Purged(V, x), x) = {}
           /\ \A y : y # x => Holding(Purged(V, x), y) = Holding(V, y)
  BY DEF Holding, Purged

\* The entry that becomes tried finds place in its bucket.
Appended(m, z, x) ==
    LET b == GetTriedBucket[m.mapInfo[x].addr]
    IN  /\ DOMAIN z = DOMAIN m /\ DOMAIN z.mapInfo = DOMAIN m.mapInfo
        /\ z.mapInfo[x] = [m.mapInfo[x] EXCEPT !.nRefCount = 0, !.fInTried = TRUE]
        /\ \A y \in DOMAIN m.mapInfo : y # x => z.mapInfo[y] = m.mapInfo[y]
        /\ z.nIdCount = m.nIdCount /\ z.mapAddr = m.mapAddr /\ z.vRandom = m.vRandom
        /\ z.nTried = m.nTried + 1 /\ z.nNew = m.nNew - 1
        /\ z.vvTried = [m.vvTried EXCEPT ![b] = Append(@, x)]
        /\ z.vvNew = Purged(m.vvNew, x)
        /\ Len(m.vvTried[b]) < ADDRMAN_TRIED_BUCKET_SIZE

LEMMA AppendedKeeps ==
    ASSUME NEW m, Consistent(m, m.vvNew), Bounded(m), NEW x \in DOMAIN m.mapInfo,
           ~m.mapInfo[x].fInTried, NEW z, Appended(m, z, x)
    PROVE  /\ Consistent(z, z.vvNew) /\ Bounded(z) /\ Retabled(m, z)
           /\ TriedOf(z) = TriedOf(m) \cup {x}
  <1> DEFINE b == GetTriedBucket[m.mapInfo[x].addr]
             s == m.vvTried[b]
             t == Append(s, x)
             V == m.vvNew
  <1>1. /\ Shape(m) /\ AddrOK(m) /\ RandomOK(m) /\ CountOK(m) /\ RefOK(m, V) /\ TriedOK(m)
        /\ x \in Nat /\ m.mapInfo[x] \in Info /\ V \in [NewBucket -> SUBSET DOMAIN m.mapInfo]
    BY DEF Consistent, Shape, RefOK
  <1>2. b \in TriedBucket /\ s \in Seq(Nat) /\ DOMAIN m.vvTried = TriedBucket
    <2>1. m.mapInfo[x].addr \in Addr
      BY <1>1 DEF Info
    <2>2. b \in TriedBucket
      BY <2>1, AddrManAssumption
    <2> HIDE DEF b
    <2> QED
      BY <1>1, <2>2 DEF TriedOK
  <1>3. /\ DOMAIN z = DOMAIN m /\ DOMAIN z.mapInfo = DOMAIN m.mapInfo
        /\ z.mapInfo[x] = [m.mapInfo[x] EXCEPT !.nRefCount = 0, !.fInTried = TRUE]
        /\ \A y \in DOMAIN m.mapInfo : y # x => z.mapInfo[y] = m.mapInfo[y]
        /\ z.nIdCount = m.nIdCount /\ z.mapAddr = m.mapAddr /\ z.vRandom = m.vRandom
        /\ z.nTried = m.nTried + 1 /\ z.nNew = m.nNew - 1
        /\ z.vvTried = [m.vvTried EXCEPT ![b] = t]
        /\ z.vvNew = Purged(V, x) /\ Len(s) < ADDRMAN_TRIED_BUCKET_SIZE
    BY DEF Appended
  <1>b. b = GetTriedBucket[m.mapInfo[x].addr]
    OBVIOUS
  <1> HIDE DEF b
  <1>4. /\ z.mapInfo[x] \in Info /\ z.mapInfo[x].addr = m.mapInfo[x].addr
        /\ z.mapInfo[x].nRandomPos = m.mapInfo[x].nRandomPos
        /\ z.mapInfo[x].nRefCount = 0 /\ z.mapInfo[x].fInTried = TRUE
    <2> DEFINE e == m.mapInfo[x]
               f == z.mapInfo[x]
    <2>1. e \in Info /\ f = [e EXCEPT !.nRefCount = 0, !.fInTried = TRUE] /\ 0 \in Nat
      BY <1>1, <1>3
    <2> HIDE DEF e, f
    <2>2. f \in Info /\ f.addr = e.addr /\ f.nRandomPos = e.nRandomPos /\ f.nRefCount = 0 /\ f.fInTried = TRUE
      BY <2>1, InfoSet
    <2> QED
      BY <2>2 DEF e, f
  <1>5. Retabled(m, z)
    BY <1>1, <1>3, <1>4 DEF Retabled, Shape
  <1>6. TriedOf(z) = TriedOf(m) \cup {x} /\ x \notin TriedOf(m)
    BY <1>3, <1>4 DEF TriedOf
  <1>7. CountOK(z)
    <2> DEFINE T == TriedOf(m)
               N == DOMAIN m.mapInfo \ T
    <2>1. IsFiniteSet(T) /\ IsFiniteSet(N)
      <3>1. T \in SUBSET DOMAIN m.mapInfo /\ N \in SUBSET DOMAIN m.mapInfo
        BY DEF TriedOf
      <3> QED
        BY <1>1, <3>1, IdsFinite, FS_Subset
    <2>2. Cardinality(T \cup {x}) = Cardinality(T) + 1
      BY <1>6, <2>1, FS_AddElement
    <2>3. x \in N /\ DOMAIN z.mapInfo \ TriedOf(z) = N \ {x}
      BY <1>3, <1>6
    <2>4. Cardinality(N \ {x}) = Cardinality(N) - 1
      BY <2>1, <2>3, FS_RemoveElement
    <2> QED
      BY <1>1, <1>3, <1>6, <2>2, <2>3, <2>4 DEF CountOK
  <1>8. RefOK(z, z.vvNew)
    <2>1. z.vvNew \in [NewBucket -> SUBSET DOMAIN z.mapInfo]
      BY <1>1, <1>3 DEF Purged
    <2>2. Holding(z.vvNew, x) = {} /\ \A y : y # x => Holding(z.vvNew, y) = Holding(V, y)
      BY <1>3, HoldingPurged
    <2>3. RefAt(z, z.vvNew, x)
      BY <1>4, <2>2, FS_EmptySet DEF RefAt
    <2>4. ASSUME NEW y \in DOMAIN m.mapInfo, y # x PROVE RefAt(z, z.vvNew, y)
      BY <1>1, <1>3, <2>2, <2>4 DEF RefAt, RefOK
    <2> QED
      BY <1>3, <2>1, <2>3, <2>4 DEF RefOK
  <1>9. /\ t \in Seq(Nat) /\ Len(t) = Len(s) + 1 /\ t[Len(t)] = x
        /\ \A i \in 1 .. Len(s) : t[i] = s[i]
    BY <1>1, <1>2
  <1>10. z.vvTried[b] = t /\ DOMAIN z.vvTried = TriedBucket /\ \A c \in TriedBucket : c # b => z.vvTried[c] = m.vvTried[c]
    BY <1>2, <1>3
  <1>11. TriedOK(z)
    <2>1. \A i \in 1 .. Len(s) : /\ s[i] \in DOMAIN m.mapInfo /\ m.mapInfo[s[i]].fInTried
                                 /\ GetTriedBucket[m.mapInfo[s[i]].addr] = b
                                 /\ \A j \in 1 .. Len(s) : s[i] = s[j] => i = j
      BY <1>1, <1>2 DEF TriedOK
    <2>2. ASSUME NEW y \in DOMAIN m.mapInfo, m.mapInfo[y].fInTried, GetTriedBucket[m.mapInfo[y].addr] = b
          PROVE  \E i \in 1 .. Len(s) : s[i] = y
      BY <1>1, <2>2 DEF TriedOK
    <2> HIDE DEF t, s
    <2>3. Len(s) \in Nat /\ \A i \in 1 .. Len(t) : i \in 1 .. Len(s) \/ i = Len(t)
      BY <1>2, <1>9
    <2>4. \A i \in 1 .. Len(t) : /\ t[i] \in DOMAIN m.mapInfo /\ z.mapInfo[t[i]].fInTried
                                 /\ GetTriedBucket[m.mapInfo[t[i]].addr] = b
      <3>1. \A i \in 1 .. Len(s) : s[i] # x
        BY <2>1
      <3>2. \A i \in 1 .. Len(s) : z.mapInfo[s[i]] = m.mapInfo[s[i]]
        BY <1>3, <2>1, <3>1
      <3>3. \A i \in 1 .. Len(s) : /\ t[i] \in DOMAIN m.mapInfo /\ z.mapInfo[t[i]].fInTried
                                   /\ GetTriedBucket[m.mapInfo[t[i]].addr] = b
        BY <1>9, <2>1, <3>2
      <3> QED
        BY <1>b, <1>4, <1>9, <2>3, <3>3
    <2>5. ASSUME NEW i \in 1 .. Len(t), NEW j \in 1 .. Len(t), t[i] = t[j] PROVE i = j
      <3>1. \A k \in 1 .. Len(s) : s[k] # x
        BY <2>1
      <3> QED
        BY <1>9, <2>1, <2>3, <2>5, <3>1
    <2>6. ASSUME NEW y \in DOMAIN m.mapInfo, z.mapInfo[y].fInTried, GetTriedBucket[m.mapInfo[y].addr] = b
          PROVE  \E i \in 1 .. Len(t) : t[i] = y
      <3>1. CASE y = x
        <4>1. Len(t) \in 1 .. Len(t)
          BY <1>9, <2>3
        <4> QED
          BY <1>9, <3>1, <4>1
      <3>2. CASE y # x
        <4>1. PICK i \in 1 .. Len(s) : s[i] = y
          BY <1>3, <2>2, <2>6, <3>2
        <4>2. i \in 1 .. Len(t)
          BY <1>9, <2>3
        <4> QED
          BY <1>9, <4>1, <4>2
      <3> QED
        BY <3>1, <3>2
    <2>7. \A y \in DOMAIN m.mapInfo : GetTriedBucket[m.mapInfo[y].addr] # b =>
                z.mapInfo[y].fInTried = m.mapInfo[y].fInTried
      BY <1>b, <1>3
    <2> QED
      BY <1>1, <1>2, <1>5, <1>9, <1>10, <2>4, <2>5, <2>6, <2>7, TriedBucketKeeps, SMTT(60)
  <1>12. Bounded(z)
    <2>1. Len(t) <= ADDRMAN_TRIED_BUCKET_SIZE
      <3>1. Len(s) < ADDRMAN_TRIED_BUCKET_SIZE /\ Len(s) \in Nat
        BY <1>2, <1>3
      <3> HIDE DEF t, s
      <3> QED
        BY <1>9, <3>1, AddrManAssumption
    <2>2. \A c \in TriedBucket : Len(z.vvTried[c]) <= ADDRMAN_TRIED_BUCKET_SIZE
      <3> HIDE DEF t
      <3> QED
        BY <1>10, <2>1 DEF Bounded
    <2>3. ASSUME NEW c \in NewBucket PROVE Cardinality(z.vvNew[c]) <= ADDRMAN_NEW_BUCKET_SIZE
      <3>1. z.vvNew[c] \in SUBSET V[c] /\ V[c] \in SUBSET DOMAIN m.mapInfo
        BY <1>1, <1>3 DEF Purged
      <3>2. IsFiniteSet(V[c])
        BY <1>1, <3>1, IdsFinite, FS_Subset
      <3>3. Cardinality(z.vvNew[c]) <= Cardinality(V[c]) /\ IsFiniteSet(z.vvNew[c])
        BY <3>1, <3>2, FS_Subset
      <3>4. Cardinality(z.vvNew[c]) \in Nat /\ Cardinality(V[c]) \in Nat
        BY <3>2, <3>3, FS_CardinalityType
      <3> QED
        BY <3>3, <3>4, AddrManAssumption DEF Bounded
    <2> QED
      BY <2>2, <2>3 DEF Bounded
  <1>13. Shape(z) /\ AddrOK(z) /\ RandomOK(z)
    BY <1>1, <1>5, RetabledKeeps
  <1> QED
    BY <1>5, <1>6, <1>7, <1>8, <1>11, <1>12, <1>13 DEF Consistent

\* It takes the place of a tried entry, which goes back to a new bucket with room.
Exchanged(m, z, x, old, to, u, p) ==
    LET b == GetTriedBucket[m.mapInfo[x].addr]
    IN  /\ DOMAIN z = DOMAIN m /\ DOMAIN z.mapInfo = DOMAIN m.mapInfo
        /\ z.mapInfo[x] = [m.mapInfo[x] EXCEPT !.nRefCount = 0, !.fInTried = TRUE]
        /\ z.mapInfo[old] = [m.mapInfo[old] EXCEPT !.nRefCount = 1, !.fInTried = FALSE]
        /\ \A y \in DOMAIN m.mapInfo : y # x /\ y # old => z.mapInfo[y] = m.mapInfo[y]
        /\ z.nIdCount = m.nIdCount /\ z.mapAddr = m.mapAddr /\ z.vRandom = m.vRandom
        /\ z.nTried = m.nTried /\ z.nNew = m.nNew
        /\ z.vvTried = [m.vvTried EXCEPT ![b] = [u EXCEPT ![p] = x]]
        /\ z.vvNew = Put(Purged(m.vvNew, x), to, old)
        /\ Permuted(m.vvTried[b], u) /\ p \in 1 .. Len(m.vvTried[b]) /\ u[p] = old
        /\ to \in NewBucket
        /\ Cardinality(Purged(m.vvNew, x)[to]) < ADDRMAN_NEW_BUCKET_SIZE

LEMMA ExchangedKeeps ==
    ASSUME NEW m, Consistent(m, m.vvNew), Bounded(m), NEW x \in DOMAIN m.mapInfo,
           ~m.mapInfo[x].fInTried, NEW z, NEW old, NEW to, NEW u, NEW p,
           Exchanged(m, z, x, old, to, u, p)
    PROVE  /\ Consistent(z, z.vvNew) /\ Bounded(z) /\ Retabled(m, z)
           /\ old \in TriedOf(m) /\ TriedOf(z) = (TriedOf(m) \ {old}) \cup {x}
  <1> DEFINE b == GetTriedBucket[m.mapInfo[x].addr]
             s == m.vvTried[b]
             t == [u EXCEPT ![p] = x]
             V == m.vvNew
             U == Purged(V, x)
  <1>1. /\ Shape(m) /\ AddrOK(m) /\ RandomOK(m) /\ CountOK(m) /\ RefOK(m, V) /\ TriedOK(m)
        /\ x \in Nat /\ m.mapInfo[x] \in Info /\ V \in [NewBucket -> SUBSET DOMAIN m.mapInfo]
    BY DEF Consistent, Shape, RefOK
  <1>2. b \in TriedBucket /\ s \in Seq(Nat) /\ DOMAIN m.vvTried = TriedBucket
    <2>1. m.mapInfo[x].addr \in Addr
      BY <1>1 DEF Info
    <2>2. b \in TriedBucket
      BY <2>1, AddrManAssumption
    <2> HIDE DEF b
    <2> QED
      BY <1>1, <2>2 DEF TriedOK
  <1>3. /\ DOMAIN z = DOMAIN m /\ DOMAIN z.mapInfo = DOMAIN m.mapInfo
        /\ z.mapInfo[x] = [m.mapInfo[x] EXCEPT !.nRefCount = 0, !.fInTried = TRUE]
        /\ z.mapInfo[old] = [m.mapInfo[old] EXCEPT !.nRefCount = 1, !.fInTried = FALSE]
        /\ \A y \in DOMAIN m.mapInfo : y # x /\ y # old => z.mapInfo[y] = m.mapInfo[y]
        /\ z.nIdCount = m.nIdCount /\ z.mapAddr = m.mapAddr /\ z.vRandom = m.vRandom
        /\ z.nTried = m.nTried /\ z.nNew = m.nNew
        /\ z.vvTried = [m.vvTried EXCEPT ![b] = t]
        /\ z.vvNew = Put(U, to, old)
    BY DEF Exchanged
  <1>4. /\ Permuted(s, u) /\ p \in 1 .. Len(s) /\ u[p] = old
        /\ to \in NewBucket /\ Cardinality(U[to]) < ADDRMAN_NEW_BUCKET_SIZE
    BY DEF Exchanged
  <1>b. b = GetTriedBucket[m.mapInfo[x].addr]
    OBVIOUS
  <1> HIDE DEF b
  <1>5. /\ \A i \in 1 .. Len(s) : /\ s[i] \in DOMAIN m.mapInfo /\ m.mapInfo[s[i]].fInTried
                                  /\ GetTriedBucket[m.mapInfo[s[i]].addr] = b
        /\ \A i, j \in 1 .. Len(s) : s[i] = s[j] => i = j
    BY <1>1, <1>2 DEF TriedOK
  <1>6. ASSUME NEW y \in DOMAIN m.mapInfo, m.mapInfo[y].fInTried, GetTriedBucket[m.mapInfo[y].addr] = b
        PROVE  \E i \in 1 .. Len(s) : s[i] = y
    BY <1>1, <1>6 DEF TriedOK
  <1> HIDE DEF s
  <1>7. /\ u \in Seq(Nat) /\ Len(u) = Len(s) /\ Len(s) \in Nat
        /\ \A i \in 1 .. Len(s) : \E j \in 1 .. Len(s) : u[i] = s[j]
        /\ \A j \in 1 .. Len(s) : \E i \in 1 .. Len(s) : u[i] = s[j]
        /\ \A i, j \in 1 .. Len(s) : u[i] = u[j] => i = j
    <2>1. Permuted(s, u) /\ Len(s) \in Nat
      BY <1>2, <1>4
    <2> QED
      BY <2>1 DEF Permuted
  <1>8. ASSUME NEW i \in 1 .. Len(s)
        PROVE  /\ u[i] \in DOMAIN m.mapInfo /\ m.mapInfo[u[i]].fInTried
               /\ GetTriedBucket[m.mapInfo[u[i]].addr] = b
    <2>1. PICK j \in 1 .. Len(s) : u[i] = s[j]
      BY <1>7
    <2> QED
      BY <1>5, <2>1
  <1>9. /\ old \in DOMAIN m.mapInfo /\ m.mapInfo[old].fInTried /\ old # x
        /\ GetTriedBucket[m.mapInfo[old].addr] = b /\ m.mapInfo[old] \in Info
    BY <1>1, <1>4, <1>8 DEF Shape
  <1>10. /\ z.mapInfo[x] \in Info /\ z.mapInfo[x].addr = m.mapInfo[x].addr
         /\ z.mapInfo[x].nRandomPos = m.mapInfo[x].nRandomPos
         /\ z.mapInfo[x].nRefCount = 0 /\ z.mapInfo[x].fInTried = TRUE
    <2> DEFINE e == m.mapInfo[x]
               f == z.mapInfo[x]
    <2>1. e \in Info /\ f = [e EXCEPT !.nRefCount = 0, !.fInTried = TRUE] /\ 0 \in Nat
      BY <1>1, <1>3
    <2> HIDE DEF e, f
    <2>2. f \in Info /\ f.addr = e.addr /\ f.nRandomPos = e.nRandomPos /\ f.nRefCount = 0 /\ f.fInTried = TRUE
      BY <2>1, InfoSet
    <2> QED
      BY <2>2 DEF e, f
  <1>11. /\ z.mapInfo[old] \in Info /\ z.mapInfo[old].addr = m.mapInfo[old].addr
         /\ z.mapInfo[old].nRandomPos = m.mapInfo[old].nRandomPos
         /\ z.mapInfo[old].nRefCount = 1 /\ z.mapInfo[old].fInTried = FALSE
    <2> DEFINE e == m.mapInfo[old]
               f == z.mapInfo[old]
    <2>1. e \in Info /\ f = [e EXCEPT !.nRefCount = 1, !.fInTried = FALSE] /\ 1 \in Nat
      BY <1>3, <1>9
    <2> HIDE DEF e, f
    <2>2. f \in Info /\ f.addr = e.addr /\ f.nRandomPos = e.nRandomPos /\ f.nRefCount = 1 /\ f.fInTried = FALSE
      BY <2>1, InfoSet, ZenonT(60)
    <2> QED
      BY <2>2 DEF e, f
  <1>12. Retabled(m, z)
    BY <1>1, <1>3, <1>10, <1>11 DEF Retabled, Shape
  <1>13. /\ TriedOf(z) = (TriedOf(m) \ {old}) \cup {x}
         /\ x \notin TriedOf(m) /\ old \in TriedOf(m)
    <2>1. x \notin TriedOf(m) /\ old \in TriedOf(m) /\ x \in TriedOf(z) /\ old \notin TriedOf(z)
      BY <1>3, <1>9, <1>10, <1>11 DEF TriedOf
    <2>2. ASSUME NEW y, y # x, y # old PROVE y \in TriedOf(z) <=> y \in TriedOf(m)
      BY <1>3, <2>2 DEF TriedOf
    <2> QED
      BY <1>9, <2>1, <2>2
  <1>14. CountOK(z)
    <2> DEFINE T == TriedOf(m)
               N == DOMAIN m.mapInfo \ T
    <2>1. IsFiniteSet(T) /\ IsFiniteSet(N) /\ Cardinality(T) \in Nat /\ Cardinality(N) \in Nat
      <3>1. T \in SUBSET DOMAIN m.mapInfo /\ N \in SUBSET DOMAIN m.mapInfo
        BY DEF TriedOf
      <3>2. IsFiniteSet(T) /\ IsFiniteSet(N)
        BY <1>1, <3>1, IdsFinite, FS_Subset
      <3> QED
        BY <3>2, FS_CardinalityType
    <2>2. Cardinality((T \ {old}) \cup {x}) = Cardinality(T)
      <3>1. IsFiniteSet(T \ {old}) /\ Cardinality(T \ {old}) = Cardinality(T) - 1
        BY <1>13, <2>1, FS_RemoveElement
      <3>2. Cardinality((T \ {old}) \cup {x}) = Cardinality(T \ {old}) + 1
        BY <1>13, <3>1, FS_AddElement
      <3> QED
        BY <2>1, <3>1, <3>2
    <2>3. x \in N /\ old \notin N /\ DOMAIN z.mapInfo \ TriedOf(z) = (N \ {x}) \cup {old}
      BY <1>3, <1>9, <1>13
    <2>4. Cardinality((N \ {x}) \cup {old}) = Cardinality(N)
      <3>1. IsFiniteSet(N \ {x}) /\ Cardinality(N \ {x}) = Cardinality(N) - 1
        BY <2>1, <2>3, FS_RemoveElement
      <3>2. Cardinality((N \ {x}) \cup {old}) = Cardinality(N \ {x}) + 1
        BY <2>3, <3>1, FS_AddElement
      <3> QED
        BY <2>1, <3>1, <3>2
    <2> QED
      BY <1>1, <1>3, <1>13, <2>2, <2>3, <2>4 DEF CountOK
  <1>15. U \in [NewBucket -> SUBSET DOMAIN m.mapInfo] /\ DOMAIN U = NewBucket
    BY <1>1 DEF Purged
  <1>16. /\ Holding(U, x) = {} /\ \A y : y # x => Holding(U, y) = Holding(V, y)
    BY HoldingPurged
  <1> HIDE DEF U
  <1>17. Holding(U, old) = {} /\ old \notin U[to]
    <2>1. Cardinality(Holding(V, old)) = 0
      BY <1>1, <1>9 DEF RefOK, RefAt
    <2>2. Holding(V, old) = {}
      BY <2>1, HoldingFinite
    <2>3. Holding(U, old) = {}
      BY <1>9, <1>16, <2>2
    <2> QED
      BY <1>4, <2>3 DEF Holding
  <1>18. RefOK(z, z.vvNew)
    <2>0. z.vvNew = Put(U, to, old) /\ DOMAIN z.mapInfo = DOMAIN m.mapInfo
      BY <1>3
    <2>1. z.vvNew \in [NewBucket -> SUBSET DOMAIN z.mapInfo]
      BY <1>9, <1>15, <2>0 DEF Put
    <2>2. /\ Cardinality(Holding(z.vvNew, old)) = Cardinality(Holding(U, old)) + 1
          /\ \A y : y # old => Holding(z.vvNew, y) = Holding(U, y)
      <3>1. to \in NewBucket /\ DOMAIN U = NewBucket /\ old \notin U[to]
        BY <1>4, <1>15, <1>17
      <3>2. /\ Cardinality(Holding(Put(U, to, old), old)) = Cardinality(Holding(U, old)) + 1
            /\ \A y : y # old => Holding(Put(U, to, old), y) = Holding(U, y)
        BY <3>1, HoldingPut
      <3> QED
        BY <2>0, <3>2
    <2>3. RefAt(z, z.vvNew, x)
      BY <1>9, <1>10, <1>16, <2>2, FS_EmptySet DEF RefAt
    <2>4. RefAt(z, z.vvNew, old)
      BY <1>11, <1>17, <2>2, FS_EmptySet, AddrManAssumption DEF RefAt
    <2>5. ASSUME NEW y \in DOMAIN m.mapInfo, y # x, y # old PROVE RefAt(z, z.vvNew, y)
      BY <1>1, <1>3, <1>16, <2>2, <2>5 DEF RefAt, RefOK
    <2> QED
      BY <1>3, <2>1, <2>3, <2>4, <2>5 DEF RefOK
  <1>19. /\ t \in Seq(Nat) /\ Len(t) = Len(s)
         /\ \A i \in 1 .. Len(s) : t[i] = IF i = p THEN x ELSE u[i]
    <2>1. u \in Seq(Nat) /\ p \in 1 .. Len(u) /\ x \in Nat /\ Len(u) = Len(s)
      BY <1>1, <1>4, <1>7
    <2> QED
      BY <2>1
  <1>20. /\ z.vvTried[b] = t /\ DOMAIN z.vvTried = TriedBucket
         /\ \A c \in TriedBucket : c # b => z.vvTried[c] = m.vvTried[c]
    BY <1>2, <1>3
  <1> HIDE DEF t
  <1>21. TriedOK(z)
    <2>1. ASSUME NEW i \in 1 .. Len(t)
          PROVE  /\ t[i] \in DOMAIN m.mapInfo /\ z.mapInfo[t[i]].fInTried
                 /\ GetTriedBucket[m.mapInfo[t[i]].addr] = b
      <3>1. CASE i = p
        BY <1>b, <1>10, <1>19, <3>1
      <3>2. CASE i # p
        <4>1. u[i] # old /\ u[i] # x /\ u[i] \in DOMAIN m.mapInfo
          BY <1>4, <1>7, <1>8, <1>19, <3>2
        <4>2. t[i] = u[i] /\ z.mapInfo[u[i]] = m.mapInfo[u[i]]
          BY <1>3, <1>19, <3>2, <4>1
        <4> QED
          BY <1>8, <1>19, <4>1, <4>2
      <3> QED
        BY <3>1, <3>2
    <2>2. ASSUME NEW i \in 1 .. Len(t), NEW j \in 1 .. Len(t), t[i] = t[j] PROVE i = j
      <3>1. \A k \in 1 .. Len(s) : u[k] # x
        BY <1>8
      <3> QED
        BY <1>7, <1>19, <2>2, <3>1
    <2>3. ASSUME NEW y \in DOMAIN m.mapInfo, z.mapInfo[y].fInTried, GetTriedBucket[m.mapInfo[y].addr] = b
          PROVE  \E i \in 1 .. Len(t) : t[i] = y
      <3>1. CASE y = x
        BY <1>4, <1>19, <3>1
      <3>2. CASE y # x
        <4>1. y # old /\ m.mapInfo[y].fInTried
          BY <1>3, <1>11, <2>3, <3>2
        <4>2. PICK j \in 1 .. Len(s) : s[j] = y
          BY <1>6, <2>3, <4>1
        <4>3. PICK i \in 1 .. Len(s) : u[i] = y
          BY <1>7, <4>2
        <4>4. i # p
          BY <1>4, <4>1, <4>3
        <4> QED
          BY <1>19, <4>3, <4>4
      <3> QED
        BY <3>1, <3>2
    <2>4. \A y \in DOMAIN m.mapInfo : GetTriedBucket[m.mapInfo[y].addr] # b =>
                z.mapInfo[y].fInTried = m.mapInfo[y].fInTried
      BY <1>b, <1>3, <1>9
    <2> QED
      BY <1>1, <1>2, <1>12, <1>19, <1>20, <2>1, <2>2, <2>3, <2>4, TriedBucketKeeps, SMTT(60)
  <1>22. Bounded(z)
    <2>1. \A c \in TriedBucket : Len(z.vvTried[c]) <= ADDRMAN_TRIED_BUCKET_SIZE
      BY <1>2, <1>19, <1>20 DEF Bounded, s
    <2>2. ASSUME NEW c \in NewBucket
          PROVE  /\ IsFiniteSet(U[c]) /\ Cardinality(U[c]) \in Nat
                 /\ Cardinality(U[c]) <= ADDRMAN_NEW_BUCKET_SIZE
      <3>1. U[c] \in SUBSET V[c] /\ V[c] \in SUBSET DOMAIN m.mapInfo
        BY <1>1 DEF Purged, U
      <3>2. IsFiniteSet(V[c])
        BY <1>1, <3>1, IdsFinite, FS_Subset
      <3>3. Cardinality(U[c]) <= Cardinality(V[c]) /\ IsFiniteSet(U[c])
        BY <3>1, <3>2, FS_Subset
      <3>4. Cardinality(U[c]) \in Nat /\ Cardinality(V[c]) \in Nat
        BY <3>2, <3>3, FS_CardinalityType
      <3> QED
        BY <3>3, <3>4, AddrManAssumption DEF Bounded
    <2>3. Cardinality(U[to] \cup {old}) <= ADDRMAN_NEW_BUCKET_SIZE
      <3>1. Cardinality(U[to] \cup {old}) = Cardinality(U[to]) + 1
        BY <1>4, <1>17, <2>2, FS_AddElement
      <3> QED
        BY <1>4, <2>2, <3>1, AddrManAssumption
    <2>4. z.vvNew[to] = U[to] \cup {old} /\ \A c \in NewBucket : c # to => z.vvNew[c] = U[c]
      BY <1>3, <1>4, <1>15 DEF Put
    <2> QED
      BY <2>1, <2>2, <2>3, <2>4 DEF Bounded
  <1>23. Shape(z) /\ AddrOK(z) /\ RandomOK(z)
    BY <1>1, <1>12, RetabledKeeps
  <1> QED
    BY <1>12, <1>13, <1>14, <1>18, <1>21, <1>22, <1>23 DEF Consistent

\* MakeTried does one or the other.
LEMMA MakeTriedIs ==
    ASSUME NEW m, Consistent(m, m.vvNew), Bounded(m), NEW x \in DOMAIN m.mapInfo,
           ~m.mapInfo[x].fInTried, NEW c \in NewBucket, x \in m.vvNew[c],
           NEW r \in Draws(m.vvTried[GetTriedBucket[m.mapInfo[x].addr]],
                           ADDRMAN_TRIED_ENTRIES_INSPECT_ON_EVICT)
    PROVE  \/ Appended(m, MakeTried(m, x, c, r), x)
           \/ \E old, to, u, p : Exchanged(m, MakeTried(m, x, c, r), x, old, to, u, p)
  <1> DEFINE w == LeaveNew(m, x)
             b == GetTriedBucket[m.mapInfo[x].addr]
             s == m.vvTried[b]
             V == m.vvNew
             pick == SelectTried(w, b, r)
             u == pick.vTried
             p == pick.nOldestPos
             old == u[p]
             w2 == [w EXCEPT !.vvTried[b] = u]
             v == Evict(w2, old, c)
             z == MakeTried(m, x, c, r)
  <1>1. /\ z = IF Len(w.vvTried[b]) < ADDRMAN_TRIED_BUCKET_SIZE
               THEN [w EXCEPT !.vvTried[b] = Append(@, x), !.nTried = @ + 1,
                              !.mapInfo[x].fInTried = TRUE]
               ELSE [v EXCEPT !.vvTried[b][p] = x, !.mapInfo[x].fInTried = TRUE]
    BY DEF MakeTried
  <1>2. Left(m, w, x)
    BY LeaveNewEffect
  <1>3. /\ Shape(m) /\ CountOK(m) /\ TriedOK(m) /\ m.mapInfo[x] \in Info
        /\ V \in [NewBucket -> SUBSET DOMAIN m.mapInfo]
    BY DEF Consistent, Shape, RefOK
  <1>4. b \in TriedBucket /\ s \in Seq(Nat) /\ DOMAIN m.vvTried = TriedBucket
    <2>1. m.mapInfo[x].addr \in Addr
      BY <1>3 DEF Info
    <2>2. b \in TriedBucket
      BY <2>1, AddrManAssumption
    <2> HIDE DEF b
    <2> QED
      BY <1>3, <2>2 DEF TriedOK
  <1>b. b = GetTriedBucket[m.mapInfo[x].addr] /\ r \in Draws(s, ADDRMAN_TRIED_ENTRIES_INSPECT_ON_EVICT)
    OBVIOUS
  <1> HIDE DEF z, w, b
  <1>5. /\ DOMAIN w = DOMAIN m /\ DOMAIN w.mapInfo = DOMAIN m.mapInfo
        /\ w.mapInfo[x] = [m.mapInfo[x] EXCEPT !.nRefCount = 0]
        /\ \A y \in DOMAIN m.mapInfo : y # x => w.mapInfo[y] = m.mapInfo[y]
        /\ w.nIdCount = m.nIdCount /\ w.mapAddr = m.mapAddr /\ w.vRandom = m.vRandom
        /\ w.nTried = m.nTried /\ w.vvTried = m.vvTried /\ w.nNew = m.nNew - 1
        /\ w.vvNew = Purged(V, x)
    BY <1>2 DEF Left, Purged
  <1>6. CASE Len(s) < ADDRMAN_TRIED_BUCKET_SIZE
    <2>1. z = [w EXCEPT !.vvTried[b] = Append(@, x), !.nTried = @ + 1, !.mapInfo[x].fInTried = TRUE]
      BY <1>1, <1>5, <1>6
    <2>2. /\ DOMAIN z = DOMAIN m /\ DOMAIN z.mapInfo = DOMAIN m.mapInfo
          /\ z.mapInfo[x] = [w.mapInfo[x] EXCEPT !.fInTried = TRUE]
          /\ \A y \in DOMAIN m.mapInfo : y # x => z.mapInfo[y] = m.mapInfo[y]
          /\ z.nIdCount = m.nIdCount /\ z.mapAddr = m.mapAddr /\ z.vRandom = m.vRandom
          /\ z.nTried = m.nTried + 1 /\ z.nNew = m.nNew - 1
          /\ z.vvTried = [m.vvTried EXCEPT ![b] = Append(@, x)]
          /\ z.vvNew = Purged(V, x)
      BY <1>3, <1>5, <2>1 DEF Shape
    <2>3. z.mapInfo[x] = [m.mapInfo[x] EXCEPT !.nRefCount = 0, !.fInTried = TRUE]
      BY <1>5, <2>2
    <2> QED
      BY <1>b, <1>6, <2>2, <2>3 DEF Appended, z
  <1>7. CASE ~(Len(s) < ADDRMAN_TRIED_BUCKET_SIZE)
    <2>1. z = [v EXCEPT !.vvTried[b][p] = x, !.mapInfo[x].fInTried = TRUE]
      BY <1>1, <1>5, <1>7
    <2>2. Permuted(s, u) /\ p \in 1 .. Len(s)
      <3>1. s = w.vvTried[b] /\ Len(s) # 0 /\ s \in Seq(Nat)
        BY <1>4, <1>5, <1>7, AddrManAssumption
      <3>2. \A i, j \in 1 .. Len(s) : s[i] = s[j] => i = j
        BY <1>3, <1>4 DEF TriedOK
      <3> HIDE DEF s
      <3>3. /\ r \in Seq(Nat) /\ Len(r) # 0
            /\ \A i \in 1 .. Len(r) : i \in 1 .. Len(s) /\ r[i] \in 1 .. Len(s)
        BY <1>b, <3>1, DrawsAre, AddrManAssumption
      <3> QED
        BY <3>1, <3>2, <3>3, SelectTriedEffect
    <2>3. /\ old \in DOMAIN m.mapInfo /\ m.mapInfo[old].fInTried /\ old # x
          /\ m.mapInfo[old] \in Info
      <3>1. PICK j \in 1 .. Len(s) : u[p] = s[j]
        BY <2>2 DEF Permuted
      <3>2. s[j] \in DOMAIN m.mapInfo /\ m.mapInfo[s[j]].fInTried
        BY <1>3, <1>4 DEF TriedOK
      <3> QED
        BY <1>3, <3>1, <3>2 DEF Shape
    <2> DEFINE home == GetNewBucket[<<m.mapInfo[old].addr, m.mapInfo[old].source>>]
               U == Purged(V, x)
               to == IF Cardinality(U[home]) < ADDRMAN_NEW_BUCKET_SIZE THEN home ELSE c
    <2>h. home = GetNewBucket[<<m.mapInfo[old].addr, m.mapInfo[old].source>>]
      OBVIOUS
    <2> HIDE DEF pick, old, home
    <2>4. /\ DOMAIN w2 = DOMAIN w /\ w2.mapInfo = w.mapInfo /\ w2.nIdCount = w.nIdCount
          /\ w2.mapAddr = w.mapAddr /\ w2.vRandom = w.vRandom /\ w2.nTried = w.nTried
          /\ w2.vvTried = [w.vvTried EXCEPT ![b] = u] /\ w2.nNew = w.nNew /\ w2.vvNew = w.vvNew
      BY <1>3, <1>5 DEF Shape
    <2> HIDE DEF w2
    <2>5. w2.mapInfo[old] = m.mapInfo[old] /\ w2.vvNew = U
      BY <1>5, <2>3, <2>4
    <2>6. v = [w2 EXCEPT !.mapInfo[old].fInTried = FALSE, !.mapInfo[old].nRefCount = 1,
                         !.vvNew[to] = @ \cup {old}, !.nNew = @ + 1, !.vSuccess = Dropped(@, old)]
      BY <2>5, <2>h DEF Evict
    <2> HIDE DEF to, v, U
    <2>7. /\ DOMAIN v = DOMAIN w2
          /\ v.mapInfo = [w2.mapInfo EXCEPT ![old].fInTried = FALSE, ![old].nRefCount = 1]
          /\ v.nIdCount = w2.nIdCount
          /\ v.mapAddr = w2.mapAddr /\ v.vRandom = w2.vRandom /\ v.nTried = w2.nTried
          /\ v.vvTried = w2.vvTried /\ v.nNew = w2.nNew + 1 /\ v.vvNew = Put(w2.vvNew, to, old)
      BY <1>3, <1>5, <2>4, <2>6 DEF Shape, Put
    <2>8. /\ DOMAIN z = DOMAIN m
          /\ z.mapInfo = [v.mapInfo EXCEPT ![x].fInTried = TRUE]
          /\ z.nIdCount = v.nIdCount
          /\ z.mapAddr = v.mapAddr /\ z.vRandom = v.vRandom /\ z.nTried = v.nTried
          /\ z.vvTried = [v.vvTried EXCEPT ![b][p] = x] /\ z.nNew = v.nNew /\ z.vvNew = v.vvNew
      BY <1>3, <1>5, <2>1, <2>4, <2>7 DEF Shape
    <2>9. /\ DOMAIN v.mapInfo = DOMAIN m.mapInfo
          /\ v.mapInfo[old] = [m.mapInfo[old] EXCEPT !.fInTried = FALSE, !.nRefCount = 1]
          /\ \A y \in DOMAIN m.mapInfo : y # old => v.mapInfo[y] = w.mapInfo[y]
      <3>1. w2.mapInfo[old] = m.mapInfo[old] /\ DOMAIN w2.mapInfo = DOMAIN m.mapInfo /\ w2.mapInfo = w.mapInfo
        BY <1>5, <2>4, <2>5
      <3>2. v.mapInfo = [w2.mapInfo EXCEPT ![old].fInTried = FALSE, ![old].nRefCount = 1]
        BY <2>7
      <3> QED
        BY <2>3, <3>1, <3>2
    <2>10. /\ DOMAIN z.mapInfo = DOMAIN m.mapInfo
           /\ z.mapInfo[x] = [w.mapInfo[x] EXCEPT !.fInTried = TRUE]
           /\ \A y \in DOMAIN m.mapInfo : y # x => z.mapInfo[y] = v.mapInfo[y]
      <3>1. z.mapInfo = [v.mapInfo EXCEPT ![x].fInTried = TRUE]
        BY <2>8
      <3> QED
        BY <2>3, <2>9, <3>1
    <2>11. z.mapInfo[x] = [m.mapInfo[x] EXCEPT !.nRefCount = 0, !.fInTried = TRUE]
      BY <1>5, <2>10
    <2>12. z.mapInfo[old] = [m.mapInfo[old] EXCEPT !.nRefCount = 1, !.fInTried = FALSE]
      <3>1. z.mapInfo[old] = [m.mapInfo[old] EXCEPT !.fInTried = FALSE, !.nRefCount = 1]
        BY <2>3, <2>9, <2>10
      <3> QED
        BY <3>1
    <2>13. \A y \in DOMAIN m.mapInfo : y # x /\ y # old => z.mapInfo[y] = m.mapInfo[y]
      BY <1>5, <2>9, <2>10
    <2>14. z.vvTried = [m.vvTried EXCEPT ![b] = [u EXCEPT ![p] = x]]
      <3>1. z.vvTried = [v.vvTried EXCEPT ![b][p] = x] /\ v.vvTried = [m.vvTried EXCEPT ![b] = u]
        BY <1>5, <2>4, <2>7, <2>8
      <3> QED
        BY <1>4, <3>1
    <2>15. /\ z.nIdCount = m.nIdCount /\ z.mapAddr = m.mapAddr /\ z.vRandom = m.vRandom
           /\ z.nTried = m.nTried /\ z.vvNew = Put(U, to, old)
      BY <1>5, <2>4, <2>5, <2>7, <2>8, SMTT(60)
    <2>16. z.nNew = m.nNew
      <3>1. z.nNew = m.nNew - 1 + 1
        BY <1>5, <2>4, <2>7, <2>8
      <3>2. m.nNew \in Nat
        <4> DEFINE N == DOMAIN m.mapInfo \ TriedOf(m)
        <4>1. IsFiniteSet(N)
          BY <1>3, IdsFinite, FS_Difference
        <4> QED
          BY <1>3, <4>1, FS_CardinalityType DEF CountOK
      <3> QED
        BY <3>1, <3>2
    <2>17. to \in NewBucket /\ Cardinality(U[to]) < ADDRMAN_NEW_BUCKET_SIZE
      <3>1. home \in NewBucket
        <4>1. m.mapInfo[old].addr \in Addr /\ m.mapInfo[old].source \in Source
          BY <2>3 DEF Info
        <4> QED
          BY <2>h, <4>1, AddrManAssumption
      <3>2. Cardinality(U[c]) < ADDRMAN_NEW_BUCKET_SIZE
        <4>1. U[c] = V[c] \ {x} /\ V[c] \in SUBSET DOMAIN m.mapInfo
          BY <1>3 DEF U, Purged
        <4>2. IsFiniteSet(V[c])
          BY <1>3, <4>1, IdsFinite, FS_Subset
        <4>3. Cardinality(V[c] \ {x}) = Cardinality(V[c]) - 1 /\ Cardinality(V[c]) \in Nat
          BY <4>2, FS_RemoveElement, FS_CardinalityType
        <4>4. Cardinality(V[c]) <= ADDRMAN_NEW_BUCKET_SIZE
          BY DEF Bounded
        <4> QED
          BY <4>1, <4>3, <4>4, AddrManAssumption
      <3> QED
        BY <3>1, <3>2 DEF to
    <2>18. u[p] = old
      BY DEF old
    <2>19. Exchanged(m, z, x, old, to, u, p)
      BY <1>b, <2>2, <2>8, <2>10, <2>11, <2>12, <2>13, <2>14, <2>15, <2>16, <2>17, <2>18 DEF Exchanged, U
    <2> QED
      BY <2>19 DEF z
  <1> QED
    BY <1>6, <1>7

\* An entry x becomes tried, and perhaps another one new.
Promoted(m, z) ==
    /\ Retabled(m, z)
    /\ \E x \in DOMAIN m.mapInfo \ TriedOf(m) :
        \/ TriedOf(z) = TriedOf(m) \cup {x}
        \/ \E old \in TriedOf(m) : TriedOf(z) = (TriedOf(m) \ {old}) \cup {x}

\* Good_.
LEMMA GoodKeeps ==
    ASSUME IInv, NEW a \in Addr, Good(a)
    PROVE  IInv' /\ (TriedSame(am, am') \/ Promoted(am, am'))
  <1> DEFINE x == am.mapAddr[a]
             m == [am EXCEPT !.vSuccess = Append(Dropped(@, x), x)]
             b == GetTriedBucket[a]
             V == am.vvNew
  <1>1. /\ Consistent(am, V) /\ Bounded(am) /\ Shape(am)
        /\ x \in DOMAIN am.mapInfo /\ am.mapInfo[x].addr = a
        /\ V \in [NewBucket -> SUBSET DOMAIN am.mapInfo]
    BY DEF IInv, Good, Consistent, AddrOK, RefOK
  <1>2. SameButNew(am, m) /\ m.vvNew = V
    BY <1>1 DEF Shape, SameButNew
  <1>3. \/ am.mapInfo[x].fInTried /\ am' = m
        \/ /\ ~am.mapInfo[x].fInTried
           /\ \E c \in {d \in NewBucket : x \in am.vvNew[d]} :
              \E r \in Draws(am.vvTried[b], ADDRMAN_TRIED_ENTRIES_INSPECT_ON_EVICT) :
                 am' = MakeTried(m, x, c, r)
    BY DEF Good
  <1> HIDE DEF m, x
  <1>4. Consistent(m, m.vvNew) /\ TriedSame(am, m)
    BY <1>1, <1>2, SameButNewKeeps
  <1>5. Bounded(m)
    BY <1>1, <1>2 DEF Bounded, SameButNew
  <1>6. CASE am' = m
    BY <1>4, <1>5, <1>6 DEF IInv
  <1>7. CASE am' # m
    <2>1. PICK c \in NewBucket, r \in Draws(am.vvTried[b], ADDRMAN_TRIED_ENTRIES_INSPECT_ON_EVICT) :
             x \in V[c] /\ am' = MakeTried(m, x, c, r)
      BY <1>3, <1>7
    <2>2. ~am.mapInfo[x].fInTried
      BY <1>3, <1>7
    <2>3. /\ x \in DOMAIN m.mapInfo /\ ~m.mapInfo[x].fInTried /\ x \in m.vvNew[c]
          /\ r \in Draws(m.vvTried[GetTriedBucket[m.mapInfo[x].addr]],
                         ADDRMAN_TRIED_ENTRIES_INSPECT_ON_EVICT)
      BY <1>1, <1>2, <2>1, <2>2 DEF SameButNew
    <2>4. \/ Appended(m, am', x)
          \/ \E old, to, u, p : Exchanged(m, am', x, old, to, u, p)
      BY <1>4, <1>5, <2>1, <2>3, MakeTriedIs
    <2>5. /\ Consistent(am', am'.vvNew) /\ Bounded(am') /\ Retabled(m, am')
          /\ \/ TriedOf(am') = TriedOf(m) \cup {x}
             \/ \E old \in TriedOf(m) : TriedOf(am') = (TriedOf(m) \ {old}) \cup {x}
      <3>1. CASE Appended(m, am', x)
        BY <1>4, <1>5, <2>3, <3>1, AppendedKeeps
      <3>2. CASE \E old, to, u, p : Exchanged(m, am', x, old, to, u, p)
        <4>1. PICK old, to, u, p : Exchanged(m, am', x, old, to, u, p)
          BY <3>2
        <4>2. /\ Consistent(am', am'.vvNew) /\ Bounded(am') /\ Retabled(m, am')
              /\ old \in TriedOf(m) /\ TriedOf(am') = (TriedOf(m) \ {old}) \cup {x}
          BY <1>4, <1>5, <2>3, <4>1, ExchangedKeeps
        <4> QED
          BY <4>2
      <3> QED
        BY <2>4, <3>1, <3>2
    <2>6. TriedOf(m) = TriedOf(am) /\ Retabled(am, am') /\ x \in DOMAIN am.mapInfo \ TriedOf(am)
      BY <1>1, <1>2, <1>4, <2>2, <2>5 DEF Retabled, SameButNew, TriedSame, TriedOf
    <2> QED
      BY <2>5, <2>6 DEF IInv, Promoted
  <1> QED
    BY <1>6, <1>7
-----------------------------------------------------------------------------
\* One finite set fits into another.
Into(f, S, T) == f \in [S -> T] /\ \A x, y \in S : f[x] = f[y] => x = y
Onto(f, S, T) == \A y \in T : \E x \in S : f[x] = y

LEMMA Fits ==
    ASSUME NEW S, NEW T, IsFiniteSet(T), NEW f, Into(f, S, T)
    PROVE  /\ IsFiniteSet(S) /\ Cardinality(S) \in Nat /\ Cardinality(T) \in Nat
           /\ Cardinality(S) <= Cardinality(T)
           /\ Cardinality(S) = Cardinality(T) => Onto(f, S, T)
  <1>1. f \in Injection(S, T)
    BY DEF Into, Injection, IsInjective
  <1>2. IsFiniteSet(S) /\ Cardinality(S) <= Cardinality(T)
        /\ (Cardinality(S) = Cardinality(T) <=> f \in Surjection(S, T))
    BY <1>1, FS_Injection
  <1>3. Cardinality(S) \in Nat /\ Cardinality(T) \in Nat
    BY <1>2, FS_CardinalityType
  <1> QED
    BY <1>2, <1>3 DEF Surjection, Onto

\* A sequence of the elements of S, each once.
Lists(s, S) ==
    /\ s \in Seq(Nat) /\ Len(s) = Cardinality(S)
    /\ \A k \in 1 .. Len(s) : s[k] \in S
    /\ \A k, l \in 1 .. Len(s) : s[k] = s[l] => k = l
    /\ \A x \in S : \E k \in 1 .. Len(s) : s[k] = x

\* InIdOrder finds an element for every rank.
LEMMA InIdOrderLists ==
    ASSUME NEW S \in SUBSET Nat, IsFiniteSet(S)
    PROVE  Lists(InIdOrder(S), S)
  <1> DEFINE Below(x) == {y \in S : y < x}
             n == Cardinality(S)
             g == [x \in S |-> Cardinality(Below(x))]
             R == 0 .. n - 1
             s == InIdOrder(S)
  <1>1. n \in Nat
    BY FS_CardinalityType
  <1>2. \A x \in S : IsFiniteSet(Below(x)) /\ Cardinality(Below(x)) \in Nat
    <2>1. ASSUME NEW x \in S PROVE IsFiniteSet(Below(x)) /\ Cardinality(Below(x)) \in Nat
      <3>1. Below(x) \in SUBSET S
        OBVIOUS
      <3> HIDE DEF Below
      <3>2. IsFiniteSet(Below(x))
        BY <3>1, FS_Subset
      <3> QED
        BY <3>2, FS_CardinalityType
    <2> QED
      BY <2>1
  <1>3. ASSUME NEW x \in S PROVE Cardinality(Below(x)) \in R
    <2>1. Below(x) \in SUBSET S /\ x \in S /\ x \notin Below(x)
      OBVIOUS
    <2> HIDE DEF Below
    <2>2. Cardinality(Below(x)) <= n /\ Cardinality(Below(x)) # n
      BY <2>1, FS_Subset
    <2>3. Cardinality(Below(x)) \in Nat
      BY <1>2
    <2> HIDE DEF n
    <2> QED
      BY <1>1, <2>2, <2>3
  <1>4. ASSUME NEW x \in S, NEW y \in S, x < y PROVE Cardinality(Below(x)) # Cardinality(Below(y))
    <2>0. \A z \in S : z < x => z < y
      BY <1>4
    <2>1. Below(x) \in SUBSET Below(y) /\ x \in Below(y) /\ x \notin Below(x)
      <3>1. x \in Nat /\ ~(x < x)
        OBVIOUS
      <3> QED
        BY <1>4, <2>0, <3>1
    <2>2. IsFiniteSet(Below(y))
      BY <1>2
    <2> HIDE DEF Below
    <2> QED
      BY <2>1, <2>2, FS_Subset
  <1>5. \A x, y \in S : Cardinality(Below(x)) = Cardinality(Below(y)) => x = y
    <2>1. \A x, y \in S : x < y \/ y < x \/ x = y
      OBVIOUS
    <2> HIDE DEF Below
    <2> QED
      BY <1>4, <2>1
  <1>6. \A k \in R : \E x \in S : Cardinality(Below(x)) = k
    <2>1. IsFiniteSet(R) /\ Cardinality(R) = n
      <3> DEFINE l == n - 1
      <3>1. l \in Int
        BY <1>1
      <3> HIDE DEF l
      <3>2. IsFiniteSet(0 .. l) /\ Cardinality(0 .. l) = IF 0 > l THEN 0 ELSE l - 0 + 1
        BY <3>1, FS_Interval
      <3> QED
        BY <1>1, <3>2 DEF l
    <2>2. PICK Q : Q = R
      OBVIOUS
    <2> HIDE DEF R, Below
    <2>3. Into(g, S, Q)
      BY <1>3, <1>5, <2>2 DEF Into
    <2>4. \A x \in S : g[x] = Cardinality(Below(x))
      OBVIOUS
    <2> HIDE DEF g
    <2>5. PICK f : Into(f, S, Q) /\ \A x \in S : f[x] = Cardinality(Below(x))
      BY <2>3, <2>4
    <2>6. IsFiniteSet(Q) /\ Cardinality(S) = Cardinality(Q)
      BY <2>1, <2>2
    <2> HIDE DEF n
    <2>7. Into(f, S, Q)
      BY <2>5
    <2>8. Onto(f, S, Q)
      BY <2>6, <2>7, Fits
    <2>9. \A k \in Q : \E x \in S : f[x] = k
      BY <2>8 DEF Onto
    <2> QED
      BY <2>2, <2>5, <2>9
  <1>7. s = [k \in 1 .. n |-> CHOOSE x \in S : Cardinality(Below(x)) = k - 1]
    BY DEF InIdOrder
  <1> HIDE DEF Below, n, s
  <1>8. ASSUME NEW k \in 1 .. n PROVE s[k] \in S /\ Cardinality(Below(s[k])) = k - 1
    <2>1. k - 1 \in R
      BY <1>1
    <2> QED
      BY <1>6, <1>7, <2>1
  <1>9. s \in [1 .. n -> Nat]
    BY <1>7, <1>8
  <1>10. s \in Seq(Nat) /\ Len(s) = n
    BY <1>1, <1>9
  <1>11. ASSUME NEW x \in S PROVE \E k \in 1 .. n : s[k] = x
    <2>1. Cardinality(Below(x)) \in Nat /\ Cardinality(Below(x)) + 1 \in 1 .. n
      BY <1>1, <1>2, <1>3
    <2> DEFINE k == Cardinality(Below(x)) + 1
    <2>2. k \in 1 .. n /\ k - 1 = Cardinality(Below(x))
      BY <2>1
    <2> HIDE DEF k
    <2>3. s[k] \in S /\ Cardinality(Below(s[k])) = Cardinality(Below(x))
      BY <1>8, <2>2
    <2> QED
      BY <1>5, <2>2, <2>3
  <1>12. ASSUME NEW k \in 1 .. n, NEW l \in 1 .. n, s[k] = s[l] PROVE k = l
    <2>1. k - 1 = l - 1
      BY <1>8, <1>12
    <2> QED
      BY <1>1, <2>1
  <1> QED
    BY <1>8, <1>10, <1>11, <1>12 DEF Lists, n, s

\* peers.dat gives the entries new ids: old[x] is the one that x had.
Renumbered(m, z, old) ==
    LET n == Cardinality(DOMAIN m.mapInfo)
    IN  /\ DOMAIN z = DOMAIN m /\ z.nIdCount = n /\ DOMAIN z.mapInfo = 0 .. n - 1
        /\ Into(old, 0 .. n - 1, DOMAIN m.mapInfo) /\ Onto(old, 0 .. n - 1, DOMAIN m.mapInfo)
        /\ \A x \in 0 .. n - 1 :
            /\ z.mapInfo[x] \in Info /\ z.mapInfo[x].nRandomPos = x + 1
            /\ z.mapInfo[x].addr = m.mapInfo[old[x]].addr
            /\ z.mapInfo[x].nRefCount = m.mapInfo[old[x]].nRefCount
            /\ z.mapInfo[x].fInTried = m.mapInfo[old[x]].fInTried
            /\ z.mapAddr[m.mapInfo[old[x]].addr] = x
        /\ DOMAIN z.mapAddr = DOMAIN m.mapAddr
        /\ z.vRandom \in Seq(Nat) /\ Len(z.vRandom) = n
        /\ \A k \in 1 .. n : z.vRandom[k] = k - 1
        /\ CountOK(z)
        /\ DOMAIN z.vvTried = TriedBucket
        /\ \A b \in TriedBucket :
            Lists(z.vvTried[b], {x \in TriedOf(z) : GetTriedBucket[z.mapInfo[x].addr] = b})
        /\ z.vvNew \in [NewBucket -> SUBSET DOMAIN z.mapInfo]
        /\ \A b \in NewBucket : \A x \in 0 .. n - 1 : x \in z.vvNew[b] <=> old[x] \in m.vvNew[b]

\* The tables hold the same addresses.
SameAddresses(m, z) ==
    /\ {z.mapInfo[x].addr : x \in TriedOf(z)} = {m.mapInfo[x].addr : x \in TriedOf(m)}
    /\ \A b \in NewBucket :
        {z.mapInfo[x].addr : x \in z.vvNew[b]} = {m.mapInfo[x].addr : x \in m.vvNew[b]}

LEMMA RenumberedKeeps ==
    ASSUME NEW m, Consistent(m, m.vvNew), Bounded(m), NEW z, NEW old, Renumbered(m, z, old)
    PROVE  Consistent(z, z.vvNew) /\ Bounded(z) /\ SameAddresses(m, z)
  <1> DEFINE D == DOMAIN m.mapInfo
             n == Cardinality(D)
             N == 0 .. n - 1
             V == m.vvNew
  <1>1. /\ Shape(m) /\ AddrOK(m) /\ RefOK(m, V) /\ TriedOK(m)
        /\ V \in [NewBucket -> SUBSET D]
    BY DEF Consistent, RefOK
  <1>2. n \in Nat /\ n <= m.nIdCount /\ IsFiniteSet(D)
    BY <1>1, IdsFinite, FS_CardinalityType
  <1>3. /\ DOMAIN z = DOMAIN m /\ z.nIdCount = n /\ DOMAIN z.mapInfo = N
        /\ DOMAIN z.mapAddr = DOMAIN m.mapAddr
        /\ z.vRandom \in Seq(Nat) /\ Len(z.vRandom) = n
        /\ CountOK(z) /\ DOMAIN z.vvTried = TriedBucket
        /\ z.vvNew \in [NewBucket -> SUBSET N]
    BY DEF Renumbered
  <1>4. /\ \A x \in N : old[x] \in D
        /\ \A x, y \in N : old[x] = old[y] => x = y
        /\ \A y \in D : \E x \in N : old[x] = y
    BY DEF Renumbered, Into, Onto
  <1>5. \A x \in N : /\ z.mapInfo[x] \in Info /\ z.mapInfo[x].nRandomPos = x + 1
                     /\ z.mapInfo[x].addr = m.mapInfo[old[x]].addr
                     /\ z.mapInfo[x].nRefCount = m.mapInfo[old[x]].nRefCount
                     /\ z.mapInfo[x].fInTried = m.mapInfo[old[x]].fInTried
                     /\ z.mapAddr[m.mapInfo[old[x]].addr] = x
    BY DEF Renumbered
  <1>6. \A k \in 1 .. n : z.vRandom[k] = k - 1
    BY DEF Renumbered
  <1>7. \A b \in TriedBucket :
            Lists(z.vvTried[b], {x \in TriedOf(z) : GetTriedBucket[z.mapInfo[x].addr] = b})
    BY DEF Renumbered
  <1>8. \A b \in NewBucket : \A x \in N : x \in z.vvNew[b] <=> old[x] \in V[b]
    BY DEF Renumbered
  <1>9. \A x \in N : x \in Nat /\ x + 1 \in 1 .. n /\ x + 1 - 1 = x
    BY <1>2
  <1>10. \A k \in 1 .. n : k - 1 \in N /\ k - 1 + 1 = k
    BY <1>2
  <1> HIDE DEF N, n, D
  <1>11. Shape(z)
    <2>1. n \in 0 .. MaxId
      BY <1>1, <1>2, AddrManAssumption DEF Shape
    <2>2. \A x \in DOMAIN z.mapInfo : x \in 0 .. z.nIdCount - 1 /\ z.mapInfo[x] \in Info
      BY <1>3, <1>5 DEF N
    <2>3. DOMAIN z = DOMAIN m /\ z.nIdCount = n
      BY <1>3
    <2> QED
      BY <1>1, <2>1, <2>2, <2>3 DEF Shape
  <1>12. AddrOK(z)
    <2>1. ASSUME NEW a \in DOMAIN z.mapAddr
          PROVE  a \in Addr /\ z.mapAddr[a] \in DOMAIN z.mapInfo /\ z.mapInfo[z.mapAddr[a]].addr = a
      <3>1. a \in Addr /\ m.mapAddr[a] \in D /\ m.mapInfo[m.mapAddr[a]].addr = a
        BY <1>1, <1>3 DEF AddrOK, D
      <3>2. PICK x \in N : old[x] = m.mapAddr[a]
        BY <1>4, <3>1
      <3>3. z.mapAddr[a] = x /\ z.mapInfo[x].addr = a
        BY <1>5, <3>1, <3>2
      <3> QED
        BY <1>3, <3>1, <3>3
    <2>2. ASSUME NEW x \in DOMAIN z.mapInfo
          PROVE  z.mapInfo[x].addr \in DOMAIN z.mapAddr /\ z.mapAddr[z.mapInfo[x].addr] = x
      <3>1. x \in N /\ old[x] \in D /\ z.mapInfo[x].addr = m.mapInfo[old[x]].addr
        BY <1>3, <1>4, <1>5
      <3>2. m.mapInfo[old[x]].addr \in DOMAIN m.mapAddr
        BY <1>1, <3>1 DEF AddrOK, D
      <3> QED
        BY <1>3, <1>5, <3>1, <3>2
    <2> QED
      BY <2>1, <2>2 DEF AddrOK
  <1>13. RandomOK(z)
    <2>1. ASSUME NEW k \in 1 .. n
          PROVE  z.vRandom[k] \in N /\ z.mapInfo[z.vRandom[k]].nRandomPos = k
      BY <1>5, <1>6, <1>10
    <2>2. ASSUME NEW x \in N
          PROVE  z.mapInfo[x].nRandomPos \in 1 .. n /\ z.vRandom[z.mapInfo[x].nRandomPos] = x
      BY <1>5, <1>6, <1>9
    <2> QED
      BY <1>3, <2>1, <2>2 DEF RandomOK
  <1>14. RefOK(z, z.vvNew)
    <2>1. ASSUME NEW x \in N PROVE RefAt(z, z.vvNew, x)
      <3>1. Holding(z.vvNew, x) = Holding(V, old[x])
        BY <1>8 DEF Holding
      <3>2. RefAt(m, V, old[x])
        BY <1>1, <1>4 DEF RefOK, D
      <3> QED
        BY <1>5, <3>1, <3>2 DEF RefAt
    <2> QED
      BY <1>3, <2>1 DEF RefOK
  <1>15. TriedOK(z)
    <2>1. ASSUME NEW b \in TriedBucket
          PROVE  /\ z.vvTried[b] \in Seq(Nat)
                 /\ \A i \in 1 .. Len(z.vvTried[b]) :
                    /\ z.vvTried[b][i] \in DOMAIN z.mapInfo
                    /\ z.mapInfo[z.vvTried[b][i]].fInTried
                    /\ GetTriedBucket[z.mapInfo[z.vvTried[b][i]].addr] = b
                    /\ \A j \in 1 .. Len(z.vvTried[b]) : z.vvTried[b][i] = z.vvTried[b][j] => i = j
      <3> DEFINE s == z.vvTried[b]
                 S == {x \in TriedOf(z) : GetTriedBucket[z.mapInfo[x].addr] = b}
      <3>1. Lists(s, S)
        BY <1>7
      <3>2. \A x \in S : /\ x \in DOMAIN z.mapInfo /\ z.mapInfo[x].fInTried
                         /\ GetTriedBucket[z.mapInfo[x].addr] = b
        BY DEF TriedOf
      <3> HIDE DEF S, s
      <3>3. /\ s \in Seq(Nat) /\ \A i \in 1 .. Len(s) : s[i] \in S
            /\ \A i, j \in 1 .. Len(s) : s[i] = s[j] => i = j
        BY <3>1 DEF Lists
      <3>4. \A i \in 1 .. Len(s) : /\ s[i] \in DOMAIN z.mapInfo /\ z.mapInfo[s[i]].fInTried
                                   /\ GetTriedBucket[z.mapInfo[s[i]].addr] = b
        BY <3>2, <3>3
      <3> QED
        BY <3>3, <3>4 DEF s
    <2>2. ASSUME NEW x \in DOMAIN z.mapInfo, z.mapInfo[x].fInTried
          PROVE  \E i \in 1 .. Len(z.vvTried[GetTriedBucket[z.mapInfo[x].addr]]) :
                    z.vvTried[GetTriedBucket[z.mapInfo[x].addr]][i] = x
      <3> DEFINE b == GetTriedBucket[z.mapInfo[x].addr]
                 s == z.vvTried[b]
                 S == {y \in TriedOf(z) : GetTriedBucket[z.mapInfo[y].addr] = b}
      <3>1. b \in TriedBucket
        <4>1. z.mapInfo[x].addr \in Addr
          BY <1>3, <1>5 DEF Info
        <4> QED
          BY <4>1, AddrManAssumption
      <3>2. x \in S
        BY <2>2 DEF TriedOf
      <3> HIDE DEF b
      <3>3. Lists(s, S)
        BY <1>7, <3>1
      <3> HIDE DEF S, s
      <3>4. \E i \in 1 .. Len(s) : s[i] = x
        BY <3>2, <3>3 DEF Lists
      <3> QED
        BY <3>4 DEF s, b
    <2> QED
      BY <1>3, <2>1, <2>2 DEF TriedOK
  <1>16. ASSUME NEW b \in NewBucket PROVE Cardinality(z.vvNew[b]) <= ADDRMAN_NEW_BUCKET_SIZE
    <2> DEFINE S == z.vvNew[b]
               T == V[b]
               f == [x \in S |-> old[x]]
    <2>1. S \in SUBSET N /\ T \in SUBSET D
      BY <1>1, <1>3
    <2>2. \A x \in S : old[x] \in T
      BY <1>8, <2>1
    <2>3. IsFiniteSet(T)
      BY <1>2, <2>1, FS_Subset
    <2>4. Cardinality(T) <= ADDRMAN_NEW_BUCKET_SIZE
      BY DEF Bounded
    <2>5. \A x, y \in S : old[x] = old[y] => x = y
      BY <1>4, <2>1
    <2> HIDE DEF S, T
    <2>6. Into(f, S, T)
      BY <2>2, <2>5 DEF Into
    <2> HIDE DEF f
    <2>7. /\ Cardinality(S) \in Nat /\ Cardinality(T) \in Nat /\ Cardinality(S) <= Cardinality(T)
      BY <2>3, <2>6, Fits
    <2> QED
      BY <2>4, <2>7, AddrManAssumption DEF S
  <1>17. ASSUME NEW b \in TriedBucket PROVE Len(z.vvTried[b]) <= ADDRMAN_TRIED_BUCKET_SIZE
    <2> DEFINE S == {x \in TriedOf(z) : GetTriedBucket[z.mapInfo[x].addr] = b}
               t == m.vvTried[b]
               At(x) == CHOOSE i \in 1 .. Len(t) : t[i] = old[x]
               f == [x \in S |-> At(x)]
               T == 1 .. Len(t)
    <2>1. Len(z.vvTried[b]) = Cardinality(S)
      BY <1>7 DEF Lists
    <2>2. t \in Seq(Nat) /\ Len(t) \in Nat /\ Len(t) <= ADDRMAN_TRIED_BUCKET_SIZE
      BY <1>1 DEF TriedOK, Bounded
    <2>3. S \in SUBSET N
      BY <1>3 DEF TriedOf
    <2>4. ASSUME NEW x \in S PROVE At(x) \in T /\ t[At(x)] = old[x]
      <3>1. x \in N /\ z.mapInfo[x].fInTried /\ GetTriedBucket[z.mapInfo[x].addr] = b
        BY <1>3 DEF TriedOf
      <3>2. old[x] \in D /\ m.mapInfo[old[x]].fInTried /\ GetTriedBucket[m.mapInfo[old[x]].addr] = b
        BY <1>4, <1>5, <3>1
      <3>3. \E i \in 1 .. Len(t) : t[i] = old[x]
        BY <1>1, <3>2 DEF TriedOK, D
      <3> QED
        BY <3>3
    <2>5. IsFiniteSet(T) /\ Cardinality(T) = Len(t)
      <3> DEFINE k == Len(t)
      <3>1. k \in Int /\ 1 \in Int
        BY <2>2
      <3> HIDE DEF k
      <3>2. IsFiniteSet(1 .. k) /\ Cardinality(1 .. k) = IF 1 > k THEN 0 ELSE k - 1 + 1
        BY <3>1, FS_Interval
      <3> QED
        BY <2>2, <3>2 DEF k
    <2> HIDE DEF S, At, T
    <2>6. Into(f, S, T)
      BY <1>4, <2>3, <2>4 DEF Into
    <2> HIDE DEF f
    <2>7. /\ Cardinality(S) \in Nat /\ Cardinality(T) \in Nat /\ Cardinality(S) <= Cardinality(T)
      BY <2>5, <2>6, Fits
    <2> HIDE DEF t
    <2> QED
      BY <2>1, <2>2, <2>5, <2>7, AddrManAssumption
  <1>18. SameAddresses(m, z)
    <2>1. {z.mapInfo[x].addr : x \in TriedOf(z)} = {m.mapInfo[x].addr : x \in TriedOf(m)}
      <3>1. ASSUME NEW x \in TriedOf(z) PROVE old[x] \in TriedOf(m) /\ z.mapInfo[x].addr = m.mapInfo[old[x]].addr
        BY <1>3, <1>4, <1>5 DEF TriedOf, D
      <3>2. ASSUME NEW y \in TriedOf(m) PROVE \E x \in TriedOf(z) : z.mapInfo[x].addr = m.mapInfo[y].addr
        <4>1. PICK x \in N : old[x] = y
          BY <1>4 DEF TriedOf, D
        <4>2. x \in TriedOf(z) /\ z.mapInfo[x].addr = m.mapInfo[y].addr
          BY <1>3, <1>5, <4>1 DEF TriedOf
        <4> QED
          BY <4>2
      <3> QED
        BY <3>1, <3>2
    <2>2. ASSUME NEW b \in NewBucket
          PROVE  {z.mapInfo[x].addr : x \in z.vvNew[b]} = {m.mapInfo[x].addr : x \in V[b]}
      <3>1. ASSUME NEW x \in z.vvNew[b] PROVE old[x] \in V[b] /\ z.mapInfo[x].addr = m.mapInfo[old[x]].addr
        BY <1>3, <1>5, <1>8
      <3>2. ASSUME NEW y \in V[b] PROVE \E x \in z.vvNew[b] : z.mapInfo[x].addr = m.mapInfo[y].addr
        <4>1. PICK x \in N : old[x] = y
          BY <1>1, <1>4
        <4>2. x \in z.vvNew[b] /\ z.mapInfo[x].addr = m.mapInfo[y].addr
          BY <1>5, <1>8, <4>1
        <4> QED
          BY <4>2
      <3> QED
        BY <3>1, <3>2
    <2> QED
      BY <2>1, <2>2 DEF SameAddresses
  <1> QED
    BY <1>3, <1>11, <1>12, <1>13, <1>14, <1>15, <1>16, <1>17, <1>18 DEF Consistent, Bounded

\* What peers.dat holds, with the ids that its entries had.
Entry(m, x) == [addr |-> m.mapInfo[x].addr, source |-> m.mapInfo[x].source]
Dumped(m, d, new, tried) ==
    /\ Lists(new, DOMAIN m.mapInfo \ TriedOf(m)) /\ Lists(tried, TriedOf(m))
    /\ d.new = [k \in 1 .. Len(new) |-> Entry(m, new[k])]
    /\ d.tried = [k \in 1 .. Len(tried) |-> Entry(m, tried[k])]
    /\ \A b \in NewBucket : \A k \in 1 .. Len(new) : k - 1 \in d.vvNew[b] <=> new[k] \in m.vvNew[b]

LEMMA DumpIs ==
    ASSUME NEW m, Consistent(m, m.vvNew)
    PROVE  \E new, tried : Dumped(m, Dump(m), new, tried)
  <1> DEFINE D == DOMAIN m.mapInfo
             T == TriedOf(m)
             U == D \ T
             new == InIdOrder(U)
             tried == InIdOrder(T)
             d == Dump(m)
             V == m.vvNew
  <1>1. Shape(m) /\ V \in [NewBucket -> SUBSET D] /\ \A x \in D : RefAt(m, V, x)
    BY DEF Consistent, RefOK
  <1>2. {x \in D : m.mapInfo[x].nRefCount # 0} = U /\ {x \in D : m.mapInfo[x].fInTried} = T
    <2>1. \A x \in D : m.mapInfo[x].nRefCount # 0 <=> ~m.mapInfo[x].fInTried
      BY <1>1 DEF RefAt
    <2> QED
      BY <2>1 DEF TriedOf
  <1>3. /\ d.new = [k \in DOMAIN new |-> Entry(m, new[k])]
        /\ d.tried = [k \in DOMAIN tried |-> Entry(m, tried[k])]
        /\ d.vvNew = [b \in NewBucket |-> {Position(new, x) - 1 : x \in V[b]}]
    BY <1>2, ZenonT(60) DEF Dump, Entry
  <1>4. Lists(new, U) /\ Lists(tried, T)
    <2>1. U \in SUBSET D /\ T \in SUBSET D
      BY DEF TriedOf
    <2>2. D \in SUBSET Nat /\ IsFiniteSet(D)
      BY <1>1, IdsFinite
    <2> HIDE DEF D, U, T
    <2>3. IsFiniteSet(U) /\ IsFiniteSet(T) /\ U \in SUBSET Nat /\ T \in SUBSET Nat
      BY <2>1, <2>2, FS_Subset
    <2> QED
      BY <2>3, InIdOrderLists
  <1> HIDE DEF new, tried, d, U, T
  <1>5. DOMAIN new = 1 .. Len(new) /\ DOMAIN tried = 1 .. Len(tried)
    BY <1>4 DEF Lists
  <1>6. ASSUME NEW b \in NewBucket, NEW x \in V[b] PROVE x \in U
    <2>1. x \in D /\ b \in Holding(V, x)
      BY <1>1 DEF Holding
    <2>2. Cardinality(Holding(V, x)) # 0
      BY <2>1, HoldingFinite
    <2>3. ~m.mapInfo[x].fInTried
      BY <1>1, <2>1, <2>2 DEF RefAt
    <2> QED
      BY <2>1, <2>3 DEF U, T, TriedOf
  <1>7. ASSUME NEW x \in U
        PROVE  Position(new, x) \in 1 .. Len(new) /\ new[Position(new, x)] = x
    <2>1. \E i \in DOMAIN new : new[i] = x
      BY <1>4, <1>5 DEF Lists
    <2> QED
      BY <1>5, <2>1 DEF Position
  <1>8. ASSUME NEW b \in NewBucket, NEW k \in 1 .. Len(new)
        PROVE  k - 1 \in d.vvNew[b] <=> new[k] \in V[b]
    <2>1. d.vvNew[b] = {Position(new, x) - 1 : x \in V[b]}
      BY <1>3
    <2>2. ASSUME k - 1 \in d.vvNew[b] PROVE new[k] \in V[b]
      <3>1. PICK x \in V[b] : k - 1 = Position(new, x) - 1
        BY <2>1, <2>2
      <3>2. Position(new, x) \in 1 .. Len(new) /\ new[Position(new, x)] = x
        BY <1>6, <1>7
      <3>3. k = Position(new, x)
        BY <3>1, <3>2
      <3> QED
        BY <3>2, <3>3
    <2>3. ASSUME new[k] \in V[b] PROVE k - 1 \in d.vvNew[b]
      <3> DEFINE x == new[k]
      <3>1. Position(new, x) \in 1 .. Len(new) /\ new[Position(new, x)] = x
        BY <1>6, <1>7, <2>3
      <3>2. k = Position(new, x)
        BY <1>4, <3>1 DEF Lists
      <3> QED
        BY <2>1, <2>3, <3>2
    <2> QED
      BY <2>2, <2>3
  <1> QED
    BY <1>3, <1>4, <1>5, <1>8 DEF Dumped, d, U, T

\* An entry is read back into every bucket that it was in.
LEMMA BucketsReadAll ==
    ASSUME NEW m, Consistent(m, m.vvNew), NEW d, NEW new, NEW tried, Dumped(m, d, new, tried),
           NEW k \in 1 .. Len(new)
    PROVE  BucketsRead(d, k - 1) = Holding(m.vvNew, new[k])
  <1> DEFINE x == new[k]
             H == Holding(m.vvNew, x)
  <1>1. \A b \in NewBucket : k - 1 \in d.vvNew[b] <=> b \in H
    BY DEF Dumped, Holding
  <1>2. x \in DOMAIN m.mapInfo /\ x \notin TriedOf(m)
    BY DEF Dumped, Lists
  <1>3. /\ Cardinality(H) \in Nat /\ IsFiniteSet(H)
        /\ Cardinality(H) <= ADDRMAN_NEW_BUCKETS_PER_ADDRESS
    <2>1. RefAt(m, m.vvNew, x) /\ ~m.mapInfo[x].fInTried
      BY <1>2 DEF Consistent, RefOK, TriedOf
    <2>2. Cardinality(H) \in Nat /\ IsFiniteSet(H)
      BY HoldingFinite
    <2> QED
      BY <2>1, <2>2, AddrManAssumption DEF RefAt
  <1>4. H \in SUBSET NewBucket
    BY DEF Holding
  <1> HIDE DEF H
  <1>5. ASSUME NEW b \in H
        PROVE  Cardinality({c \in NewBucket : c < b /\ k - 1 \in d.vvNew[c]})
                    < ADDRMAN_NEW_BUCKETS_PER_ADDRESS
    <2> DEFINE B == {c \in NewBucket : c < b /\ k - 1 \in d.vvNew[c]}
    <2>1. b \in Nat /\ ~(b < b)
      BY <1>4, AddrManAssumption
    <2>2. B \in SUBSET H /\ b \notin B
      BY <1>1, <2>1
    <2> HIDE DEF B
    <2>3. IsFiniteSet(B) /\ Cardinality(B) <= Cardinality(H) /\ Cardinality(B) # Cardinality(H)
      BY <1>3, <2>2, FS_Subset
    <2>4. Cardinality(B) \in Nat
      BY <2>3, FS_CardinalityType
    <2>5. Cardinality(B) < ADDRMAN_NEW_BUCKETS_PER_ADDRESS
      BY <1>3, <2>3, <2>4, AddrManAssumption
    <2> QED
      BY <2>5 DEF B
  <1>6. \A b \in NewBucket : b \in BucketsRead(d, k - 1) <=> b \in H
    BY <1>1, <1>5 DEF BucketsRead
  <1>7. BucketsRead(d, k - 1) \in SUBSET NewBucket
    BY DEF BucketsRead
  <1> QED
    BY <1>4, <1>6, <1>7 DEF H

\* Every tried entry finds place when it is read back.
LEMMA TriedReadAll ==
    ASSUME NEW m, Consistent(m, m.vvNew), Bounded(m),
           NEW d, NEW new, NEW tried, Dumped(m, d, new, tried)
    PROVE  Lists(TriedRead(d), 1 .. Len(tried)) /\ Len(TriedRead(d)) = Len(tried)
  <1> DEFINE K == 1 .. Len(tried)
             Before(k) == {j \in 1 .. k - 1 :
                              GetTriedBucket[d.tried[j].addr] = GetTriedBucket[d.tried[k].addr]}
  <1>1. /\ tried \in Seq(Nat) /\ Len(tried) \in Nat
        /\ \A k \in K : /\ tried[k] \in DOMAIN m.mapInfo /\ m.mapInfo[tried[k]].fInTried
        /\ \A k, l \in K : tried[k] = tried[l] => k = l
    <2>1. Lists(tried, TriedOf(m))
      BY DEF Dumped
    <2>2. /\ tried \in Seq(Nat) /\ \A k \in K : tried[k] \in TriedOf(m)
          /\ \A k, l \in K : tried[k] = tried[l] => k = l
      BY <2>1 DEF Lists
    <2> QED
      BY <2>2 DEF TriedOf
  <1>2. DOMAIN d.tried = K /\ \A k \in K : d.tried[k].addr = m.mapInfo[tried[k]].addr
    BY DEF Dumped, Entry
  <1>3. ASSUME NEW k \in K PROVE Cardinality(Before(k)) < ADDRMAN_TRIED_BUCKET_SIZE
    <2> DEFINE b == GetTriedBucket[m.mapInfo[tried[k]].addr]
               t == m.vvTried[b]
               B == Before(k)
               S == B \cup {k}
               At(j) == CHOOSE i \in 1 .. Len(t) : t[i] = tried[j]
               f == [j \in S |-> At(j)]
               T == 1 .. Len(t)
    <2>1. \A j \in 1 .. k - 1 : j \in K /\ j # k
      BY <1>1
    <2>2. B \in SUBSET K /\ k \notin B
      BY <2>1
    <2>3. \A j \in S : j \in K /\ GetTriedBucket[m.mapInfo[tried[j]].addr] = b
      BY <1>2, <2>1
    <2>4. b \in TriedBucket
      <3>1. m.mapInfo[tried[k]] \in Info
        BY <1>1 DEF Consistent, Shape
      <3>2. m.mapInfo[tried[k]].addr \in Addr
        BY <3>1 DEF Info
      <3> QED
        BY <3>2, AddrManAssumption
    <2> HIDE DEF B, b
    <2>5. t \in Seq(Nat) /\ Len(t) \in Nat /\ Len(t) <= ADDRMAN_TRIED_BUCKET_SIZE
      BY <2>4 DEF Consistent, TriedOK, Bounded
    <2>6. ASSUME NEW j \in S PROVE At(j) \in T /\ t[At(j)] = tried[j]
      <3>1. /\ tried[j] \in DOMAIN m.mapInfo /\ m.mapInfo[tried[j]].fInTried
            /\ GetTriedBucket[m.mapInfo[tried[j]].addr] = b
        BY <1>1, <2>3
      <3>2. \E i \in 1 .. Len(t) : t[i] = tried[j]
        <4> DEFINE y == tried[j]
        <4>1. TriedOK(m) /\ y \in DOMAIN m.mapInfo /\ m.mapInfo[y].fInTried /\ GetTriedBucket[m.mapInfo[y].addr] = b
          BY <3>1 DEF Consistent
        <4> HIDE DEF y
        <4>2. \E i \in 1 .. Len(m.vvTried[b]) : m.vvTried[b][i] = y
          BY <4>1 DEF TriedOK
        <4> QED
          BY <4>2 DEF y
      <3> QED
        BY <3>2
    <2>7. IsFiniteSet(T) /\ Cardinality(T) = Len(t)
      <3> DEFINE n == Len(t)
      <3>1. n \in Int /\ 1 \in Int
        BY <2>5
      <3> HIDE DEF n
      <3>2. IsFiniteSet(1 .. n) /\ Cardinality(1 .. n) = IF 1 > n THEN 0 ELSE n - 1 + 1
        BY <3>1, FS_Interval
      <3> QED
        BY <2>5, <3>2 DEF n
    <2>8. \A i, j \in S : tried[i] = tried[j] => i = j
      BY <1>1, <2>3
    <2> HIDE DEF S, At, T
    <2>9. Into(f, S, T)
      BY <2>6, <2>8 DEF Into
    <2> HIDE DEF f
    <2>10. IsFiniteSet(S) /\ Cardinality(S) \in Nat /\ Cardinality(S) <= Cardinality(T)
      BY <2>7, <2>9, Fits
    <2>11. B = S \ {k} /\ k \in S
      BY <2>2 DEF S
    <2>12. Cardinality(B) = Cardinality(S) - 1
      BY <2>10, <2>11, FS_RemoveElement
    <2> HIDE DEF t
    <2>13. Cardinality(B) < ADDRMAN_TRIED_BUCKET_SIZE
      BY <2>5, <2>7, <2>10, <2>12, AddrManAssumption
    <2> QED
      BY <2>13 DEF B
  <1>4. {k \in DOMAIN d.tried : Cardinality(Before(k)) < ADDRMAN_TRIED_BUCKET_SIZE} = K
    BY <1>2, <1>3
  <1>5. TriedRead(d) = InIdOrder(K)
    BY <1>4 DEF TriedRead
  <1> DEFINE n == Len(tried)
  <1>6. IsFiniteSet(K) /\ K \in SUBSET Nat /\ Cardinality(K) = n
    <2>1. n \in Nat /\ n \in Int /\ 1 \in Int
      BY <1>1
    <2> HIDE DEF n
    <2>2. IsFiniteSet(1 .. n) /\ Cardinality(1 .. n) = IF 1 > n THEN 0 ELSE n - 1 + 1
      BY <2>1, FS_Interval
    <2> QED
      BY <2>1, <2>2 DEF n
  <1> HIDE DEF K, n
  <1>7. Lists(InIdOrder(K), K)
    BY <1>6, InIdOrderLists
  <1>8. Len(InIdOrder(K)) = n
    BY <1>6, <1>7 DEF Lists
  <1> QED
    BY <1>5, <1>7, <1>8 DEF K, n

\* The entries in the order of their new ids, the new ones first.
SavedOf(d) == LET read == TriedRead(d) IN d.new \o [k \in DOMAIN read |-> d.tried[read[k]]]
Restored(m, saved, old, nNew) ==
    LET n == Cardinality(DOMAIN m.mapInfo)
    IN  /\ nNew \in 0 .. n /\ nNew = Cardinality(DOMAIN m.mapInfo \ TriedOf(m)) /\ Len(saved) = n
        /\ Into(old, 0 .. n - 1, DOMAIN m.mapInfo) /\ Onto(old, 0 .. n - 1, DOMAIN m.mapInfo)
        /\ \A x \in 0 .. n - 1 : /\ saved[x + 1] = Entry(m, old[x])
                                 /\ x < nNew <=> old[x] \notin TriedOf(m)

LEMMA SavedIs ==
    ASSUME NEW m, Consistent(m, m.vvNew), Bounded(m),
           NEW d, NEW new, NEW tried, Dumped(m, d, new, tried)
    PROVE  /\ Len(d.new) = Len(new) /\ Len(TriedRead(d)) = Cardinality(TriedOf(m))
           /\ Cardinality(DOMAIN m.mapInfo) = Len(new) + Len(TriedRead(d))
           /\ \E old : /\ Restored(m, SavedOf(d), old, Len(new))
                       /\ \A x \in 0 .. Len(new) - 1 : old[x] = new[x + 1]
  <1> DEFINE D == DOMAIN m.mapInfo
             T == TriedOf(m)
             p == Len(new)
             q == Len(tried)
             n == Cardinality(D)
             N == 0 .. n - 1
             read == TriedRead(d)
             back == [k \in DOMAIN read |-> d.tried[read[k]]]
             old == [x \in N |-> IF x < p THEN new[x + 1] ELSE tried[read[x - p + 1]]]
  <1>1. /\ new \in Seq(Nat) /\ p = Cardinality(D \ T) /\ p \in Nat
        /\ \A k \in 1 .. p : new[k] \in D \ T
        /\ \A k, l \in 1 .. p : new[k] = new[l] => k = l
        /\ \A x \in D \ T : \E k \in 1 .. p : new[k] = x
    <2> DEFINE U == D \ T
    <2>1. Lists(new, U)
      BY DEF Dumped
    <2> HIDE DEF U
    <2>2. /\ new \in Seq(Nat) /\ p = Cardinality(U)
          /\ \A k \in 1 .. p : new[k] \in U
          /\ \A k, l \in 1 .. p : new[k] = new[l] => k = l
          /\ \A x \in U : \E k \in 1 .. p : new[k] = x
      BY <2>1 DEF Lists
    <2>3. p \in Nat
      BY <2>2
    <2> HIDE DEF p
    <2> QED
      BY <2>2, <2>3 DEF U
  <1>2. /\ tried \in Seq(Nat) /\ q = Cardinality(T) /\ q \in Nat
        /\ \A k \in 1 .. q : tried[k] \in T
        /\ \A k, l \in 1 .. q : tried[k] = tried[l] => k = l
        /\ \A x \in T : \E k \in 1 .. q : tried[k] = x
    BY DEF Dumped, Lists
  <1>3. T \in SUBSET D /\ IsFiniteSet(D)
    BY IdsFinite DEF Consistent, TriedOf
  <1>4. /\ d.new = [k \in 1 .. p |-> Entry(m, new[k])]
        /\ d.tried = [k \in 1 .. q |-> Entry(m, tried[k])]
    BY DEF Dumped
  <1>5. Lists(read, 1 .. q) /\ Len(read) = q
    BY TriedReadAll
  <1>6. SavedOf(d) = d.new \o back
    BY DEF SavedOf
  <1> HIDE DEF read, D, T
  <1>7. n = p + q /\ n \in Nat
    <2>1. IsFiniteSet(T) /\ IsFiniteSet(D \ T) /\ D = T \cup (D \ T) /\ T \cap (D \ T) = {}
      BY <1>3, FS_Subset, FS_Difference
    <2>2. Cardinality(T \cup (D \ T)) = Cardinality(T) + Cardinality(D \ T) - Cardinality(T \cap (D \ T))
      BY <2>1, FS_Union
    <2>3. Cardinality(T \cap (D \ T)) = 0
      BY <2>1, FS_EmptySet
    <2>4. n = q + p - 0
      BY <1>1, <1>2, <2>1, <2>2, <2>3
    <2> HIDE DEF n, p, q
    <2> QED
      BY <1>1, <1>2, <2>4
  <1>8. /\ read \in Seq(Nat) /\ DOMAIN read = 1 .. q
        /\ \A k \in 1 .. q : read[k] \in 1 .. q
        /\ \A k, l \in 1 .. q : read[k] = read[l] => k = l
        /\ \A j \in 1 .. q : \E k \in 1 .. q : read[k] = j
    BY <1>5 DEF Lists
  <1>0. n = p + q /\ n \in Nat /\ p \in Nat /\ q \in Nat
    BY <1>1, <1>2, <1>7
  <1> HIDE DEF n, p, q
  <1>9. /\ \A x \in N : x < p => x + 1 \in 1 .. p
        /\ \A x \in N : ~(x < p) => x - p + 1 \in 1 .. q
        /\ \A k \in 1 .. p : k - 1 \in N /\ k - 1 < p /\ k - 1 + 1 = k
        /\ \A k \in 1 .. q : k + p - 1 \in N /\ ~(k + p - 1 < p) /\ k + p - 1 - p + 1 = k
    BY <1>0
  <1>10. ASSUME NEW x \in N
         PROVE  /\ x < p => old[x] = new[x + 1]
                /\ ~(x < p) => old[x] = tried[read[x - p + 1]]
    OBVIOUS
  <1> HIDE DEF old
  <1>11. ASSUME NEW x \in N PROVE old[x] \in D /\ (x < p <=> old[x] \notin T)
    <2>1. CASE x < p
      BY <1>1, <1>9, <1>10, <2>1
    <2>2. CASE ~(x < p)
      <3>1. read[x - p + 1] \in 1 .. q
        BY <1>8, <1>9, <2>2
      <3>2. old[x] \in T
        BY <1>2, <1>10, <2>2, <3>1
      <3> QED
        BY <1>3, <2>2, <3>2
    <2> QED
      BY <2>1, <2>2
  <1>12. ASSUME NEW x \in N, NEW y \in N, old[x] = old[y] PROVE x = y
    <2>1. x < p <=> y < p
      BY <1>11, <1>12
    <2>2. CASE x < p
      <3>1. new[x + 1] = new[y + 1] /\ x + 1 \in 1 .. p /\ y + 1 \in 1 .. p
        BY <1>9, <1>10, <1>12, <2>1, <2>2
      <3>2. x + 1 = y + 1
        BY <1>1, <3>1
      <3> QED
        BY <1>7, <3>2
    <2>3. CASE ~(x < p)
      <3> DEFINE k == x - p + 1
                 l == y - p + 1
      <3>1. k \in 1 .. q /\ l \in 1 .. q /\ tried[read[k]] = tried[read[l]]
        BY <1>9, <1>10, <1>12, <2>1, <2>3
      <3> HIDE DEF k, l
      <3>2. k = l
        BY <1>2, <1>8, <3>1, ZenonT(60)
      <3> QED
        BY <1>1, <1>7, <3>2 DEF k, l
    <2> QED
      BY <2>2, <2>3
  <1>13. ASSUME NEW y \in D PROVE \E x \in N : old[x] = y
    <2>1. CASE y \notin T
      <3>1. PICK k \in 1 .. p : new[k] = y
        BY <1>1, <2>1
      <3>2. k - 1 \in N /\ old[k - 1] = y
        BY <1>9, <1>10, <3>1
      <3> QED
        BY <3>2
    <2>2. CASE y \in T
      <3>1. PICK j \in 1 .. q : tried[j] = y
        BY <1>2, <2>2
      <3>2. PICK k \in 1 .. q : read[k] = j
        BY <1>8
      <3> DEFINE x == k + p - 1
      <3>3. x \in N /\ ~(x < p) /\ x - p + 1 = k
        BY <1>0
      <3> HIDE DEF x
      <3>4. old[x] = y
        BY <1>10, <3>1, <3>2, <3>3
      <3> QED
        BY <3>3, <3>4
    <2> QED
      BY <2>1, <2>2
  <1>14. Into(old, N, D) /\ Onto(old, N, D)
    <2>1. old \in [N -> D]
      <3>1. \E f : old = [x \in N |-> f[x]]
        <4>1. old = [x \in N |-> old[x]]
          BY DEF old
        <4> QED
          BY <4>1
      <3> QED
        BY <1>11, <3>1
    <2> QED
      BY <1>12, <1>13, <2>1 DEF Into, Onto
  <1>15. /\ Len(d.new) = p /\ Len(SavedOf(d)) = n
         /\ \A k \in 1 .. p : SavedOf(d)[k] = Entry(m, new[k])
         /\ \A k \in 1 .. q : SavedOf(d)[k + p] = Entry(m, tried[read[k]])
    <2> DEFINE E == {Entry(m, x) : x \in D}
    <2>1. d.new \in [1 .. p -> E] /\ \A k \in 1 .. p : d.new[k] = Entry(m, new[k])
      <3>1. \A k \in 1 .. p : Entry(m, new[k]) \in E
        BY <1>1
      <3> HIDE DEF E
      <3> QED
        BY <1>4, <3>1
    <2>2. back \in [1 .. q -> E] /\ \A k \in 1 .. q : back[k] = Entry(m, tried[read[k]])
      <3>1. \A k \in 1 .. q : d.tried[read[k]] = Entry(m, tried[read[k]])
        BY <1>4, <1>8
      <3>2. \A k \in 1 .. q : tried[read[k]] \in D
        BY <1>2, <1>3, <1>8
      <3>3. \A k \in 1 .. q : d.tried[read[k]] \in E
        BY <3>1, <3>2
      <3> HIDE DEF E
      <3> QED
        BY <1>8, <3>1, <3>3
    <2> HIDE DEF E, back
    <2>3. d.new \in Seq(E) /\ Len(d.new) = p /\ back \in Seq(E) /\ Len(back) = q
      <3>1. d.new \in [1 .. p -> E] /\ back \in [1 .. q -> E]
        BY <2>1, <2>2
      <3> QED
        BY <1>0, <3>1, SMTT(60)
    <2>4. /\ Len(d.new \o back) = p + q
          /\ \A k \in 1 .. p + q : (d.new \o back)[k] = IF k <= p THEN d.new[k] ELSE back[k - p]
      BY <2>3
    <2>5. /\ \A k \in 1 .. p : k \in 1 .. p + q /\ k <= p
          /\ \A k \in 1 .. q : k + p \in 1 .. p + q /\ ~(k + p <= p) /\ k + p - p = k
      BY <1>0
    <2>6. ASSUME NEW k \in 1 .. p PROVE (d.new \o back)[k] = Entry(m, new[k])
      BY <2>1, <2>4, <2>5
    <2>7. ASSUME NEW k \in 1 .. q PROVE (d.new \o back)[k + p] = Entry(m, tried[read[k]])
      <3> DEFINE j == k + p
      <3>1. j \in 1 .. p + q /\ ~(j <= p) /\ j - p = k
        BY <1>0
      <3> HIDE DEF j
      <3>2. (d.new \o back)[j] = back[k]
        BY <2>4, <3>1
      <3> QED
        BY <2>2, <3>2 DEF j
    <2> QED
      BY <1>0, <1>6, <2>3, <2>4, <2>6, <2>7
  <1>16. ASSUME NEW x \in N PROVE SavedOf(d)[x + 1] = Entry(m, old[x])
    <2>1. CASE x < p
      BY <1>9, <1>10, <1>15, <2>1
    <2>2. CASE ~(x < p)
      <3> DEFINE k == x - p + 1
      <3>1. k \in 1 .. q /\ k + p = x + 1 /\ old[x] = tried[read[k]]
        <4>1. k \in 1 .. q /\ k + p = x + 1
          BY <1>0, <2>2
        <4> QED
          BY <1>10, <2>2, <4>1
      <3> HIDE DEF k
      <3> QED
        BY <1>15, <3>1
    <2> QED
      BY <2>1, <2>2
  <1>17. p \in 0 .. n
    BY <1>0
  <1>18. \A x \in 0 .. p - 1 : old[x] = new[x + 1]
    <2>1. \A x \in 0 .. p - 1 : x \in N /\ x < p
      BY <1>0
    <2> QED
      BY <1>10, <2>1
  <1>19. Restored(m, SavedOf(d), old, p)
    BY <1>1, <1>11, <1>14, <1>15, <1>16, <1>17 DEF Restored, N, n, D, T
  <1> QED
    BY <1>2, <1>5, <1>7, <1>15, <1>18, <1>19 DEF n, D, p, q, read, T

\* What is read back is what was written, under new ids.
LEMMA LoadDump ==
    ASSUME NEW m, Consistent(m, m.vvNew), Bounded(m)
    PROVE  \E old : Renumbered(m, Load(Dump(m)), old)
  <1> DEFINE d == Dump(m)
             z == Load(d)
             D == DOMAIN m.mapInfo
             T == TriedOf(m)
             s == SavedOf(d)
             n == Len(s)
             N == 0 .. n - 1
             p == Len(d.new)
             q == Len(TriedRead(d))
             IdOf(a) == CHOOSE x \in N : s[x + 1].addr = a
             Ref(x) == IF x < p THEN Cardinality(BucketsRead(d, x)) ELSE 0
             Read(x) == [addr |-> s[x + 1].addr, source |-> s[x + 1].source,
                         nRefCount |-> Ref(x), fInTried |-> x >= p, nRandomPos |-> x + 1]
             InBucket(b) == {x \in N : x >= p /\ GetTriedBucket[s[x + 1].addr] = b}
  <1>1. z = [nIdCount |-> n, mapInfo |-> [x \in N |-> Read(x)],
             mapAddr  |-> [a \in {s[x + 1].addr : x \in N} |-> IdOf(a)],
             vRandom  |-> [k \in 1 .. n |-> k - 1],
             nTried   |-> q, vvTried |-> [b \in TriedBucket |-> InIdOrder(InBucket(b))],
             nNew     |-> p,
             vvNew    |-> [b \in NewBucket |-> {x \in 0 .. p - 1 : b \in BucketsRead(d, x)}],
             vSuccess |-> [k \in DOMAIN d.vSuccess |-> IdOf(d.vSuccess[k])]]
    BY DEF Load, SavedOf
  <1>2. PICK new, tried : Dumped(m, d, new, tried)
    BY DumpIs
  <1> HIDE DEF d, z, s
  <1>3. p = Len(new) /\ q = Cardinality(T) /\ Cardinality(D) = Len(new) + q
    BY <1>2, SavedIs
  <1>4. PICK old : /\ Restored(m, s, old, Len(new))
                   /\ \A x \in 0 .. Len(new) - 1 : old[x] = new[x + 1]
    BY <1>2, SavedIs DEF s
  <1> HIDE DEF p, q
  <1>5. Restored(m, s, old, p) /\ \A x \in 0 .. p - 1 : old[x] = new[x + 1]
    BY <1>3, <1>4
  <1>6. n = Cardinality(D)
    BY <1>5 DEF Restored
  <1>7. /\ Into(old, N, D) /\ Onto(old, N, D) /\ p = Cardinality(D \ T)
        /\ \A x \in N : s[x + 1] = Entry(m, old[x]) /\ (x < p <=> old[x] \notin T)
    BY <1>5, <1>6 DEF Restored
  <1> HIDE DEF n
  <1>8. z.nIdCount = n /\ z.mapInfo = [x \in N |-> Read(x)]
    BY <1>1
  <1>9. z.mapAddr = [a \in {s[x + 1].addr : x \in N} |-> IdOf(a)]
    <2> HIDE DEF N, Read, IdOf, InBucket
    <2> QED
      BY <1>1, Zenon
  <1>10. /\ z.vRandom = [k \in 1 .. n |-> k - 1] /\ z.nTried = q
         /\ z.vvTried = [b \in TriedBucket |-> InIdOrder(InBucket(b))] /\ z.nNew = p
         /\ z.vvNew = [b \in NewBucket |-> {x \in 0 .. p - 1 : b \in BucketsRead(d, x)}]
         /\ DOMAIN z = {"nIdCount", "mapInfo", "mapAddr", "vRandom", "nTried", "vvTried",
                        "nNew", "vvNew", "vSuccess"}
    <2> HIDE DEF N, Read, IdOf, InBucket
    <2> QED
      BY <1>1, Zenon
  <1> HIDE DEF N, Read, IdOf, InBucket, D, T
  <1>11. /\ Shape(m) /\ AddrOK(m) /\ RefOK(m, m.vvNew) /\ IsFiniteSet(D)
         /\ n \in Nat /\ p \in Nat /\ q \in Nat /\ n = p + q
    <2>1. Shape(m) /\ AddrOK(m) /\ RefOK(m, m.vvNew)
      BY DEF Consistent
    <2>2. IsFiniteSet(D) /\ T \in SUBSET D
      BY <2>1, IdsFinite DEF TriedOf, D, T
    <2>3. IsFiniteSet(T) /\ IsFiniteSet(D \ T)
      BY <2>2, FS_Subset, FS_Difference
    <2>4. n \in Nat /\ p \in Nat /\ q \in Nat
      BY <1>3, <1>6, <1>7, <2>2, <2>3, FS_CardinalityType
    <2> QED
      BY <1>3, <1>6, <2>1, <2>2, <2>4
  <1>12. /\ \A x \in N : old[x] \in D
         /\ \A x, y \in N : old[x] = old[y] => x = y
         /\ \A y \in D : \E x \in N : old[x] = y
    BY <1>7 DEF Into, Onto
  <1>13. ASSUME NEW x \in N
         PROVE  /\ s[x + 1].addr = m.mapInfo[old[x]].addr /\ s[x + 1].addr \in Addr
                /\ s[x + 1].source = m.mapInfo[old[x]].source /\ s[x + 1].source \in Source
    <2>1. m.mapInfo[old[x]] \in Info
      BY <1>11, <1>12 DEF Shape, D
    <2>2. s[x + 1] = Entry(m, old[x])
      BY <1>7
    <2> QED
      BY <2>1, <2>2 DEF Entry, Info
  <1>14. \A x \in N : x \in Nat /\ x + 1 \in 1 .. n /\ (x < p <=> x \in 0 .. p - 1)
    BY <1>11 DEF N
  <1>15. ASSUME NEW x \in N, x < p PROVE BucketsRead(d, x) = Holding(m.vvNew, old[x])
    <2> DEFINE k == x + 1
    <2>1. k \in 1 .. Len(new) /\ k - 1 = x /\ x \in 0 .. p - 1
      BY <1>3, <1>11, <1>14, <1>15
    <2>2. old[x] = new[k]
      BY <1>5, <2>1
    <2> HIDE DEF k
    <2>3. BucketsRead(d, k - 1) = Holding(m.vvNew, new[k])
      BY <1>2, <2>1, BucketsReadAll
    <2> QED
      BY <2>1, <2>2, <2>3
  <1>16. ASSUME NEW x \in N PROVE Ref(x) = m.mapInfo[old[x]].nRefCount /\ Ref(x) \in Nat
    <2> DEFINE y == old[x]
    <2>1. y \in D /\ RefAt(m, m.vvNew, y) /\ (x < p <=> y \notin T)
      BY <1>7, <1>11, <1>12 DEF RefOK, D
    <2>2. Cardinality(Holding(m.vvNew, y)) \in Nat
      BY HoldingFinite
    <2>3. CASE x < p
      BY <1>15, <2>1, <2>2, <2>3 DEF RefAt
    <2>4. CASE ~(x < p)
      <3>1. m.mapInfo[y].fInTried
        BY <2>1, <2>4 DEF T, TriedOf
      <3> QED
        BY <2>1, <2>4, <3>1 DEF RefAt
    <2> QED
      BY <2>3, <2>4
  <1>17. ASSUME NEW x \in N
         PROVE  (x >= p) \in BOOLEAN /\ (x >= p) = m.mapInfo[old[x]].fInTried
    <2>1. x >= p <=> ~(x < p)
      BY <1>11, <1>14
    <2>2. old[x] \in D /\ (x < p <=> old[x] \notin T)
      BY <1>7, <1>12
    <2>3. x >= p <=> m.mapInfo[old[x]].fInTried
      BY <2>1, <2>2 DEF T, TriedOf, D
    <2>4. m.mapInfo[old[x]].fInTried \in BOOLEAN
      BY <1>11, <2>2 DEF Shape, Info, D
    <2>5. (x >= p) \in BOOLEAN
      BY <1>11, <1>14
    <2> QED
      BY <2>3, <2>4, <2>5, Zenon
  <1>18. ASSUME NEW x \in N
         PROVE  /\ z.mapInfo[x] \in Info /\ z.mapInfo[x].nRandomPos = x + 1
                /\ z.mapInfo[x].addr = m.mapInfo[old[x]].addr
                /\ z.mapInfo[x].nRefCount = m.mapInfo[old[x]].nRefCount
                /\ z.mapInfo[x].fInTried = m.mapInfo[old[x]].fInTried
    <2> DEFINE e == z.mapInfo[x]
               t == (x >= p)
    <2>1. e = Read(x)
      BY <1>8
    <2>2. e = [addr |-> s[x + 1].addr, source |-> s[x + 1].source,
               nRefCount |-> Ref(x), fInTried |-> t, nRandomPos |-> x + 1]
      BY <2>1, Zenon DEF Read
    <2>3. s[x + 1].addr \in Addr /\ s[x + 1].source \in Source /\ Ref(x) \in Nat /\ x + 1 \in Nat
      BY <1>13, <1>14, <1>16
    <2>4. t \in BOOLEAN
      BY <1>17
    <2> HIDE DEF t, Ref, e
    <2>5. e \in Info
      BY <2>2, <2>3, <2>4, Zenon DEF Info
    <2>6. /\ e.addr = s[x + 1].addr /\ e.nRefCount = Ref(x) /\ e.fInTried = t /\ e.nRandomPos = x + 1
      BY <2>2, Zenon
    <2> QED
      BY <1>13, <1>16, <1>17, <2>5, <2>6, Zenon DEF e, t
  <1>19. DOMAIN z.mapInfo = N
    BY <1>8
  <1>20. /\ DOMAIN z.mapAddr = DOMAIN m.mapAddr
         /\ \A x \in N : z.mapAddr[m.mapInfo[old[x]].addr] = x
    <2> DEFINE A == {s[x + 1].addr : x \in N}
    <2>1. ASSUME NEW x \in N, NEW y \in N, s[x + 1].addr = s[y + 1].addr PROVE x = y
      <3>1. old[x] \in D /\ old[y] \in D /\ m.mapInfo[old[x]].addr = m.mapInfo[old[y]].addr
        BY <1>12, <1>13, <2>1
      <3>2. old[x] = old[y]
        BY <1>11, <3>1 DEF AddrOK, D
      <3> QED
        BY <1>12, <3>2
    <2>2. ASSUME NEW x \in N PROVE IdOf(s[x + 1].addr) = x
      BY <2>1 DEF IdOf
    <2>3. \A x \in N : s[x + 1].addr \in A
      OBVIOUS
    <2>4. A = DOMAIN m.mapAddr
      <3>1. ASSUME NEW a \in DOMAIN m.mapAddr PROVE a \in A
        <4>1. m.mapAddr[a] \in D /\ m.mapInfo[m.mapAddr[a]].addr = a
          BY <1>11 DEF AddrOK, D
        <4>2. PICK x \in N : old[x] = m.mapAddr[a]
          BY <1>12, <4>1
        <4> QED
          BY <1>13, <4>1, <4>2
      <3>2. ASSUME NEW x \in N PROVE s[x + 1].addr \in DOMAIN m.mapAddr
        BY <1>11, <1>12, <1>13 DEF AddrOK, D
      <3> QED
        BY <3>1, <3>2
    <2> HIDE DEF A
    <2>5. z.mapAddr = [a \in A |-> IdOf(a)]
      BY <1>9 DEF A
    <2> QED
      BY <1>13, <2>2, <2>3, <2>4, <2>5
  <1>21. z.vRandom \in Seq(Nat) /\ Len(z.vRandom) = n /\ \A k \in 1 .. n : z.vRandom[k] = k - 1
    <2>1. z.vRandom \in [1 .. n -> Nat] /\ \A k \in 1 .. n : z.vRandom[k] = k - 1
      BY <1>10, <1>11
    <2>2. n \in Nat
      BY <1>11
    <2> QED
      BY <2>1, <2>2
  <1>22. TriedOf(z) = p .. n - 1 /\ N \ TriedOf(z) = 0 .. p - 1
    <2>1. \A x \in N : x \in TriedOf(z) <=> x >= p
      BY <1>17, <1>18, <1>19 DEF TriedOf
    <2>2. TriedOf(z) \in SUBSET N
      BY <1>19 DEF TriedOf
    <2>3. \A x : x \in N /\ x >= p <=> x \in p .. n - 1
      BY <1>11 DEF N
    <2>4. \A x : x \in N /\ ~(x >= p) <=> x \in 0 .. p - 1
      BY <1>11 DEF N
    <2> QED
      BY <2>1, <2>2, <2>3, <2>4
  <1>23. CountOK(z)
    <2> DEFINE l == n - 1
               k == p - 1
    <2>1. l \in Int /\ k \in Int /\ p \in Int /\ 0 \in Int
      BY <1>11
    <2> HIDE DEF l, k
    <2>2. /\ Cardinality(p .. l) = IF p > l THEN 0 ELSE l - p + 1
          /\ Cardinality(0 .. k) = IF 0 > k THEN 0 ELSE k - 0 + 1
      BY <2>1, FS_Interval
    <2>3. Cardinality(p .. n - 1) = q /\ Cardinality(0 .. p - 1) = p
      BY <1>11, <2>2 DEF l, k
    <2> QED
      BY <1>10, <1>19, <1>22, <2>3 DEF CountOK
  <1>24. /\ DOMAIN z.vvTried = TriedBucket
         /\ \A b \in TriedBucket :
                Lists(z.vvTried[b], {x \in TriedOf(z) : GetTriedBucket[z.mapInfo[x].addr] = b})
    <2>1. ASSUME NEW b \in TriedBucket
          PROVE  Lists(z.vvTried[b], {x \in TriedOf(z) : GetTriedBucket[z.mapInfo[x].addr] = b})
      <3> DEFINE S == {x \in TriedOf(z) : GetTriedBucket[z.mapInfo[x].addr] = b}
      <3>1. \A x : x \in TriedOf(z) <=> x \in N /\ x >= p
        BY <1>11, <1>22 DEF N
      <3>2. \A x \in N : z.mapInfo[x].addr = s[x + 1].addr
        BY <1>13, <1>18
      <3>3. InBucket(b) = S
        BY <3>1, <3>2 DEF InBucket
      <3>4. S \in SUBSET Nat /\ S \in SUBSET N
        BY <1>14, <3>1
      <3>5. IsFiniteSet(N)
        <4> DEFINE l == n - 1
        <4>1. l \in Int /\ 0 \in Int
          BY <1>11
        <4> HIDE DEF l
        <4> QED
          BY <4>1, FS_Interval DEF N, l
      <3> HIDE DEF S
      <3>6. IsFiniteSet(S)
        BY <3>4, <3>5, FS_Subset
      <3>7. Lists(InIdOrder(S), S)
        BY <3>4, <3>6, InIdOrderLists
      <3>8. z.vvTried[b] = InIdOrder(S)
        BY <1>10, <3>3
      <3> QED
        BY <3>7, <3>8 DEF S
    <2> QED
      BY <1>10, <2>1
  <1>25. /\ z.vvNew \in [NewBucket -> SUBSET DOMAIN z.mapInfo]
         /\ \A b \in NewBucket : \A x \in N : x \in z.vvNew[b] <=> old[x] \in m.vvNew[b]
    <2>1. ASSUME NEW b \in NewBucket
          PROVE  /\ z.vvNew[b] \in SUBSET N
                 /\ \A x \in N : x \in z.vvNew[b] <=> old[x] \in m.vvNew[b]
      <3>1. z.vvNew[b] = {x \in 0 .. p - 1 : b \in BucketsRead(d, x)}
        BY <1>10
      <3>2. \A x \in 0 .. p - 1 : x \in N
        BY <1>11 DEF N
      <3>3. ASSUME NEW x \in N, x < p PROVE x \in z.vvNew[b] <=> old[x] \in m.vvNew[b]
        <4>1. b \in BucketsRead(d, x) <=> old[x] \in m.vvNew[b]
          BY <1>15, <3>3 DEF Holding
        <4> QED
          BY <1>14, <3>1, <3>3, <4>1
      <3>4. ASSUME NEW x \in N, ~(x < p) PROVE x \notin z.vvNew[b] /\ old[x] \notin m.vvNew[b]
        <4>1. x \notin z.vvNew[b]
          BY <1>14, <3>1, <3>4
        <4>2. old[x] \in D /\ m.mapInfo[old[x]].fInTried
          BY <1>7, <1>12, <3>4 DEF T, TriedOf
        <4>3. Cardinality(Holding(m.vvNew, old[x])) = 0
          BY <1>11, <4>2 DEF RefOK, RefAt, D
        <4>4. Holding(m.vvNew, old[x]) = {}
          BY <4>3, HoldingFinite
        <4> QED
          BY <4>1, <4>4 DEF Holding
      <3> QED
        BY <3>1, <3>2, <3>3, <3>4
    <2>2. \E f : z.vvNew = [b \in NewBucket |-> f[b]]
      <3>1. z.vvNew = [b \in NewBucket |-> z.vvNew[b]]
        BY <1>10
      <3> QED
        BY <3>1
    <2> QED
      BY <1>19, <2>1, <2>2
  <1>26. DOMAIN z = DOMAIN m
    BY <1>10, <1>11 DEF Shape
  <1>27. Renumbered(m, z, old)
    BY <1>6, <1>7, <1>8, <1>18, <1>19, <1>20, <1>21, <1>23, <1>24, <1>25, <1>26 DEF Renumbered, D, N
  <1> QED
    BY <1>27 DEF z, d

\* peers.dat is written and read.
LEMMA ReloadKeeps ==
    ASSUME IInv, Reload
    PROVE  IInv' /\ SameAddresses(am, am')
  <1>1. Consistent(am, am.vvNew) /\ Bounded(am) /\ am' = Load(Dump(am))
    BY DEF IInv, Reload
  <1>2. PICK old : Renumbered(am, am', old)
    BY <1>1, LoadDump
  <1>3. Consistent(am', am'.vvNew) /\ Bounded(am') /\ SameAddresses(am, am')
    BY <1>1, <1>2, RenumberedKeeps
  <1> QED
    BY <1>3 DEF IInv
-----------------------------------------------------------------------------
LEMMA InitInv == Init => IInv
  <1> SUFFICES ASSUME Init PROVE IInv
    OBVIOUS
  <1>1. /\ am.nIdCount = 0 /\ am.mapInfo = <<>> /\ am.mapAddr = <<>> /\ am.vRandom = <<>>
        /\ am.nTried = 0 /\ am.vvTried = [b \in TriedBucket |-> <<>>]
        /\ am.nNew = 0 /\ am.vvNew = [b \in NewBucket |-> {}]
        /\ DOMAIN am = {"nIdCount", "mapInfo", "mapAddr", "vRandom", "nTried", "vvTried",
                        "nNew", "vvNew", "vSuccess"}
    BY DEF Init
  <1>2. DOMAIN am.mapInfo = {} /\ DOMAIN am.mapAddr = {} /\ am.vRandom \in Seq(Nat) /\ Len(am.vRandom) = 0
    BY <1>1
  <1>3. Shape(am)
    BY <1>1, <1>2, AddrManAssumption DEF Shape
  <1>4. AddrOK(am) /\ RandomOK(am)
    BY <1>2 DEF AddrOK, RandomOK
  <1>5. CountOK(am)
    <2>1. TriedOf(am) = {} /\ DOMAIN am.mapInfo \ TriedOf(am) = {}
      BY <1>2 DEF TriedOf
    <2> QED
      BY <1>1, <2>1, FS_EmptySet DEF CountOK
  <1>6. RefOK(am, am.vvNew)
    BY <1>1, <1>2 DEF RefOK
  <1>7. TriedOK(am)
    <2>1. \A b \in TriedBucket : am.vvTried[b] \in Seq(Nat) /\ Len(am.vvTried[b]) = 0
      BY <1>1
    <2>2. DOMAIN am.vvTried = TriedBucket
      BY <1>1
    <2> QED
      BY <1>2, <2>1, <2>2 DEF TriedOK
  <1>8. Bounded(am)
    <2>1. \A b \in TriedBucket : Len(am.vvTried[b]) = 0
      BY <1>1
    <2>2. \A b \in NewBucket : Cardinality(am.vvNew[b]) = 0
      BY <1>1, FS_EmptySet
    <2> QED
      BY <2>1, <2>2, AddrManAssumption DEF Bounded
  <1> QED
    BY <1>3, <1>4, <1>5, <1>6, <1>7, <1>8 DEF IInv, Consistent

\* What a step may do to the tried table.
TriedStep(m, z) == TriedSame(m, z) \/ Promoted(m, z) \/ SameAddresses(m, z)

LEMMA NextInv == IInv /\ Next => IInv' /\ TriedStep(am, am')
  <1> SUFFICES ASSUME IInv, Next PROVE IInv' /\ TriedStep(am, am')
    OBVIOUS
  <1>1. ASSUME NEW h \in Heard, AddNew(h[1], h[2]) PROVE IInv' /\ TriedSame(am, am')
    <2>1. h = <<h[1], h[2]>>
      BY AddrManAssumption
    <2> QED
      BY <1>1, <2>1, AddNewKeeps
  <1>2. ASSUME NEW h \in Heard, AddAgain(h[1], h[2]) PROVE IInv' /\ TriedSame(am, am')
    <2>1. h = <<h[1], h[2]>>
      BY AddrManAssumption
    <2> QED
      BY <1>2, <2>1, AddAgainKeeps
  <1>3. ASSUME NEW a \in Addr, Good(a) PROVE IInv' /\ (TriedSame(am, am') \/ Promoted(am, am'))
    BY <1>3, GoodKeeps
  <1>4. CASE GetAddr
    BY <1>4, GetAddrKeeps DEF TriedStep
  <1>5. CASE Reload
    BY <1>5, ReloadKeeps DEF TriedStep
  <1> QED
    BY <1>1, <1>2, <1>3, <1>4, <1>5 DEF Next, TriedStep

\* The inductive invariant holds.
THEOREM Invariant == Spec => []IInv
  <1>1. IInv /\ [Next]_am => IInv'
    <2> SUFFICES ASSUME IInv, [Next]_am PROVE IInv'
      OBVIOUS
    <2>1. CASE Next
      BY <2>1, NextInv
    <2>2. CASE am' = am
      BY <2>2 DEF IInv
    <2> QED
      BY <2>1, <2>2
  <1> QED
    BY InitInv, <1>1, PTL DEF Spec

\* No bucket ever outgrows its size: in particular ShrinkNew always makes place, and
\* MakeTried finds some for the entry it evicts.
THEOREM BoundedAlways == Spec => []BucketsBounded
  <1>1. IInv => BucketsBounded
    BY DEF IInv, Bounded, BucketsBounded
  <1> QED
    BY <1>1, Invariant, PTL

\* Check_ would return 0 after any operations: its counters, reference counts and
\* indexes agree with the tables.
THEOREM CheckAlways == Spec => []Check
  <1>1. IInv => Check
    <2> SUFFICES ASSUME IInv PROVE Check
      OBVIOUS
    <2> DEFINE L == Len(am.vRandom)
               R == 1 .. L
               D == DOMAIN am.mapInfo
               T == TriedOf(am)
    <2>1. /\ Shape(am) /\ AddrOK(am) /\ RandomOK(am) /\ CountOK(am) /\ RefOK(am, am.vvNew)
          /\ TriedOK(am)
      BY DEF IInv, Consistent
    <2>2. Ids = D /\ TriedIds = T
      BY DEF Ids, TriedIds, TriedOf
    <2>3. IsFiniteSet(D) /\ D \in SUBSET Nat /\ T \in SUBSET D
      BY <2>1, IdsFinite DEF TriedOf
    <2>4. IsFiniteSet(T) /\ IsFiniteSet(D \ T) /\ Cardinality(T) \in Nat /\ Cardinality(D \ T) \in Nat
      BY <2>3, FS_Subset, FS_Difference, FS_CardinalityType
    <2>5. Cardinality(D) = Cardinality(T) + Cardinality(D \ T)
      <3> HIDE DEF D, T
      <3>1. D = T \cup (D \ T) /\ T \cap (D \ T) = {}
        BY <2>3
      <3>2. Cardinality(T \cup (D \ T)) = Cardinality(T) + Cardinality(D \ T) - Cardinality(T \cap (D \ T))
        BY <2>4, FS_Union
      <3>3. Cardinality(T \cap (D \ T)) = 0
        BY <3>1, FS_EmptySet
      <3>4. Cardinality(D) = Cardinality(T) + Cardinality(D \ T) - 0
        BY <3>1, <3>2, <3>3
      <3> QED
        BY <2>4, <3>4
    <2>6. Cardinality(D) = L
      <3> DEFINE f == [i \in R |-> am.vRandom[i]]
                 g == [x \in D |-> am.mapInfo[x].nRandomPos]
      <3>1. L \in Nat
        BY <2>1 DEF RandomOK
      <3>2. IsFiniteSet(R) /\ Cardinality(R) = L
        <4>1. L \in Int /\ 1 \in Int
          BY <3>1
        <4> HIDE DEF L
        <4>2. IsFiniteSet(1 .. L) /\ Cardinality(1 .. L) = IF 1 > L THEN 0 ELSE L - 1 + 1
          BY <4>1, FS_Interval
        <4> QED
          BY <3>1, <4>2
      <3>3. Into(f, R, D) /\ Into(g, D, R)
        <4>1. /\ \A i \in R : am.vRandom[i] \in D /\ am.mapInfo[am.vRandom[i]].nRandomPos = i
              /\ \A x \in D : am.mapInfo[x].nRandomPos \in R /\ am.vRandom[am.mapInfo[x].nRandomPos] = x
          BY <2>1 DEF RandomOK
        <4> HIDE DEF R, D
        <4> QED
          BY <4>1 DEF Into
      <3> HIDE DEF R, f, g, D, L
      <3>4. Cardinality(R) <= Cardinality(D) /\ Cardinality(D) \in Nat
        BY <2>3, <3>3, Fits
      <3>5. Cardinality(D) <= Cardinality(R)
        BY <3>2, <3>3, Fits
      <3> QED
        BY <3>1, <3>2, <3>4, <3>5
    <2>7. TypeOK
      <3>1. am.nIdCount \in 0 .. MaxId /\ D \subseteq 0 .. am.nIdCount - 1
        BY <2>1 DEF Shape
      <3>2. \A x \in D : am.mapInfo[x] \in Info
        BY <2>1 DEF Shape
      <3>3. DOMAIN am.mapAddr \subseteq Addr /\ am.vRandom \in Seq(Nat)
        BY <2>1 DEF AddrOK, RandomOK
      <3>4. am.nTried \in Nat /\ am.nNew \in Nat
        BY <2>1, <2>4 DEF CountOK
      <3>5. \A b \in TriedBucket : am.vvTried[b] \in Seq(Nat)
        BY <2>1 DEF TriedOK
      <3>6. \A b \in NewBucket : am.vvNew[b] \subseteq Nat
        BY <2>1, <2>3 DEF RefOK
      <3> QED
        BY <2>2, <3>1, <3>2, <3>3, <3>4, <3>5, <3>6 DEF TypeOK
    <2>8. /\ L = am.nTried + am.nNew
          /\ am.nTried = Cardinality(TriedIds) /\ am.nNew = Cardinality(Ids \ TriedIds)
      BY <2>1, <2>2, <2>5, <2>6 DEF CountOK
    <2>9. \A x \in Ids :
            /\ am.mapInfo[x].nRefCount = Cardinality(BucketsOf(x))
            /\ IF am.mapInfo[x].fInTried THEN am.mapInfo[x].nRefCount = 0
               ELSE am.mapInfo[x].nRefCount \in 1 .. ADDRMAN_NEW_BUCKETS_PER_ADDRESS
            /\ am.mapInfo[x].addr \in DOMAIN am.mapAddr /\ am.mapAddr[am.mapInfo[x].addr] = x
            /\ am.mapInfo[x].nRandomPos \in DOMAIN am.vRandom
            /\ am.vRandom[am.mapInfo[x].nRandomPos] = x
      <3>1. ASSUME NEW x \in D
            PROVE  /\ am.mapInfo[x].nRefCount = Cardinality(BucketsOf(x))
                   /\ IF am.mapInfo[x].fInTried THEN am.mapInfo[x].nRefCount = 0
                      ELSE am.mapInfo[x].nRefCount \in 1 .. ADDRMAN_NEW_BUCKETS_PER_ADDRESS
        <4>1. BucketsOf(x) = Holding(am.vvNew, x)
          BY DEF BucketsOf, Holding
        <4> QED
          BY <2>1, <4>1 DEF RefOK, RefAt
      <3>2. ASSUME NEW x \in D
            PROVE  am.mapInfo[x].addr \in DOMAIN am.mapAddr /\ am.mapAddr[am.mapInfo[x].addr] = x
        BY <2>1 DEF AddrOK
      <3>3. ASSUME NEW x \in D
            PROVE  /\ am.mapInfo[x].nRandomPos \in DOMAIN am.vRandom
                   /\ am.vRandom[am.mapInfo[x].nRandomPos] = x
        BY <2>1 DEF RandomOK
      <3> QED
        BY <2>2, <3>1, <3>2, <3>3
    <2>10. \A x \in TriedIds : x \in ToSet(am.vvTried[GetTriedBucket[am.mapInfo[x].addr]])
      <3>1. ASSUME NEW x \in T PROVE x \in ToSet(am.vvTried[GetTriedBucket[am.mapInfo[x].addr]])
        <4> DEFINE b == GetTriedBucket[am.mapInfo[x].addr]
        <4>1. am.mapInfo[x].addr \in Addr /\ x \in D /\ am.mapInfo[x].fInTried
          BY <2>1 DEF Shape, Info, TriedOf
        <4>2. b \in TriedBucket
          BY <4>1, AddrManAssumption
        <4>3. am.vvTried[b] \in Seq(Nat)
          BY <2>1, <4>2 DEF TriedOK
        <4>4. \E i \in 1 .. Len(am.vvTried[b]) : am.vvTried[b][i] = x
          BY <2>1, <4>1 DEF TriedOK
        <4> HIDE DEF b
        <4>5. x \in ToSet(am.vvTried[b])
          BY <4>3, <4>4 DEF ToSet
        <4> QED
          BY <4>5 DEF b
      <3> QED
        BY <2>2, <3>1
    <2>11. ASSUME NEW b \in TriedBucket
           PROVE  /\ IsInjective(am.vvTried[b])
                  /\ \A x \in ToSet(am.vvTried[b]) :
                        x \in TriedIds /\ GetTriedBucket[am.mapInfo[x].addr] = b
      <3> DEFINE s == am.vvTried[b]
      <3>1. /\ s \in Seq(Nat)
            /\ \A i \in 1 .. Len(s) : /\ s[i] \in T /\ GetTriedBucket[am.mapInfo[s[i]].addr] = b
                                      /\ \A j \in 1 .. Len(s) : s[i] = s[j] => i = j
        BY <2>1 DEF TriedOK, TriedOf
      <3> HIDE DEF s
      <3>2. IsInjective(s)
        BY <3>1 DEF IsInjective
      <3>3. \A x \in ToSet(s) : x \in T /\ GetTriedBucket[am.mapInfo[x].addr] = b
        BY <3>1 DEF ToSet
      <3> QED
        BY <2>2, <3>2, <3>3 DEF s
    <2>12. \A b \in NewBucket : am.vvNew[b] \subseteq Ids
      BY <2>1, <2>2 DEF RefOK
    <2> QED
      BY <2>7, <2>8, <2>9, <2>10, <2>11, <2>12 DEF Check
  <1> QED
    BY <1>1, Invariant, PTL

\* Add_ and GetAddr_ leave the tried table alone, Good_ evicts at most one entry, for
\* another, and the evicted one stays known; peers.dat loses none.
THEOREM TriedKeptAlways == Spec => TriedKept
  <1> DEFINE Step == LET out == TriedAddr \ TriedAddr'
                     IN  /\ out \subseteq DOMAIN am.mapAddr'
                         /\ Cardinality(out) <= 1
                         /\ out # {} => Cardinality(TriedAddr' \ TriedAddr) = 1
  <1>1. IInv /\ [Next]_am => [Step]_am
    <2> SUFFICES ASSUME IInv, Next PROVE Step
      OBVIOUS
    <2> DEFINE A == TriedAddr
               B == TriedAddr'
    <2>1. IInv' /\ TriedStep(am, am')
      BY NextInv
    <2>2. /\ A = {am.mapInfo[x].addr : x \in TriedOf(am)}
          /\ B = {am'.mapInfo[x].addr : x \in TriedOf(am')}
      BY DEF TriedAddr, TriedIds, Ids, TriedOf
    <2>3. ASSUME A \ B = {} PROVE Step
      BY <2>3, FS_EmptySet
    <2>4. CASE TriedSame(am, am')
      <3>1. A \ B = {}
        BY <2>2, <2>4 DEF TriedSame
      <3> QED
        BY <2>3, <3>1
    <2>5. CASE SameAddresses(am, am')
      <3>1. A \ B = {}
        BY <2>2, <2>5 DEF SameAddresses
      <3> QED
        BY <2>3, <3>1
    <2>6. CASE Promoted(am, am')
      <3> DEFINE T == TriedOf(am)
                 a(y) == am.mapInfo[y].addr
      <3>1. PICK x \in DOMAIN am.mapInfo \ T :
                \/ TriedOf(am') = T \cup {x}
                \/ \E old \in T : TriedOf(am') = (T \ {old}) \cup {x}
        BY <2>6 DEF Promoted
      <3>2. /\ \A y \in DOMAIN am.mapInfo : am'.mapInfo[y].addr = a(y)
            /\ am'.mapAddr = am.mapAddr /\ T \in SUBSET DOMAIN am.mapInfo
        BY <2>6 DEF Promoted, Retabled, TriedOf
      <3>3. \A y, y2 \in DOMAIN am.mapInfo : a(y) = a(y2) => y = y2
        BY DEF IInv, Consistent, AddrOK
      <3>4. \A y \in DOMAIN am.mapInfo : a(y) \in DOMAIN am.mapAddr
        BY DEF IInv, Consistent, AddrOK
      <3>5. CASE TriedOf(am') = T \cup {x}
        <4>1. \A y \in T : y \in TriedOf(am') /\ am'.mapInfo[y].addr = a(y)
          BY <3>2, <3>5
        <4>2. A \ B = {}
          BY <2>2, <4>1
        <4> QED
          BY <2>3, <4>2
      <3>6. ASSUME NEW old \in T, TriedOf(am') = (T \ {old}) \cup {x} PROVE Step
        <4> HIDE DEF T
        <4>1. B = {a(y) : y \in (T \ {old}) \cup {x}}
          BY <2>2, <3>1, <3>2, <3>6
        <4>2. A = {a(y) : y \in T}
          BY <2>2 DEF T
        <4> HIDE DEF A, B
        <4>3. A \ B = {a(old)} /\ B \ A = {a(x)}
          BY <3>1, <3>2, <3>3, <4>1, <4>2
        <4>4. Cardinality(A \ B) = 1 /\ Cardinality(B \ A) = 1
          BY <4>3, FS_Singleton
        <4>5. A \ B \subseteq DOMAIN am'.mapAddr
          BY <3>2, <3>4, <3>6, <4>3
        <4> QED
          BY <4>4, <4>5 DEF A, B
      <3> QED
        BY <3>1, <3>5, <3>6
    <2> QED
      BY <2>1, <2>4, <2>5, <2>6 DEF TriedStep
  <1> QED
    BY <1>1, Invariant, PTL DEF Spec, TriedKept

\* The limits that reading applies (ADDRMAN_NEW_BUCKETS_PER_ADDRESS buckets for an
\* entry, ADDRMAN_TRIED_BUCKET_SIZE entries in a bucket) drop nothing that was written.
THEOREM ReloadLosesNothing == Spec => ReloadKeepsTables
  <1> DEFINE Step == Reload => TriedAddr' = TriedAddr /\ NewTable' = NewTable
  <1>1. IInv /\ [Next]_am => [Step]_am
    <2> SUFFICES ASSUME IInv, Reload PROVE TriedAddr' = TriedAddr /\ NewTable' = NewTable
      OBVIOUS
    <2>1. SameAddresses(am, am')
      BY ReloadKeeps
    <2> QED
      BY <2>1 DEF SameAddresses, TriedAddr, TriedIds, Ids, TriedOf, NewTable
  <1> QED
    BY <1>1, Invariant, PTL DEF Spec, ReloadKeepsTables
=============================================================================
