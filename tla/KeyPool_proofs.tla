--------------------------- MODULE KeyPool_proofs ---------------------------
(***************************************************************************)
(* The key pool for any number of reservations, any -keypool and any       *)
(* sizes of refill: every reservable index has its record, no key is       *)
(* handed out twice, and an unencrypted wallet gives no index twice.       *)
(***************************************************************************)
EXTENDS KeyPool, FiniteSetTheorems, WellFoundedInduction, TLAPS

-----------------------------------------------------------------------------
\* A non-empty set of naturals has a least element.
LEMMA LeastNat ==
    ASSUME NEW T \in SUBSET Nat, T # {}
    PROVE  \E n \in T : \A m \in T : n <= m
  <1>1. \E x \in T : \A y \in T : <<y, x>> \notin OpToRel(<, Nat)
    BY WFMin, NatLessThanWellFounded
  <1>2. \A y, z \in Nat : y < z => <<y, z>> \in OpToRel(<, Nat)
    BY Zenon DEF OpToRel
  <1>3. \E n \in T : \A y \in T : ~(y < n)
    BY <1>1, <1>2, Zenon
  <1> QED
    BY <1>3

\* Min of the community modules finds it (*(setKeyPool.begin())) ...
LEMMA MinNat ==
    ASSUME NEW T \in SUBSET Nat, T # {}
    PROVE  Min(T) \in T /\ \A m \in T : Min(T) <= m
  BY LeastNat DEF Min

\* ... and Max the last of a bounded set (*(--setKeyPool.end())).
LEMMA MaxNat ==
    ASSUME NEW n \in Nat, NEW T \in SUBSET (1 .. n), T # {}
    PROVE  Max(T) \in T /\ \A m \in T : m <= Max(T)
  <1> DEFINE D == {k \in Nat : n - k \in T}
  <1>1. D \in SUBSET Nat /\ D # {}
    <2>1. PICK m \in T : TRUE
      OBVIOUS
    <2>2. n - m \in D
      BY <2>1
    <2> QED
      BY <2>2
  <1>2. PICK d \in D : \A k \in D : d <= k
    BY <1>1, LeastNat
  <1>3. n - d \in T /\ \A m \in T : n - d >= m
    <2>1. \A m \in T : n - m \in D
      OBVIOUS
    <2> QED
      BY <1>2, <2>1
  <1>4. \E x \in T : \A y \in T : x >= y
    BY <1>3
  <1> QED
    BY <1>4 DEF Max
-----------------------------------------------------------------------------
\* The shape of a pool [set, disk, next, hit].
PoolType(p) ==
    /\ p = [set |-> p.set, disk |-> p.disk, next |-> p.next, hit |-> p.hit]
    /\ \E n \in Nat : p.set \cup DOMAIN p.disk \subseteq 1 .. n
    /\ p.next \in Nat \ {0}
    /\ p.disk \in [DOMAIN p.disk -> 1 .. p.next - 1]
    /\ p.hit \in BOOLEAN

\* No key has two records, no key handed out for good has one, and a reserved key
\* has none but that of its own index.  This holds whatever happens ...
RecordsDistinct(p) ==
    /\ \A i, j \in DOMAIN p.disk : p.disk[i] = p.disk[j] => i = j
    /\ \A i \in DOMAIN p.disk : p.disk[i] \notin kept
    /\ \A r \in Reserver, i \in DOMAIN p.disk : p.disk[i] = reserved[r].key => i = reserved[r].nIndex

\* ... and until an index is given out twice: indexes have records, a reserved
\* one is not in the set and reserved once, and its record has the key.
IndexesOwned(p) ==
    /\ p.set \cup Outstanding \subseteq DOMAIN p.disk
    /\ p.set \cap Outstanding = {}
    /\ \A r, q \in Reserver : reserved[r].nIndex = reserved[q].nIndex /\ reserved[r].nIndex # -1 => r = q
    /\ \A r \in Reserver : reserved[r].nIndex # -1 => reserved[r].key = p.disk[reserved[r].nIndex]

\* The reservations and the keys kept, against the keys generated so far.
HandedOut(p) ==
    /\ reserved \in [Reserver -> [nIndex : (Nat \ {0}) \cup {-1},
                                  key : (0 .. p.next - 1) \cup {DefaultKey}]]
    /\ \A r \in Reserver : reserved[r].nIndex = -1 => reserved[r].key \in {0, DefaultKey}
    /\ kept \subseteq 1 .. p.next - 1

PoolInv(p) ==
    PoolType(p) /\ HandedOut(p) /\ RecordsDistinct(p) /\ (p.hit \/ IndexesOwned(p))

\* While the wallet is not encrypted the set keeps an index above every reserved one.
LaterIndexKept ==
    crypted = "no" /\ Keypool > 0 =>
        /\ ~collided
        /\ Outstanding # {} => \E m \in setKeyPool : \A i \in Outstanding : i < m

\* The wallet's own state.
WalletOK ==
    /\ crypted \in {"no", "rewriting", "yes"} /\ locked \in BOOLEAN
    /\ locked => crypted = "yes"
    /\ starts \in 0 .. MaxStart

IInv == PoolInv(Pool) /\ LaterIndexKept /\ WalletOK
-----------------------------------------------------------------------------
\* What generating keys does to a pool: the indexes new get fresh keys.
Grown(p, q, new) ==
    /\ PoolType(q)
    /\ q.set = p.set \cup new
    /\ DOMAIN q.disk = DOMAIN p.disk \cup new
    /\ q.next >= p.next
    /\ \A i \in DOMAIN p.disk \ new : q.disk[i] = p.disk[i]
    /\ \A i \in new : q.disk[i] >= p.next
    /\ \A i, j \in new : q.disk[i] = q.disk[j] => i = j
    /\ q.hit = (p.hit \/ new \cap Outstanding # {})

\* WithKeys of an interval of indexes.
LEMMA WithKeysGrown ==
    ASSUME NEW p, PoolType(p), NEW a \in Nat \ {0}, NEW k \in Nat
    PROVE  Grown(p, WithKeys(p, a .. a + k - 1), a .. a + k - 1)
  <1> DEFINE new == a .. a + k - 1
  <1>1. Cardinality(new) = k
    <2>1. CASE k = 0
      <3>1. new = {}
        BY <2>1
      <3> QED
        BY <2>1, <3>1, FS_EmptySet
    <2>2. CASE k # 0
      <3>1. a \in Int /\ a + k - 1 \in Int /\ ~(a > a + k - 1) /\ (a + k - 1) - a + 1 = k
        BY <2>2
      <3> QED
        BY <3>1, FS_Interval
    <2> QED
      BY <2>1, <2>2
  <1>2. new # {} => Min(new) = a
    <2>1. new \in SUBSET Nat /\ (new # {} => a \in new) /\ \A i \in new : i \in Nat /\ a <= i
      OBVIOUS
    <2> HIDE DEF new
    <2> SUFFICES ASSUME new # {} PROVE Min(new) = a
      OBVIOUS
    <2>2. Min(new) \in new /\ \A m \in new : Min(new) <= m
      BY <2>1, MinNat
    <2>3. a \in new /\ Min(new) \in Nat
      BY <2>1, <2>2
    <2>4. a <= Min(new) /\ Min(new) <= a
      BY <2>1, <2>2, <2>3
    <2> QED
      BY <2>3, <2>4
  <1> HIDE DEF new
  <1>3. PICK q : q = WithKeys(p, new)
    OBVIOUS
  <1>4. /\ q.set = p.set \cup new
        /\ q.disk = [i \in new \cup DOMAIN p.disk |-> IF i \in new THEN p.next + i - a ELSE p.disk[i]]
        /\ q.next = p.next + k
        /\ q.hit = (p.hit \/ new \cap Outstanding # {})
    BY <1>1, <1>2, <1>3 DEF WithKeys
  <1>5. /\ DOMAIN q.disk = DOMAIN p.disk \cup new
        /\ \A i \in DOMAIN p.disk \ new : q.disk[i] = p.disk[i]
        /\ \A i \in new : q.disk[i] = p.next + i - a
    BY <1>4
  <1>6. PoolType(q)
    <2>1. PICK n \in Nat : p.set \cup DOMAIN p.disk \subseteq 1 .. n
      BY DEF PoolType
    <2>2. \E m \in Nat : q.set \cup DOMAIN q.disk \subseteq 1 .. m
      <3>1. q.set \cup DOMAIN q.disk \subseteq 1 .. n + a + k
        BY <1>4, <1>5, <2>1 DEF new
      <3> QED
        BY <2>1, <3>1
    <2>3. q.next \in Nat \ {0}
      BY <1>4 DEF PoolType
    <2>4. \A i \in DOMAIN q.disk : q.disk[i] \in 1 .. q.next - 1
      <3>1. \A i \in new : p.next + i - a \in 1 .. q.next - 1
        BY <1>4 DEF PoolType, new
      <3>2. \A i \in DOMAIN p.disk : p.disk[i] \in 1 .. q.next - 1
        BY <1>4 DEF PoolType
      <3> QED
        BY <1>5, <3>1, <3>2
    <2>5. q.disk \in [DOMAIN q.disk -> 1 .. q.next - 1]
      BY <1>4, <2>4
    <2>6. q.hit \in BOOLEAN
      BY <1>4 DEF PoolType
    <2>7. q = [set |-> q.set, disk |-> q.disk, next |-> q.next, hit |-> q.hit]
      BY <1>3 DEF WithKeys
    <2> QED
      BY <2>2, <2>3, <2>5, <2>6, <2>7 DEF PoolType
  <1>7. /\ q.next >= p.next
        /\ \A i \in new : q.disk[i] >= p.next
        /\ \A i, j \in new : q.disk[i] = q.disk[j] => i = j
    BY <1>4, <1>5 DEF PoolType, new
  <1>8. Grown(p, q, new)
    BY <1>4, <1>5, <1>6, <1>7 DEF Grown
  <1> QED
    BY <1>3, <1>8 DEF new

\* Fresh keys keep the invariant of the pool: an index given out twice is noted.
LEMMA GrownKeeps ==
    ASSUME NEW p, NEW q, NEW new, PoolInv(p), Grown(p, q, new)
    PROVE  PoolInv(q)
  <1>1. PoolType(q)
    BY DEF Grown
  <1>2. HandedOut(q)
    BY <1>1 DEF PoolInv, Grown, HandedOut, PoolType
  <1>3. RecordsDistinct(q)
    <2>1. \A i \in DOMAIN p.disk : p.disk[i] \in 1 .. p.next - 1
      BY DEF PoolInv, PoolType
    <2>2. \A i \in DOMAIN q.disk : q.disk[i] \in Nat
      BY <1>1 DEF PoolType
    <2>3. p.next \in Nat
      BY DEF PoolInv, PoolType
    <2>4. \A i, j \in DOMAIN q.disk : q.disk[i] = q.disk[j] => i = j
      BY <2>1, <2>2, <2>3 DEF PoolInv, RecordsDistinct, Grown
    <2>5. \A i \in DOMAIN q.disk : q.disk[i] \notin kept
      BY <2>2, <2>3 DEF PoolInv, HandedOut, RecordsDistinct, Grown
    <2>6. ASSUME NEW r \in Reserver, NEW i \in DOMAIN q.disk, q.disk[i] = reserved[r].key
          PROVE  i = reserved[r].nIndex
      <3>1. reserved[r].key \in (0 .. p.next - 1) \cup {DefaultKey}
        BY DEF PoolInv, HandedOut
      <3>2. reserved[r].key < p.next
        BY <2>2, <2>3, <2>6, <3>1, KeyPoolAssumption
      <3>3. i \in DOMAIN p.disk \ new
        BY <2>2, <2>3, <2>6, <3>2 DEF Grown
      <3> QED
        BY <2>6, <3>3 DEF PoolInv, RecordsDistinct, Grown
    <2> QED
      BY <2>4, <2>5, <2>6 DEF RecordsDistinct
  <1>4. q.hit \/ IndexesOwned(q)
    <2> SUFFICES ASSUME ~q.hit PROVE IndexesOwned(q)
      OBVIOUS
    <2>1. ~p.hit /\ new \cap Outstanding = {}
      BY DEF Grown
    <2>2. IndexesOwned(p)
      BY <2>1 DEF PoolInv
    <2>3. \A r \in Reserver : reserved[r].nIndex # -1 => reserved[r].nIndex \in Outstanding
      BY DEF Outstanding
    <2> QED
      BY <2>1, <2>2, <2>3 DEF IndexesOwned, Grown
  <1> QED
    BY <1>1, <1>2, <1>3, <1>4 DEF PoolInv

\* No reserved index is past the last of the set: the next index is not reserved.
Ahead(S) == Outstanding # {} => \E m \in S : \A i \in Outstanding : i < m

\* TopUpKeyPool keeps the pool's invariant and its indexes, gives a reserved index
\* out again only if no index of the set is above it, and with n > 0 leaves more
\* than one index.
LEMMA TopUpKeeps ==
    ASSUME NEW p, PoolInv(p), NEW n \in Nat
    PROVE  /\ PoolInv(TopUp(p, n))
           /\ p.set \subseteq TopUp(p, n).set
           /\ Ahead(p.set) => TopUp(p, n).hit = p.hit
           /\ n > 0 => \E i, j \in TopUp(p, n).set : i # j
  <1> DEFINE missing == n + 1 - Cardinality(p.set)
             nEnd == IF p.set = {} THEN 1 ELSE Max(p.set) + 1
             new == nEnd .. nEnd + missing - 1
  <1>1. PICK top \in Nat : p.set \subseteq 1 .. top
    BY DEF PoolInv, PoolType
  <1>2. IsFiniteSet(p.set) /\ Cardinality(p.set) \in Nat
    <2>1. IsFiniteSet(1 .. top)
      BY FS_Interval
    <2> QED
      BY <1>1, <2>1, FS_Subset, FS_CardinalityType
  <1>3. p.set # {} => Max(p.set) \in p.set /\ \A m \in p.set : m <= Max(p.set)
    BY <1>1, MaxNat
  <1>4. nEnd \in Nat \ {0} /\ \A m \in p.set : m < nEnd
    BY <1>1, <1>3
  <1>5. CASE missing <= 0
    <2>1. TopUp(p, n) = p
      BY <1>5 DEF TopUp
    <2>2. ASSUME n > 0 PROVE \E i, j \in p.set : i # j
      <3>1. Cardinality(p.set) >= 2
        BY <1>2, <1>5, <2>2
      <3>2. PICK i \in p.set : TRUE
        BY <3>1, FS_EmptySet
      <3>3. Cardinality({i}) = 1
        BY FS_Singleton
      <3>4. p.set # {i}
        BY <3>1, <3>3
      <3> QED
        BY <3>2, <3>4
    <2> QED
      BY <2>1, <2>2
  <1>6. CASE ~(missing <= 0)
    <2>1. missing \in Nat \ {0}
      BY <1>2, <1>6
    <2>2. TopUp(p, n) = WithKeys(p, new)
      BY <1>6 DEF TopUp
    <2> HIDE DEF nEnd, missing
    <2>3. Grown(p, TopUp(p, n), new)
      BY <1>4, <2>1, <2>2, WithKeysGrown DEF PoolInv
    <2>4. PoolInv(TopUp(p, n))
      BY <2>3, GrownKeeps
    <2>5. TopUp(p, n).set = p.set \cup new /\ TopUp(p, n).hit = (p.hit \/ new \cap Outstanding # {})
      BY <2>3 DEF Grown
    <2>6. ASSUME Ahead(p.set) PROVE TopUp(p, n).hit = p.hit
      <3>1. \A i \in Outstanding : i \in Int
        BY DEF PoolInv, HandedOut, Outstanding
      <3>2. new \cap Outstanding = {}
        BY <1>1, <1>4, <2>1, <2>6, <3>1 DEF Ahead
      <3>3. p.hit \in BOOLEAN
        BY DEF PoolInv, PoolType
      <3> QED
        BY <2>5, <3>2, <3>3
    <2>7. ASSUME n > 0 PROVE \E i, j \in p.set \cup new : i # j
      <3>1. nEnd \in new
        BY <1>4, <2>1
      <3>2. CASE p.set # {}
        <4>1. PICK m \in p.set : m # nEnd
          BY <1>1, <1>4, <3>2
        <4> QED
          BY <3>1, <4>1
      <3>3. CASE p.set = {}
        <4>1. missing = n + 1
          BY <3>3, FS_EmptySet DEF missing
        <4>2. nEnd + 1 \in new /\ nEnd # nEnd + 1
          BY <1>4, <2>7, <4>1
        <4> QED
          BY <3>1, <4>2
      <3> QED
        BY <3>2, <3>3
    <2> QED
      BY <2>4, <2>5, <2>6, <2>7
  <1> QED
    BY <1>5, <1>6
-----------------------------------------------------------------------------
\* Pool is what the variables say.
LEMMA PoolFields ==
    /\ Pool = [set |-> setKeyPool, disk |-> disk, next |-> nextKey, hit |-> collided]
    /\ Pool.set = setKeyPool /\ Pool.disk = disk /\ Pool.next = nextKey /\ Pool.hit = collided
  BY DEF Pool

\* The pool that ReserveKeyFromKeyPool takes from: the invariant holds, an
\* unencrypted wallet gives no reserved index out again and keeps an index above
\* every reserved one when the oldest is taken.
LEMMA RefilledKeeps ==
    ASSUME IInv
    PROVE  /\ PoolInv(Refilled)
           /\ crypted = "no" /\ Keypool > 0 =>
                /\ ~Refilled.hit
                /\ \E m \in Refilled.set : (\A i \in Outstanding : i < m) /\ m # Min(Refilled.set)
  <1> DEFINE R == Refilled
  <1>1. PoolInv(Pool) /\ WalletOK /\ LaterIndexKept
    BY DEF IInv
  <1>2. PoolInv(R)
    BY <1>1, TopUpKeeps, KeyPoolAssumption DEF Refilled
  <1>3. ASSUME crypted = "no", Keypool > 0
        PROVE  /\ ~R.hit
               /\ \E m \in R.set : (\A i \in Outstanding : i < m) /\ m # Min(R.set)
    <2>1. R = TopUp(Pool, Keypool)
      BY <1>1, <1>3 DEF Refilled, WalletOK
    <2>2. Ahead(setKeyPool) /\ ~collided
      BY <1>1, <1>3 DEF LaterIndexKept, Ahead
    <2> HIDE DEF R
    <2>3. ~R.hit /\ setKeyPool \subseteq R.set /\ \E i, j \in R.set : i # j
      BY <1>1, <1>3, <2>1, <2>2, TopUpKeeps, PoolFields, KeyPoolAssumption
    <2>4. R.set \in SUBSET Nat
      BY <1>2 DEF PoolInv, PoolType
    <2>5. \E i \in R.set : \A j \in Outstanding : j < i
      <3>1. CASE Outstanding # {}
        BY <2>2, <2>3, <3>1 DEF Ahead
      <3>2. CASE Outstanding = {}
        <4>1. R.set # {}
          BY <2>3
        <4> QED
          BY <3>2, <4>1
      <3> QED
        BY <3>1, <3>2
    <2>6. PICK i \in R.set : \A j \in Outstanding : j < i
      BY <2>5
    <2>7. PICK j \in R.set : j # i
      BY <2>3
    <2>8. Min(R.set) \in R.set /\ Min(R.set) <= i /\ Min(R.set) <= j
      BY <2>4, MinNat
    <2>9. CASE i = Min(R.set)
      <3>1. i \in Nat /\ j \in Nat /\ i < j
        BY <2>4, <2>7, <2>8, <2>9
      <3>2. \A k \in Outstanding : k \in Int
        BY <1>1 DEF PoolInv, HandedOut, Outstanding
      <3>3. \A k \in Outstanding : k < j
        BY <2>6, <3>1, <3>2
      <3> QED
        BY <2>3, <2>7, <2>9, <3>3
    <2>10. CASE i # Min(R.set)
      BY <2>3, <2>6, <2>10
    <2> QED
      BY <2>9, <2>10
  <1> QED
    BY <1>2, <1>3

\* An empty pool, no reservation.
LEMMA InitInv == Init => IInv
  <1> SUFFICES ASSUME Init PROVE IInv
    OBVIOUS
  <1> USE KeyPoolAssumption DEF Init
  <1>1. Outstanding = {}
    BY DEF Outstanding, NoKey
  <1>2. PoolType(Pool)
    <2>1. setKeyPool \cup DOMAIN disk \subseteq 1 .. 0
      OBVIOUS
    <2>2. \E n \in Nat : Pool.set \cup DOMAIN Pool.disk \subseteq 1 .. n
      BY <2>1, PoolFields
    <2>3. Pool.disk \in [DOMAIN Pool.disk -> 1 .. Pool.next - 1]
      <3>1. disk = [i \in {} |-> 0] /\ DOMAIN disk = {}
        OBVIOUS
      <3>2. disk \in [{} -> 1 .. 0]
        BY <3>1
      <3> QED
        BY <3>1, <3>2, PoolFields
    <2>4. Pool.next \in Nat \ {0}
      BY PoolFields
    <2>5. Pool.hit \in BOOLEAN
      BY PoolFields, Zenon
    <2>6. Pool = [set |-> Pool.set, disk |-> Pool.disk, next |-> Pool.next, hit |-> Pool.hit]
      BY PoolFields, Zenon
    <2> QED
      BY <2>2, <2>3, <2>4, <2>5, <2>6 DEF PoolType
  <1>3. HandedOut(Pool) /\ RecordsDistinct(Pool) /\ IndexesOwned(Pool)
    BY <1>1 DEF HandedOut, RecordsDistinct, IndexesOwned, Pool, NoKey
  <1>4. LaterIndexKept
    <2>1. ~collided
      BY Zenon
    <2> QED
      BY <1>1, <2>1 DEF LaterIndexKept
  <1>5. WalletOK
    <2>1. locked \in BOOLEAN /\ ~locked
      BY Zenon
    <2> QED
      BY <2>1 DEF WalletOK
  <1> QED
    BY <1>2, <1>3, <1>4, <1>5 DEF IInv, PoolInv

\* Taking the oldest index out of a pool leaves the rest.
LEMMA OldestTaken ==
    ASSUME NEW p, PoolType(p), p.set # {}
    PROVE  /\ Min(p.set) \in p.set
           /\ Min(p.set) \in Nat \ {0}
           /\ WithoutOldest(p) = [set |-> p.set \ {Min(p.set)}, disk |-> p.disk,
                                  next |-> p.next, hit |-> p.hit]
  <1>1. p.set \in SUBSET (Nat \ {0})
    BY DEF PoolType
  <1>2. Min(p.set) \in p.set
    BY <1>1, MinNat
  <1>3. p = [set |-> p.set, disk |-> p.disk, next |-> p.next, hit |-> p.hit]
    BY DEF PoolType
  <1> QED
    BY <1>1, <1>2, <1>3 DEF WithoutOldest

\* CReserveKey::GetReservedKey moves the oldest index to the reservation.
LEMMA GetReservedKeyKeeps ==
    ASSUME IInv, NEW r \in Reserver, GetReservedKey(r)
    PROVE  IInv'
  <1> DEFINE R == Refilled
             i == Min(R.set)
  <1> USE KeyPoolAssumption
  <1>1. /\ PoolInv(R)
        /\ crypted = "no" /\ Keypool > 0 =>
             ~R.hit /\ \E m \in R.set : (\A j \in Outstanding : j < m) /\ m # i
    BY RefilledKeeps
  <1>2. WalletOK'
    BY DEF GetReservedKey, IInv, WalletOK
  <1>3. CASE R.set # {} /\ SetPool(WithoutOldest(R))
             /\ reserved' = [reserved EXCEPT ![r] = [nIndex |-> i, key |-> ReadPool(R, i)]]
    <2> HIDE DEF R, i
    <2>1. PoolType(R) /\ HandedOut(R) /\ RecordsDistinct(R) /\ (R.hit \/ IndexesOwned(R))
      BY <1>1 DEF PoolInv
    <2>2. /\ i \in R.set /\ i \in Nat \ {0}
          /\ WithoutOldest(R) = [set |-> R.set \ {i}, disk |-> R.disk, next |-> R.next, hit |-> R.hit]
      BY <1>3, <2>1, OldestTaken DEF i
    <2>3. /\ setKeyPool' = R.set \ {i} /\ disk' = R.disk /\ nextKey' = R.next /\ collided' = R.hit
          /\ kept' = kept /\ crypted' = crypted
          /\ reserved[r].nIndex = -1
      BY <1>3, <2>2 DEF SetPool, GetReservedKey
    <2>4. Pool' = [set |-> R.set \ {i}, disk |-> R.disk, next |-> R.next, hit |-> R.hit]
      BY <2>3 DEF Pool
    <2>5. PICK k : k = ReadPool(R, i)
      OBVIOUS
    <2>6. k \in 0 .. R.next - 1 /\ (i \in DOMAIN R.disk => k = R.disk[i]) /\ (i \notin DOMAIN R.disk => k = 0)
      BY <2>1, <2>5 DEF ReadPool, PoolType
    <2>7. /\ reserved \in [Reserver -> [nIndex : (Nat \ {0}) \cup {-1}, key : (0 .. R.next - 1) \cup {DefaultKey}]]
          /\ reserved' \in [Reserver -> [nIndex : (Nat \ {0}) \cup {-1}, key : (0 .. R.next - 1) \cup {DefaultKey}]]
          /\ reserved'[r].nIndex = i /\ reserved'[r].key = k
          /\ \A q \in Reserver : q # r => reserved'[q] = reserved[q]
      <3>1. reserved \in [Reserver -> [nIndex : (Nat \ {0}) \cup {-1}, key : (0 .. R.next - 1) \cup {DefaultKey}]]
        BY <2>1 DEF HandedOut
      <3>2. reserved' = [reserved EXCEPT ![r] = [nIndex |-> i, key |-> k]]
        BY <1>3, <2>5
      <3>3. [nIndex |-> i, key |-> k] \in [nIndex : (Nat \ {0}) \cup {-1}, key : (0 .. R.next - 1) \cup {DefaultKey}]
        BY <2>2, <2>6
      <3> QED
        BY <3>1, <3>2, <3>3
    <2>8. Outstanding' \subseteq Outstanding \cup {i} /\ i \in Outstanding'
      BY <2>2, <2>7 DEF Outstanding
    <2>9. PoolType(Pool')
      BY <2>1, <2>4 DEF PoolType
    <2>10. HandedOut(Pool)'
      <3>1. Pool'.next = R.next
        BY <2>4
      <3>2. \A q \in Reserver : reserved'[q].nIndex = -1 => reserved'[q].key \in {0, DefaultKey}
        <4>1. reserved'[r].nIndex # -1
          BY <2>2, <2>7
        <4> QED
          BY <2>1, <2>7, <4>1 DEF HandedOut
      <3>3. kept' \subseteq 1 .. R.next - 1
        BY <2>1, <2>3 DEF HandedOut
      <3> QED
        BY <2>7, <3>1, <3>2, <3>3 DEF HandedOut
    <2>11. RecordsDistinct(Pool)'
      <3>1. \A j \in DOMAIN R.disk : R.disk[j] \in Nat \ {0}
        BY <2>1 DEF PoolType
      <3> QED
        BY <2>1, <2>3, <2>4, <2>6, <2>7, <3>1 DEF RecordsDistinct
    <2>12. ASSUME ~R.hit PROVE IndexesOwned(Pool)'
      <3>1. IndexesOwned(R)
        BY <2>1, <2>12
      <3>2. i \notin Outstanding /\ i \in DOMAIN R.disk
        BY <2>2, <3>1 DEF IndexesOwned
      <3>3. \A q \in Reserver : reserved[q].nIndex # -1 => reserved[q].nIndex \in Outstanding
        BY DEF Outstanding
      <3>4. Pool'.set = R.set \ {i} /\ Pool'.disk = R.disk
        BY <2>4
      <3>5. \A q \in Reserver \ {r} : reserved'[q].nIndex = reserved[q].nIndex /\ reserved'[q].key = reserved[q].key
        BY <2>7
      <3>6. Pool'.set \cup Outstanding' \subseteq DOMAIN Pool'.disk /\ Pool'.set \cap Outstanding' = {}
        BY <2>8, <3>1, <3>2, <3>4 DEF IndexesOwned
      <3>7. \A q \in Reserver \ {r} : reserved'[q].nIndex # i
        BY <2>2, <3>2, <3>3, <3>5
      <3>8. \A q, s \in Reserver : reserved'[q].nIndex = reserved'[s].nIndex /\ reserved'[q].nIndex # -1 => q = s
        BY <2>7, <3>1, <3>5, <3>7 DEF IndexesOwned
      <3>9. \A q \in Reserver : reserved'[q].nIndex # -1 => reserved'[q].key = Pool'.disk[reserved'[q].nIndex]
        BY <2>6, <2>7, <3>1, <3>2, <3>4, <3>5 DEF IndexesOwned
      <3> QED
        BY <3>6, <3>8, <3>9 DEF IndexesOwned
    <2>13. LaterIndexKept'
      <3> SUFFICES ASSUME crypted = "no", Keypool > 0
                   PROVE  ~collided' /\ \E m \in setKeyPool' : \A j \in Outstanding' : j < m
        BY <2>3 DEF LaterIndexKept
      <3>1. PICK m \in R.set : (\A j \in Outstanding : j < m) /\ m # i
        BY <1>1
      <3>2. R.set \in SUBSET Nat
        BY <2>1 DEF PoolType
      <3>3. i <= m /\ m \in Nat
        BY <3>1, <3>2, MinNat DEF i
      <3>4. i < m
        BY <2>2, <3>1, <3>3
      <3> QED
        BY <1>1, <2>3, <2>8, <3>1, <3>4
    <2> QED
      BY <1>2, <2>4, <2>9, <2>10, <2>11, <2>12, <2>13 DEF IInv, PoolInv
  <1>4. CASE /\ reserved' = [reserved EXCEPT ![r].key = DefaultKey]
             /\ UNCHANGED <<setKeyPool, disk, nextKey, collided>>
    <2>1. PoolInv(Pool) /\ LaterIndexKept
      BY DEF IInv
    <2>2. Pool' = Pool /\ kept' = kept /\ crypted' = crypted /\ reserved[r].nIndex = -1
      BY <1>4 DEF Pool, GetReservedKey
    <2>3. reserved \in [Reserver -> [nIndex : (Nat \ {0}) \cup {-1}, key : (0 .. Pool.next - 1) \cup {DefaultKey}]]
      BY <2>1 DEF PoolInv, HandedOut
    <2>4. /\ reserved' \in [Reserver -> [nIndex : (Nat \ {0}) \cup {-1}, key : (0 .. Pool.next - 1) \cup {DefaultKey}]]
          /\ reserved'[r].nIndex = -1 /\ reserved'[r].key = DefaultKey
          /\ \A q \in Reserver : q # r => reserved'[q] = reserved[q]
      BY <1>4, <2>2, <2>3
    <2>5. Outstanding' = Outstanding
      BY <2>2, <2>4 DEF Outstanding
    <2>6. HandedOut(Pool)'
      BY <2>1, <2>2, <2>4 DEF PoolInv, HandedOut
    <2>7. RecordsDistinct(Pool)'
      BY <2>1, <2>2, <2>4 DEF PoolInv, RecordsDistinct, PoolType
    <2>8. IndexesOwned(Pool) => IndexesOwned(Pool)'
      BY <2>2, <2>4, <2>5 DEF IndexesOwned
    <2>9. LaterIndexKept'
      BY <1>4, <2>1, <2>2, <2>5 DEF LaterIndexKept
    <2> QED
      BY <1>2, <2>1, <2>2, <2>6, <2>7, <2>8, <2>9 DEF IInv, PoolInv
  <1> QED
    BY <1>3, <1>4 DEF GetReservedKey

\* What dropping a reservation does to the others.
LEMMA ReservationDropped ==
    ASSUME IInv, NEW r \in Reserver, reserved' = [reserved EXCEPT ![r] = NoKey]
    PROVE  /\ reserved' \in [Reserver -> [nIndex : (Nat \ {0}) \cup {-1},
                                          key : (0 .. nextKey - 1) \cup {DefaultKey}]]
           /\ reserved'[r].nIndex = -1 /\ reserved'[r].key = 0
           /\ \A q \in Reserver \ {r} : reserved'[q] = reserved[q]
           /\ Outstanding' \subseteq Outstanding
           /\ ~collided => reserved[r].nIndex \notin Outstanding'
           /\ Outstanding \subseteq Nat \ {0}
  <1>1. HandedOut(Pool) /\ (collided \/ IndexesOwned(Pool)) /\ nextKey \in Nat \ {0}
    BY PoolFields DEF IInv, PoolInv, PoolType
  <1>2. /\ reserved \in [Reserver -> [nIndex : (Nat \ {0}) \cup {-1}, key : (0 .. nextKey - 1) \cup {DefaultKey}]]
        /\ NoKey \in [nIndex : (Nat \ {0}) \cup {-1}, key : (0 .. nextKey - 1) \cup {DefaultKey}]
        /\ NoKey.nIndex = -1 /\ NoKey.key = 0
    BY <1>1, PoolFields DEF HandedOut, NoKey
  <1>3. /\ reserved' \in [Reserver -> [nIndex : (Nat \ {0}) \cup {-1}, key : (0 .. nextKey - 1) \cup {DefaultKey}]]
        /\ reserved'[r].nIndex = -1 /\ reserved'[r].key = 0
        /\ \A q \in Reserver \ {r} : reserved'[q] = reserved[q]
    BY <1>2
  <1>4. Outstanding' \subseteq Outstanding /\ Outstanding \subseteq Nat \ {0}
    BY <1>2, <1>3 DEF Outstanding
  <1>5. ASSUME ~collided PROVE reserved[r].nIndex \notin Outstanding'
    BY <1>1, <1>3, <1>5 DEF IndexesOwned, Outstanding
  <1> QED
    BY <1>3, <1>4, <1>5

\* While the wallet is unencrypted, a smaller set of reservations and a larger set of
\* indexes keep LaterIndexKept.
LEMMA LaterIndexStays ==
    ASSUME LaterIndexKept, crypted' = crypted, collided' = collided,
           setKeyPool \subseteq setKeyPool', Outstanding' \subseteq Outstanding
    PROVE  LaterIndexKept'
  BY DEF LaterIndexKept

\* CReserveKey::KeepKey erases the record of the key it keeps.
LEMMA KeepKeyKeeps ==
    ASSUME IInv, NEW r \in Reserver, KeepKey(r)
    PROVE  IInv'
  <1> USE KeyPoolAssumption
  <1>1. /\ PoolInv(Pool) /\ LaterIndexKept /\ WalletOK
        /\ PoolType(Pool) /\ HandedOut(Pool) /\ RecordsDistinct(Pool) /\ (collided \/ IndexesOwned(Pool))
    BY PoolFields DEF IInv, PoolInv
  <1> DEFINE i == reserved[r].nIndex
             k == reserved[r].key
  <1>2. /\ disk' = [j \in DOMAIN disk \ {i} |-> disk[j]]
        /\ kept' = kept \cup ({k} \ {DefaultKey}) /\ k # 0
        /\ setKeyPool' = setKeyPool /\ nextKey' = nextKey /\ collided' = collided
        /\ crypted' = crypted /\ locked' = locked /\ starts' = starts
        /\ reserved' = [reserved EXCEPT ![r] = NoKey]
    BY DEF KeepKey, ErasePool
  <1>3. /\ reserved' \in [Reserver -> [nIndex : (Nat \ {0}) \cup {-1}, key : (0 .. nextKey - 1) \cup {DefaultKey}]]
        /\ reserved'[r].nIndex = -1 /\ reserved'[r].key = 0
        /\ \A q \in Reserver \ {r} : reserved'[q] = reserved[q]
        /\ Outstanding' \subseteq Outstanding /\ (~collided => i \notin Outstanding')
    BY <1>2, ReservationDropped
  <1>4. k \in (1 .. nextKey - 1) \cup {DefaultKey}
    BY <1>1, <1>2, PoolFields DEF HandedOut
  <1>5. /\ Pool'.set = setKeyPool /\ Pool'.next = nextKey /\ Pool'.hit = collided
        /\ DOMAIN Pool'.disk = DOMAIN disk \ {i}
        /\ \A j \in DOMAIN disk \ {i} : Pool'.disk[j] = disk[j]
        /\ Pool' = [set |-> Pool'.set, disk |-> Pool'.disk, next |-> Pool'.next, hit |-> Pool'.hit]
    BY <1>2 DEF Pool
  <1>6. PoolType(Pool)'
    <2>1. PICK n \in Nat : setKeyPool \cup DOMAIN disk \subseteq 1 .. n
      BY <1>1, PoolFields DEF PoolType
    <2>2. \E m \in Nat : Pool'.set \cup DOMAIN Pool'.disk \subseteq 1 .. m
      BY <1>5, <2>1
    <2>3. Pool'.disk \in [DOMAIN Pool'.disk -> 1 .. Pool'.next - 1]
      BY <1>1, <1>2, <1>5, PoolFields DEF PoolType, Pool
    <2> QED
      BY <1>1, <1>5, <2>2, <2>3, PoolFields DEF PoolType
  <1> HIDE DEF i, k
  <1>7. HandedOut(Pool)'
    <2>1. kept' \subseteq 1 .. nextKey - 1
      BY <1>1, <1>2, <1>4, PoolFields DEF HandedOut
    <2>2. \A q \in Reserver : reserved'[q].nIndex = -1 => reserved'[q].key \in {0, DefaultKey}
      BY <1>1, <1>3 DEF HandedOut
    <2> QED
      BY <1>3, <1>5, <2>1, <2>2 DEF HandedOut
  <1>8. RecordsDistinct(Pool)'
    <2>1. \A j \in DOMAIN disk : disk[j] \in Nat \ {0}
      BY <1>1, PoolFields DEF PoolType
    <2>2. \A j \in DOMAIN disk : disk[j] = k => j = i
      BY <1>1, PoolFields DEF RecordsDistinct, i, k
    <2>3. \A j \in DOMAIN disk \ {i} : disk[j] \notin kept'
      BY <1>1, <1>2, <2>2, PoolFields DEF RecordsDistinct
    <2>4. \A q \in Reserver, j \in DOMAIN disk \ {i} : disk[j] = reserved'[q].key => j = reserved'[q].nIndex
      BY <1>1, <1>3, <2>1, PoolFields DEF RecordsDistinct
    <2> QED
      BY <1>1, <1>5, <2>3, <2>4, PoolFields DEF RecordsDistinct
  <1>9. ASSUME ~collided PROVE IndexesOwned(Pool)'
    <2>1. IndexesOwned(Pool)
      BY <1>1, <1>9
    <2>2. i # -1 => i \in Outstanding
      BY DEF Outstanding, i
    <2>3. \A j \in DOMAIN disk : j # -1
      BY <1>1, PoolFields DEF PoolType
    <2>4. setKeyPool \cup Outstanding' \subseteq DOMAIN disk \ {i} /\ setKeyPool \cap Outstanding' = {}
      BY <1>3, <1>9, <2>1, <2>2, <2>3, PoolFields DEF IndexesOwned
    <2>5. \A q \in Reserver : reserved'[q].nIndex # -1 => reserved'[q].nIndex \in Outstanding'
      BY DEF Outstanding
    <2>6. \A q \in Reserver : reserved'[q].nIndex # -1 => reserved'[q].key = Pool'.disk[reserved'[q].nIndex]
      BY <1>3, <1>5, <2>1, <2>4, <2>5, PoolFields DEF IndexesOwned
    <2>7. \A q, s \in Reserver : reserved'[q].nIndex = reserved'[s].nIndex /\ reserved'[q].nIndex # -1 => q = s
      BY <1>3, <2>1 DEF IndexesOwned
    <2> QED
      BY <1>5, <2>4, <2>6, <2>7 DEF IndexesOwned
  <1>10. LaterIndexKept'
    BY <1>1, <1>2, <1>3, LaterIndexStays
  <1>11. WalletOK'
    BY <1>1, <1>2 DEF WalletOK
  <1> QED
    BY <1>5, <1>6, <1>7, <1>8, <1>9, <1>10, <1>11 DEF IInv, PoolInv

\* CReserveKey::ReturnKey puts the index back under the same record.
LEMMA ReturnKeyKeeps ==
    ASSUME IInv, NEW r \in Reserver, ReturnKey(r)
    PROVE  IInv'
  <1> USE KeyPoolAssumption
  <1>1. /\ PoolInv(Pool) /\ LaterIndexKept /\ WalletOK
        /\ PoolType(Pool) /\ HandedOut(Pool) /\ RecordsDistinct(Pool) /\ (collided \/ IndexesOwned(Pool))
    BY PoolFields DEF IInv, PoolInv
  <1> DEFINE i == reserved[r].nIndex
  <1>2. /\ setKeyPool' = setKeyPool \cup ({i} \ {-1})
        /\ disk' = disk /\ kept' = kept /\ nextKey' = nextKey /\ collided' = collided
        /\ crypted' = crypted /\ locked' = locked /\ starts' = starts
        /\ reserved' = [reserved EXCEPT ![r] = NoKey]
    BY DEF ReturnKey
  <1>3. /\ reserved' \in [Reserver -> [nIndex : (Nat \ {0}) \cup {-1}, key : (0 .. nextKey - 1) \cup {DefaultKey}]]
        /\ reserved'[r].nIndex = -1 /\ reserved'[r].key = 0
        /\ \A q \in Reserver \ {r} : reserved'[q] = reserved[q]
        /\ Outstanding' \subseteq Outstanding /\ (~collided => i \notin Outstanding')
        /\ i \in (Nat \ {0}) \cup {-1}
    BY <1>1, <1>2, ReservationDropped DEF HandedOut
  <1> HIDE DEF i
  <1>4. /\ Pool'.set = setKeyPool \cup ({i} \ {-1}) /\ Pool'.next = nextKey /\ Pool'.hit = collided
        /\ Pool'.disk = disk
        /\ Pool' = [set |-> Pool'.set, disk |-> Pool'.disk, next |-> Pool'.next, hit |-> Pool'.hit]
    BY <1>2 DEF Pool
  <1>5. PoolType(Pool)'
    <2>1. PICK n \in Nat : setKeyPool \cup DOMAIN disk \subseteq 1 .. n
      BY <1>1, PoolFields DEF PoolType
    <2>2. \E m \in Nat : Pool'.set \cup DOMAIN Pool'.disk \subseteq 1 .. m
      <3>1. CASE i = -1
        BY <1>4, <2>1, <3>1
      <3>2. CASE i # -1
        <4>1. i \in Nat \ {0}
          BY <1>3, <3>2
        <4>2. n + i \in Nat /\ Pool'.set \cup DOMAIN Pool'.disk \subseteq 1 .. n + i
          BY <1>4, <2>1, <4>1
        <4> QED
          BY <4>2
      <3> QED
        BY <3>1, <3>2
    <2> QED
      BY <1>1, <1>4, <2>2, PoolFields DEF PoolType
  <1>6. HandedOut(Pool)'
    BY <1>1, <1>2, <1>3, <1>4, PoolFields DEF HandedOut
  <1>7. RecordsDistinct(Pool)'
    <2>1. \A j \in DOMAIN disk : disk[j] # 0
      BY <1>1, PoolFields DEF PoolType
    <2> QED
      BY <1>1, <1>2, <1>3, <1>4, <2>1, PoolFields DEF RecordsDistinct
  <1>8. ASSUME ~collided PROVE IndexesOwned(Pool)'
    <2>1. IndexesOwned(Pool)
      BY <1>1, <1>8
    <2>2. i # -1 => i \in Outstanding
      BY DEF Outstanding, i
    <2>3. Pool'.set \cup Outstanding' \subseteq DOMAIN disk /\ Pool'.set \cap Outstanding' = {}
      BY <1>3, <1>4, <1>8, <2>1, <2>2, PoolFields DEF IndexesOwned
    <2>4. \A q \in Reserver : reserved'[q].nIndex # -1 => reserved'[q].key = disk[reserved'[q].nIndex]
      BY <1>3, <2>1, PoolFields DEF IndexesOwned
    <2>5. \A q, s \in Reserver : reserved'[q].nIndex = reserved'[s].nIndex /\ reserved'[q].nIndex # -1 => q = s
      BY <1>3, <2>1 DEF IndexesOwned
    <2> QED
      BY <1>4, <2>3, <2>4, <2>5 DEF IndexesOwned
  <1>9. LaterIndexKept'
    BY <1>1, <1>2, <1>3, LaterIndexStays
  <1>10. WalletOK'
    BY <1>1, <1>2 DEF WalletOK
  <1> QED
    BY <1>4, <1>5, <1>6, <1>7, <1>8, <1>9, <1>10 DEF IInv, PoolInv

\* GetKeyFromPool takes the oldest index and erases its record.
LEMMA GetKeyFromPoolKeeps ==
    ASSUME IInv, GetKeyFromPool
    PROVE  IInv'
  <1> USE KeyPoolAssumption
  <1> DEFINE R == Refilled
             i == Min(R.set)
             k == ReadPool(R, i)
  <1>1. /\ PoolInv(R)
        /\ crypted = "no" /\ Keypool > 0 =>
             ~R.hit /\ \E m \in R.set : (\A j \in Outstanding : j < m) /\ m # i
    BY RefilledKeeps
  <1>2. PoolType(R) /\ HandedOut(R) /\ RecordsDistinct(R) /\ (R.hit \/ IndexesOwned(R))
    BY <1>1 DEF PoolInv
  <1>3. R.set # {}
    BY DEF GetKeyFromPool
  <1>4. /\ i \in R.set /\ i \in Nat \ {0}
        /\ WithoutOldest(R) = [set |-> R.set \ {i}, disk |-> R.disk, next |-> R.next, hit |-> R.hit]
    BY <1>2, <1>3, OldestTaken
  <1>5. /\ SetPool([WithoutOldest(R) EXCEPT !.disk = [j \in DOMAIN @ \ {i} |-> @[j]]])
        /\ kept' = kept \cup ({k} \ {0})
        /\ reserved' = reserved /\ crypted' = crypted /\ locked' = locked /\ starts' = starts
    BY DEF GetKeyFromPool
  <1>6. k \in 0 .. R.next - 1 /\ (i \in DOMAIN R.disk => k = R.disk[i]) /\ (i \notin DOMAIN R.disk => k = 0)
    BY <1>2 DEF ReadPool, PoolType
  <1> HIDE DEF R, i, k
  <1>7. /\ setKeyPool' = R.set \ {i} /\ nextKey' = R.next /\ collided' = R.hit
        /\ disk' = [j \in DOMAIN R.disk \ {i} |-> R.disk[j]]
    BY <1>4, <1>5 DEF SetPool
  <1>8. /\ Pool'.set = R.set \ {i} /\ Pool'.next = R.next /\ Pool'.hit = R.hit
        /\ DOMAIN Pool'.disk = DOMAIN R.disk \ {i}
        /\ \A j \in DOMAIN R.disk \ {i} : Pool'.disk[j] = R.disk[j]
        /\ Pool' = [set |-> Pool'.set, disk |-> Pool'.disk, next |-> Pool'.next, hit |-> Pool'.hit]
    BY <1>7 DEF Pool
  <1>9. Outstanding' = Outstanding
    BY <1>5 DEF Outstanding
  <1>10. PoolType(Pool)'
    <2>1. PICK n \in Nat : R.set \cup DOMAIN R.disk \subseteq 1 .. n
      BY <1>2 DEF PoolType
    <2>2. \E m \in Nat : Pool'.set \cup DOMAIN Pool'.disk \subseteq 1 .. m
      BY <1>8, <2>1
    <2>3. Pool'.disk \in [DOMAIN Pool'.disk -> 1 .. Pool'.next - 1]
      BY <1>2, <1>7, <1>8 DEF PoolType, Pool
    <2> QED
      BY <1>2, <1>8, <2>2, <2>3 DEF PoolType
  <1>11. HandedOut(Pool)'
    BY <1>2, <1>5, <1>6, <1>8 DEF HandedOut
  <1>12. RecordsDistinct(Pool)'
    <2>1. \A j \in DOMAIN R.disk : R.disk[j] # 0
      BY <1>2 DEF PoolType
    <2>2. \A j \in DOMAIN R.disk \ {i} : R.disk[j] \notin kept'
      BY <1>2, <1>5, <1>6, <2>1 DEF RecordsDistinct
    <2> QED
      BY <1>2, <1>5, <1>8, <2>2 DEF RecordsDistinct
  <1>13. ASSUME ~R.hit PROVE IndexesOwned(Pool)'
    <2>1. IndexesOwned(R) /\ i \notin Outstanding
      BY <1>2, <1>4, <1>13 DEF IndexesOwned
    <2>2. \A q \in Reserver : reserved[q].nIndex # -1 => reserved[q].nIndex \in Outstanding
      BY DEF Outstanding
    <2> QED
      BY <1>5, <1>8, <1>9, <2>1, <2>2 DEF IndexesOwned
  <1>14. LaterIndexKept'
    BY <1>1, <1>5, <1>7, <1>9 DEF LaterIndexKept
  <1>15. WalletOK'
    BY <1>5 DEF IInv, WalletOK
  <1> QED
    BY <1>8, <1>10, <1>11, <1>12, <1>13, <1>14, <1>15 DEF IInv, PoolInv

\* A pool put in place keeps what held of it.
LEMMA PoolPut ==
    ASSUME NEW p, PoolInv(p), SetPool(p), reserved' = reserved, kept' = kept
    PROVE  PoolInv(Pool)' /\ Outstanding' = Outstanding
  <1>1. Pool' = p
    BY DEF PoolInv, PoolType, SetPool, Pool
  <1>2. Outstanding' = Outstanding
    BY DEF Outstanding
  <1> QED
    BY <1>1, <1>2 DEF PoolInv, PoolType, HandedOut, RecordsDistinct, IndexesOwned

\* TopUpKeyPool.
LEMMA TopUpKeyPoolKeeps ==
    ASSUME IInv, NEW n \in Refill, TopUpKeyPool(n)
    PROVE  IInv'
  <1>1. PoolInv(Pool) /\ LaterIndexKept /\ WalletOK /\ n \in Nat
    BY KeyPoolAssumption DEF IInv
  <1> DEFINE T == TopUp(Pool, n)
  <1>2. /\ PoolInv(T) /\ setKeyPool \subseteq T.set
        /\ Ahead(setKeyPool) => T.hit = collided
    BY <1>1, TopUpKeeps, PoolFields
  <1>3. /\ SetPool(T)
        /\ reserved' = reserved /\ crypted' = crypted /\ locked' = locked /\ starts' = starts /\ kept' = kept
    BY DEF TopUpKeyPool
  <1> HIDE DEF T
  <1>4. PoolInv(Pool)' /\ Outstanding' = Outstanding
    BY <1>2, <1>3, PoolPut
  <1>5. LaterIndexKept'
    BY <1>1, <1>2, <1>3, <1>4 DEF LaterIndexKept, Ahead, SetPool
  <1>6. WalletOK'
    BY <1>1, <1>3 DEF WalletOK
  <1> QED
    BY <1>4, <1>5, <1>6 DEF IInv

\* NewKeyPool drops the indexes of the set and their records, and begins again at 1.
LEMMA NewKeyPoolKeeps ==
    ASSUME IInv, NewKeyPool
    PROVE  IInv'
  <1> USE KeyPoolAssumption
  <1> DEFINE p == [set |-> {}, disk |-> ErasePool(setKeyPool), next |-> nextKey, hit |-> collided]
  <1>1. /\ PoolType(Pool) /\ HandedOut(Pool) /\ RecordsDistinct(Pool) /\ (collided \/ IndexesOwned(Pool))
    BY PoolFields DEF IInv, PoolInv
  <1>2. p = [set |-> {}, disk |-> [j \in DOMAIN disk \ setKeyPool |-> disk[j]], next |-> nextKey, hit |-> collided]
    BY DEF ErasePool
  <1>3. /\ SetPool(WithKeys(p, 1 .. Keypool)) /\ reserved' = reserved /\ kept' = kept /\ starts' = starts
        /\ crypted' = "yes" /\ locked' = TRUE
    BY DEF NewKeyPool
  <1> HIDE DEF p
  <1>4. /\ p.set = {} /\ p.next = nextKey /\ p.hit = collided
        /\ DOMAIN p.disk = DOMAIN disk \ setKeyPool
        /\ \A j \in DOMAIN disk \ setKeyPool : p.disk[j] = disk[j]
        /\ p = [set |-> p.set, disk |-> p.disk, next |-> p.next, hit |-> p.hit]
    BY <1>2
  <1>5. PoolType(p)
    <2>1. PICK n \in Nat : setKeyPool \cup DOMAIN disk \subseteq 1 .. n
      BY <1>1, PoolFields DEF PoolType
    <2>2. \E m \in Nat : p.set \cup DOMAIN p.disk \subseteq 1 .. m
      BY <1>4, <2>1
    <2>3. p.disk \in [DOMAIN p.disk -> 1 .. p.next - 1]
      BY <1>1, <1>2, <1>4, PoolFields DEF PoolType
    <2> QED
      BY <1>1, <1>4, <2>2, <2>3, PoolFields DEF PoolType
  <1>6. HandedOut(p) /\ RecordsDistinct(p)
    BY <1>1, <1>4, PoolFields DEF HandedOut, RecordsDistinct
  <1>7. p.hit \/ IndexesOwned(p)
    <2> SUFFICES ASSUME ~collided PROVE IndexesOwned(p)
      BY <1>4
    <2>1. IndexesOwned(Pool)
      BY <1>1
    <2>2. \A q \in Reserver : reserved[q].nIndex # -1 => reserved[q].nIndex \in Outstanding
      BY DEF Outstanding
    <2> QED
      BY <1>4, <2>1, <2>2, PoolFields DEF IndexesOwned
  <1>8. PoolInv(p)
    BY <1>5, <1>6, <1>7 DEF PoolInv
  <1>9. PoolInv(WithKeys(p, 1 .. Keypool))
    <2>1. 1 .. 1 + Keypool - 1 = 1 .. Keypool
      OBVIOUS
    <2>2. Grown(p, WithKeys(p, 1 .. 1 + Keypool - 1), 1 .. 1 + Keypool - 1)
      BY <1>5, WithKeysGrown
    <2> QED
      BY <1>8, <2>1, <2>2, GrownKeeps
  <1>10. PoolInv(Pool)'
    BY <1>3, <1>9, PoolPut
  <1>11. LaterIndexKept' /\ WalletOK'
    BY <1>3 DEF LaterIndexKept, WalletOK, IInv
  <1> QED
    BY <1>10, <1>11 DEF IInv

\* LoadWallet: every record is reservable again, and nothing is reserved.
LEMMA RestartKeeps ==
    ASSUME IInv, Restart
    PROVE  IInv'
  <1> USE KeyPoolAssumption
  <1>1. /\ PoolType(Pool) /\ HandedOut(Pool) /\ RecordsDistinct(Pool) /\ WalletOK
    BY DEF IInv, PoolInv
  <1>2. /\ setKeyPool' = DOMAIN disk /\ disk' = disk /\ nextKey' = nextKey /\ kept' = kept
        /\ reserved' = [r \in Reserver |-> NoKey]
        /\ (~collided)' /\ (collided \in BOOLEAN)'
    <2>1. collided' = FALSE
      BY DEF Restart
    <2> QED
      BY <2>1 DEF Restart
  <1>3. /\ Pool'.set = DOMAIN disk /\ Pool'.next = nextKey /\ ~Pool'.hit /\ Pool'.hit \in BOOLEAN
        /\ Pool'.disk = disk
        /\ Pool' = [set |-> Pool'.set, disk |-> Pool'.disk, next |-> Pool'.next, hit |-> Pool'.hit]
    BY <1>2 DEF Pool
  <1>4. \A r \in Reserver : reserved'[r].nIndex = -1 /\ reserved'[r].key = 0
    BY <1>2 DEF NoKey
  <1>5. Outstanding' = {}
    BY <1>4 DEF Outstanding
  <1>6. PoolType(Pool)'
    <2>1. PICK n \in Nat : setKeyPool \cup DOMAIN disk \subseteq 1 .. n
      BY <1>1, PoolFields DEF PoolType
    <2>2. \E m \in Nat : Pool'.set \cup DOMAIN Pool'.disk \subseteq 1 .. m
      BY <1>3, <2>1
    <2> QED
      BY <1>1, <1>3, <2>2, PoolFields DEF PoolType
  <1>7. HandedOut(Pool)'
    <2>1. NoKey \in [nIndex : (Nat \ {0}) \cup {-1}, key : (0 .. nextKey - 1) \cup {DefaultKey}]
      BY <1>1, PoolFields DEF NoKey, PoolType
    <2> QED
      BY <1>1, <1>2, <1>3, <1>4, <2>1, PoolFields DEF HandedOut
  <1>8. RecordsDistinct(Pool)'
    <2>1. \A j \in DOMAIN disk : disk[j] # 0
      BY <1>1, PoolFields DEF PoolType
    <2> QED
      BY <1>1, <1>2, <1>3, <1>4, <2>1, PoolFields DEF RecordsDistinct
  <1>9. IndexesOwned(Pool)'
    BY <1>3, <1>4, <1>5 DEF IndexesOwned
  <1>10. LaterIndexKept'
    BY <1>2, <1>5 DEF LaterIndexKept
  <1>11. WalletOK'
    BY <1>1 DEF WalletOK, Restart
  <1> QED
    BY <1>6, <1>7, <1>8, <1>9, <1>10, <1>11 DEF IInv, PoolInv

\* Steps that only encrypt, lock or unlock leave the pool alone.
LEMMA PoolUntouched ==
    ASSUME IInv, UNCHANGED <<setKeyPool, disk, reserved, nextKey, kept, collided>>,
           crypted' = "no" => crypted = "no", WalletOK'
    PROVE  IInv'
  <1>1. Pool' = Pool /\ Outstanding' = Outstanding
    BY DEF Pool, Outstanding
  <1>2. PoolInv(Pool)'
    BY <1>1 DEF IInv, PoolInv, PoolType, HandedOut, RecordsDistinct, IndexesOwned
  <1>3. LaterIndexKept'
    BY <1>1 DEF IInv, LaterIndexKept
  <1> QED
    BY <1>2, <1>3 DEF IInv

\* Every step keeps the invariant.
LEMMA NextInv == IInv /\ [Next]_vars => IInv'
  <1> SUFFICES ASSUME IInv, [Next]_vars PROVE IInv'
    OBVIOUS
  <1>1. ASSUME NEW r \in Reserver, GetReservedKey(r) PROVE IInv'
    BY <1>1, GetReservedKeyKeeps
  <1>2. ASSUME NEW r \in Reserver, KeepKey(r) PROVE IInv'
    BY <1>2, KeepKeyKeeps
  <1>3. ASSUME NEW r \in Reserver, ReturnKey(r) PROVE IInv'
    BY <1>3, ReturnKeyKeeps
  <1>4. CASE GetKeyFromPool
    BY <1>4, GetKeyFromPoolKeeps
  <1>5. ASSUME NEW n \in Refill, TopUpKeyPool(n) PROVE IInv'
    BY <1>5, TopUpKeyPoolKeeps
  <1>6. CASE EncryptKeys
    <2>1. WalletOK'
      BY <1>6 DEF EncryptKeys, IInv, WalletOK
    <2> QED
      BY <1>6, <2>1, PoolUntouched DEF EncryptKeys
  <1>7. CASE NewKeyPool
    BY <1>7, NewKeyPoolKeeps
  <1>8. CASE Unlock
    <2>1. WalletOK'
      BY <1>8 DEF Unlock, IInv, WalletOK
    <2> QED
      BY <1>8, <2>1, PoolUntouched DEF Unlock
  <1>9. CASE Lock
    <2>1. WalletOK'
      BY <1>9 DEF Lock, IInv, WalletOK
    <2> QED
      BY <1>9, <2>1, PoolUntouched DEF Lock
  <1>10. CASE Restart
    BY <1>10, RestartKeeps
  <1>11. CASE UNCHANGED vars
    <2>1. WalletOK'
      BY <1>11 DEF vars, IInv, WalletOK
    <2> QED
      BY <1>11, <2>1, PoolUntouched DEF vars
  <1> QED
    BY <1>1, <1>2, <1>3, <1>4, <1>5, <1>6, <1>7, <1>8, <1>9, <1>10, <1>11 DEF Next

\* The inductive invariant holds throughout.
THEOREM PoolInvariant == Spec => []IInv
  BY InitInv, NextInv, PTL DEF Spec
-----------------------------------------------------------------------------
\* Every index that can be reserved or is has its record in the wallet file, unless
\* an index was given to a new key while it was reserved, and the types are kept.
THEOREM PoolStaysOnDisk == Spec => []PoolOnDisk
  <1>1. IInv => PoolOnDisk
    <2> SUFFICES ASSUME IInv PROVE PoolOnDisk
      OBVIOUS
    <2>1. PoolType(Pool) /\ HandedOut(Pool) /\ (collided \/ IndexesOwned(Pool)) /\ WalletOK
      BY PoolFields DEF IInv, PoolInv
    <2>2. TypeOK
      BY <2>1, PoolFields DEF TypeOK, PoolType, HandedOut, WalletOK
    <2> QED
      BY <2>1, <2>2, PoolFields DEF PoolOnDisk, IndexesOwned
  <1> QED
    BY <1>1, PoolInvariant, PTL

\* No key is handed out twice, whatever crashes, returned reservations and
\* encryption come between, unless an index was given out twice.
THEOREM KeysHandedOutOnce == Spec => []KeyHandedOutOnce
  <1>1. IInv => KeyHandedOutOnce
    <2> SUFFICES ASSUME IInv, ~collided PROVE KeyHandedOutOnce
      BY DEF KeyHandedOutOnce
    <2>1. PoolType(Pool) /\ HandedOut(Pool) /\ RecordsDistinct(Pool) /\ IndexesOwned(Pool)
      BY PoolFields DEF IInv, PoolInv
    <2> DEFINE held == {r \in Reserver : reserved[r].key \notin {0, DefaultKey}}
               inPool == {disk[i] : i \in setKeyPool \cap DOMAIN disk}
    <2>2. \A r \in held : /\ reserved[r].nIndex # -1 /\ reserved[r].nIndex \in Outstanding
                          /\ reserved[r].nIndex \in DOMAIN disk /\ reserved[r].key = disk[reserved[r].nIndex]
      BY <2>1, PoolFields DEF HandedOut, IndexesOwned, Outstanding
    <2>3. \A r, q \in held : reserved[r].key = reserved[q].key => r = q
      BY <2>1, <2>2, PoolFields DEF RecordsDistinct, IndexesOwned
    <2>4. \A r \in held : reserved[r].key \notin kept
      BY <2>1, <2>2, PoolFields DEF RecordsDistinct
    <2>5. \A r \in held : reserved[r].key \notin inPool
      BY <2>1, <2>2, PoolFields DEF RecordsDistinct, IndexesOwned
    <2>6. inPool \cap kept = {}
      BY <2>1, PoolFields DEF RecordsDistinct
    <2> QED
      BY <2>3, <2>4, <2>5, <2>6 DEF KeyHandedOutOnce
  <1> QED
    BY <1>1, PoolInvariant, PTL

\* While the wallet is not encrypted and -keypool is above zero, no index is given
\* to a new key while a reservation holds it.
THEOREM IndexesGivenOnce == Spec => []IndexGivenOnce
  <1>1. IInv => IndexGivenOnce
    BY DEF IInv, LaterIndexKept, IndexGivenOnce
  <1> QED
    BY <1>1, PoolInvariant, PTL
=============================================================================
