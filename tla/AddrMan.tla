------------------------------ MODULE AddrMan ------------------------------
(***************************************************************************)
(* The address manager, CAddrMan (addrman.h, addrman.cpp): known addresses *)
(* in "new" buckets (an address may be in several) and "tried" buckets (in *)
(* one), with the indexes kept beside them.  Every public operation holds  *)
(* cs for its whole length, so an operation is one action on am.           *)
(*                                                                         *)
(* Times are left out: whether a seen address counts as fresh news and     *)
(* which entry of a full bucket is terrible or oldest are choices.  Only   *)
(* the order of the last successes is kept, for SelectTried.  With times,  *)
(* Attempt_ and Connected_ would change nothing else; an address and the   *)
(* same address on another port are one entry.  vRandom and vTried are     *)
(* counted from 1.                                                         *)
(***************************************************************************)
EXTENDS Integers, SequencesExt

CONSTANTS
    Addr, Source,                   \* addresses and those who tell of them
    Heard,                          \* pairs <<a, s>>: s tells of a
    GetTriedBucket,                 \* GetTriedBucket[a]
    GetNewBucket,                   \* GetNewBucket[<<a, s>>]
    TriedBucket, NewBucket,         \* the buckets
    ADDRMAN_TRIED_BUCKET_SIZE,
    ADDRMAN_NEW_BUCKET_SIZE,
    ADDRMAN_NEW_BUCKETS_PER_ADDRESS,
    ADDRMAN_TRIED_ENTRIES_INSPECT_ON_EVICT,
    ADDRMAN_GETADDR_MAX_PCT,
    MaxId                           \* bound: ids given out between two starts

ASSUME AddrManAssumption ==
    /\ Heard \subseteq Addr \X Source
    /\ IsFiniteSet(NewBucket) /\ NewBucket \subseteq Nat
    /\ GetTriedBucket \in [Addr -> TriedBucket]
    /\ GetNewBucket \in [Addr \X Source -> NewBucket]
    /\ ADDRMAN_TRIED_BUCKET_SIZE \in Nat \ {0}
    /\ ADDRMAN_NEW_BUCKET_SIZE \in Nat \ {0}
    /\ ADDRMAN_NEW_BUCKETS_PER_ADDRESS \in Nat \ {0}
    /\ ADDRMAN_TRIED_ENTRIES_INSPECT_ON_EVICT \in Nat \ {0}
    /\ ADDRMAN_GETADDR_MAX_PCT \in 0 .. 100
    /\ MaxId \in Nat

VARIABLE am     \* the fields of the CAddrMan object

\* vSuccess stands for the nLastSuccess of the tried entries: oldest first.
Init ==
    am = [nIdCount |-> 0, mapInfo |-> <<>>, mapAddr |-> <<>>, vRandom |-> <<>>,
          nTried |-> 0, vvTried |-> [b \in TriedBucket |-> <<>>],
          nNew |-> 0, vvNew |-> [b \in NewBucket |-> {}],
          vSuccess |-> <<>>]
-----------------------------------------------------------------------------
Position(s, x) == CHOOSE i \in DOMAIN s : s[i] = x
Without(f, x) == [y \in DOMAIN f \ {x} |-> f[y]]
With(f, x, v) == [y \in DOMAIN f \cup {x} |-> IF y = x THEN v ELSE f[y]]
Dropped(s, x) == SelectSeq(s, LAMBDA y : y # x)

Create(m, a, s) ==
    LET nId == m.nIdCount
    IN  [m EXCEPT !.nIdCount = nId + 1,
                  !.mapInfo = With(@, nId, [addr |-> a, source |-> s, nRefCount |-> 0,
                                            fInTried |-> FALSE,
                                            nRandomPos |-> Len(m.vRandom) + 1]),
                  !.mapAddr = With(@, a, nId),
                  !.vRandom = Append(@, nId)]

SwapRandom(m, p, q) ==
    [m EXCEPT !.mapInfo = [@ EXCEPT ![m.vRandom[p]].nRandomPos = q,
                                    ![m.vRandom[q]].nRandomPos = p],
              !.vRandom = [@ EXCEPT ![p] = m.vRandom[q], ![q] = m.vRandom[p]]]

\* The entry leaves the last bucket that holds it.
Delete(m, nId) ==
    LET w == SwapRandom(m, m.mapInfo[nId].nRandomPos, Len(m.vRandom))
    IN  [w EXCEPT !.vRandom = Front(@), !.mapInfo = Without(@, nId),
                  !.mapAddr = Without(@, m.mapInfo[nId].addr), !.nNew = @ - 1]

\* Mutant: the entry is deleted although other buckets hold it.
ShrinkNewDeletes(m, b, nId) ==
    LET w == [m EXCEPT !.mapInfo[nId].nRefCount = @ - 1, !.vvNew[b] = @ \ {nId}]
    IN  Delete(w, nId)

\* ShrinkNew(b): entry nId, a terrible one or the oldest of four picked at random,
\* leaves the bucket.
ShrinkNew(m, b, nId) ==
    LET w == [m EXCEPT !.mapInfo[nId].nRefCount = @ - 1, !.vvNew[b] = @ \ {nId}]
    IN  IF w.mapInfo[nId].nRefCount = 0 THEN Delete(w, nId) ELSE w

\* Which of two tried entries succeeded last.
Older(m, x, y) == Position(m.vSuccess, x) < Position(m.vSuccess, y)

\* Turn i of the loop of SelectTried, with p for its random position: the entry
\* there moves to the front, and the place where it was is kept if it is the oldest.
LookAt(m, st, i, p) ==
    LET x == st.vTried[p]
        better == st.nOldestPos = 0 \/ Older(m, x, st.nOldest)
    IN  [vTried     |-> [st.vTried EXCEPT ![p] = st.vTried[i], ![i] = x],
         nOldest    |-> IF better THEN x ELSE st.nOldest,
         nOldestPos |-> IF better THEN p ELSE st.nOldestPos]

\* SelectTried, with r[i] for the random position of turn i.
SelectTried(m, b, r) ==
    LET after[i \in 0 .. Len(r)] ==
            IF i = 0 THEN [vTried |-> m.vvTried[b], nOldest |-> 0, nOldestPos |-> 0]
            ELSE LookAt(m, after[i - 1], i, r[i])
    IN  after[Len(r)]

\* The random positions it may draw.
Draws(v, n) ==
    LET k == IF n < Len(v) THEN n ELSE Len(v)
    IN  {r \in [1 .. k -> 1 .. Len(v)] : \A i \in 1 .. k : r[i] >= i}

\* The entry leaves all new buckets.
LeaveNew(m, nId) ==
    LET in == {b \in NewBucket : nId \in m.vvNew[b]}
    IN  [m EXCEPT !.vvNew = [b \in NewBucket |-> @[b] \ {nId}],
                  !.mapInfo[nId].nRefCount = @ - Cardinality(in),
                  !.nNew = @ - 1]

\* Mutant: the evicted entry goes to its own new bucket, full or not.
EvictHome(m, old, nOrigin) ==
    LET home == GetNewBucket[<<m.mapInfo[old].addr, m.mapInfo[old].source>>]
    IN  [m EXCEPT !.mapInfo[old].fInTried = FALSE, !.mapInfo[old].nRefCount = 1,
                  !.vvNew[home] = @ \cup {old},
                  !.nNew = @ + 1,
                  !.vSuccess = Dropped(@, old)]

\* Mutant: the evicted entry is deleted.
EvictForgets(m, old, nOrigin) ==
    Delete([m EXCEPT !.nNew = @ + 1, !.vSuccess = Dropped(@, old)], old)

\* A tried entry goes back to the new bucket of its first source, or where the entry
\* that replaces it came from ("there is certainly place there").
Evict(m, old, nOrigin) ==
    LET home == GetNewBucket[<<m.mapInfo[old].addr, m.mapInfo[old].source>>]
        to == IF Cardinality(m.vvNew[home]) < ADDRMAN_NEW_BUCKET_SIZE THEN home ELSE nOrigin
    IN  [m EXCEPT !.mapInfo[old].fInTried = FALSE, !.mapInfo[old].nRefCount = 1,
                  !.vvNew[to] = @ \cup {old},
                  !.nNew = @ + 1,
                  !.vSuccess = Dropped(@, old)]

MakeTried(m, nId, nOrigin, r) ==
    LET w == LeaveNew(m, nId)
        b == GetTriedBucket[m.mapInfo[nId].addr]
        pick == SelectTried(w, b, r)
        v == Evict([w EXCEPT !.vvTried[b] = pick.vTried], pick.vTried[pick.nOldestPos], nOrigin)
    IN  IF Len(w.vvTried[b]) < ADDRMAN_TRIED_BUCKET_SIZE
        THEN [w EXCEPT !.vvTried[b] = Append(@, nId), !.nTried = @ + 1,
                       !.mapInfo[nId].fInTried = TRUE]
        ELSE [v EXCEPT !.vvTried[b][pick.nOldestPos] = nId, !.mapInfo[nId].fInTried = TRUE]
-----------------------------------------------------------------------------
\* Add_ of an unknown address.
AddNew(a, s) ==
    LET m == [Create(am, a, s) EXCEPT !.nNew = @ + 1]
        nId == am.nIdCount
        b == GetNewBucket[<<a, s>>]
        w == [m EXCEPT !.mapInfo[nId].nRefCount = @ + 1]
    IN  /\ a \notin DOMAIN am.mapAddr /\ am.nIdCount < MaxId
        /\ IF Cardinality(w.vvNew[b]) = ADDRMAN_NEW_BUCKET_SIZE
           THEN \E x \in w.vvNew[b] :
                    am' = [ShrinkNew(w, b, x) EXCEPT !.vvNew[b] = @ \cup {nId}]
           ELSE am' = [w EXCEPT !.vvNew[b] = @ \cup {nId}]

\* Add_ of a known one that brings news and passes the stochastic test.
AddAgain(a, s) ==
    LET nId == am.mapAddr[a]
        b == GetNewBucket[<<a, s>>]
        w == [am EXCEPT !.mapInfo[nId].nRefCount = @ + 1]
    IN  /\ a \in DOMAIN am.mapAddr
        /\ ~am.mapInfo[nId].fInTried
        /\ am.mapInfo[nId].nRefCount # ADDRMAN_NEW_BUCKETS_PER_ADDRESS
        /\ nId \notin am.vvNew[b]
        /\ IF Cardinality(w.vvNew[b]) = ADDRMAN_NEW_BUCKET_SIZE
           THEN \E x \in w.vvNew[b] :
                    am' = [ShrinkNew(w, b, x) EXCEPT !.vvNew[b] = @ \cup {nId}]
           ELSE am' = [w EXCEPT !.vvNew[b] = @ \cup {nId}]

\* Good_: the last success is now, and an entry that is not tried becomes so, from
\* any of its new buckets.
Good(a) ==
    LET nId == am.mapAddr[a]
        m == [am EXCEPT !.vSuccess = Append(Dropped(@, nId), nId)]
        b == GetTriedBucket[a]
    IN  /\ a \in DOMAIN am.mapAddr
        /\ \/ am.mapInfo[nId].fInTried /\ am' = m
           \/ /\ ~am.mapInfo[nId].fInTried
              /\ \E nOrigin \in {c \in NewBucket : nId \in am.vvNew[c]} :
                 \E r \in Draws(am.vvTried[b], ADDRMAN_TRIED_ENTRIES_INSPECT_ON_EVICT) :
                    am' = MakeTried(m, nId, nOrigin, r)

\* GetAddr_ shuffles the front of vRandom (ADDRMAN_GETADDR_MAX, 2500, is not reached).
Shuffled(m, r) ==
    LET after[n \in 0 .. Len(r)] == IF n = 0 THEN m ELSE SwapRandom(after[n - 1], n, r[n])
    IN  after[Len(r)]
GetAddr ==
    LET nNodes == (ADDRMAN_GETADDR_MAX_PCT * Len(am.vRandom)) \div 100
    IN  \E r \in Draws(am.vRandom, nNodes) : am' = Shuffled(am, r)
-----------------------------------------------------------------------------
\* The ids S in the order in which mapInfo is walked.
InIdOrder(S) ==
    [k \in 1 .. Cardinality(S) |-> CHOOSE x \in S : Cardinality({y \in S : y < x}) = k - 1]

\* Serialisation, writing: the new entries, numbered in their order (mapUnkIds), the
\* tried ones, and the new buckets as sets of these numbers.
Dump(m) ==
    LET new == InIdOrder({x \in DOMAIN m.mapInfo : m.mapInfo[x].nRefCount # 0})
        tried == InIdOrder({x \in DOMAIN m.mapInfo : m.mapInfo[x].fInTried})
        Saved(ids) == [k \in DOMAIN ids |->
            [addr |-> m.mapInfo[ids[k]].addr, source |-> m.mapInfo[ids[k]].source]]
    IN  [new |-> Saved(new), tried |-> Saved(tried),
         vvNew |-> [b \in NewBucket |-> {Position(new, x) - 1 : x \in m.vvNew[b]}],
         vSuccess |-> [k \in DOMAIN m.vSuccess |-> m.mapInfo[m.vSuccess[k]].addr]]

\* Mutant: an entry comes back in one of its buckets.
BucketsReadOnce(d, n) ==
    {b \in NewBucket : n \in d.vvNew[b] /\ \A c \in NewBucket : c < b => n \notin d.vvNew[c]}

\* The new buckets that take entry n back: as many as it may have.
BucketsRead(d, n) ==
    {b \in NewBucket :
        /\ n \in d.vvNew[b]
        /\ Cardinality({c \in NewBucket : c < b /\ n \in d.vvNew[c]}) < ADDRMAN_NEW_BUCKETS_PER_ADDRESS}

\* The tried entries that find place in the bucket of their address.
TriedRead(d) ==
    LET Before(k) == {j \in 1 .. k - 1 :
                        GetTriedBucket[d.tried[j].addr] = GetTriedBucket[d.tried[k].addr]}
    IN  InIdOrder({k \in DOMAIN d.tried : Cardinality(Before(k)) < ADDRMAN_TRIED_BUCKET_SIZE})

\* ... and reading: new entries get the ids from 0 on, the tried ones the next.
Load(d) ==
    LET nNew == Len(d.new)
        read == TriedRead(d)
        saved == d.new \o [k \in DOMAIN read |-> d.tried[read[k]]]
        ids == 0 .. Len(saved) - 1
        IdOf(a) == CHOOSE x \in ids : saved[x + 1].addr = a
        InBucket(b) == {x \in ids : x >= nNew /\ GetTriedBucket[saved[x + 1].addr] = b}
    IN  [nIdCount |-> Len(saved),
         mapInfo  |-> [x \in ids |->
                        [addr |-> saved[x + 1].addr, source |-> saved[x + 1].source,
                         nRefCount |-> IF x < nNew THEN Cardinality(BucketsRead(d, x)) ELSE 0,
                         fInTried |-> x >= nNew, nRandomPos |-> x + 1]],
         mapAddr  |-> [a \in {saved[x + 1].addr : x \in ids} |-> IdOf(a)],
         vRandom  |-> [k \in 1 .. Len(saved) |-> k - 1],
         nTried   |-> Len(read),
         vvTried  |-> [b \in TriedBucket |-> InIdOrder(InBucket(b))],
         nNew     |-> nNew,
         vvNew    |-> [b \in NewBucket |-> {x \in 0 .. nNew - 1 : b \in BucketsRead(d, x)}],
         vSuccess |-> [k \in DOMAIN d.vSuccess |-> IdOf(d.vSuccess[k])]]

\* The node writes peers.dat and is started again.  (A node that dies first starts
\* from an older file: a state it was in once, reloaded.)
Reload == am' = Load(Dump(am))

Next ==
    \/ \E h \in Heard : AddNew(h[1], h[2]) \/ AddAgain(h[1], h[2])
    \/ \E a \in Addr : Good(a)
    \/ GetAddr
    \/ Reload

Spec == Init /\ [][Next]_am
-----------------------------------------------------------------------------
Info == [addr : Addr, source : Source, nRefCount : Nat, fInTried : BOOLEAN, nRandomPos : Nat]
Ids == DOMAIN am.mapInfo
TriedIds == {x \in Ids : am.mapInfo[x].fInTried}
BucketsOf(x) == {b \in NewBucket : x \in am.vvNew[b]}

\* Type invariant.
TypeOK ==
    /\ am.nIdCount \in 0 .. MaxId
    /\ Ids \subseteq 0 .. am.nIdCount - 1
    /\ \A x \in Ids : am.mapInfo[x] \in Info
    /\ DOMAIN am.mapAddr \subseteq Addr
    /\ am.vRandom \in Seq(Nat) /\ am.nTried \in Nat /\ am.nNew \in Nat
    /\ \A b \in TriedBucket : am.vvTried[b] \in Seq(Nat)
    /\ \A b \in NewBucket : am.vvNew[b] \subseteq Nat

\* Check_ returns 0 (addrman.cpp's own consistency check, compiled only with
\* DEBUG_ADDRMAN): the counters, the reference counts, the index by address and the
\* positions in vRandom agree with the buckets after any operations, and all have
\* their types.
Check ==
    /\ TypeOK
    /\ Len(am.vRandom) = am.nTried + am.nNew
    /\ am.nTried = Cardinality(TriedIds) /\ am.nNew = Cardinality(Ids \ TriedIds)
    /\ \A x \in Ids :
         LET info == am.mapInfo[x]
         IN  /\ info.nRefCount = Cardinality(BucketsOf(x))
             /\ IF info.fInTried THEN info.nRefCount = 0
                ELSE info.nRefCount \in 1 .. ADDRMAN_NEW_BUCKETS_PER_ADDRESS
             /\ info.addr \in DOMAIN am.mapAddr /\ am.mapAddr[info.addr] = x
             /\ info.nRandomPos \in DOMAIN am.vRandom /\ am.vRandom[info.nRandomPos] = x
    /\ \A x \in TriedIds : x \in ToSet(am.vvTried[GetTriedBucket[am.mapInfo[x].addr]])
    /\ \A b \in TriedBucket :
         /\ IsInjective(am.vvTried[b])
         /\ \A x \in ToSet(am.vvTried[b]) :
                x \in TriedIds /\ GetTriedBucket[am.mapInfo[x].addr] = b
    /\ \A b \in NewBucket : am.vvNew[b] \subseteq Ids

\* "Only keep a limited number of addresses around" (addrman.h): no bucket outgrows
\* its size, not even when a tried entry is moved back to a full new bucket.
BucketsBounded ==
    /\ \A b \in TriedBucket : Len(am.vvTried[b]) <= ADDRMAN_TRIED_BUCKET_SIZE
    /\ \A b \in NewBucket : Cardinality(am.vvNew[b]) <= ADDRMAN_NEW_BUCKET_SIZE

\* The addresses in the tried table, all addresses, and the new buckets, without ids.
TriedAddr == {am.mapInfo[x].addr : x \in TriedIds}
NewTable == [b \in NewBucket |-> {am.mapInfo[x].addr : x \in am.vvNew[b]}]

\* "They are never deleted while in the tried table, only possibly evicted back to
\* the new table" (addrman.h), one at a time, and for a newcomer.
TriedKept ==
    [][LET out == TriedAddr \ TriedAddr'
       IN  /\ out \subseteq DOMAIN am.mapAddr'
           /\ Cardinality(out) <= 1
           /\ out # {} => Cardinality(TriedAddr' \ TriedAddr) = 1]_am

\* Writing peers.dat and reading it back loses nothing: the same addresses are tried
\* and the new buckets hold the same addresses.
ReloadKeepsTables == [][Reload => TriedAddr' = TriedAddr /\ NewTable' = NewTable]_am
=============================================================================
