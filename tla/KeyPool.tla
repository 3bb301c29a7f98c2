------------------------------ MODULE KeyPool ------------------------------
(***************************************************************************)
(* The wallet's key pool (wallet.cpp): setKeyPool in memory, the "pool"    *)
(* records of the wallet file, and the CReserveKey objects that RPC        *)
(* commands, the send dialog and the miners hold.  A reserved key is out   *)
(* of setKeyPool and still on file; keeping it erases the record, dropping *)
(* the reservation puts the index back, a crash does neither.  Keys are    *)
(* numbered as they are generated, from 1.                                 *)
(***************************************************************************)
EXTENDS Integers, FiniteSetsExt, TLC

CONSTANTS
    Reserver,       \* CReserveKey objects
    Keypool,        \* -keypool
    Refill,         \* the sizes that TopUpKeyPool is asked for
    DefaultKey,     \* vchDefaultKey
    MaxKey,         \* bound: keys generated
    MaxStart        \* bound: starts of the program

ASSUME KeyPoolAssumption ==
    /\ Keypool \in Nat /\ Refill \subseteq Nat /\ Keypool \in Refill
    /\ DefaultKey \notin Nat
    /\ MaxKey \in Nat /\ MaxStart \in Nat

VARIABLES
    setKeyPool,     \* the indexes that may be reserved
    disk,           \* the pool records: index -> key
    reserved,       \* reserved[r]: nIndex and vchPubKey of a CReserveKey
    nextKey,        \* the next key generated
    crypted,        \* "no", "rewriting" within EncryptWallet, or "yes"
    locked,
    starts,
    kept,           \* history: the keys handed out for good
    collided        \* history: an index was given to a new key while reserved

vars == <<setKeyPool, disk, reserved, nextKey, crypted, locked, starts, kept, collided>>

NoKey == [nIndex |-> -1, key |-> 0]

\* The indexes now reserved.
Outstanding == {reserved[r].nIndex : r \in Reserver} \ {-1}

\* Whoever needs cs_wallet waits while EncryptWallet holds it.
WalletFree == crypted # "rewriting"
-----------------------------------------------------------------------------
\* A pool [set, disk, next, hit] with new keys under the indexes new.
WithKeys(p, new) ==
    LET first == IF new = {} THEN 0 ELSE Min(new)
    IN  [set  |-> p.set \cup new,
         disk |-> [i \in new \cup DOMAIN p.disk |->
                     IF i \in new THEN p.next + i - first ELSE p.disk[i]],
         next |-> p.next + Cardinality(new),
         hit  |-> p.hit \/ new \cap Outstanding # {}]

Pool == [set |-> setKeyPool, disk |-> disk, next |-> nextKey, hit |-> collided]

SetPool(p) ==
    /\ p.next <= MaxKey + 1
    /\ setKeyPool' = p.set /\ disk' = p.disk /\ nextKey' = p.next /\ collided' = p.hit

\* Mutant: the index comes from the size of the set.
TopUpBySize(p, n) ==
    LET missing == n + 1 - Cardinality(p.set)
        nEnd == Cardinality(p.set) + 1
    IN  IF missing <= 0 THEN p ELSE WithKeys(p, nEnd .. nEnd + missing - 1)

\* TopUpKeyPool of an unlocked wallet: up to n + 1 keys, after the last index.
TopUp(p, n) ==
    LET missing == n + 1 - Cardinality(p.set)
        nEnd == IF p.set = {} THEN 1 ELSE Max(p.set) + 1
    IN  IF missing <= 0 THEN p ELSE WithKeys(p, nEnd .. nEnd + missing - 1)

\* The pool from which ReserveKeyFromKeyPool takes the oldest index.
Refilled == IF locked THEN Pool ELSE TopUp(Pool, Keypool)

\* Mutant: the index stays in the set.
WithoutOldestKept(p) == p

WithoutOldest(p) == [p EXCEPT !.set = @ \ {Min(@)}]

\* ReadPool: the key of the index, or none ("read failed", thrown after the
\* index was taken).
ReadPool(p, i) == IF i \in DOMAIN p.disk THEN p.disk[i] ELSE 0

ErasePool(I) == [i \in DOMAIN disk \ I |-> disk[i]]
-----------------------------------------------------------------------------
\* CReserveKey::GetReservedKey; with an empty pool the default key serves.
GetReservedKey(r) ==
    /\ WalletFree /\ reserved[r].nIndex = -1
    /\ \/ /\ Refilled.set # {}
          /\ SetPool(WithoutOldest(Refilled))
          /\ reserved' = [reserved EXCEPT ![r] =
                            [nIndex |-> Min(Refilled.set), key |-> ReadPool(Refilled, Min(Refilled.set))]]
       \/ /\ Refilled.set = {}
          /\ reserved' = [reserved EXCEPT ![r].key = DefaultKey]
          /\ UNCHANGED <<setKeyPool, disk, nextKey, collided>>
    /\ UNCHANGED <<crypted, locked, starts, kept>>

\* Mutant: nIndex is left as it was.
KeepKeyHeld(r) ==
    /\ reserved[r].key # 0
    /\ disk' = ErasePool({reserved[r].nIndex})
    /\ kept' = kept \cup ({reserved[r].key} \ {DefaultKey})
    /\ reserved' = [reserved EXCEPT ![r].key = 0]
    /\ UNCHANGED <<setKeyPool, nextKey, crypted, locked, starts, collided>>

\* CReserveKey::KeepKey, which does not take cs_wallet.
KeepKey(r) ==
    /\ reserved[r].key # 0
    /\ disk' = ErasePool({reserved[r].nIndex})
    /\ kept' = kept \cup ({reserved[r].key} \ {DefaultKey})
    /\ reserved' = [reserved EXCEPT ![r] = NoKey]
    /\ UNCHANGED <<setKeyPool, nextKey, crypted, locked, starts, collided>>

\* CReserveKey::ReturnKey, also by its destructor.
ReturnKey(r) ==
    /\ WalletFree /\ reserved[r] # NoKey
    /\ setKeyPool' = setKeyPool \cup ({reserved[r].nIndex} \ {-1})
    /\ reserved' = [reserved EXCEPT ![r] = NoKey]
    /\ UNCHANGED <<disk, nextKey, crypted, locked, starts, kept, collided>>

\* GetKeyFromPool: reserved and kept at once; a locked wallet with an empty
\* pool has none (or reuses the default key), and after a failed read the index
\* is gone from the set.
GetKeyFromPool ==
    /\ WalletFree /\ Refilled.set # {}
    /\ LET i == Min(Refilled.set)
           p == WithoutOldest(Refilled)
       IN  /\ SetPool([p EXCEPT !.disk = [j \in DOMAIN @ \ {i} |-> @[j]]])
           /\ kept' = kept \cup ({ReadPool(Refilled, i)} \ {0})
    /\ UNCHANGED <<reserved, crypted, locked, starts>>

\* TopUpKeyPool: keypoolrefill, the thread started by walletpassphrase.
TopUpKeyPool(n) ==
    /\ WalletFree /\ ~locked
    /\ SetPool(TopUp(Pool, n))
    /\ UNCHANGED <<reserved, crypted, locked, starts, kept>>

\* EncryptWallet up to the commit of the encrypted keys; cs_wallet is held on.
EncryptKeys ==
    /\ crypted = "no" /\ crypted' = "rewriting"
    /\ UNCHANGED <<setKeyPool, disk, reserved, nextKey, locked, starts, kept, collided>>

\* NewKeyPool and the rest of EncryptWallet: the records of setKeyPool go, those
\* of reserved keys stay, and the indexes begin at 1 again.
NewKeyPool ==
    /\ crypted = "rewriting" /\ crypted' = "yes" /\ locked' = TRUE
    /\ SetPool(WithKeys([set |-> {}, disk |-> ErasePool(setKeyPool), next |-> nextKey, hit |-> collided],
                        1 .. Keypool))
    /\ UNCHANGED <<reserved, starts, kept>>

Unlock ==
    /\ WalletFree /\ locked /\ locked' = FALSE
    /\ UNCHANGED <<setKeyPool, disk, reserved, nextKey, crypted, starts, kept, collided>>

Lock ==
    /\ crypted = "yes" /\ ~locked /\ locked' = TRUE
    /\ UNCHANGED <<setKeyPool, disk, reserved, nextKey, crypted, starts, kept, collided>>

\* The program ends, by a crash or a shutdown (the destructors then return
\* nothing), and LoadWallet reads the records.
Restart ==
    /\ starts < MaxStart /\ starts' = starts + 1
    /\ setKeyPool' = DOMAIN disk
    /\ reserved' = [r \in Reserver |-> NoKey]
    /\ crypted' = IF crypted = "no" THEN "no" ELSE "yes"
    /\ locked' = (crypted # "no")
    /\ collided' = FALSE
    /\ UNCHANGED <<disk, nextKey, kept>>
-----------------------------------------------------------------------------
Init ==
    /\ setKeyPool = {} /\ disk = [i \in {} |-> 0]
    /\ reserved = [r \in Reserver |-> NoKey]
    /\ nextKey = 1
    /\ crypted = "no" /\ locked = FALSE
    /\ starts = 0
    /\ kept = {} /\ collided = FALSE

Next ==
    \/ \E r \in Reserver : GetReservedKey(r) \/ KeepKey(r) \/ ReturnKey(r)
    \/ GetKeyFromPool
    \/ \E n \in Refill : TopUpKeyPool(n)
    \/ EncryptKeys \/ NewKeyPool
    \/ Unlock \/ Lock
    \/ Restart

Spec == Init /\ [][Next]_vars
-----------------------------------------------------------------------------
\* Indexes are positive, keys generated ones, and only an encrypted wallet is
\* locked.
TypeOK ==
    /\ \A i \in setKeyPool \cup DOMAIN disk : i \in Nat \ {0}
    /\ \A i \in DOMAIN disk : disk[i] \in 1 .. nextKey - 1
    /\ \A r \in Reserver : /\ reserved[r].nIndex \in Nat \cup {-1}
                           /\ reserved[r].key \in (0 .. nextKey - 1) \cup {DefaultKey}
    /\ kept \subseteq 1 .. nextKey - 1
    /\ crypted \in {"no", "rewriting", "yes"} /\ locked \in BOOLEAN
    /\ locked => crypted = "yes"
    /\ starts \in 0 .. MaxStart /\ collided \in BOOLEAN

\* Every index that can be reserved, and every one that is, has its record in
\* the wallet file, so ReserveKeyFromKeyPool never fails with "read failed",
\* unless an index was given to a new key while it was reserved.  The state
\* keeps its types throughout.
PoolOnDisk == TypeOK /\ (collided \/ setKeyPool \cup Outstanding \subseteq DOMAIN disk)

\* A key is handed out once: no two reservations hold the same key, no reserved
\* key was kept before, and the pool leads to neither, whatever crashes, returned
\* reservations and encryption came between; unless an index was given out twice.
KeyHandedOutOnce ==
    collided \/
      LET held == {r \in Reserver : reserved[r].key \notin {0, DefaultKey}}
          inPool == {disk[i] : i \in setKeyPool \cap DOMAIN disk}
      IN  /\ \A r, q \in held : reserved[r].key = reserved[q].key => r = q
          /\ \A r \in held : reserved[r].key \notin kept \cup inPool
          /\ inPool \cap kept = {}

\* An unencrypted wallet with -keypool above zero never gives an index to a new
\* key while a reservation holds it: the set always keeps a later index.
\* (A locked wallet can be drained, and -keypool=0 keeps one key: TopUpKeyPool
\* then begins at 1 again.)
IndexGivenOnce == (crypted = "no" /\ Keypool > 0) => ~collided
=============================================================================
