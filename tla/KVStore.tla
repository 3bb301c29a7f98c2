------------------------------ MODULE KVStore ------------------------------
(***************************************************************************)
(* What the block database promises its callers: a key-value store with    *)
(* one optional transaction per handle.  Inside a transaction a handle     *)
(* reads its own writes; nobody else sees them before the commit, which    *)
(* applies all of them at once or none.                                    *)
(***************************************************************************)
EXTENDS Naturals

CONSTANTS
    Key,        \* database keys ("tx"+hash, "blockindex"+hash, "hashBestChain", ...)
    Value,      \* serialised values
    Handle,     \* CTxDB objects
    NotFound,   \* what a read of an absent key returns
    Unset,      \* "this transaction has not touched the key"
    NoTxn       \* "this handle has no transaction"

VARIABLES
    store,      \* committed contents
    pend,       \* pend[h]: the writes of h's transaction, or NoTxn
    call        \* the last call and its answer: what a caller can observe

kvVars == <<store, pend, call>>

Init ==
    /\ store = [k \in Key |-> NotFound]
    /\ pend = [h \in Handle |-> NoTxn]
    /\ call = [op |-> "none"]

\* What handle h must see under key k.
View(h, k) ==
    IF pend[h] = NoTxn \/ pend[h][k] = Unset THEN store[k] ELSE pend[h][k]

Begin(h) ==
    /\ pend[h] = NoTxn
    /\ pend' = [pend EXCEPT ![h] = [k \in Key |-> Unset]]
    /\ call' = [op |-> "begin", h |-> h]
    /\ UNCHANGED store

\* A write, or an erase when v = NotFound.
Put(h, k, v) ==
    /\ IF pend[h] = NoTxn
       THEN store' = [store EXCEPT ![k] = v] /\ UNCHANGED pend
       ELSE pend' = [pend EXCEPT ![h] = [@ EXCEPT ![k] = v]] /\ UNCHANGED store
    /\ call' = [op |-> "put", h |-> h, key |-> k, val |-> v]

Get(h, k) ==
    /\ call' = [op |-> "get", h |-> h, key |-> k, val |-> View(h, k)]
    /\ UNCHANGED <<store, pend>>

Commit(h) ==
    /\ pend[h] # NoTxn
    /\ store' = [k \in Key |-> View(h, k)]
    /\ pend' = [pend EXCEPT ![h] = NoTxn]
    /\ call' = [op |-> "commit", h |-> h]

\* The transaction is given up, by the caller or because its commit failed.
Rollback(h) ==
    /\ pend' = [pend EXCEPT ![h] = NoTxn]
    /\ call' = [op |-> "abort", h |-> h]
    /\ UNCHANGED store

\* The process dies: every open transaction is gone, the store is not.
Crash ==
    /\ pend' = [h \in Handle |-> NoTxn]
    /\ UNCHANGED <<store, call>>

Next ==
    \/ \E h \in Handle : Begin(h) \/ Commit(h) \/ Rollback(h)
    \/ \E h \in Handle, k \in Key : Get(h, k)
    \/ \E h \in Handle, k \in Key, v \in Value \cup {NotFound} : Put(h, k, v)
    \/ Crash

Spec == Init /\ [][Next]_kvVars
=============================================================================
