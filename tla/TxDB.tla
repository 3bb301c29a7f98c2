-------------------------------- MODULE TxDB --------------------------------
(***************************************************************************)
(* CTxDB (txdb-leveldb.h, txdb-leveldb.cpp): the wrapper around LevelDB    *)
(* that stores the transaction index, the block index and the best-chain   *)
(* pointer.  Every CTxDB object points at the one global leveldb::DB and   *)
(* may hold a WriteBatch (activeBatch), a log of Puts and Deletes that     *)
(* reads scan before they go to the database.                              *)
(***************************************************************************)
EXTENDS Integers, Sequences

CONSTANTS Key, Value, Handle, NotFound, Unset, NoTxn,
          MaxBatch      \* bound: operations in one WriteBatch

ASSUME MaxBatchAssumption == MaxBatch \in Nat
ASSUME SentinelAssumption ==
    /\ NotFound \notin Value
    /\ Unset \notin Value \cup {NotFound}
    /\ NoTxn \notin Seq([key : Key, val : Value \cup {NotFound}])
    /\ NoTxn \notin [Key -> Value \cup {NotFound, Unset}]

VARIABLES
    pdb,            \* the LevelDB contents
    activeBatch,    \* activeBatch[h]: sequence of [key, val], or NoTxn (NULL)
    fReadOnly,      \* fReadOnly[h]: how the object was constructed
    call            \* history: the last call on any handle, with its answer

vars == <<pdb, activeBatch, fReadOnly, call>>

Op == [key : Key, val : Value \cup {NotFound}]

Calls ==
    [op : {"put", "get"}, h : Handle, key : Key, val : Value \cup {NotFound}]
    \cup [op : {"begin", "commit", "abort"}, h : Handle] \cup [op : {"none"}]

Init ==
    /\ pdb = [k \in Key |-> NotFound]
    /\ activeBatch = [h \in Handle |-> NoTxn]
    /\ fReadOnly \in [Handle -> BOOLEAN]
    /\ call = [op |-> "none"]

\* Mutant: the scan stops at the first hit.
ScanBatchFirstHit(log, k) ==
    LET hits == {i \in DOMAIN log : log[i].key = k}
    IN  IF hits = {} THEN Unset
        ELSE log[CHOOSE i \in hits : \A j \in hits : i <= j].val

\* CBatchScanner iterates the whole log and keeps the last hit: a Put leaves
\* its value, a Delete leaves "deleted" (NotFound here); no hit is Unset.
ScanBatch(log, k) ==
    LET hits == {i \in DOMAIN log : log[i].key = k}
    IN  IF hits = {} THEN Unset
        ELSE log[CHOOSE i \in hits : \A j \in hits : j <= i].val

\* Mutant: a key the batch does not hold is not looked up in the database.
ReadResultBatchOnly(h, k) ==
    IF activeBatch[h] = NoTxn THEN pdb[k] ELSE ScanBatch(activeBatch[h], k)

\* The batch first, then the database.
ReadResult(h, k) ==
    IF activeBatch[h] = NoTxn \/ ScanBatch(activeBatch[h], k) = Unset
    THEN pdb[k]
    ELSE ScanBatch(activeBatch[h], k)

\* leveldb::DB::Write applies the entries in log order, atomically.
ApplyBatch(log) ==
    [k \in Key |-> IF ScanBatch(log, k) = Unset THEN pdb[k] ELSE ScanBatch(log, k)]
-----------------------------------------------------------------------------
TxnBegin(h) ==
    /\ activeBatch[h] = NoTxn           \* assert(!activeBatch)
    /\ activeBatch' = [activeBatch EXCEPT ![h] = <<>>]
    /\ call' = [op |-> "begin", h |-> h]
    /\ UNCHANGED <<pdb, fReadOnly>>

\* Write (v a value) and Erase (v = NotFound): into the batch when there is
\* one, straight to the database otherwise.
Update(h, k, v) ==
    /\ ~fReadOnly[h]                    \* assert: not in read-only mode
    /\ IF activeBatch[h] # NoTxn
       THEN /\ Len(activeBatch[h]) < MaxBatch
            /\ activeBatch' = [activeBatch EXCEPT ![h] = Append(@, [key |-> k, val |-> v])]
            /\ UNCHANGED pdb
       ELSE /\ pdb' = [pdb EXCEPT ![k] = v]
            /\ UNCHANGED activeBatch
    /\ call' = [op |-> "put", h |-> h, key |-> k, val |-> v]
    /\ UNCHANGED fReadOnly

Write(h, k, v) == v \in Value /\ Update(h, k, v)

Erase(h, k) == Update(h, k, NotFound)

Read(h, k) ==
    /\ call' = [op |-> "get", h |-> h, key |-> k, val |-> ReadResult(h, k)]
    /\ UNCHANGED <<pdb, activeBatch, fReadOnly>>

\* The batch is deleted whether or not LevelDB took it.
TxnCommit(h, ok) ==
    /\ activeBatch[h] # NoTxn           \* assert(activeBatch)
    /\ pdb' = IF ok THEN ApplyBatch(activeBatch[h]) ELSE pdb
    /\ activeBatch' = [activeBatch EXCEPT ![h] = NoTxn]
    /\ call' = [op |-> IF ok THEN "commit" ELSE "abort", h |-> h]
    /\ UNCHANGED fReadOnly

\* TxnAbort(), and the destructor followed by a new CTxDB in its place.
TxnAbort(h) ==
    /\ activeBatch' = [activeBatch EXCEPT ![h] = NoTxn]
    /\ call' = [op |-> "abort", h |-> h]
    /\ UNCHANGED <<pdb, fReadOnly>>

Reopen(h, ro) ==
    /\ activeBatch' = [activeBatch EXCEPT ![h] = NoTxn]
    /\ fReadOnly' = [fReadOnly EXCEPT ![h] = ro]
    /\ call' = [op |-> "abort", h |-> h]
    /\ UNCHANGED pdb

\* The process dies between two calls; LevelDB recovers from its log.
Crash ==
    /\ activeBatch' = [h \in Handle |-> NoTxn]
    /\ UNCHANGED <<pdb, fReadOnly, call>>

Next ==
    \/ \E h \in Handle : TxnBegin(h)
    \/ \E h \in Handle, k \in Key, v \in Value : Write(h, k, v)
    \/ \E h \in Handle, k \in Key : Erase(h, k)
    \/ \E h \in Handle, k \in Key : Read(h, k)
    \/ \E h \in Handle, ok \in BOOLEAN : TxnCommit(h, ok)
    \/ \E h \in Handle : TxnAbort(h)
    \/ \E h \in Handle, ro \in BOOLEAN : Reopen(h, ro)
    \/ Crash

Spec == Init /\ [][Next]_vars
-----------------------------------------------------------------------------
\* Type invariant of the database, the batches and the answers of calls: a read
\* never returns the "not in the batch" marker.
TypeOK ==
    /\ pdb \in [Key -> Value \cup {NotFound}]
    /\ activeBatch \in [Handle -> Seq(Op) \cup {NoTxn}]
    /\ fReadOnly \in [Handle -> BOOLEAN]
    /\ call \in Calls

\* Refinement mapping: the transaction a caller believes it is in.
PendOf(h) ==
    IF activeBatch[h] = NoTxn THEN NoTxn
    ELSE [k \in Key |-> ScanBatch(activeBatch[h], k)]

KV == INSTANCE KVStore WITH store <- pdb, pend <- [h \in Handle |-> PendOf(h)]

\* CTxDB is a transactional store: every read sees the handle's own pending
\* Puts and Deletes, no call is lost, a commit is all or nothing (Read, Write,
\* Erase, ScanBatch, TxnCommit, TxnAbort).
KVSpec == KV!Spec
=============================================================================
