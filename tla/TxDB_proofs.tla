---------------------------- MODULE TxDB_proofs ----------------------------
(***************************************************************************)
(* CTxDB implements the transactional key-value store of KVStore, for any  *)
(* keys, values, handles and batch size.                                   *)
(***************************************************************************)
EXTENDS TxDB, TLAPS

\* The positions of a log that concern key k, and the one the scan ends on.
Hits(log, k) == {i \in DOMAIN log : log[i].key = k}

IsLast(log, k, i) == i \in Hits(log, k) /\ \A j \in Hits(log, k) : j <= i

\* A log in which every key that occurs has a last occurrence.  It is what
\* makes the CHOOSE in ScanBatch meaningful, and it is kept by Append.
Scannable(log) == \A k \in Key : Hits(log, k) # {} => \E i \in Hits(log, k) : IsLast(log, k, i)

\* Every pending batch can be scanned.
BatchesScannable ==
    \A h \in Handle : activeBatch[h] # NoTxn => Scannable(activeBatch[h])

IInv == TypeOK /\ BatchesScannable

\* A scan returns what the last operation on the key left.
LEMMA ScanLast ==
    ASSUME NEW log \in Seq(Op), NEW k \in Key, NEW i, IsLast(log, k, i)
    PROVE  ScanBatch(log, k) = log[i].val
<1>1. Hits(log, k) \subseteq Int
    BY DEF Hits
<1>2. \A m \in Hits(log, k) : (\A j \in Hits(log, k) : j <= m) => m = i
    BY <1>1 DEF IsLast
<1>3. (CHOOSE m \in Hits(log, k) : \A j \in Hits(log, k) : j <= m) = i
    BY <1>2 DEF IsLast
<1>4. QED
    BY <1>3 DEF ScanBatch, Hits, IsLast

\* A scan of a key the log does not hold says so.
LEMMA ScanMiss ==
    ASSUME NEW log \in Seq(Op), NEW k \in Key, Hits(log, k) = {}
    PROVE  ScanBatch(log, k) = Unset
BY DEF ScanBatch, Hits

\* A scan never invents a value.
LEMMA ScanType ==
    ASSUME NEW log \in Seq(Op), NEW k \in Key, Scannable(log)
    PROVE  ScanBatch(log, k) \in Value \cup {NotFound, Unset}
<1>1. CASE Hits(log, k) = {}
    BY <1>1, ScanMiss
<1>2. CASE Hits(log, k) # {}
    <2>1. PICK i \in Hits(log, k) : IsLast(log, k, i)
        BY <1>2 DEF Scannable
    <2>2. ScanBatch(log, k) = log[i].val
        BY <2>1, ScanLast
    <2>3. log[i] \in Op
        BY <2>1 DEF Hits
    <2>4. QED
        BY <2>2, <2>3 DEF Op
<1>3. QED
    BY <1>1, <1>2

\* The positions of a log after one more operation.
LEMMA HitsAppend ==
    ASSUME NEW log \in Seq(Op), NEW op \in Op, NEW k \in Key
    PROVE  Hits(Append(log, op), k) =
             IF op.key = k THEN Hits(log, k) \cup {Len(log) + 1} ELSE Hits(log, k)
<1>1. /\ DOMAIN log = 1..Len(log)
      /\ DOMAIN Append(log, op) = 1..(Len(log) + 1)
      /\ Len(log) \in Nat
      /\ \A i \in 1..Len(log) : Append(log, op)[i] = log[i]
      /\ Append(log, op)[Len(log) + 1] = op
    OBVIOUS
<1>2. ASSUME NEW i
      PROVE  i \in Hits(Append(log, op), k) <=>
               i \in (IF op.key = k THEN Hits(log, k) \cup {Len(log) + 1} ELSE Hits(log, k))
    BY <1>1 DEF Hits
<1>3. QED
    BY <1>2

\* One more operation overrides its own key and no other (WriteBatch::Put and
\* Delete followed by a read of the batch).
LEMMA ScanAppend ==
    ASSUME NEW log \in Seq(Op), NEW op \in Op, Scannable(log)
    PROVE  /\ Append(log, op) \in Seq(Op)
           /\ Scannable(Append(log, op))
           /\ \A k \in Key : ScanBatch(Append(log, op), k) =
                               IF op.key = k THEN op.val ELSE ScanBatch(log, k)
<1> DEFINE new == Append(log, op)
<1>0. new \in Seq(Op)
    OBVIOUS
<1>1. ASSUME NEW k \in Key, op.key = k
      PROVE  IsLast(new, k, Len(log) + 1) /\ ScanBatch(new, k) = op.val
    <2>1. Hits(new, k) = Hits(log, k) \cup {Len(log) + 1}
        BY <1>1, HitsAppend
    <2>2. \A j \in Hits(log, k) : j \in Int /\ j <= Len(log)
        BY DEF Hits
    <2>3. IsLast(new, k, Len(log) + 1)
        BY <2>1, <2>2 DEF IsLast
    <2>4. new[Len(log) + 1] = op
        OBVIOUS
    <2> HIDE DEF new
    <2>5. QED
        BY <1>0, <2>3, <2>4, ScanLast
<1>2. ASSUME NEW k \in Key, op.key # k
      PROVE  /\ Hits(new, k) = Hits(log, k)
             /\ \A i \in Hits(log, k) : IsLast(log, k, i) => IsLast(new, k, i)
             /\ ScanBatch(new, k) = ScanBatch(log, k)
    <2>1. Hits(new, k) = Hits(log, k)
        BY <1>2, HitsAppend
    <2>2. \A i \in Hits(log, k) : IsLast(log, k, i) => IsLast(new, k, i)
        BY <2>1 DEF IsLast
    <2>3. \A i \in Hits(log, k) : new[i] = log[i]
        BY DEF Hits
    <2> HIDE DEF new
    <2>4. CASE Hits(log, k) = {}
        BY <1>0, <2>1, <2>4, ScanMiss
    <2>5. CASE Hits(log, k) # {}
        <3>1. PICK i \in Hits(log, k) : IsLast(log, k, i)
            BY <2>5 DEF Scannable
        <3>2. QED
            BY <1>0, <2>1, <2>2, <2>3, <3>1, ScanLast
    <2>6. QED
        BY <2>1, <2>2, <2>4, <2>5
<1>3. Scannable(new)
    <2> HIDE DEF new
    <2>1. SUFFICES ASSUME NEW k \in Key, Hits(new, k) # {}
                   PROVE  \E i \in Hits(new, k) : IsLast(new, k, i)
        BY DEF Scannable
    <2>2. CASE op.key = k
        BY <1>1, <2>2 DEF IsLast
    <2>3. CASE op.key # k
        BY <1>2, <2>1, <2>3 DEF Scannable
    <2>4. QED
        BY <2>2, <2>3
<1>4. QED
    BY <1>0, <1>1, <1>2, <1>3
-----------------------------------------------------------------------------
\* What a read returns is a value that was written or "not found".
LEMMA ReadType ==
    ASSUME IInv, NEW h \in Handle, NEW k \in Key
    PROVE  ReadResult(h, k) \in Value \cup {NotFound}
<1>1. CASE activeBatch[h] = NoTxn
    BY <1>1 DEF ReadResult, IInv, TypeOK
<1>2. CASE activeBatch[h] # NoTxn
    <2>1. activeBatch[h] \in Seq(Op) /\ Scannable(activeBatch[h])
        BY <1>2 DEF IInv, TypeOK, BatchesScannable
    <2>2. ScanBatch(activeBatch[h], k) \in Value \cup {NotFound, Unset}
        BY <2>1, ScanType
    <2>3. QED
        BY <2>2 DEF ReadResult, IInv, TypeOK
<1>3. QED
    BY <1>1, <1>2

\* IInv holds initially.
LEMMA InitIInv == Init => IInv
BY DEF Init, IInv, TypeOK, BatchesScannable, Calls

\* Every operation of CTxDB keeps IInv.
LEMMA NextIInv == IInv /\ [Next]_vars => IInv'
<1> SUFFICES ASSUME IInv, [Next]_vars PROVE IInv'
    OBVIOUS
<1> USE SentinelAssumption
<1>0. /\ <<>> \in Seq(Op)
      /\ Scannable(<<>>)
    BY DEF Scannable, Hits
<1>00. NoTxn \notin Seq(Op)
    BY DEF Op
<1>1. ASSUME NEW h \in Handle, TxnBegin(h) PROVE IInv'
    BY <1>1, <1>0 DEF IInv, TypeOK, BatchesScannable, Calls, TxnBegin
<1>2. ASSUME NEW h \in Handle, NEW k \in Key, NEW v \in Value \cup {NotFound}, Update(h, k, v)
      PROVE  IInv'
    <2>1. CASE activeBatch[h] = NoTxn
        BY <1>2, <2>1 DEF IInv, TypeOK, BatchesScannable, Calls, Update
    <2>2. CASE activeBatch[h] # NoTxn
        <3> DEFINE op == [key |-> k, val |-> v]
        <3>1. activeBatch[h] \in Seq(Op) /\ Scannable(activeBatch[h]) /\ op \in Op
            BY <2>2 DEF IInv, TypeOK, BatchesScannable, Op
        <3>2. Append(activeBatch[h], op) \in Seq(Op) /\ Scannable(Append(activeBatch[h], op))
            BY <3>1, ScanAppend
        <3>3. activeBatch' = [activeBatch EXCEPT ![h] = Append(activeBatch[h], op)]
            BY <1>2, <2>2 DEF Update
        <3>4. UNCHANGED <<pdb, fReadOnly>> /\ call' \in Calls
            BY <1>2, <2>2 DEF Update, Calls
        <3> HIDE DEF op
        <3>5. QED
            BY <3>2, <3>3, <3>4 DEF IInv, TypeOK, BatchesScannable
    <2>3. QED
        BY <2>1, <2>2
<1>3. ASSUME NEW h \in Handle, NEW k \in Key, Read(h, k) PROVE IInv'
    <2>1. ReadResult(h, k) \in Value \cup {NotFound}
        BY ReadType
    <2>2. QED
        BY <1>3, <2>1 DEF IInv, TypeOK, BatchesScannable, Calls, Read
<1>4. ASSUME NEW h \in Handle, NEW ok \in BOOLEAN, TxnCommit(h, ok) PROVE IInv'
    <2>1. activeBatch[h] \in Seq(Op) /\ Scannable(activeBatch[h])
        BY <1>4 DEF IInv, TypeOK, BatchesScannable, TxnCommit
    <2>2. \A k \in Key : ScanBatch(activeBatch[h], k) \in Value \cup {NotFound, Unset}
        BY <2>1, ScanType
    <2>3. ApplyBatch(activeBatch[h]) \in [Key -> Value \cup {NotFound}]
        BY <2>2 DEF ApplyBatch, IInv, TypeOK
    <2>4. QED
        BY <1>4, <2>3 DEF IInv, TypeOK, BatchesScannable, Calls, TxnCommit
<1>5. ASSUME NEW h \in Handle, TxnAbort(h) PROVE IInv'
    BY <1>5 DEF IInv, TypeOK, BatchesScannable, Calls, TxnAbort
<1>6. ASSUME NEW h \in Handle, NEW ro \in BOOLEAN, Reopen(h, ro) PROVE IInv'
    BY <1>6 DEF IInv, TypeOK, BatchesScannable, Calls, Reopen
<1>7. CASE Crash
    BY <1>7 DEF IInv, TypeOK, BatchesScannable, Crash
<1>8. CASE UNCHANGED vars
    BY <1>8 DEF IInv, TypeOK, BatchesScannable, vars
<1>9. QED
    BY <1>1, <1>2, <1>3, <1>4, <1>5, <1>6, <1>7, <1>8 DEF Next, Write, Erase

\* The database, the batches and the answers of calls keep their type: in
\* particular a read never returns the "not in the batch" marker.
THEOREM TypeCorrect == Spec => []TypeOK
<1>1. Spec => []IInv
    BY InitIInv, NextIInv, PTL DEF Spec
<1>2. IInv => TypeOK
    BY DEF IInv
<1>3. QED
    BY <1>1, <1>2, PTL
-----------------------------------------------------------------------------
\* The abstract view of a handle is what Read returns.
LEMMA ViewIsRead ==
    ASSUME IInv, NEW h \in Handle, NEW k \in Key
    PROVE  KV!View(h, k) = ReadResult(h, k)
<1>1. CASE activeBatch[h] = NoTxn
    BY <1>1 DEF KV!View, ReadResult, PendOf
<1>2. CASE activeBatch[h] # NoTxn
    <2>1. activeBatch[h] \in Seq(Op) /\ Scannable(activeBatch[h])
        BY <1>2 DEF IInv, TypeOK, BatchesScannable
    <2>2. \A j \in Key : ScanBatch(activeBatch[h], j) \in Value \cup {NotFound, Unset}
        BY <2>1, ScanType
    <2>3. PendOf(h) \in [Key -> Value \cup {NotFound, Unset}]
        BY <1>2, <2>2 DEF PendOf
    <2>4. PendOf(h) # NoTxn
        BY <2>3, SentinelAssumption
    <2>5. PendOf(h)[k] = ScanBatch(activeBatch[h], k)
        BY <1>2 DEF PendOf
    <2>6. QED
        BY <1>2, <2>4, <2>5 DEF KV!View, ReadResult
<1>3. QED
    BY <1>1, <1>2

\* The abstract handle is in a transaction exactly when there is a batch.
LEMMA PendNoTxn ==
    ASSUME IInv, NEW h \in Handle
    PROVE  PendOf(h) = NoTxn <=> activeBatch[h] = NoTxn
<1>1. ASSUME activeBatch[h] # NoTxn PROVE PendOf(h) # NoTxn
    <2>1. activeBatch[h] \in Seq(Op) /\ Scannable(activeBatch[h])
        BY <1>1 DEF IInv, TypeOK, BatchesScannable
    <2>2. \A j \in Key : ScanBatch(activeBatch[h], j) \in Value \cup {NotFound, Unset}
        BY <2>1, ScanType
    <2>3. PendOf(h) \in [Key -> Value \cup {NotFound, Unset}]
        BY <1>1, <2>2 DEF PendOf
    <2>4. QED
        BY <2>3, SentinelAssumption
<1>2. QED
    BY <1>1 DEF PendOf

\* Every operation of CTxDB is an operation of the abstract store, or a stutter.
LEMMA StepRefines == IInv /\ IInv' /\ [Next]_vars => [KV!Next]_(KV!kvVars)
<1> SUFFICES ASSUME IInv, IInv', [Next]_vars PROVE [KV!Next]_(KV!kvVars)
    OBVIOUS
<1> DEFINE pend == [h \in Handle |-> PendOf(h)]
<1>a. ASSUME NEW h \in Handle, \A g \in Handle \ {h} : activeBatch'[g] = activeBatch[g]
      PROVE  pend' = [pend EXCEPT ![h] = PendOf(h)']
    BY <1>a DEF PendOf
<1>1. ASSUME NEW h \in Handle, TxnBegin(h) PROVE KV!Begin(h)
    <2>1. PendOf(h) = NoTxn
        BY <1>1 DEF TxnBegin, PendOf
    <2>2. activeBatch'[h] = <<>> /\ \A g \in Handle \ {h} : activeBatch'[g] = activeBatch[g]
        BY <1>1 DEF TxnBegin, IInv, TypeOK
    <2>3. \A k \in Key : ScanBatch(<<>>, k) = Unset
        BY DEF ScanBatch
    <2>4. <<>> # NoTxn
        <3>1. <<>> \in Seq(Op) /\ NoTxn \notin Seq(Op)
            BY SentinelAssumption DEF Op
        <3>2. QED
            BY <3>1
    <2>5. PendOf(h)' = [k \in Key |-> Unset]
        BY <2>2, <2>3, <2>4 DEF PendOf
    <2>6. QED
        BY <1>1, <1>a, <2>1, <2>2, <2>5 DEF KV!Begin, TxnBegin
<1>2. ASSUME NEW h \in Handle, NEW k \in Key, NEW v \in Value \cup {NotFound}, Update(h, k, v)
      PROVE  KV!Put(h, k, v)
    <2>1. CASE activeBatch[h] = NoTxn
        <3>1. PendOf(h) = NoTxn
            BY <2>1 DEF PendOf
        <3>2. /\ UNCHANGED activeBatch
              /\ pdb' = [pdb EXCEPT ![k] = v]
              /\ call' = [op |-> "put", h |-> h, key |-> k, val |-> v]
            BY <1>2, <2>1 DEF Update
        <3>3. pend' = pend
            BY <3>2 DEF PendOf
        <3>4. QED
            BY <3>1, <3>2, <3>3 DEF KV!Put
    <2>2. CASE activeBatch[h] # NoTxn
        <3> DEFINE op == [key |-> k, val |-> v]
        <3>1. activeBatch[h] \in Seq(Op) /\ Scannable(activeBatch[h]) /\ op \in Op
            BY <2>2 DEF IInv, TypeOK, BatchesScannable, Op
        <3>2. /\ activeBatch'[h] = Append(activeBatch[h], op)
              /\ \A g \in Handle \ {h} : activeBatch'[g] = activeBatch[g]
              /\ UNCHANGED pdb
              /\ call' = [op |-> "put", h |-> h, key |-> k, val |-> v]
            BY <1>2, <2>2 DEF Update, IInv, TypeOK
        <3>3. Append(activeBatch[h], op) \in Seq(Op)
            BY <3>1
        <3>4. activeBatch'[h] # NoTxn
            BY <3>2, <3>3, SentinelAssumption DEF Op
        <3>5. op.key = k /\ op.val = v
            OBVIOUS
        <3> HIDE DEF op
        <3>6. \A j \in Key : ScanBatch(activeBatch'[h], j) =
                               IF j = k THEN v ELSE ScanBatch(activeBatch[h], j)
            BY <3>1, <3>2, <3>5, ScanAppend
        <3>7. PendOf(h) = [j \in Key |-> ScanBatch(activeBatch[h], j)]
            BY <2>2 DEF PendOf
        <3>8. PendOf(h)' = [j \in Key |-> ScanBatch(activeBatch'[h], j)]
            BY <3>4 DEF PendOf
        <3>9. PendOf(h)' = [PendOf(h) EXCEPT ![k] = v]
            BY <3>6, <3>7, <3>8
        <3>10. PendOf(h) # NoTxn
            BY <2>2, PendNoTxn
        <3>11. QED
            BY <1>a, <3>2, <3>9, <3>10 DEF KV!Put
    <2>3. QED
        BY <2>1, <2>2
<1>3. ASSUME NEW h \in Handle, NEW k \in Key, Read(h, k) PROVE KV!Get(h, k)
    <2>1. KV!View(h, k) = ReadResult(h, k)
        BY ViewIsRead
    <2>2. QED
        BY <1>3, <2>1 DEF KV!Get, Read, PendOf
<1>b. ASSUME NEW h \in Handle, activeBatch' = [activeBatch EXCEPT ![h] = NoTxn]
      PROVE  pend' = [pend EXCEPT ![h] = NoTxn]
    <2>1. activeBatch'[h] = NoTxn /\ \A g \in Handle \ {h} : activeBatch'[g] = activeBatch[g]
        BY <1>b DEF IInv, TypeOK
    <2>2. PendOf(h)' = NoTxn
        BY <2>1 DEF PendOf
    <2>3. QED
        BY <1>a, <2>1, <2>2
<1>4. ASSUME NEW h \in Handle, TxnCommit(h, TRUE) PROVE KV!Commit(h)
    <2>1. PendOf(h) # NoTxn
        BY <1>4, PendNoTxn DEF TxnCommit
    <2>2. \A k \in Key : KV!View(h, k) = ReadResult(h, k)
        BY ViewIsRead
    <2>3. \A k \in Key : ApplyBatch(activeBatch[h])[k] = ReadResult(h, k)
        BY <1>4 DEF ApplyBatch, ReadResult, TxnCommit
    <2>4. ApplyBatch(activeBatch[h]) = [k \in Key |-> KV!View(h, k)]
        BY <2>2, <2>3 DEF ApplyBatch
    <2>5. QED
        BY <1>4, <1>b, <2>1, <2>4 DEF KV!Commit, TxnCommit
<1>5. ASSUME NEW h \in Handle,
             TxnCommit(h, FALSE) \/ TxnAbort(h) \/ \E ro \in BOOLEAN : Reopen(h, ro)
      PROVE  KV!Rollback(h)
    BY <1>5, <1>b DEF KV!Rollback, TxnCommit, TxnAbort, Reopen
<1>6. CASE Crash
    <2>1. \A h \in Handle : PendOf(h)' = NoTxn
        BY <1>6 DEF Crash, PendOf
    <2>2. KV!Crash
        BY <1>6, <2>1 DEF KV!Crash, Crash
    <2>3. QED
        BY <2>2 DEF KV!Next
<1>7. CASE UNCHANGED vars
    BY <1>7 DEF vars, KV!kvVars, PendOf
<1>8. CASE Next
    <2>1. CASE \E h \in Handle : TxnBegin(h)
        BY <1>1, <2>1 DEF KV!Next
    <2>2. CASE \E h \in Handle, k \in Key, v \in Value : Write(h, k, v)
        BY <1>2, <2>2 DEF KV!Next, Write
    <2>3. CASE \E h \in Handle, k \in Key : Erase(h, k)
        BY <1>2, <2>3 DEF KV!Next, Erase
    <2>4. CASE \E h \in Handle, k \in Key : Read(h, k)
        BY <1>3, <2>4 DEF KV!Next
    <2>5. CASE \E h \in Handle, ok \in BOOLEAN : TxnCommit(h, ok)
        <3>1. PICK h \in Handle, ok \in BOOLEAN : TxnCommit(h, ok)
            BY <2>5
        <3>2. CASE ok = TRUE
            BY <1>4, <3>1, <3>2 DEF KV!Next
        <3>3. CASE ok = FALSE
            BY <1>5, <3>1, <3>3 DEF KV!Next
        <3>4. QED
            BY <3>2, <3>3
    <2>6. CASE \E h \in Handle : TxnAbort(h) \/ \E ro \in BOOLEAN : Reopen(h, ro)
        BY <1>5, <2>6 DEF KV!Next
    <2>7. QED
        BY <1>6, <1>8, <2>1, <2>2, <2>3, <2>4, <2>5, <2>6 DEF Next
<1>9. QED
    BY <1>7, <1>8

\* CTxDB implements the transactional store: reads inside a transaction see
\* the handle's own Puts and Deletes, other handles see none of them before
\* the commit, a commit takes all of them at once, and an abort, a failed
\* commit, a destroyed handle or a crash leaves none.
THEOREM ImplementsKVStore == Spec => KVSpec
<1>1. Init => KV!Init
    BY DEF Init, KV!Init, PendOf
<1>2. Spec => []IInv
    BY InitIInv, NextIInv, PTL DEF Spec
<1>3. QED
    BY <1>1, <1>2, StepRefines, PTL DEF Spec, KVSpec, KV!Spec
=============================================================================
