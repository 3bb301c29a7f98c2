----------------------------- MODULE MCMempool -----------------------------
(***************************************************************************)
(* Instance of Mempool for TLC.  remove(), removeConflicts() and the loops *)
(* of Reorganize are also written here as the code has them, recursion and *)
(* order included, to compare the set definitions of TxPool against.       *)
(***************************************************************************)
EXTENDS Mempool, SequencesExt

\* a and x spend the same coin, b spends a, c spends both a and b, g is a
\* coinstake, d spends g and an output that b does not have, n is not standard.
MCTx == {"a", "b", "c", "d", "g", "n", "x"}
MCCoin == {"coin", "stake"}
MCIns == ("a" :> {<<"coin", 0>>} @@ "x" :> {<<"coin", 0>>} @@
          "b" :> {<<"a", 0>>} @@ "c" :> {<<"a", 1>>, <<"b", 0>>} @@
          "g" :> {<<"stake", 0>>} @@ "d" :> {<<"g", 0>>, <<"b", 7>>} @@
          "n" :> {<<"coin", 1>>})
MCNOut == [t \in MCTx |-> 2]
-----------------------------------------------------------------------------
RECURSIVE RemoveCode(_, _), RemoveSpenders(_, _, _)

\* remove(tx, true).
RemoveCode(p, t) ==
    IF t \in p.mapTx THEN RemoveTx(RemoveSpenders(p, t, 0), {t}) ELSE p

\* Its loop over the outputs of t, from output i on.
RemoveSpenders(p, t, i) ==
    IF i = NOut[t] THEN p
    ELSE RemoveSpenders(IF <<t, i>> \in DOMAIN p.mapNextTx
                        THEN RemoveCode(p, p.mapNextTx[<<t, i>>]) ELSE p, t, i + 1)

\* removeConflicts(tx), one input after the other.
RemoveConflictsCode(p, t) ==
    FoldLeft(LAMBDA q, o : IF o \in DOMAIN q.mapNextTx /\ q.mapNextTx[o] # t
                           THEN RemoveCode(q, q.mapNextTx[o]) ELSE q,
             p, SetToSeq(Ins[t]))

\* accept(tx, fCheckInputs = FALSE).
ResurrectCode(p, t) ==
    IF t \in Gen \cup Nonstandard \cup p.mapTx \/ Ins[t] \cap DOMAIN p.mapNextTx # {}
    THEN p ELSE AddUnchecked(p, t)

\* The two loops at the end of Reorganize, over vResurrect and vDelete.
ReorganizeCode(p, vResurrect, vDelete) ==
    FoldLeft(LAMBDA q, t : RemoveConflictsCode(RemoveTx(q, {t}), t),
             FoldLeft(ResurrectCode, p, vResurrect), vDelete)
-----------------------------------------------------------------------------
\* The sequences that list S.
Orders(S) ==
    {[i \in 1 .. Cardinality(S) |-> f[SetToSeq(S)[i]]] : f \in Permutations(S)}

\* From every reachable pool the recursion of remove() takes out exactly the
\* dependents of the transaction, and whatever the order of vResurrect and
\* vDelete, the loops of Reorganize leave the same pool: nothing depends on
\* children coming before their parents.  (The orphans play no part in the
\* second; blocks of up to MaxOrdered transactions.)
MaxOrdered == 3
LoopsAgree ==
    /\ Idle => \A t \in Tx : RemoveCode(pool, t) = RemoveRecursive(pool, {t})
    /\ Idle /\ orphans = {} =>
         \A k \in 0 .. Len(chain) - 1, B \in SUBSET Tx :
            LET old == ConfirmedIn(SubSeq(chain, k + 1, Len(chain)))
            IN  /\ Cardinality(B) <= MaxOrdered /\ Cardinality(old) <= MaxOrdered
                /\ Connectable(ConfirmedIn(SubSeq(chain, 1, k)), B)
                => \A vr \in Orders(old), vd \in Orders(B) :
                      ReorganizeCode(pool, vr, vd) = PoolAfterReorganize(pool, old, B)
=============================================================================
