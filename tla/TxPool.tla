------------------------------- MODULE TxPool -------------------------------
(***************************************************************************)
(* The operations of CTxMemPool (main.cpp, main.h) on the value of a pool: *)
(* a record with mapTx, the set of transactions held, and mapNextTx, the   *)
(* map from each outpoint to the pool transaction that spends it.          *)
(* The transactions of the instance are constants: a transaction and its   *)
(* hash are the same thing, and an outpoint is a pair <<hash, n>>.         *)
(***************************************************************************)
EXTENDS Naturals, FiniteSets

CONSTANTS
    Tx,             \* transactions
    Coin,           \* hashes of transactions below the blocks of the model
    Ins,            \* Ins[t]: the outpoints t spends (vin)
    NOut            \* NOut[t]: how many outputs t has (vout.size())

Outpoint == (Tx \cup Coin) \X Nat

ASSUME TxAssumption ==
    /\ Coin \cap Tx = {}
    /\ Ins \in [Tx -> SUBSET Outpoint]
    /\ NOut \in [Tx -> Nat]

\* The outpoints of t's own outputs.
Outs(t) == {<<t, n>> : n \in 0 .. NOut[t] - 1}

EmptyPool == [mapTx |-> {}, mapNextTx |-> [o \in {} |-> o]]

\* Mutant: an input points at the transaction it spends from.
AddUncheckedPrev(p, t) ==
    [mapTx     |-> p.mapTx \cup {t},
     mapNextTx |-> [o \in DOMAIN p.mapNextTx \cup Ins[t] |->
                        IF o \in Ins[t] THEN o[1] ELSE p.mapNextTx[o]]]

\* addUnchecked(): every input of t now points at t.
AddUnchecked(p, t) ==
    [mapTx     |-> p.mapTx \cup {t},
     mapNextTx |-> [o \in DOMAIN p.mapNextTx \cup Ins[t] |->
                        IF o \in Ins[t] THEN t ELSE p.mapNextTx[o]]]

\* Mutant: the pool forgets the transactions but keeps what they spent.
RemoveKeepsSpends(p, S) ==
    [mapTx |-> p.mapTx \ S, mapNextTx |-> p.mapNextTx]

\* remove() without fRecursive, for every transaction of S that is in the pool.
RemoveTx(p, S) ==
    LET gone == DOMAIN p.mapNextTx \cap UNION {Ins[t] : t \in S \cap p.mapTx}
    IN  [mapTx     |-> p.mapTx \ S,
         mapNextTx |-> [o \in DOMAIN p.mapNextTx \ gone |-> p.mapNextTx[o]]]

\* S is closed under "the pool holds a spender of one of its outputs".
ClosedUnderSpends(p, S) ==
    \A t \in S : \A o \in Outs(t) \cap DOMAIN p.mapNextTx : p.mapNextTx[o] \in S

\* The pool transactions that remove(t, true) reaches from the members of S:
\* the smallest closed set around them.
Dependents(p, S) ==
    {t \in p.mapTx :
        \A C \in SUBSET p.mapTx : (S \cap p.mapTx \subseteq C /\ ClosedUnderSpends(p, C)) => t \in C}

\* Mutant: the recursion is lost, only S itself goes.
RemoveRecursiveShallow(p, S) == RemoveTx(p, S)

\* remove() with fRecursive, for every transaction of S.
RemoveRecursive(p, S) == RemoveTx(p, Dependents(p, S))

\* removeConflicts() for every transaction of S: the other spenders of their
\* inputs go, with everything that depends on them.
RemoveConflicts(p, S) ==
    LET spent == UNION {{<<o, t>> : o \in Ins[t]} : t \in S}
        rivals == {p.mapNextTx[s[1]] : s \in {s \in spent : /\ s[1] \in DOMAIN p.mapNextTx
                                                            /\ p.mapNextTx[s[1]] # s[2]}}
    IN  RemoveRecursive(p, rivals)

\* accept(tx, fCheckInputs = FALSE) for every transaction of S, in any order:
\* known transactions and those that conflict with the pool are refused.
\* The members of S come from one chain and so do not conflict with each other.
Resurrect(p, S) ==
    LET in == {t \in S \ p.mapTx : Ins[t] \cap DOMAIN p.mapNextTx = {}}
        ins == UNION {Ins[t] : t \in in}
    IN  [mapTx     |-> p.mapTx \cup in,
         mapNextTx |-> [o \in DOMAIN p.mapNextTx \cup ins |->
                            IF o \in ins THEN CHOOSE t \in in : o \in Ins[t]
                            ELSE p.mapNextTx[o]]]

\* The pool's two maps agree: mapNextTx holds exactly the inputs of mapTx, each
\* pointing at its one spender.  In particular no two transactions of the pool
\* spend the same output (accept, addUnchecked, remove, removeConflicts).
Consistent(p) ==
    /\ DOMAIN p.mapNextTx = UNION {Ins[t] : t \in p.mapTx}
    /\ \A t \in p.mapTx : \A o \in Ins[t] : p.mapNextTx[o] = t
=============================================================================
