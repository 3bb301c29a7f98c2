--------------------------- MODULE SyncCheckpoint ---------------------------
(***************************************************************************)
(* Synchronized checkpoints (checkpoints.cpp): the last checkpoint the     *)
(* master key signed, the one waiting for its block, and the tests that    *)
(* blocks and new checkpoints must pass.  The state and the operators;     *)
(* BlockIntake has the actions.                                            *)
(***************************************************************************)
EXTENDS BlockTree

CONSTANTS
    Bad,            \* blocks ConnectBlock rejects (see ChainState)
    Hardened,       \* Hardened[v]: mapCheckpoints of version v of the executable
    None

ASSUME CheckpointAssumption ==
    /\ Bad \subseteq Block \ {Genesis}
    /\ \A v \in DOMAIN Hardened :
         /\ Genesis \in Hardened[v] /\ Hardened[v] \subseteq Block
         /\ \E h \in Hardened[v] : \A g \in Hardened[v] : nHeight(g) <= nHeight(h)
    /\ None \notin Block

VARIABLES
    mapBlockIndex,          \* blocks indexed, in memory and on disk
    hashBestChain,          \* best block in memory
    dbBest,                 \* best block on disk
    hashSyncCheckpoint,     \* in memory and on disk
    hashPendingCheckpoint,  \* memory only
    hashInvalidCheckpoint   \* memory only: puts the node in safe mode
-----------------------------------------------------------------------------
\* IsInMainChain: pnext or pindexBest says so, and pnext follows the best chain
\* (PnextIsBestChain of ChainState).
IsInMainChain(b) == OnPath(b, hashBestChain)

\* Mutant: heights are compared, ancestry is not.
CheckSyncHeight(b) == nHeight(b) > nHeight(hashSyncCheckpoint)

\* CheckSync: only descendants of the checkpoint, and blocks known before it.
CheckSync(b) ==
    LET sync == hashSyncCheckpoint
    IN  /\ nHeight(b) > nHeight(sync) => OnPath(sync, Prev[b])
        /\ nHeight(b) = nHeight(sync) => b = sync
        /\ nHeight(b) < nHeight(sync) => b \in mapBlockIndex

\* CheckHardened: no other block at the height of a hardened checkpoint.
CheckHardened(v, b) == \A h \in Hardened[v] : nHeight(h) = nHeight(b) => h = b

\* Mutant: any later block may follow the current checkpoint.
ValidateHigher(c) == nHeight(c) > nHeight(hashSyncCheckpoint)

\* ValidateSyncCheckpoint returns true: a proper descendant of the current one.
ValidateSyncCheckpoint(c) ==
    nHeight(c) > nHeight(hashSyncCheckpoint) /\ OnPath(hashSyncCheckpoint, c)

\* ValidateSyncCheckpoint finds a conflict: on another branch, not just older.
Conflicting(c) ==
    IF nHeight(c) <= nHeight(hashSyncCheckpoint) THEN ~OnPath(c, hashSyncCheckpoint)
    ELSE ~OnPath(hashSyncCheckpoint, c)

IsHighest(h, S) == h \in S /\ \A g \in S : nHeight(g) <= nHeight(h)

\* The last of mapCheckpoints.
LastHardened(v) == CHOOSE h \in Hardened[v] : IsHighest(h, Hardened[v])
-----------------------------------------------------------------------------
\* The blocks SetBestChain(b) has to connect.
ToConnect(b) == Ancestors[b] \ Ancestors[hashBestChain]

\* Reorganize stops at a bad block up to the first one with more trust than the
\* best chain ...
SetBestChainFails(b) ==
    \E x \in ToConnect(b) \cap Bad :
        \A y \in (ToConnect(b) \cap Ancestors[x]) \ {x} : nChainTrust[y] <= nChainTrust[hashBestChain]

Good(b) == Ancestors[b] \cap Bad = {}

SetBestChainOK(b) ==
    /\ ~SetBestChainFails(b) /\ Good(b)
    /\ hashBestChain' = b /\ dbBest' = b

\* ... and when a bad block comes later, some c before it is the last block that
\* gets connected, but memory names b all the same (SecondaryFails of ChainState).
SetBestChainSplits(b) ==
    /\ ~SetBestChainFails(b) /\ ~Good(b)
    /\ hashBestChain' = b
    /\ \E c \in Ancestors[b] :
         /\ Good(c) /\ \A d \in Ancestors[b] : Good(d) => OnPath(d, c)
         /\ dbBest' = c

\* SetBestChain returns true.
SetBestChain(b) == SetBestChainOK(b) \/ SetBestChainSplits(b)
=============================================================================
