----------------------------- MODULE BlockTree -----------------------------
(***************************************************************************)
(* The tree of blocks: CBlockIndex's pprev, nHeight and nChainTrust.       *)
(***************************************************************************)
EXTENDS Integers, FiniteSets, Sequences

CONSTANTS
    Block, Genesis,
    Prev,           \* Prev[b]: hashPrevBlock
    BlockTrust      \* BlockTrust[b]: GetBlockTrust() of its nBits

\* The sets of blocks closed under pprev.
PprevClosed == {S \in SUBSET Block : \A c \in S \ {Genesis} : Prev[c] \in S}

\* b and the blocks its pprev pointers lead to.
Ancestors == [b \in Block |-> {a \in Block : \A S \in PprevClosed : b \in S => a \in S}]

\* The tree is finite and rooted: a hash cannot name a block that comes after it.
\* AcceptBlock wants the nBits of GetNextTargetRequired, so a block's trust is not 0.
ASSUME TreeAssumption ==
    /\ IsFiniteSet(Block)
    /\ Genesis \in Block
    /\ Prev \in [Block \ {Genesis} -> Block]
    /\ BlockTrust \in [Block -> Nat \ {0}]
    /\ \A b \in Block : Genesis \in Ancestors[b]

\* The path from genesis (excluded) to b.
PathTo[b \in Block] == IF b = Genesis THEN <<>> ELSE Append(PathTo[Prev[b]], b)

nHeight(b) == Cardinality(Ancestors[b]) - 1

nChainTrust[b \in Block] ==
    BlockTrust[b] + IF b = Genesis THEN 0 ELSE nChainTrust[Prev[b]]

OnPath(a, b) == a \in Ancestors[b]

\* The deepest common ancestor of two blocks.
Fork(a, b) ==
    CHOOSE f \in Block : /\ OnPath(f, a) /\ OnPath(f, b)
                         /\ \A g \in Block : OnPath(g, a) /\ OnPath(g, b) => OnPath(g, f)

\* The blocks after ancestor f on the way to b.
After(f, b) == SubSeq(PathTo[b], nHeight(f) + 1, nHeight(b))
=============================================================================
