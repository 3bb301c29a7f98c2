---------------------------- MODULE MCChainState ----------------------------
(***************************************************************************)
(* Instance of ChainState for TLC: a block of height 1 that pays the       *)
(* premine, a branch a2-a3 with a spend of an output of the same block, a  *)
(* rival branch x2-x3-x4 that spends the same output of the premine,       *)
(* carries a coinstake and ends with a spend of the postmine, a block p3   *)
(* that spends the postmine a block too early for all but the nodes that   *)
(* come from a3, and two invalid branches: i3-i4 with a double spend, j3   *)
(* with a spend of an immature coinbase.                                   *)
(***************************************************************************)
EXTENDS ChainState

MCPrev ==
    "b1" :> "g" @@ "a2" :> "b1" @@ "a3" :> "a2" @@ "x2" :> "b1" @@ "x3" :> "x2" @@
    "x4" :> "x3" @@ "p3" :> "x2" @@ "i3" :> "a2" @@ "i4" :> "i3" @@ "j3" :> "a2"

MCTxs ==
    "g" :> <<>> @@ "b1" :> <<"c1">> @@
    "a2" :> <<"c2a", "s", "w">> @@ "a3" :> <<"c3", "z">> @@
    "x2" :> <<"c2x", "u", "z">> @@ "x3" :> <<"c3e", "k">> @@ "x4" :> <<"c4", "q">> @@
    "p3" :> <<"c3e", "k", "q">> @@
    "i3" :> <<"c3", "u">> @@ "i4" :> <<"c4">> @@
    "j3" :> <<"c3j", "y">>

\* s and u spend the same output of the premine, k stakes another and z, which is
\* in both branches, spends the third; s pays a fee that the coinbase c2a collects.
\* q spends the output of u, the postmine, and pays out its full worth.
MCVin ==
    [t \in {"c1", "c2a", "c2x", "c3", "c3e", "c3j", "c4"} |-> <<>>] @@
    "s" :> <<<<"c1", 0>>>> @@ "u" :> <<<<"c1", 0>>>> @@ "k" :> <<<<"c1", 1>>>> @@
    "w" :> <<<<"s", 0>>>> @@ "z" :> <<<<"c1", 2>>>> @@
    "y" :> <<<<"c3j", 0>>>> @@ "q" :> <<<<"u", 0>>>>
MCIns == [t \in DOMAIN MCVin |-> Range(MCVin[t])]
MCTx == DOMAIN MCIns

MCVal ==
    [t \in {"c2x", "c3", "c3e", "c4"} |-> [n \in {} |-> 0]] @@
    "c1" :> [n \in {0, 1, 2} |-> 2] @@ "c2a" :> [n \in {0} |-> 1] @@ "c3j" :> [n \in {0} |-> 0] @@
    "s" :> [n \in {0} |-> 1] @@ "u" :> [n \in {0} |-> 2] @@ "k" :> [n \in {0} |-> 3] @@
    "w" :> [n \in {0} |-> 1] @@ "y" :> [n \in {0} |-> 0] @@
    "z" :> [n \in {0} |-> 2] @@ "q" :> [n \in {0} |-> 7]
MCNOut == [t \in MCTx |-> Cardinality(DOMAIN MCVal[t])]

MCCoinBase == {"c1", "c2a", "c2x", "c3", "c3e", "c3j", "c4"}
MCGen == MCCoinBase \cup {"k"}

\* A proof-of-stake block counts double.
MCAll == {"g", "b1", "a2", "a3", "x2", "x3", "x4", "p3", "i3", "i4", "j3"}
MCTrust == [b \in MCAll |-> IF b \in {"x3", "p3"} THEN 2 ELSE 1]

\* The coinstake takes all that its age earns.
MCAgeReward == [b \in MCAll |-> IF b \in {"x3", "p3"} THEN 1 ELSE 0]
=============================================================================
