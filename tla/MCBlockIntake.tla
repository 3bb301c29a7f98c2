---------------------------- MODULE MCBlockIntake ----------------------------
(***************************************************************************)
(* Instances of BlockIntake for TLC.                                       *)
(***************************************************************************)
EXTENDS BlockIntake, TLC

\* Branches a1-a2-a3 and b1-b2, and a bad block x2 with a child x3 on b1.
\* a2 and b2 use the same stake; b2 is too light once a1 is the checkpoint.
MCPrev ==
    "a1" :> "g" @@ "a2" :> "a1" @@ "a3" :> "a2" @@ "b1" :> "g" @@ "b2" :> "b1" @@
    "x2" :> "b1" @@ "x3" :> "x2"
MCBlock == DOMAIN MCPrev \cup {"g"}
MCTrust == [b \in MCBlock |-> 1]
MCStake == [b \in MCBlock |-> IF b \in {"a2", "b2"} THEN "k" ELSE "none"]
MCLight == {<<"a1", "b2">>}
MCHardened == 0 :> {"g"}
\* A new version, whose hardened checkpoints are on the b branch, and one that
\* hardens a block this node rejects.
MCUpgrade == 0 :> {"g"} @@ 1 :> {"g", "b1", "b2"} @@ 2 :> {"g", "b1", "x2"}

\* Three blocks p2, q2 and r2 with one stake; q3 is a child of q2.
OSPrev == "p1" :> "g" @@ "p2" :> "p1" @@ "q1" :> "g" @@ "q2" :> "q1" @@ "q3" :> "q2" @@ "r2" :> "q1"
OSBlock == DOMAIN OSPrev \cup {"g"}
OSTrust == [b \in OSBlock |-> 1]
OSStake == [b \in OSBlock |-> IF b \in {"p2", "q2", "r2"} THEN "k" ELSE "none"]
=============================================================================
