------------------------------ MODULE MCWallet ------------------------------
(***************************************************************************)
(* An instance of Wallet.  The wallet pays t1, t2 of t1's change, and d of *)
(* more of t1's change and then of t2's.  A coinstake s, split in two, of  *)
(* a coin that t2 spends and of another is followed by a coinstake r of    *)
(* one half and a payment u, by a copy of the wallet file, of the other.   *)
(* t3 is a payment of the same change as d.                                *)
(* Block a1 holds t1 and t2, and is followed by an empty block or by f2,   *)
(* which does not connect; b1 holds s, and is followed by r and u or by t1.*)
(***************************************************************************)
EXTENDS Wallet
CONSTANTS c, t1, t2, t3, d, s, r, u, g, a1, a2, f2, b1, b2, h2

AllVin == (t1 :> <<<<c, 1>>>>) @@ (t2 :> <<<<t1, 0>>, <<c, 0>>>>) @@ (t3 :> <<<<t1, 1>>>>)
          @@ (d :> <<<<t1, 1>>, <<t2, 0>>>>) @@ (s :> <<<<c, 0>>, <<c, 2>>>>)
          @@ (r :> <<<<s, 2>>>>) @@ (u :> <<<<s, 1>>>>)
MCVin == [t \in Tx |-> AllVin[t]]
MCIns == [t \in Tx |-> Range(AllVin[t])]
MCNOut == [t \in Tx |-> IF t = s THEN 3 ELSE IF t \in {t1, r} THEN 2 ELSE 1]
MCMine == {<<c, 0>>, <<c, 1>>, <<c, 2>>, <<t1, 0>>, <<t1, 1>>, <<t2, 0>>, <<s, 1>>, <<s, 2>>, <<r, 1>>}
MCPrev == (a1 :> g) @@ (a2 :> a1) @@ (f2 :> a1) @@ (b1 :> g) @@ (b2 :> b1) @@ (h2 :> b1)
MCTxs == (g :> <<>>) @@ (a1 :> <<t1, t2>>) @@ (a2 :> <<>>) @@ (f2 :> <<>>)
         @@ (b1 :> <<s>>) @@ (b2 :> <<r, u>>) @@ (h2 :> <<t1>>)
MCTrust == [b \in Block |-> 1]
=============================================================================
