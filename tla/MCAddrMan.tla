------------------------------ MODULE MCAddrMan ------------------------------
(***************************************************************************)
(* Instance of AddrMan for TLC: four addresses, three of which share a     *)
(* tried bucket; a is told of by two sources, into two new buckets.        *)
(***************************************************************************)
EXTENDS AddrMan

MCAddr == {"a", "b", "c", "d"}
MCTried == [x \in MCAddr |-> IF x = "d" THEN 2 ELSE 1]
MCHeard == {<<"a", "s">>, <<"a", "t">>, <<"b", "s">>, <<"c", "t">>, <<"d", "s">>}
MCNew == [p \in MCAddr \X {"s", "t"} |-> IF p[2] = "s" THEN 1 ELSE 2]
=============================================================================
