----------------------------- MODULE MCTxRelay -----------------------------
(***************************************************************************)
(* Instance of TxRelay for TLC: the origin and two neighbours that are     *)
(* connected to each other as well.                                        *)
(***************************************************************************)
EXTENDS TxRelay

MCTriangle == {l \in Node \X Node : l[1] # l[2]}
=============================================================================
