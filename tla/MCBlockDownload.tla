-------------------------- MODULE MCBlockDownload --------------------------
(***************************************************************************)
(* Instance of BlockDownload for TLC: batches of two stand for the code's  *)
(* 500, four for its 1000.  One chain is all proof of work, the other ends *)
(* in a long tail of proof of stake (LAST_POW_BLOCK is 1000).              *)
(***************************************************************************)
EXTENDS BlockDownload

MCPowChains == {Height, {0, 1}}
=============================================================================
