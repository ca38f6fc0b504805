----------------------------- MODULE MCEthBatch -----------------------------
(***************************************************************************)
(* TLC instance of EthBatch.                                               *)
(***************************************************************************)
EXTENDS EthBatch

MCNumbers == {7, -1, -2}
=============================================================================
