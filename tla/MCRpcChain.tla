----------------------------- MODULE MCRpcChain -----------------------------
(***************************************************************************)
(* TLC instances of RpcChain.                                              *)
(***************************************************************************)
EXTENDS RpcChain, TLC

\* RPCs are interchangeable.
RpcSymmetry == Permutations(Rpcs)
=============================================================================
