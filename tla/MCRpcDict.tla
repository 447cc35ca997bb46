----------------------------- MODULE MCRpcDict ------------------------------
(***************************************************************************)
(* Instances of RpcDict for TLC.  The clients and the words are            *)
(* interchangeable, and no property of the runs is a liveness property.    *)
(***************************************************************************)
EXTENDS RpcDict, TLC

CONSTANTS c1, c2, w1, w2, t1, t2

Simetria == Permutations(Client) \cup Permutations(Palavra)
=============================================================================
