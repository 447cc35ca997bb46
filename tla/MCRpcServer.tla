---------------------------- MODULE MCRpcServer -----------------------------
(***************************************************************************)
(* Instances of RpcServer for TLC.                                         *)
(***************************************************************************)
EXTENDS RpcServer, TLC

CONSTANTS c1, c2, c3

\* What getpid() returns: different in each client.
PIDs == [c \in Client |-> CASE c = c1 -> 1 [] c = c2 -> 2 [] c = c3 -> 3]
=============================================================================
