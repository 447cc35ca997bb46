-------------------------- MODULE MCCentralServer ---------------------------
(***************************************************************************)
(* Instances of CentralServer for TLC.                                     *)
(***************************************************************************)
EXTENDS CentralServer, TLC

CONSTANTS c1, c2, c3

\* 300 does not fit in a char, and is 44 in Token.flag.
PIDs == [c \in Client |-> CASE c = c1 -> 1 [] c = c2 -> 300 [] c = c3 -> 2]
\* 0 ends its client at rand() % PID.
PIDsZero == [PIDs EXCEPT ![c1] = 0]
\* In a char, 255 is the -1 of a free token.
PIDs255 == [PIDs EXCEPT ![c1] = 255]
=============================================================================
