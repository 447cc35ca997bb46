-------------------------------- MODULE Fila --------------------------------
(***************************************************************************)
(* The waiting queue of the central server: the linked list that every     *)
(* server of the repository carries (LAB2-NETKIT/servidor.c, the RPC       *)
(* servers of LAB07-SD and the stand-alone fila.c), as operators on a      *)
(* sequence of entries.  Entry 1 is fila->head, and fila->tamanho is       *)
(* Len(q).  An entry is a record with at least the fields PID and tempo.   *)
(*                                                                         *)
(* No operator is RECURSIVE, so that theorems can be proved about them.    *)
(***************************************************************************)
EXTENDS Integers, Sequences

\* A linked list in which some entry already carries this PID.
EstaNaFila(q, PID) == \E i \in DOMAIN q : q[i].PID = PID

\* Variants of Posicao, each with one plausible bug: the new entry always
\* goes last, or always first.
PosicaoNoFim(q, t) == Len(q)
PosicaoNaFrente(q, t) == 0

(***************************************************************************)
(* The number of entries that stay in front of a new entry stamped t.      *)
(* Only the head is compared with >.  Behind the head the walk goes on     *)
(* while the next entry is strictly smaller, so a new entry is put behind  *)
(* a head of the same stamp, and in front of any other entry of the same   *)
(* stamp.                                                                  *)
(***************************************************************************)
Posicao(q, t) ==
  IF q = << >> \/ q[1].tempo > t
    THEN 0
    ELSE CHOOSE p \in 1 .. Len(q) :
           /\ p = Len(q) \/ q[p + 1].tempo >= t
           /\ \A k \in 2 .. p : q[k].tempo < t

\* The sequence q with e put behind its first p entries.
Inserir(q, p, e) ==
  [i \in 1 .. Len(q) + 1 |-> IF i <= p THEN q[i]
                             ELSE IF i = p + 1 THEN e
                             ELSE q[i - 1]]

\* insere() refuses an entry, and returns 0, when one of these tests fails.
\* Variant: one place is left unused.
CabeUmaAMenos(q, N, PID) == Len(q) + 1 < N /\ ~EstaNaFila(q, PID)
CabeNaFila(q, N, PID) == Len(q) < N /\ ~EstaNaFila(q, PID)

insere(q, N, e) ==
  IF CabeNaFila(q, N, e.PID) THEN Inserir(q, Posicao(q, e.tempo), e) ELSE q

\* removeItem() of a queue that is not empty: what stays behind the head.
removeItem(q) == Tail(q)
-----------------------------------------------------------------------------
\* What the rest of the server relies on: the smallest stamp is at the head,
\* and so on down the list ...
Ordenada(q) ==
  \A i, j \in DOMAIN q : i < j => q[i].tempo <= q[j].tempo

\* ... and a client waits at most once.
UmaPorPID(q) ==
  \A i, j \in DOMAIN q : q[i].PID = q[j].PID => i = j
=============================================================================
