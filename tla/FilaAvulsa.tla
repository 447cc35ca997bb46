----------------------------- MODULE FilaAvulsa ------------------------------
(***************************************************************************)
(* The stand-alone program fila.c: its own copy of the queue, which does   *)
(* not look for the client before it inserts it, and a main program that   *)
(* inserts clients with random stamps and then removes them all.           *)
(*                                                                         *)
(* removeItem allocates the size of a pointer for the item it returns, and *)
(* writes the whole item there: the bytes behind it may be the heap's, and *)
(* a later malloc or free may notice and abort.                            *)
(***************************************************************************)
EXTENDS Fila

CONSTANTS N,        \* the capacity of the queue (10 in the code)
          Voltas,   \* the turns of either loop (10 in the code)
          Tempos    \* what rand() % 10 returns

VARIABLES pc,       \* "insere", "remove", "fim", or "erro" after a crash
          volta,        \* the turns the loop has made
          fila,     \* the queue
          saida     \* the items that removeItem has returned

vars == <<pc, volta, fila, saida>>
-----------------------------------------------------------------------------
\* insere of fila.c.
insereSempre(q, n, e) ==
  IF Len(q) < n THEN Inserir(q, Posicao(q, e.tempo), e) ELSE q

Init ==
  /\ pc = "insere"
  /\ volta = 0
  /\ fila = << >>
  /\ saida = << >>

\* A turn of the first loop: the PIDs are 1, 2, ..., in this order.
Insere ==
  /\ pc = "insere" /\ volta < Voltas
  /\ \E t \in Tempos :
       fila' = insereSempre(fila, N, [PID |-> volta + 1, tempo |-> t])
  /\ volta' = volta + 1
  /\ UNCHANGED <<pc, saida>>

Muda ==
  /\ pc = "insere" /\ volta >= Voltas
  /\ pc' = "remove"
  /\ volta' = 0
  /\ UNCHANGED <<fila, saida>>

\* A turn of the second loop ...
Remove ==
  /\ pc = "remove" /\ volta < Voltas /\ fila # << >>
  /\ fila' = removeItem(fila)
  /\ saida' = Append(saida, Head(fila))
  /\ volta' = volta + 1
  /\ UNCHANGED pc

\* ... that finds the queue empty, and dereferences the NULL it gets ...
RemoveVazia ==
  /\ pc = "remove" /\ volta < Voltas /\ fila = << >>
  /\ pc' = "erro"
  /\ UNCHANGED <<volta, fila, saida>>

\* ... or is the one in which the allocator notices.
Aborta ==
  /\ pc = "remove" /\ volta < Voltas /\ fila # << >>
  /\ pc' = "erro"
  /\ UNCHANGED <<volta, fila, saida>>

Acaba ==
  /\ pc = "remove" /\ volta >= Voltas
  /\ pc' = "fim"
  /\ UNCHANGED <<volta, fila, saida>>

Next == Insere \/ Muda \/ Remove \/ RemoveVazia \/ Aborta \/ Acaba

Spec == Init /\ [][Next]_vars
-----------------------------------------------------------------------------
\* What the constants of the program give: the queue has room for all.
Cabem == N \in Nat /\ Voltas \in Nat /\ Voltas <= N /\ Tempos \subseteq Int

Itens == [PID : Int, tempo : Int]

\* Types, and how far the program is.
TypeOK ==
  /\ pc \in {"insere", "remove", "fim", "erro"}
  /\ volta \in 0 .. Voltas
  /\ fila \in Seq(Itens) /\ saida \in Seq(Itens)
  /\ pc = "insere" => Len(fila) = volta /\ saida = << >>
  /\ pc # "insere" => Len(saida) = volta /\ Len(saida) + Len(fila) = Voltas
  /\ pc = "fim" => volta = Voltas

\* What has been removed is in the order of the stamps, and nothing in the
\* queue should have come before it.
SaidaOrdenada == Ordenada(saida \o fila)

\* No item is removed twice.
CadaUmUmaVez == UmaPorPID(saida \o fila)

\* The second loop never finds the queue empty, and it leaves it empty, with
\* every item removed.
NuncaVazia ==
  /\ pc = "remove" /\ volta < Voltas => fila # << >>
  /\ pc = "fim" => fila = << >> /\ Len(saida) = Voltas
=============================================================================
