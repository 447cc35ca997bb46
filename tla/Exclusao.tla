------------------------------ MODULE Exclusao ------------------------------
(***************************************************************************)
(* What the laboratory asks of every version of the program, whatever the  *)
(* transport (LAB2-NETKIT uses UDP datagrams, LAB07-SD remote calls):      *)
(* clients enter a critical section one at a time, there each one takes    *)
(* the shared counter, and what it leaves behind is the value that follows *)
(* it: one more in LAB2-NETKIT, twice as much in LAB07-SD.                 *)
(*                                                                         *)
(* The step between leaving and the new value being stored is visible,     *)
(* because the new value travels back to the server, and nobody may enter  *)
(* before it has arrived.  The value may be lost with its client or with   *)
(* its message: then the counter simply keeps its value.                   *)
(***************************************************************************)
EXTENDS Integers

CONSTANTS Client,        \* the clients
          Seguinte(_),   \* the value that follows a value of the counter
          ValorInicial   \* the counter at the start

VARIABLES dentro,    \* the clients inside the critical section
          pendente,  \* a new value is on its way to the server
          valor      \* the shared counter

exVars == <<dentro, pendente, valor>>

Init ==
  /\ dentro = {}
  /\ pendente = FALSE
  /\ valor = ValorInicial

\* c enters: nobody is inside, and the last value left has arrived.
Entrar(c) ==
  /\ dentro = {}
  /\ ~pendente
  /\ dentro' = {c}
  /\ UNCHANGED <<pendente, valor>>

\* c leaves, and sends the new value.
Sair(c) ==
  /\ dentro = {c}
  /\ dentro' = {}
  /\ pendente' = TRUE
  /\ UNCHANGED valor

\* c stops inside, or its new value is not sent.
Cair(c) ==
  /\ dentro = {c}
  /\ dentro' = {}
  /\ UNCHANGED <<pendente, valor>>

\* The server stores the new value.
Guardar ==
  /\ pendente
  /\ pendente' = FALSE
  /\ valor' = Seguinte(valor)
  /\ UNCHANGED dentro

\* The new value is lost on its way.
Perder ==
  /\ pendente
  /\ pendente' = FALSE
  /\ UNCHANGED <<dentro, valor>>

Next ==
  \/ \E c \in Client : Entrar(c) \/ Sair(c) \/ Cair(c)
  \/ Guardar
  \/ Perder

Spec == Init /\ [][Next]_exVars
=============================================================================
