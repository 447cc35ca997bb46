----------------------------- MODULE Dicionario ------------------------------
(***************************************************************************)
(* What the dictionary of LAB07-SD/thread-RPC.c promises to callers that   *)
(* keep to its contract: one call is served at a time, and no word is      *)
(* inserted into a full dictionary.  A call that has been received then    *)
(* has its effect once, in one step, and is answered with its result.      *)
(*                                                                         *)
(* Once a caller has left the contract, fora is TRUE and nothing is        *)
(* promised any more.                                                      *)
(***************************************************************************)
EXTENDS Integers

CONSTANTS Palavra,      \* the words
          Nulo,         \* no word, in a call without arguments
          Capacidade    \* how many words there is room for

VARIABLES conteudo,     \* how often each word is in the dictionary
          quantas,      \* how many words are
          chamada,      \* the call that is served
          resultado,    \* its result, once it has had its effect
          fora          \* whether the contract has been left

dicVars == <<conteudo, quantas, chamada, resultado, fora>>

Nenhuma == [proc |-> "NULLPROC", w |-> Nulo]
Vazio == [w \in Palavra |-> 0]

Init ==
  /\ conteudo = Vazio /\ quantas = 0
  /\ chamada = Nenhuma /\ resultado = {}
  /\ fora = FALSE

Recebe(p, w) ==
  /\ chamada = Nenhuma
  /\ chamada' = [proc |-> p, w |-> w]
  /\ UNCHANGED <<conteudo, quantas, resultado, fora>>

RecebeAlguma ==
  \/ Recebe("INITW", Nulo)
  \/ \E p \in {"INSERTW", "DELETEW", "LOOKUPW"}, w \in Palavra : Recebe(p, w)

\* The call, of p, has had no effect yet, and now has it, with result r.
Efetua(p, r) ==
  /\ chamada.proc = p
  /\ resultado = {} /\ resultado' = {r}
  /\ UNCHANGED <<chamada, fora>>

Inicia ==
  /\ Efetua("INITW", 1)
  /\ conteudo' = Vazio /\ quantas' = 0

Insere ==
  /\ quantas < Capacidade
  /\ Efetua("INSERTW", quantas + 1)
  /\ conteudo' = [conteudo EXCEPT ![chamada.w] = @ + 1]
  /\ quantas' = quantas + 1

Apaga ==
  /\ Efetua("DELETEW", 1)
  /\ conteudo[chamada.w] > 0
  /\ conteudo' = [conteudo EXCEPT ![chamada.w] = @ - 1]
  /\ quantas' = quantas - 1

NaoApaga ==
  /\ Efetua("DELETEW", 0)
  /\ conteudo[chamada.w] = 0
  /\ UNCHANGED <<conteudo, quantas>>

Procura ==
  /\ \/ Efetua("LOOKUPW", 1) /\ conteudo[chamada.w] > 0
     \/ Efetua("LOOKUPW", 0) /\ conteudo[chamada.w] = 0
  /\ UNCHANGED <<conteudo, quantas>>

Responde ==
  /\ resultado # {} /\ resultado' = {}
  /\ chamada' = Nenhuma
  /\ UNCHANGED <<conteudo, quantas, fora>>

Dentro ==
  ~fora /\ (RecebeAlguma \/ Inicia \/ Insere \/ Apaga \/ NaoApaga \/ Procura \/ Responde)
Sair == ~fora /\ fora'
Fora == fora /\ fora'

Next == Dentro \/ Sair \/ Fora

Spec == Init /\ [][Next]_dicVars
=============================================================================
