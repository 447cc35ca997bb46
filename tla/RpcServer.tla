------------------------------ MODULE RpcServer -------------------------------
(***************************************************************************)
(* The Sun RPC version of the program, LAB07-SD/backup: servidor.c owns a  *)
(* resource, TOKEN, and each process of cliente-2.c calls req to have it,  *)
(* doubles it, and calls rel to give it back.                              *)
(*                                                                         *)
(* Actors.  A client is a single-threaded loop that blocks in each call    *)
(* for 25 s at most, and ends when a call fails.  The server has one       *)
(* thread, in svc_run: while req_1_svc waits for its client to be at the   *)
(* head of the queue, in sleep(1), no other call is served.                *)
(*                                                                         *)
(* Network.  One TCP connection for each client, with one call or one      *)
(* answer in it at most.  It outlives its client: what a client has sent   *)
(* before it ended is served all the same.                                 *)
(*                                                                         *)
(* Integers.  The clocks are longs, and travel as 32 bits: xdr_long does   *)
(* not encode a larger one, and the call fails.  The resource is doubled   *)
(* in a C int, which wraps around.  ClockMax and ValorMax stand for        *)
(* INT_MAX in the two uses.                                                *)
(***************************************************************************)
EXTENDS Fila

CONSTANTS Client,       \* the client processes
          PID,          \* what getpid() returns in each one
          N,            \* the capacity of the queue (10 in the code)
          ClockMax,     \* INT_MAX, as the largest clock that travels
          ValorMax,     \* INT_MAX, as the bound of the resource
          MayOvertake,  \* whether a request may be stamped before the head
          MayExit       \* whether a process may be stopped from outside

\* A C int, in two's complement, whose largest value is max.
CInt(max) == -(max + 1) .. max
ToInt(max, x) == ((x + max + 1) % (2 * (max + 1))) - (max + 1)

ASSUME PIDAssumption == PID \in [Client -> Int]
ASSUME NAssumption == N \in Nat \ {0}
ASSUME ClockAssumption == ClockMax \in Nat \ {0}
ASSUME ValorAssumption == ValorMax \in Nat /\ ValorMax >= 2
ASSUME FaultAssumption == MayOvertake \in BOOLEAN /\ MayExit \in BOOLEAN

VARIABLES pc,        \* where each client is
          TEMPO,     \* the clock of each client
          rec,       \* rep_out->recurso of each client that has the token
          canal,     \* the call or the answer in each connection
          servidor,  \* "ativo", or "fim" once the process has ended
          emCurso,   \* the client whose req call is in its waiting loop
          srvTEMPO,  \* the server's clock
          TOKEN,     \* the resource
          fila       \* the queue

clientVars == <<pc, TEMPO, rec>>
serverVars == <<servidor, emCurso, srvTEMPO, TOKEN, fila>>
vars == <<pc, TEMPO, rec, canal, servidor, emCurso, srvTEMPO, TOKEN, fila>>
-----------------------------------------------------------------------------
(***************************************************************************)
(* Data.  What xdr encodes of each structure, without the fields that are  *)
(* only printed: pid_c of a release and of an answer.                      *)
(***************************************************************************)
Vazio == [proc |-> "NADA"]
Requisicao(c, t) == [proc |-> "REQ", pid_c |-> PID[c], tempo |-> t]
Liberacao(t, v) == [proc |-> "REL", tempo |-> t, recurso |-> v]
Resposta(t, v) == [proc |-> "RESPOSTA", tempo |-> t, recurso |-> v]
Feito == [proc |-> "FEITO"]
Erro == [proc |-> "ERRO"]

\* xdr_long encodes a long that fits in 32 bits, and fails otherwise.
Codifica(t) == t \in CInt(ClockMax)

\* The larger of two clocks, plus one.
Avanca(s, t) == IF s > t THEN s + 1 ELSE t + 1

\* Variant: the client doubles it in a long, the type of the field.
DobroLongo(v) == IF v < 0 THEN 2 ELSE v * 2

\* The resource after its client: 2 the first time, then doubled as an int.
Dobro(v) == IF v < 0 THEN 2 ELSE ToInt(ValorMax, v * 2)

\* insere() of servidor.c, with the item that it allocates for a request.
Entrada(m) == [PID |-> m.pid_c, tempo |-> m.tempo]
Enfileira(q, m) == insere(q, N, Entrada(m))

\* removeItem() does nothing to an empty queue.
Remove(q) == IF q = << >> THEN q ELSE removeItem(q)
-----------------------------------------------------------------------------
(***************************************************************************)
(* Variants of the handlers below, each with one plausible bug.  They are  *)
(* no part of Spec: each one is a change of the code that some property    *)
(* must notice.                                                            *)
(***************************************************************************)
\* The loop looks for the client anywhere in the queue.
ReqConcedeNaFila(c) ==
  /\ c \in emCurso
  /\ EstaNaFila(fila, PID[c])
  /\ srvTEMPO' = srvTEMPO + 1
  /\ canal' = [canal EXCEPT ![c] = IF Codifica(srvTEMPO + 1)
                                     THEN Resposta(srvTEMPO + 1, TOKEN) ELSE Erro]
  /\ emCurso' = {}
  /\ UNCHANGED <<clientVars, servidor, TOKEN, fila>>

\* rel_1_svc with another resource stored, queue left and answer given.
RelCom(c, novo, resto, m) ==
  /\ servidor = "ativo" /\ emCurso = {} /\ canal[c].proc = "REL"
  /\ TOKEN' = novo
  /\ srvTEMPO' = Avanca(srvTEMPO, canal[c].tempo)
  /\ fila' = resto
  /\ canal' = [canal EXCEPT ![c] = m]
  /\ UNCHANGED <<clientVars, servidor, emCurso>>

\* The server doubles the resource as well.
RelDobra(c) == RelCom(c, Dobro(canal[c].recurso), Remove(fila), Feito)
\* The head stays.
RelSemRemover(c) == RelCom(c, canal[c].recurso, fila, Feito)
\* rel_1_svc returns NULL, and the dispatcher sends nothing.
RelSemResposta(c) == RelCom(c, canal[c].recurso, Remove(fila), Vazio)
-----------------------------------------------------------------------------
ClientInit ==
  /\ pc = [c \in Client |-> "start"]
  /\ TEMPO = [c \in Client |-> 0]
  /\ rec = [c \in Client |-> 0]
  /\ canal = [c \in Client |-> Vazio]

ServerInit ==
  /\ servidor = "ativo"
  /\ emCurso = {}
  /\ srvTEMPO = 0
  /\ TOKEN = -1
  /\ fila = << >>

Init == ClientInit /\ ServerInit

(***************************************************************************)
(* The client.                                                             *)
(***************************************************************************)
\* clnt_call sends m and blocks at the label l, or fails at once, and with
\* it the client, when m cannot be encoded.
clnt_call(c, m, l) ==
  \/ /\ Codifica(m.tempo)
     /\ canal' = [canal EXCEPT ![c] = m]
     /\ pc' = [pc EXCEPT ![c] = l]
  \/ /\ ~Codifica(m.tempo)
     /\ pc' = [pc EXCEPT ![c] = "fim"]
     /\ UNCHANGED canal

CallReq(c) ==
  /\ pc[c] = "start"
  /\ TEMPO' = [TEMPO EXCEPT ![c] = @ + 1]
  /\ clnt_call(c, Requisicao(c, TEMPO[c] + 1), "req")
  /\ UNCHANGED <<rec, serverVars>>

ReturnReq(c) ==
  /\ pc[c] = "req"
  /\ canal[c].proc = "RESPOSTA"
  /\ pc' = [pc EXCEPT ![c] = "crit"]
  /\ TEMPO' = [TEMPO EXCEPT ![c] = Avanca(@, canal[c].tempo)]
  /\ rec' = [rec EXCEPT ![c] = canal[c].recurso]
  /\ canal' = [canal EXCEPT ![c] = Vazio]
  /\ UNCHANGED serverVars

\* recurso is dead from here to the next answer, which 0 stands for.
CallRel(c) ==
  /\ pc[c] = "crit"
  /\ TEMPO' = [TEMPO EXCEPT ![c] = @ + 1]
  /\ clnt_call(c, Liberacao(TEMPO[c] + 1, Dobro(rec[c])), "rel")
  /\ rec' = [rec EXCEPT ![c] = 0]
  /\ UNCHANGED serverVars

ReturnRel(c) ==
  /\ pc[c] = "rel"
  /\ canal[c].proc = "FEITO"
  /\ pc' = [pc EXCEPT ![c] = "start"]
  /\ canal' = [canal EXCEPT ![c] = Vazio]
  /\ UNCHANGED <<TEMPO, rec, serverVars>>

\* The server answers that it could not encode its answer.
CallFails(c) ==
  /\ pc[c] \in {"req", "rel"}
  /\ canal[c].proc = "ERRO"
  /\ pc' = [pc EXCEPT ![c] = "fim"]
  /\ canal' = [canal EXCEPT ![c] = Vazio]
  /\ UNCHANGED <<TEMPO, rec, serverVars>>

\* 25 s have passed, or the server has ended.  The call is not taken back.
Timeout(c) ==
  /\ pc[c] \in {"req", "rel"}
  /\ pc' = [pc EXCEPT ![c] = "fim"]
  /\ UNCHANGED <<TEMPO, rec, canal, serverVars>>

ClientExit(c) ==
  /\ MayExit
  /\ pc[c] # "fim"
  /\ pc' = [pc EXCEPT ![c] = "fim"]
  /\ UNCHANGED <<TEMPO, rec, canal, serverVars>>
-----------------------------------------------------------------------------
(***************************************************************************)
(* The server.                                                             *)
(***************************************************************************)
\* What the dispatcher asks for to serve a call proc of c: the only thread
\* is back in svc_run, and the call has arrived.
Despacha(c, proc) ==
  /\ servidor = "ativo"
  /\ emCurso = {}
  /\ canal[c].proc = proc

\* svc_sendreply, and svcerr_systemerr when a field cannot be encoded.
svc_sendreply(c, m) ==
  canal' = [canal EXCEPT ![c] = IF Codifica(m.tempo) THEN m ELSE Erro]

\* req_1_svc, up to its loop.  The result of insere is not looked at.
ReqInsere(c) ==
  /\ Despacha(c, "REQ")
  /\ fila' = Enfileira(fila, canal[c])
  /\ emCurso' = {c}
  /\ canal' = [canal EXCEPT ![c] = Vazio]
  /\ UNCHANGED <<clientVars, servidor, srvTEMPO, TOKEN>>

\* The loop ends when the client is at the head, which may be at once; it
\* sleeps for a second otherwise, and looks again.
ReqConcede(c) ==
  /\ c \in emCurso
  /\ fila # << >>
  /\ Head(fila).PID = PID[c]
  /\ srvTEMPO' = srvTEMPO + 1
  /\ svc_sendreply(c, Resposta(srvTEMPO + 1, TOKEN))
  /\ emCurso' = {}
  /\ UNCHANGED <<clientVars, servidor, TOKEN, fila>>

\* rel_1_svc: the head leaves the queue, whoever calls.
Rel(c) ==
  /\ Despacha(c, "REL")
  /\ TOKEN' = canal[c].recurso
  /\ srvTEMPO' = Avanca(srvTEMPO, canal[c].tempo)
  /\ fila' = Remove(fila)
  /\ canal' = [canal EXCEPT ![c] = Feito]
  /\ UNCHANGED <<clientVars, servidor, emCurso>>

ServerExit ==
  /\ MayExit
  /\ servidor = "ativo"
  /\ servidor' = "fim"
  /\ emCurso' = {}
  /\ UNCHANGED <<clientVars, canal, srvTEMPO, TOKEN, fila>>
-----------------------------------------------------------------------------
ClientNext(c) ==
  \/ CallReq(c)
  \/ ReturnReq(c)
  \/ CallRel(c)
  \/ ReturnRel(c)
  \/ CallFails(c)
  \/ Timeout(c)
  \/ ClientExit(c)

\* An assumption on the clients' clocks and on the network, not a test of the
\* code: unless MayOvertake, no request reaches req_1_svc with a stamp before
\* that of the head.
EmOrdem(m) ==
  ~MayOvertake => (fila # << >> => Head(fila).tempo <= m.tempo)
Req(c) == ReqInsere(c) /\ EmOrdem(canal[c])

ServerNext ==
  \/ \E c \in Client : Req(c) \/ ReqConcede(c) \/ Rel(c)
  \/ ServerExit

Next == (\E c \in Client : ClientNext(c)) \/ ServerNext

Spec == Init /\ [][Next]_vars

(***************************************************************************)
(* Fairness.  A process that can go on does.  svc_run polls all the        *)
(* connections and serves in turn each one in which a call has arrived,    *)
(* but only while no call is in its loop: hence strong fairness there.     *)
(* Nothing is assumed of the timeout, which would end every wait.          *)
(***************************************************************************)
ClientStep(c) ==
  CallReq(c) \/ ReturnReq(c) \/ CallRel(c) \/ ReturnRel(c) \/ CallFails(c)

Fairness ==
  \A c \in Client : /\ WF_vars(ClientStep(c))
                    /\ SF_vars(Req(c) \/ Rel(c))
                    /\ WF_vars(ReqConcede(c))

FairSpec == Spec /\ Fairness
-----------------------------------------------------------------------------
(***************************************************************************)
(* Types.                                                                  *)
(***************************************************************************)
Travels == CInt(ClockMax)

Canais(c) ==
  {Vazio, Feito, Erro}
  \cup [proc : {"REQ"}, pid_c : {PID[c]}, tempo : Travels]
  \cup [proc : {"REL", "RESPOSTA"}, tempo : Travels, recurso : CInt(ValorMax)]

\* Where a client is when its connection holds what.
Conversa(c) ==
  /\ canal[c].proc \in {"REQ", "RESPOSTA", "ERRO"} => pc[c] \in {"req", "fim"}
  /\ canal[c].proc \in {"REL", "FEITO"} => pc[c] \in {"rel", "fim"}
  /\ c \in emCurso => canal[c] = Vazio /\ pc[c] \in {"req", "fim"}

\* Every variable in its type; each connection holds what its client waits
\* for, and only clocks that xdr_long encodes.
TypeOK ==
  /\ pc \in [Client -> {"start", "req", "crit", "rel", "fim"}]
  /\ TEMPO \in [Client -> Nat]
  /\ rec \in [Client -> CInt(ValorMax)]
  /\ canal = [c \in Client |-> canal[c]]
  /\ servidor \in {"ativo", "fim"}
  /\ emCurso \subseteq Client
  /\ \A c, d \in emCurso : c = d
  /\ srvTEMPO \in Nat
  /\ TOKEN \in CInt(ValorMax)
  /\ fila \in Seq([PID : Int, tempo : Int])
  /\ \A c \in Client : canal[c] \in Canais(c) /\ Conversa(c)
-----------------------------------------------------------------------------
(***************************************************************************)
(* Safety.  What the theorems assume beyond the constants: no request is   *)
(* stamped before the head of the queue, and getpid() differs from client  *)
(* to client.  The run rpc_order shows what happens without the first.     *)
(***************************************************************************)
OrderAssumption ==
  /\ ~MayOvertake
  /\ \A c, d \in Client : PID[c] = PID[d] => c = d

NaSecao == {c \in Client : pc[c] = "crit"}
Devolucoes == {c \in Client : canal[c].proc = "REL"}

\* The clients that have the token, or that it is on its way to or from.
Portadores == {c \in Client : \/ pc[c] = "crit"
                              \/ canal[c].proc \in {"RESPOSTA", "REL"}}

NaFrente(c) == fila # << >> /\ Head(fila).PID = PID[c]

\* At most one client is between a req that returned and its rel
\* (cliente-2.c, lines 39 to 52).
MutualExclusion == \A c, d \in NaSecao : c = d

\* The resource is handed over without a lost or a repeated update: who has
\* it, and who it is being sent to, have the server's value, and a call of
\* rel carries its double.
CounterHandedOver ==
  \A c \in Client :
    /\ pc[c] = "crit" => rec[c] = TOKEN
    /\ canal[c].proc = "RESPOSTA" => canal[c].recurso = TOKEN
    /\ canal[c].proc = "REL" => canal[c].recurso = Dobro(TOKEN)

\* What makes it so: the head of the queue is the entry of the client that
\* has the token, so that rel_1_svc removes the entry of its caller, and
\* req_1_svc never dereferences the head of an empty queue.
HolderAtHead ==
  /\ \A c \in Portadores : NaFrente(c)
  /\ \A c \in emCurso : NaFrente(c) => Portadores = {}
  /\ emCurso # {} => fila # << >>

\* The server waits in its loop for nobody but a client that has the token,
\* or that has ended, or is about to, without giving it back; and when it is
\* not in its loop there is no entry but that one, however large the queue.
WaitsForHolder ==
  /\ servidor = "ativo" /\ emCurso = {} => Len(fila) <= 1
  /\ servidor = "ativo" /\ fila # << >> =>
       \E d \in Client :
         /\ NaFrente(d)
         /\ \/ d \in Portadores \cup emCurso
            \/ pc[d] = "fim"
            \/ canal[d].proc = "ERRO"

\* Every step leaves the resource alone or doubles it.
CounterStep == [][TOKEN' \in {TOKEN, Dobro(TOKEN)}]_vars

\* The program does what Exclusao asks for, for a resource that is doubled.
Abstrato == INSTANCE Exclusao WITH
  Seguinte     <- Dobro,
  ValorInicial <- -1,
  dentro       <- NaSecao,
  pendente     <- Devolucoes # {},
  valor        <- TOKEN

ImplementsExclusao == Abstrato!Spec
-----------------------------------------------------------------------------
(***************************************************************************)
(* Liveness.                                                               *)
(***************************************************************************)
\* The entry of another client, that will not give the token back: it has
\* ended, or its rel waits for the loop of the only thread to end.
Presa(c) ==
  \E d \in Client \ {c} : NaFrente(d) /\ pc[d] \in {"rel", "fim"}

\* A call that is never answered has one of three causes: the server has
\* ended; a req waits behind such an entry; a rel waits while the server is
\* in the loop of another client's req.
WaitsAreExplained ==
  \A c \in Client :
    /\ <>[](pc[c] = "req") => <>[](servidor = "fim" \/ Presa(c))
    /\ <>[](pc[c] = "rel") => <>[](servidor = "fim" \/ emCurso \ {c} # {})
=============================================================================
