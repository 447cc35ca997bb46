--------------------------- MODULE CentralServer ----------------------------
(***************************************************************************)
(* The UDP version of the program, LAB2-NETKIT: servidor.c owns a token    *)
(* and a counter, and each process of cliente.c asks for the token, adds   *)
(* one to the counter it receives with it, and gives both back.            *)
(*                                                                         *)
(* Actors.  Every client and the server are single-threaded loops.  A step *)
(* of the model is the code from one blocking call (recvfrom, sleep) to    *)
(* the next, so the server's loop body is two steps: up to sleep(1) on     *)
(* line 193, and what follows it.                                          *)
(*                                                                         *)
(* Network.  UDP: the datagrams in flight are a set, received in any       *)
(* order.  Those whose code is in Losable may vanish, and those whose code *)
(* is in Duplicable may arrive again.                                      *)
(*                                                                         *)
(* Integers.  The clocks are reduced by % INT_MAX in the code, and wrap    *)
(* around as C ints; the counter wraps around as a C int.  ClockMax and    *)
(* ValorMax stand for INT_MAX in the two uses, so that an instance can     *)
(* scale them down; the char that holds the token's owner keeps its 8      *)
(* bits.                                                                   *)
(***************************************************************************)
EXTENDS Fila, FiniteSets

CONSTANTS Client,        \* the client processes, each with its own address
          PID,           \* the number each one is given on its command line
          N,             \* the capacity of the queue (10 in the code)
          ClockMax,      \* INT_MAX, as the bound of the clocks
          ValorMax,      \* INT_MAX, as the bound of the counter
          ValorInicial,  \* the counter at the start (30 in the code)
          Losable,       \* the codes of the datagrams the network may lose
          Duplicable,    \* the codes of those it may deliver again
          MayExit        \* whether a system call may fail: the process ends

Cod == {"REQUEST_TOKEN", "RELEASE_TOKEN", "REPLY_ALLOW", "ACK"}

\* A C int, in two's complement, whose largest value is max.
CInt(max) == -(max + 1) .. max
ToInt(max, x) == ((x + max + 1) % (2 * (max + 1))) - (max + 1)

ASSUME PIDAssumption == PID \in [Client -> Int]
ASSUME NAssumption == N \in Nat
ASSUME ClockAssumption == ClockMax \in Nat \ {0}
ASSUME ValorAssumption == /\ ValorMax \in Nat
                          /\ ValorInicial \in CInt(ValorMax)
ASSUME FaultAssumption == /\ Losable \subseteq Cod
                          /\ Duplicable \subseteq Cod
                          /\ MayExit \in BOOLEAN

VARIABLES pc,        \* where each client is
          TEMPO,     \* the clock of each client
          rec,       \* resp->rec of each client, while it holds the token
          aguardar,  \* the number of foreign ACKs each client has counted
          servidor,  \* "ativo", or "fim" once main has returned
          req,       \* the datagram under treatment, SemReq at recvfrom
          srvTEMPO,  \* the server's clock
          flag,      \* Token.flag: the PID of the owner, -1 when free
          valor,     \* Token.valor: the shared counter
          fila,      \* the waiting queue
          net        \* the datagrams in flight

clientVars == <<pc, TEMPO, rec, aguardar>>
serverVars == <<servidor, req, srvTEMPO, flag, valor, fila>>
vars == <<pc, TEMPO, rec, aguardar, servidor, req, srvTEMPO, flag, valor,
          fila, net>>
-----------------------------------------------------------------------------
(***************************************************************************)
(* Data.  addr is the client at the other end.  The tempo of an ACK is     *)
(* only ever printed, and a REPLY_ALLOW is sent with sizeof(rep), the size *)
(* of a pointer, so that only rec and cod travel: those fields are all a   *)
(* datagram has here.                                                      *)
(***************************************************************************)
Requisicao(c, t) == [cod |-> "REQUEST_TOKEN", addr |-> c, PID |-> PID[c],
                     tempo |-> t]
Liberacao(c, t, v) == [cod |-> "RELEASE_TOKEN", addr |-> c, PID |-> PID[c],
                       tempo |-> t, rec |-> v]
\* Variant: the ACK names the owner of the token.
AckDoDono(m) == [cod |-> "ACK", addr |-> m.addr, PID |-> flag]
Ack(m) == [cod |-> "ACK", addr |-> m.addr, PID |-> m.PID]
Reply(c, v) == [cod |-> "REPLY_ALLOW", addr |-> c, rec |-> v]

SemReq == [cod |-> "SEM_REQ"]

\* The int in TEMPO after ++, and the remainder of C, which takes the sign
\* of its left operand.
Inc(t) == ToInt(ClockMax, t + 1)
Rem(t) == IF t >= 0 THEN t % ClockMax ELSE -((-t) % ClockMax)

\* What is left of the PID in the char Token.flag.
ToChar(x) == ((x + 128) % 256) - 128

\* The counter after the client's + 1.  Variant: in a type wider than int.
SeguinteLongo(v) == v + 1
Seguinte(v) == ToInt(ValorMax, v + 1)

Entrada(m) == [PID |-> m.PID, tempo |-> m.tempo, caddr |-> m.addr]

\* What may be left in flight once m has been received.
Restante(m) == IF m.cod \in Duplicable THEN {net, net \ {m}} ELSE {net \ {m}}

EmVoo(c, k) == {m \in net : m.cod = k /\ m.addr = c}
-----------------------------------------------------------------------------
(***************************************************************************)
(* Variants of the handlers below, each with one plausible bug.  They are  *)
(* no part of Spec: each one is a change of the code that some property    *)
(* must notice.                                                            *)
(***************************************************************************)
\* The client asks again when the answer is late.
SendRequestDeNovo(c) ==
  /\ pc[c] \in {"start", "wait"}
  /\ pc' = [pc EXCEPT ![c] = "wait"]
  /\ TEMPO' = [TEMPO EXCEPT ![c] = Inc(@)]
  /\ net' = net \cup {Requisicao(c, Rem(Inc(TEMPO[c])))}
  /\ UNCHANGED <<rec, aguardar, serverVars>>

\* The grant does not mark the token as taken.
HandleRequestSemFlag ==
  /\ req.cod = "REQUEST_TOKEN"
  /\ req' = SemReq
  /\ IF flag = -1
       THEN /\ srvTEMPO' = srvTEMPO + 1
            /\ net' = net \cup {Reply(req.addr, valor)}
            /\ UNCHANGED <<flag, fila>>
       ELSE /\ fila' = insere(fila, N, Entrada(req))
            /\ UNCHANGED <<srvTEMPO, flag, net>>
  /\ UNCHANGED <<clientVars, servidor, valor>>

\* The grant depends on the queue being empty, not on the token being free.
HandleRequestFilaVazia ==
  /\ req.cod = "REQUEST_TOKEN"
  /\ req' = SemReq
  /\ IF fila = << >>
       THEN /\ flag' = ToChar(req.PID)
            /\ srvTEMPO' = srvTEMPO + 1
            /\ net' = net \cup {Reply(req.addr, valor)}
            /\ UNCHANGED fila
       ELSE /\ fila' = insere(fila, N, Entrada(req))
            /\ UNCHANGED <<srvTEMPO, flag, net>>
  /\ UNCHANGED <<clientVars, servidor, valor>>

\* HandleRelease with another value stored, another value granted, and
\* another owner noted when the queue is empty and when it is not.
ReleaseCom(novo, concedido, semFila, comFila) ==
  /\ req.cod = "RELEASE_TOKEN"
  /\ req' = SemReq
  /\ valor' = novo
  /\ IF fila = << >>
       THEN flag' = semFila /\ UNCHANGED <<srvTEMPO, fila, net>>
       ELSE /\ flag' = comFila
            /\ srvTEMPO' = srvTEMPO + 1
            /\ net' = net \cup {Reply(Head(fila).caddr, concedido)}
            /\ fila' = removeItem(fila)
  /\ UNCHANGED <<clientVars, servidor>>

ProximoDono == ToChar(Head(fila).PID)
\* The grant carries the counter as it was before the RELEASE_TOKEN.
HandleReleaseValorVelho == ReleaseCom(req.rec, valor, -1, ProximoDono)
\* The server adds one as well.
HandleReleaseSomaDuas == ReleaseCom(Seguinte(req.rec), req.rec, -1, ProximoDono)
\* The owner is not updated when the token passes on.
HandleReleaseDonoVelho == ReleaseCom(req.rec, req.rec, -1, flag)
\* The token is not freed when nobody waits.
HandleReleaseSemReset == ReleaseCom(req.rec, req.rec, flag, ProximoDono)
-----------------------------------------------------------------------------
ClientInit ==
  /\ pc = [c \in Client |-> "start"]
  /\ TEMPO = [c \in Client |-> 0]
  /\ rec = [c \in Client |-> 0]
  /\ aguardar = [c \in Client |-> 0]

ServerInit ==
  /\ servidor = "ativo"
  /\ req = SemReq
  /\ srvTEMPO = 0
  /\ flag = -1
  /\ valor = ValorInicial
  /\ fila = << >>

Init == ClientInit /\ ServerInit /\ net = {}

(***************************************************************************)
(* The client.                                                             *)
(***************************************************************************)
SendRequest(c) ==
  /\ pc[c] = "start"
  /\ pc' = [pc EXCEPT ![c] = "wait"]
  /\ TEMPO' = [TEMPO EXCEPT ![c] = Inc(@)]
  /\ net' = net \cup {Requisicao(c, Rem(Inc(TEMPO[c])))}
  /\ UNCHANGED <<rec, aguardar, serverVars>>

\* An ACK with another PID is counted, and the fourth one makes the client
\* ask again; its own is only acknowledged on the screen.
ReceiveAck(c) ==
  /\ pc[c] = "wait"
  /\ \E m \in EmVoo(c, "ACK") :
       LET alheios == IF m.PID # PID[c] THEN aguardar[c] + 1 ELSE aguardar[c]
       IN  /\ aguardar' = [aguardar EXCEPT ![c] = alheios]
           /\ pc' = IF m.PID # PID[c] /\ alheios > 3
                      THEN [pc EXCEPT ![c] = "start"] ELSE pc
           /\ net' \in Restante(m)
  /\ UNCHANGED <<TEMPO, rec, serverVars>>

ReceiveAllow(c) ==
  /\ pc[c] = "wait"
  /\ \E m \in EmVoo(c, "REPLY_ALLOW") :
       /\ rec' = [rec EXCEPT ![c] = m.rec]
       /\ net' \in Restante(m)
  /\ pc' = [pc EXCEPT ![c] = "crit"]
  /\ TEMPO' = [TEMPO EXCEPT ![c] = Rem(Inc(@))]
  /\ UNCHANGED <<aguardar, serverVars>>

\* rand() % PID, just after the RELEASE_TOKEN, ends a client whose PID is 0.
\* rec is dead from here to the next grant, which 0 stands for.
SendRelease(c) ==
  /\ pc[c] = "crit"
  /\ pc' = [pc EXCEPT ![c] = IF PID[c] = 0 THEN "fim" ELSE "start"]
  /\ TEMPO' = [TEMPO EXCEPT ![c] = Inc(@)]
  /\ net' = net \cup {Liberacao(c, Rem(Inc(TEMPO[c])), Seguinte(rec[c]))}
  /\ rec' = [rec EXCEPT ![c] = 0]
  /\ aguardar' = [aguardar EXCEPT ![c] = 0]
  /\ UNCHANGED serverVars

\* sendto or recvfrom returned an error.
ClientExit(c) ==
  /\ MayExit
  /\ pc[c] # "fim"
  /\ pc' = [pc EXCEPT ![c] = "fim"]
  /\ UNCHANGED <<TEMPO, rec, aguardar, serverVars, net>>
-----------------------------------------------------------------------------
(***************************************************************************)
(* The server.  Every datagram moves its clock and is acknowledged at      *)
(* once, a RELEASE_TOKEN too; the treatment comes after sleep(1).          *)
(***************************************************************************)
Receive(m) ==
  /\ servidor = "ativo"
  /\ req = SemReq
  /\ m.cod \in {"REQUEST_TOKEN", "RELEASE_TOKEN"}
  /\ req' = m
  /\ srvTEMPO' = Rem((IF srvTEMPO > m.tempo THEN srvTEMPO ELSE m.tempo) + 1)
  /\ \E resto \in Restante(m) : net' = resto \cup {Ack(m)}
  /\ UNCHANGED <<clientVars, servidor, flag, valor, fila>>

\* A free token is granted to the client that asks; a taken one makes it
\* wait, unless insere refuses, which the server does not look at.
HandleRequest ==
  /\ req.cod = "REQUEST_TOKEN"
  /\ req' = SemReq
  /\ \/ /\ flag = -1
        /\ flag' = ToChar(req.PID)
        /\ srvTEMPO' = srvTEMPO + 1
        /\ net' = net \cup {Reply(req.addr, valor)}
        /\ UNCHANGED fila
     \/ /\ flag # -1
        /\ fila' = insere(fila, N, Entrada(req))
        /\ UNCHANGED <<srvTEMPO, flag, net>>
  /\ UNCHANGED <<clientVars, servidor, valor>>

\* The counter takes whatever value the RELEASE_TOKEN carries, and the token
\* passes to the head of the queue, whoever sent the RELEASE_TOKEN.
HandleRelease ==
  /\ req.cod = "RELEASE_TOKEN"
  /\ req' = SemReq
  /\ valor' = req.rec
  /\ \/ /\ fila = << >>
        /\ flag' = -1
        /\ UNCHANGED <<srvTEMPO, fila, net>>
     \/ /\ fila # << >>
        /\ flag' = ToChar(Head(fila).PID)
        /\ srvTEMPO' = srvTEMPO + 1
        /\ net' = net \cup {Reply(Head(fila).caddr, req.rec)}
        /\ fila' = removeItem(fila)
  /\ UNCHANGED <<clientVars, servidor>>

ServerExit ==
  /\ MayExit
  /\ servidor = "ativo"
  /\ servidor' = "fim"
  /\ req' = SemReq
  /\ UNCHANGED <<clientVars, srvTEMPO, flag, valor, fila, net>>

(***************************************************************************)
(* The network.                                                            *)
(***************************************************************************)
Lose(m) ==
  /\ m.cod \in Losable
  /\ net' = net \ {m}
  /\ UNCHANGED <<clientVars, serverVars>>
-----------------------------------------------------------------------------
ClientNext(c) ==
  \/ SendRequest(c)
  \/ ReceiveAck(c)
  \/ ReceiveAllow(c)
  \/ SendRelease(c)
  \/ ClientExit(c)

ServerNext ==
  \/ \E m \in net : Receive(m)
  \/ HandleRequest
  \/ HandleRelease
  \/ ServerExit

Next ==
  \/ \E c \in Client : ClientNext(c)
  \/ ServerNext
  \/ \E m \in net : Lose(m)

Spec == Init /\ [][Next]_vars
-----------------------------------------------------------------------------
(***************************************************************************)
(* Fairness.  No process stops between two blocking calls and sleep        *)
(* returns: weak fairness for the clients and for the server's treatment.  *)
(* recvfrom takes the datagrams of a socket in the order of arrival, so    *)
(* what a client has sent is taken sooner or later; the server is at       *)
(* recvfrom only between two treatments, hence strong fairness there.      *)
(***************************************************************************)
ClientStep(c) == SendRequest(c) \/ ReceiveAllow(c) \/ SendRelease(c)
ReceiveFrom(c) == \E m \in net : m.addr = c /\ Receive(m)
Handle == HandleRequest \/ HandleRelease

Fairness ==
  /\ \A c \in Client : WF_vars(ClientStep(c)) /\ SF_vars(ReceiveFrom(c))
  /\ WF_vars(Handle)

FairSpec == Spec /\ Fairness
-----------------------------------------------------------------------------
(***************************************************************************)
(* Types.                                                                  *)
(***************************************************************************)
Requisicoes == {Requisicao(c, t) : c \in Client, t \in CInt(ClockMax)}
Liberacoes == {Liberacao(c, t, v) :
                 c \in Client, t \in CInt(ClockMax), v \in CInt(ValorMax)}
Acks == {[cod |-> "ACK", addr |-> c, PID |-> PID[c]] : c \in Client}
Replies == {Reply(c, v) : c \in Client, v \in CInt(ValorMax)}
Entradas == {Entrada(m) : m \in Requisicoes}

TypeOK ==
  /\ pc \in [Client -> {"start", "wait", "crit", "fim"}]
  /\ TEMPO \in [Client -> CInt(ClockMax)]
  /\ rec \in [Client -> CInt(ValorMax)]
  /\ aguardar \in [Client -> 0 .. 4]
  /\ servidor \in {"ativo", "fim"}
  /\ req \in Requisicoes \cup Liberacoes \cup {SemReq}
  /\ srvTEMPO \in Int
  /\ flag \in -128 .. 127
  /\ valor \in CInt(ValorMax)
  /\ fila \in Seq(Entradas)
  /\ net \subseteq Requisicoes \cup Liberacoes \cup Replies \cup Acks
-----------------------------------------------------------------------------
(***************************************************************************)
(* What the theorems assume, beyond the assumptions on the constants: no   *)
(* datagram that carries the token arrives twice, and no PID looks like    *)
(* the -1 of a free token once it is in a char.  The runs dup_release and  *)
(* pid255 show that neither can be left out.                               *)
(***************************************************************************)
TokenAssumption ==
  /\ Duplicable \cap {"REPLY_ALLOW", "RELEASE_TOKEN"} = {}
  /\ \A c \in Client : ToChar(PID[c]) # -1
-----------------------------------------------------------------------------
(***************************************************************************)
(* Safety.                                                                 *)
(***************************************************************************)
NaSecao == {c \in Client : pc[c] = "crit"}

Concessoes == {m \in net : m.cod = "REPLY_ALLOW"}
Devolucoes == {m \in net : m.cod = "RELEASE_TOKEN"}

\* At most one client holds the token: between a REPLY_ALLOW received and
\* the RELEASE_TOKEN sent (cliente.c, lines 96 to 118) a client is alone,
\* whatever is lost, late or overtaken on the network.
MutualExclusion == \A c, d \in NaSecao : c = d

\* The counter is handed over without a lost or a repeated update: a client
\* in its critical section, and one the token is on its way to, have the
\* server's current value, and a RELEASE_TOKEN carries its successor.
CounterHandedOver ==
  /\ \A c \in NaSecao : rec[c] = valor
  /\ \A m \in Concessoes : m.rec = valor
  /\ \A m \in Devolucoes : m.rec = Seguinte(valor)
  /\ req.cod = "RELEASE_TOKEN" => req.rec = Seguinte(valor)

\* Token.flag names the client that has the token, or that the token is on
\* its way to, as far as a char can.
FlagNamesHolder ==
  /\ \A c \in NaSecao : flag = ToChar(PID[c])
  /\ \A m \in Concessoes : flag = ToChar(PID[m.addr])

\* What makes it so: there is one token.  It is free, and then it is nowhere
\* else, or else at most one client, one datagram or the RELEASE_TOKEN under
\* treatment has it (none, once it has been lost with its datagram or with
\* its client).
ComToken == Concessoes \cup Devolucoes

TokenUnico ==
  /\ \A m, n \in ComToken : m = n
  /\ \A c, d \in NaSecao : c = d
  /\ ComToken = {} \/ NaSecao = {}
  /\ req.cod = "RELEASE_TOKEN" => ComToken = {} /\ NaSecao = {}
  /\ flag = -1 => /\ ComToken = {} /\ NaSecao = {}
                  /\ req.cod # "RELEASE_TOKEN"

\* The queue is what the handout asks for: sorted by the clients' clocks,
\* each client once, never more than N entries, and empty while the token
\* is free, since only a RELEASE_TOKEN ever looks at it.
FilaOK ==
  /\ Ordenada(fila)
  /\ UmaPorPID(fila)
  /\ Len(fila) <= N
  /\ flag = -1 => fila = << >>

\* The places where the request of c may be: on its way, under treatment,
\* in the queue, or turned into a REPLY_ALLOW.
Pedidos(c) ==
  Cardinality(EmVoo(c, "REQUEST_TOKEN")) + Cardinality(EmVoo(c, "REPLY_ALLOW"))
  + Cardinality({i \in DOMAIN fila : fila[i].caddr = c})
  + IF req.cod = "REQUEST_TOKEN" /\ req.addr = c THEN 1 ELSE 0

\* A client never has two requests in the system, and none but while it
\* waits (or has stopped): one round of the client asks for one grant.
OneRequest ==
  \A c \in Client : Pedidos(c) <= IF pc[c] \in {"wait", "fim"} THEN 1 ELSE 0

\* An ACK only ever reaches the client it is for, so the branch of the
\* client that counts foreign ACKs, and asks again after the fourth, is
\* never taken (cliente.c, lines 83 to 86).
OnlyOwnAcks ==
  /\ \A c \in Client : aguardar[c] = 0
  /\ \A c \in Client : \A m \in EmVoo(c, "ACK") : m.PID = PID[c]

\* On a network that loses nothing, a waiting client is never forgotten:
\* its request is still somewhere in the system.
NoForgottenRequest ==
  \A c \in Client : pc[c] = "wait" => Pedidos(c) >= 1

\* On a network that loses nothing, the token is never lost: when it is not
\* free, exactly one client, datagram or treatment has it.
TokenNeverLost ==
  flag # -1 <=>
    Cardinality(NaSecao) + Cardinality(Concessoes) + Cardinality(Devolucoes)
    + (IF req.cod = "RELEASE_TOKEN" THEN 1 ELSE 0) = 1

\* Every step leaves the counter alone or adds one to it: no update is lost
\* under another, none is counted twice, none goes back.
CounterStep == [][valor' \in {valor, Seguinte(valor)}]_vars

\* What the handout and notas.txt ask of the clocks: a REPLY_ALLOW carries
\* the time of the server, and the client that takes it sets its clock past
\* it.  The token would then always go forward in logical time: whoever is
\* in its critical section has a later clock than any client that has left
\* it and not asked again.
TokenOrderIsClockOrder ==
  \A c \in NaSecao, d \in Client : pc[d] = "start" => TEMPO[c] > TEMPO[d]

\* The program does what Exclusao asks for.
Abstrato == INSTANCE Exclusao WITH
  dentro   <- NaSecao,
  pendente <- Devolucoes # {} \/ req.cod = "RELEASE_TOKEN"

ImplementsExclusao == Abstrato!Spec
-----------------------------------------------------------------------------
(***************************************************************************)
(* Liveness.                                                               *)
(***************************************************************************)
\* Every client that waits for the token gets it.  This holds as long as the
\* other requests that can go in front of its own come to an end: the run
\* has a client of a single round besides two endless ones.  insere puts a
\* stamp in front of its equals, so that with three endless clients, once
\* the clocks have gone round, it can be overtaken for ever.
EveryRequestGranted ==
  \A c \in Client : pc[c] = "wait" ~> pc[c] = "crit"
=============================================================================
