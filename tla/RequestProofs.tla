--------------------------- MODULE RequestProofs ----------------------------
(***************************************************************************)
(* Theorems about what a client of CentralServer asks for: a request is    *)
(* never in two places, and on a network that loses nothing neither a      *)
(* request nor the token is ever lost.  The properties count places; the   *)
(* proofs are about sets of places that have no two elements, and turn to  *)
(* their cardinalities at the end.                                         *)
(***************************************************************************)
EXTENDS CentralServerProofs, FiniteSetTheorems
-----------------------------------------------------------------------------
(***************************************************************************)
(* What the theorems assume of the network and of the processes.           *)
(***************************************************************************)
\* No datagram that carries a request, or the answer to one, arrives twice.
RequestAssumption == Duplicable \cap {"REQUEST_TOKEN", "REPLY_ALLOW"} = {}

\* None of them is lost, no process stops, each client was given a PID of
\* its own, and the queue has room for all of them.  The run full_queue
\* shows that the last one cannot be left out.
NoLossAssumption ==
  /\ RequestAssumption
  /\ Losable \cap {"REQUEST_TOKEN", "REPLY_ALLOW"} = {}
  /\ ~MayExit
  /\ \A c, d \in Client : PID[c] = PID[d] => c = d
  /\ IsFiniteSet(Client) /\ Cardinality(Client) <= N

\* No datagram that carries the token is lost, and no process stops.
NoTokenLossAssumption ==
  /\ TokenAssumption
  /\ Losable \cap {"REPLY_ALLOW", "RELEASE_TOKEN"} = {}
  /\ ~MayExit
-----------------------------------------------------------------------------
(***************************************************************************)
(* The inductive invariants.                                               *)
(***************************************************************************)
\* The places where the request of c may be.
NaRede(c) == EmVoo(c, "REQUEST_TOKEN") \cup EmVoo(c, "REPLY_ALLOW")
NaFila(c) == {i \in DOMAIN fila : fila[i].caddr = c}
EmTratamento(c) == req.cod = "REQUEST_TOKEN" /\ req.addr = c

\* The request of c is in one place at most, and in none unless c waits for
\* the answer, or has stopped.
UmPedido(c) ==
  /\ \A m, n \in NaRede(c) : m = n
  /\ \A i, j \in NaFila(c) : i = j
  /\ NaRede(c) = {} \/ NaFila(c) = {}
  /\ EmTratamento(c) => NaRede(c) = {} /\ NaFila(c) = {}
  /\ pc[c] \notin {"wait", "fim"} =>
       NaRede(c) = {} /\ NaFila(c) = {} /\ ~EmTratamento(c)

UmPedidoCada == \A c \in Client : UmPedido(c)

\* The request of a client that waits is in some place.
Presente(c) == NaRede(c) # {} \/ NaFila(c) # {} \/ EmTratamento(c)

NinguemEsquecido == \A c \in Client : pc[c] = "wait" => Presente(c)

\* When the token is not free, somebody or something has it.
TokenPresente ==
  flag # -1 => \/ ComToken # {}
               \/ NaSecao # {}
               \/ req.cod = "RELEASE_TOKEN"
-----------------------------------------------------------------------------
(***************************************************************************)
(* Foreign ACKs.                                                           *)
(***************************************************************************)
\* An ACK carries the PID of the client it goes to, in every step.
LEMMA NextAcks ==
  ASSUME TypeOK, OnlyOwnAcks, [Next]_vars PROVE OnlyOwnAcks'
<1>1. TypeOK'
  BY NextType
<1>2. \A c \in Client : \A m \in EmVoo(c, "ACK")' : m.PID = PID[c]
  <2>1. \A m \in net' : m.cod = "ACK" => m.PID = PID[m.addr]
    <3>1. net' \subseteq Requisicoes \cup Liberacoes \cup Replies \cup Acks
      BY <1>1 DEF TypeOK
    <3> QED
      BY <3>1, Conteudo
  <2> QED
    BY <2>1 DEF EmVoo
<1>3. \A c \in Client : aguardar'[c] = 0
  <2>1. ASSUME NEW c \in Client, ReceiveAck(c)
        PROVE  \A d \in Client : aguardar'[d] = 0
    <3>1. \A m \in EmVoo(c, "ACK") : m.PID = PID[c]
      BY DEF OnlyOwnAcks
    <3>2. aguardar' = [aguardar EXCEPT ![c] = aguardar[c]]
      BY <2>1, <3>1 DEF ReceiveAck
    <3> QED
      BY <3>2 DEF TypeOK, OnlyOwnAcks
  <2>2. ASSUME NEW c \in Client, SendRelease(c)
        PROVE  \A d \in Client : aguardar'[d] = 0
    BY <2>2 DEF SendRelease, TypeOK, OnlyOwnAcks
  <2>3. CASE aguardar' = aguardar
    BY <2>3 DEF OnlyOwnAcks
  <2> QED
    BY <2>1, <2>2, <2>3
       DEF Next, ClientNext, ServerNext, SendRequest, ReceiveAllow, ClientExit,
           Receive, HandleRequest, HandleRelease, ServerExit, Lose, vars,
           clientVars
<1> QED
  BY <1>2, <1>3 DEF OnlyOwnAcks

\* Nothing but an ACK of its own ever reaches a client: the branch of
\* cliente.c that counts the others is dead, whatever is lost, repeated or
\* late.
THEOREM NoForeignAcks == Spec => []OnlyOwnAcks
<1>1. Init => OnlyOwnAcks
  BY DEF Init, ClientInit, OnlyOwnAcks, EmVoo
<1>2. TypeOK /\ OnlyOwnAcks /\ [Next]_vars => OnlyOwnAcks'
  BY NextAcks
<1> QED
  BY <1>1, <1>2, TypeCorrect, PTL DEF Spec
-----------------------------------------------------------------------------
(***************************************************************************)
(* One request.                                                            *)
(***************************************************************************)
\* A datagram that is not duplicated leaves the network when it is received.
LEMMA RestanteUnico ==
  ASSUME NEW m, m.cod \notin Duplicable PROVE Restante(m) = {net \ {m}}
  BY DEF Restante

\* A step in which the request of c goes nowhere, or disappears, keeps it in
\* one place at most.
LEMMA UmPedidoMenos ==
  ASSUME NEW c, UmPedido(c),
         NaRede(c)' \subseteq NaRede(c), NaFila(c)' \subseteq NaFila(c),
         EmTratamento(c)' => EmTratamento(c),
         pc'[c] = pc[c] \/ pc'[c] \in {"wait", "fim"}
  PROVE  UmPedido(c)'
  BY DEF UmPedido

\* Where the request of a client is after a datagram of another kind, or of
\* another client, has been sent.
LEMMA EnvioAlheio ==
  ASSUME NEW c, NEW m, m.cod \notin {"REQUEST_TOKEN", "REPLY_ALLOW"} \/ m.addr # c,
         NEW r, r \subseteq net, net' = r \cup {m}
  PROVE  NaRede(c)' \subseteq NaRede(c)
  BY DEF NaRede, EmVoo

\* The places of c in the queue once another entry has been put in it, ...
LEMMA InsereAlheio ==
  ASSUME TypeOK, NEW e \in Entradas, fila' = insere(fila, N, e),
         NEW c, UmPedido(c), e.caddr = c => NaFila(c) = {}
  PROVE  \A i, j \in NaFila(c)' : i = j
<1> DEFINE X == {x \in Entradas : x.caddr = c}
<1>1. \A x \in Entradas : x.tempo \in Int
  BY EntradaDef
<1>2. fila \in Seq(Entradas)
  BY DEF TypeOK
<1>3. \A i, j \in DOMAIN fila : fila[i] \in X /\ fila[j] \in X => i = j
  BY DEF UmPedido, NaFila
<1>4. e \in X => \A i \in DOMAIN fila : fila[i] \notin X
  BY DEF NaFila
<1>5. \A i, j \in DOMAIN insere(fila, N, e) :
        insere(fila, N, e)[i] \in X /\ insere(fila, N, e)[j] \in X => i = j
  <2> HIDE DEF X
  <2> QED
    BY <1>1, <1>2, <1>3, <1>4, InsereUnico
<1>6. insere(fila, N, e) \in Seq(Entradas)
  BY <1>1, <1>2, InsereSeq
<1>7. \A i \in DOMAIN insere(fila, N, e) : insere(fila, N, e)[i] \in Entradas
  BY <1>6
<1> QED
  BY <1>5, <1>7 DEF NaFila

\* ... and none appears if the entry is not one of c.
LEMMA InsereNenhum ==
  ASSUME TypeOK, NEW e \in Entradas, fila' = insere(fila, N, e),
         NEW c, e.caddr # c, NaFila(c) = {}
  PROVE  NaFila(c)' = {}
<1>1. \A x \in Entradas : x.tempo \in Int
  BY EntradaDef
<1>2. ASSUME NEW i \in DOMAIN insere(fila, N, e)
      PROVE  \/ insere(fila, N, e)[i] = e
             \/ \E k \in DOMAIN fila : insere(fila, N, e)[i] = fila[k]
  BY <1>1, InsereOrigem DEF TypeOK
<1> QED
  BY <1>2 DEF NaFila

\* When the head leaves, c has no place it did not have, and if the head was
\* the one place of c, none at all.
LEMMA RemoveItemPedido ==
  ASSUME TypeOK, fila # << >>, fila' = removeItem(fila), NEW c, UmPedido(c)
  PROVE  /\ \A i, j \in NaFila(c)' : i = j
         /\ NaFila(c) = {} => NaFila(c)' = {}
         /\ Head(fila).caddr = c => NaFila(c) # {} /\ NaFila(c)' = {}
<1>1. /\ 1 \in DOMAIN fila /\ Head(fila) = fila[1]
      /\ \A i \in DOMAIN fila' :
           i + 1 \in DOMAIN fila /\ i + 1 # 1 /\ fila'[i] = fila[i + 1]
  BY RemoveItemLugares DEF TypeOK
<1>2. \A i \in NaFila(c)' : i + 1 \in NaFila(c) /\ i + 1 # 1
  BY <1>1 DEF NaFila
<1>3. fila' \in Seq(Entradas)
  BY RemoveItemSeq DEF TypeOK
<1>4. \A i \in NaFila(c)' : i \in Nat
  BY <1>3 DEF NaFila
<1>5. \A i, j \in NaFila(c)' : i = j
  <2> SUFFICES ASSUME NEW i \in NaFila(c)', NEW j \in NaFila(c)' PROVE i = j
    OBVIOUS
  <2>1. i + 1 = j + 1
    BY <1>2 DEF UmPedido
  <2> QED
    BY <1>4, <2>1
<1>6. ASSUME Head(fila).caddr = c PROVE NaFila(c) # {} /\ NaFila(c)' = {}
  <2>1. 1 \in NaFila(c)
    BY <1>1, <1>6 DEF NaFila
  <2> QED
    BY <1>2, <2>1 DEF UmPedido
<1> QED
  BY <1>2, <1>5, <1>6

\* Every step moves a request from one place to the next, at most.
LEMMA NextUmPedido ==
  ASSUME RequestAssumption, TypeOK, OnlyOwnAcks, UmPedidoCada, [Next]_vars,
         NEW d \in Client
  PROVE  UmPedido(d)'
<1> USE DEF clientVars, serverVars
<1>0. UmPedido(d)
  BY DEF UmPedidoCada
<1>1. ASSUME NEW c \in Client, SendRequest(c) PROVE UmPedido(d)'
  <2> DEFINE m == Requisicao(c, Rem(Inc(TEMPO[c])))
  <2>1. net' = net \cup {m} /\ m.cod = "REQUEST_TOKEN" /\ m.addr = c
    BY <1>1 DEF SendRequest, Requisicao
  <2> HIDE DEF m
  <2>2. NaFila(d)' = NaFila(d) /\ (EmTratamento(d)' <=> EmTratamento(d))
    BY <1>1 DEF SendRequest, NaFila, EmTratamento
  <2>3. CASE d = c
    <3>1. pc'[d] = "wait" /\ pc[d] = "start"
      BY <1>1, <2>3 DEF SendRequest, TypeOK
    <3>2. NaRede(d)' = {m}
      BY <1>0, <2>1, <2>3, <3>1 DEF UmPedido, NaRede, EmVoo
    <3> QED
      BY <1>0, <2>2, <3>1, <3>2 DEF UmPedido
  <2>4. CASE d # c
    <3>1. NaRede(d)' \subseteq NaRede(d)
      BY <2>1, <2>4, EnvioAlheio
    <3>2. pc'[d] = pc[d]
      BY <1>1, <2>4 DEF SendRequest, TypeOK
    <3> QED
      BY <1>0, <2>2, <3>1, <3>2, UmPedidoMenos
  <2> QED
    BY <2>3, <2>4
<1>2. ASSUME NEW c \in Client, ReceiveAck(c) PROVE UmPedido(d)'
  <2>1. net' \subseteq net
    BY <1>2, RestanteDef DEF ReceiveAck
  <2>2. pc' = pc
    BY <1>2 DEF ReceiveAck, OnlyOwnAcks
  <2>3. NaRede(d)' \subseteq NaRede(d)
    BY <2>1 DEF NaRede, EmVoo
  <2> QED
    BY <1>0, <1>2, <2>2, <2>3, UmPedidoMenos DEF ReceiveAck, NaFila, EmTratamento
<1>3. ASSUME NEW c \in Client, ReceiveAllow(c) PROVE UmPedido(d)'
  <2>1. PICK m \in EmVoo(c, "REPLY_ALLOW") : net' \in Restante(m)
    BY <1>3 DEF ReceiveAllow
  <2>2. m \in NaRede(c) /\ net' = net \ {m}
    BY <2>1, RestanteUnico DEF EmVoo, NaRede, RequestAssumption
  <2>3. NaRede(d)' \subseteq NaRede(d)
    BY <2>2 DEF NaRede, EmVoo
  <2>4. NaFila(d)' = NaFila(d) /\ (EmTratamento(d)' <=> EmTratamento(d))
    BY <1>3 DEF ReceiveAllow, NaFila, EmTratamento
  <2>5. CASE d = c
    <3>1. NaRede(d)' = {}
      BY <1>0, <2>2, <2>3, <2>5 DEF UmPedido, NaRede, EmVoo
    <3> QED
      BY <1>0, <2>2, <2>4, <2>5, <3>1 DEF UmPedido
  <2>6. CASE d # c
    <3>1. pc'[d] = pc[d]
      BY <1>3, <2>6 DEF ReceiveAllow, TypeOK
    <3> QED
      BY <1>0, <2>3, <2>4, <3>1, UmPedidoMenos
  <2> QED
    BY <2>5, <2>6
<1>4. ASSUME NEW c \in Client, SendRelease(c) PROVE UmPedido(d)'
  <2> DEFINE m == Liberacao(c, Rem(Inc(TEMPO[c])), Seguinte(rec[c]))
  <2>1. net' = net \cup {m} /\ m.cod = "RELEASE_TOKEN"
    BY <1>4 DEF SendRelease, Liberacao
  <2> HIDE DEF m
  <2>2. NaRede(d)' \subseteq NaRede(d)
    BY <2>1, EnvioAlheio
  <2>3. NaFila(d)' = NaFila(d) /\ (EmTratamento(d)' <=> EmTratamento(d))
    BY <1>4 DEF SendRelease, NaFila, EmTratamento
  <2>4. pc[d] \notin {"wait", "fim"} \/ pc'[d] = pc[d]
    BY <1>4 DEF SendRelease, TypeOK
  <2> QED
    BY <1>0, <2>2, <2>3, <2>4 DEF UmPedido
<1>5. ASSUME NEW c \in Client, ClientExit(c) PROVE UmPedido(d)'
  <2>1. pc'[d] = pc[d] \/ pc'[d] = "fim"
    BY <1>5 DEF ClientExit, TypeOK
  <2>2. NaRede(d)' = NaRede(d) /\ NaFila(d)' = NaFila(d)
        /\ (EmTratamento(d)' <=> EmTratamento(d))
    BY <1>5 DEF ClientExit, NaRede, EmVoo, NaFila, EmTratamento
  <2> QED
    BY <1>0, <2>1, <2>2, UmPedidoMenos
<1>6. ASSUME NEW m \in net, Receive(m) PROVE UmPedido(d)'
  <2>1. PICK r \in Restante(m) : net' = r \cup {Ack(m)}
    BY <1>6 DEF Receive
  <2>2. NaRede(d)' \subseteq NaRede(d)
    BY <2>1, RestanteDef, EnvioAlheio DEF Ack
  <2>3. NaFila(d)' = NaFila(d) /\ pc'[d] = pc[d] /\ req' = m
    BY <1>6 DEF Receive, NaFila
  <2>4. CASE m.cod = "REQUEST_TOKEN" /\ m.addr = d
    <3>1. m \in NaRede(d) /\ r = net \ {m}
      BY <2>1, <2>4, RestanteUnico DEF NaRede, EmVoo, RequestAssumption
    <3>2. NaRede(d)' = {}
      <4>1. m \notin NaRede(d)'
        BY <2>1, <3>1 DEF NaRede, EmVoo, Ack
      <4> QED
        BY <1>0, <2>2, <3>1, <4>1 DEF UmPedido
    <3> QED
      BY <1>0, <2>3, <3>1, <3>2 DEF UmPedido
  <2>5. CASE ~(m.cod = "REQUEST_TOKEN" /\ m.addr = d)
    <3>1. ~EmTratamento(d)'
      BY <2>3, <2>5 DEF EmTratamento
    <3> QED
      BY <1>0, <2>2, <2>3, <3>1, UmPedidoMenos
  <2> QED
    BY <2>4, <2>5
<1>7. CASE HandleRequest
  <2>1. req \in Requisicoes /\ Entrada(req) \in Entradas
    BY <1>7, Conteudo DEF HandleRequest, TypeOK, SemReq
  <2>2. pc' = pc /\ ~EmTratamento(d)'
    BY <1>7 DEF HandleRequest, EmTratamento, SemReq
  <2>3. EmTratamento(d) <=> req.addr = d
    BY <1>7 DEF HandleRequest, EmTratamento
  <2>4. CASE flag = -1
    <3> DEFINE m == Reply(req.addr, valor)
    <3>1. /\ net' = net \cup {m} /\ fila' = fila
          /\ m.cod = "REPLY_ALLOW" /\ m.addr = req.addr
      BY <1>7, <2>4 DEF HandleRequest, Reply
    <3> HIDE DEF m
    <3>2. NaFila(d)' = NaFila(d)
      BY <3>1 DEF NaFila
    <3>3. CASE req.addr = d
      <4>1. NaRede(d)' = {m}
        BY <1>0, <2>3, <3>1, <3>3 DEF UmPedido, NaRede, EmVoo
      <4> QED
        BY <1>0, <2>2, <2>3, <3>2, <3>3, <4>1 DEF UmPedido
    <3>4. CASE req.addr # d
      <4>1. NaRede(d)' \subseteq NaRede(d)
        BY <3>1, <3>4, EnvioAlheio
      <4> QED
        BY <1>0, <2>2, <3>2, <4>1, UmPedidoMenos
    <3> QED
      BY <3>3, <3>4
  <2>5. CASE flag # -1
    <3>1. fila' = insere(fila, N, Entrada(req)) /\ net' = net
      BY <1>7, <2>5 DEF HandleRequest
    <3>2. NaRede(d)' = NaRede(d)
      BY <3>1 DEF NaRede, EmVoo
    <3>3. Entrada(req).caddr = req.addr
      BY DEF Entrada
    <3>4. req.addr = d => NaFila(d) = {} /\ NaRede(d) = {}
      BY <1>0, <2>3 DEF UmPedido
    <3>5. \A i, j \in NaFila(d)' : i = j
      BY <1>0, <2>1, <3>1, <3>3, <3>4, InsereAlheio
    <3>6. CASE req.addr = d
      BY <1>0, <2>2, <2>3, <3>2, <3>4, <3>5, <3>6 DEF UmPedido
    <3>7. CASE req.addr # d
      <4>1. NaFila(d) = {} => NaFila(d)' = {}
        BY <2>1, <3>1, <3>3, <3>7, InsereNenhum
      <4> QED
        BY <1>0, <2>2, <3>2, <3>5, <4>1 DEF UmPedido
    <3> QED
      BY <3>6, <3>7
  <2> QED
    BY <2>4, <2>5
<1>8. CASE HandleRelease
  <2>1. pc' = pc /\ ~EmTratamento(d)'
    BY <1>8 DEF HandleRelease, EmTratamento, SemReq
  <2>2. CASE fila = << >>
    <3>1. NaRede(d)' = NaRede(d) /\ NaFila(d)' = NaFila(d)
      BY <1>8, <2>2 DEF HandleRelease, NaRede, EmVoo, NaFila
    <3> QED
      BY <1>0, <2>1, <3>1, UmPedidoMenos
  <2>3. CASE fila # << >>
    <3> DEFINE m == Reply(Head(fila).caddr, req.rec)
    <3>1. /\ net' = net \cup {m} /\ fila' = removeItem(fila)
          /\ m.cod = "REPLY_ALLOW" /\ m.addr = Head(fila).caddr
      BY <1>8, <2>3 DEF HandleRelease, Reply
    <3> HIDE DEF m
    <3>2. /\ \A i, j \in NaFila(d)' : i = j
          /\ NaFila(d) = {} => NaFila(d)' = {}
          /\ m.addr = d => NaFila(d) # {} /\ NaFila(d)' = {}
      BY <1>0, <2>3, <3>1, RemoveItemPedido
    <3>3. CASE m.addr = d
      <4>1. NaRede(d) = {} /\ NaFila(d)' = {}
        BY <1>0, <3>2, <3>3 DEF UmPedido
      <4>2. NaRede(d)' = {m}
        BY <3>1, <3>3, <4>1 DEF NaRede, EmVoo
      <4>3. pc[d] \in {"wait", "fim"}
        BY <1>0, <3>2, <3>3 DEF UmPedido
      <4> QED
        BY <2>1, <4>1, <4>2, <4>3 DEF UmPedido
    <3>4. CASE m.addr # d
      <4>1. NaRede(d)' \subseteq NaRede(d)
        BY <3>1, <3>4, EnvioAlheio
      <4> QED
        BY <1>0, <2>1, <3>2, <4>1 DEF UmPedido
    <3> QED
      BY <3>3, <3>4
  <2> QED
    BY <2>2, <2>3
<1>9. CASE ServerExit
  <2>1. /\ NaRede(d)' = NaRede(d) /\ NaFila(d)' = NaFila(d)
        /\ ~EmTratamento(d)' /\ pc' = pc
    BY <1>9 DEF ServerExit, NaRede, EmVoo, NaFila, EmTratamento, SemReq
  <2> QED
    BY <1>0, <2>1, UmPedidoMenos
<1>10. ASSUME NEW m \in net, Lose(m) PROVE UmPedido(d)'
  <2>1. /\ NaRede(d)' \subseteq NaRede(d) /\ NaFila(d)' = NaFila(d)
        /\ (EmTratamento(d)' <=> EmTratamento(d)) /\ pc' = pc
    BY <1>10 DEF Lose, NaRede, EmVoo, NaFila, EmTratamento
  <2> QED
    BY <1>0, <2>1, UmPedidoMenos
<1>11. CASE UNCHANGED vars
  <2>1. /\ NaRede(d)' = NaRede(d) /\ NaFila(d)' = NaFila(d)
        /\ (EmTratamento(d)' <=> EmTratamento(d)) /\ pc' = pc
    BY <1>11 DEF vars, NaRede, EmVoo, NaFila, EmTratamento
  <2> QED
    BY <1>0, <2>1, UmPedidoMenos
<1> QED
  BY <1>1, <1>2, <1>3, <1>4, <1>5, <1>6, <1>7, <1>8, <1>9, <1>10, <1>11
     DEF Next, ClientNext, ServerNext

\* At the start nobody has asked for anything.
LEMMA InitUmPedido == Init => UmPedidoCada
  BY DEF Init, ClientInit, ServerInit, UmPedidoCada, UmPedido, NaRede, EmVoo,
         NaFila, EmTratamento, SemReq

\* A request is in one place at most, in every state.
LEMMA UmPedidoSempre ==
  ASSUME RequestAssumption PROVE Spec => []UmPedidoCada
<1>1. TypeOK /\ OnlyOwnAcks /\ UmPedidoCada /\ [Next]_vars => UmPedidoCada'
  BY NextUmPedido DEF UmPedidoCada
<1> QED
  BY <1>1, InitUmPedido, TypeCorrect, NoForeignAcks, PTL DEF Spec

\* The cardinality of a set that has no two elements.
LEMMA Contagem ==
  ASSUME NEW S, \A x, y \in S : x = y
  PROVE  Cardinality(S) = IF S = {} THEN 0 ELSE 1
<1>1. CASE S = {}
  BY <1>1, FS_EmptySet
<1>2. CASE S # {}
  <2>1. PICK x \in S : TRUE
    BY <1>2
  <2>2. S = {x}
    BY <2>1
  <2>3. Cardinality({x}) = 1
    BY FS_Singleton
  <2> QED
    BY <1>2, <2>2, <2>3
<1> QED
  BY <1>1, <1>2

\* A client whose request is in one place at most has as many requests in the
\* system as Presente says.
LEMMA PedidosDef ==
  ASSUME NEW c, UmPedido(c)
  PROVE  Pedidos(c) = IF Presente(c) THEN 1 ELSE 0
<1> DEFINE P == EmVoo(c, "REQUEST_TOKEN")
           A == EmVoo(c, "REPLY_ALLOW")
<1>1. NaRede(c) = P \cup A /\ (P = {} \/ A = {})
      /\ (\A x, y \in P : x = y) /\ (\A x, y \in A : x = y)
  <2>1. P \cap A = {}
    BY DEF EmVoo
  <2> QED
    BY <2>1 DEF UmPedido, NaRede
<1>2. Pedidos(c) = Cardinality(P) + Cardinality(A) + Cardinality(NaFila(c))
                   + IF EmTratamento(c) THEN 1 ELSE 0
  BY DEF Pedidos, NaFila, EmTratamento
<1> HIDE DEF P, A
<1>3. /\ Cardinality(P) = IF P = {} THEN 0 ELSE 1
      /\ Cardinality(A) = IF A = {} THEN 0 ELSE 1
      /\ Cardinality(NaFila(c)) = IF NaFila(c) = {} THEN 0 ELSE 1
  BY <1>1, Contagem DEF UmPedido
<1>4. CASE NaRede(c) # {}
  <2>1. NaFila(c) = {} /\ ~EmTratamento(c) /\ Presente(c)
    BY <1>4 DEF UmPedido, Presente
  <2>2. Cardinality(P) + Cardinality(A) = 1
    BY <1>1, <1>3, <1>4
  <2> QED
    BY <1>2, <1>3, <2>1, <2>2
<1>5. CASE NaRede(c) = {}
  <2>1. Cardinality(P) = 0 /\ Cardinality(A) = 0
    BY <1>1, <1>3, <1>5
  <2>2. NaFila(c) = {} \/ ~EmTratamento(c)
    BY DEF UmPedido
  <2> QED
    BY <1>2, <1>3, <1>5, <2>1, <2>2 DEF Presente
<1> QED
  BY <1>4, <1>5

\* Where nothing that carries a request or its answer arrives twice, a client
\* never has two requests in the system, and none but while it waits: for
\* any number of clients, any PIDs, any losses and failures, and a queue of
\* any capacity.
THEOREM RequestUnique ==
  ASSUME RequestAssumption PROVE Spec => []OneRequest
<1>1. UmPedidoCada => OneRequest
  <2> SUFFICES ASSUME UmPedidoCada, NEW c \in Client
               PROVE  Pedidos(c) <= IF pc[c] \in {"wait", "fim"} THEN 1 ELSE 0
    BY DEF OneRequest
  <2>1. UmPedido(c)
    BY DEF UmPedidoCada
  <2>2. Pedidos(c) = IF Presente(c) THEN 1 ELSE 0
    BY <2>1, PedidosDef
  <2>3. pc[c] \notin {"wait", "fim"} => ~Presente(c)
    BY <2>1 DEF UmPedido, Presente
  <2> QED
    BY <2>2, <2>3
<1> QED
  BY <1>1, UmPedidoSempre, PTL
-----------------------------------------------------------------------------
(***************************************************************************)
(* No request is forgotten.                                                *)
(***************************************************************************)
\* The queue has room for a client that has no place in it, since the others
\* have one place each: insere does not refuse it.
LEMMA HaLugar ==
  ASSUME NoLossAssumption, TypeOK, UmPedidoCada,
         NEW e \in Entradas, NaFila(e.caddr) = {}
  PROVE  CabeNaFila(fila, N, e.PID)
<1> DEFINE c == e.caddr
           D == DOMAIN fila
           f == [i \in D |-> fila[i].caddr]
<1>1. D = 1 .. Len(fila) /\ Len(fila) \in Nat /\ \A i \in D : fila[i] \in Entradas
  BY DEF TypeOK
<1>2. c \in Client /\ e.PID = PID[c]
  BY EntradaDef
<1>3. \A i \in D : /\ fila[i].caddr \in Client \ {c}
                   /\ fila[i].PID = PID[fila[i].caddr]
  BY <1>1, EntradaDef DEF NaFila
<1>4. f \in [D -> Client \ {c}]
  BY <1>3
<1>5. \A i, j \in D : f[i] = f[j] => i = j
  BY <1>3 DEF UmPedidoCada, UmPedido, NaFila
<1>6. f \in Injection(D, Client \ {c})
  BY <1>4, <1>5 DEF Injection, IsInjective
<1>7. /\ IsFiniteSet(Client \ {c})
      /\ Cardinality(Client \ {c}) = Cardinality(Client) - 1
      /\ Cardinality(Client) \in Nat
  BY <1>2, FS_RemoveElement, FS_CardinalityType DEF NoLossAssumption
<1> HIDE DEF f
<1>8. Cardinality(D) <= Cardinality(Client \ {c})
  BY <1>6, <1>7, FS_Injection
<1>9. Cardinality(D) = Len(fila)
  <2>1. Cardinality(1 .. Len(fila)) = IF 1 > Len(fila) THEN 0 ELSE Len(fila) - 1 + 1
    BY <1>1, FS_Interval
  <2> QED
    BY <1>1, <2>1
<1>10. Len(fila) < N
  BY <1>1, <1>7, <1>8, <1>9, NAssumption DEF NoLossAssumption
<1>11. ~EstaNaFila(fila, e.PID)
  BY <1>2, <1>3 DEF NoLossAssumption, EstaNaFila
<1> QED
  BY <1>10, <1>11 DEF CabeNaFila

\* A datagram of another kind, or to another client, takes nothing of the
\* request of c with it.
LEMMA RetiradaAlheia ==
  ASSUME NEW c, NEW m, m.cod \notin {"REQUEST_TOKEN", "REPLY_ALLOW"} \/ m.addr # c,
         net \ {m} \subseteq net'
  PROVE  NaRede(c) \subseteq NaRede(c)'
  BY DEF NaRede, EmVoo

\* Every step leaves the request of a client that waits in some place.
LEMMA NextPresente ==
  ASSUME NoLossAssumption, TypeOK, OnlyOwnAcks, UmPedidoCada,
         NinguemEsquecido, [Next]_vars, NEW d \in Client, pc'[d] = "wait"
  PROVE  Presente(d)'
<1> USE DEF clientVars, serverVars
<1>0. pc[d] = "wait" => Presente(d)
  BY DEF NinguemEsquecido
<1>1. ASSUME NEW c \in Client, SendRequest(c) PROVE Presente(d)'
  <2>1. CASE d = c
    <3> DEFINE m == Requisicao(c, Rem(Inc(TEMPO[c])))
    <3>1. m \in net' /\ m.cod = "REQUEST_TOKEN" /\ m.addr = c
      BY <1>1 DEF SendRequest, Requisicao
    <3> HIDE DEF m
    <3> QED
      BY <2>1, <3>1 DEF Presente, NaRede, EmVoo
  <2>2. CASE d # c
    <3>1. pc[d] = "wait" /\ net \subseteq net' /\ fila' = fila /\ req' = req
      BY <1>1, <2>2 DEF SendRequest, TypeOK
    <3> QED
      BY <1>0, <3>1 DEF Presente, NaRede, EmVoo, NaFila, EmTratamento
  <2> QED
    BY <2>1, <2>2
<1>2. ASSUME NEW c \in Client, ReceiveAck(c) PROVE Presente(d)'
  <2>1. PICK m \in EmVoo(c, "ACK") : net' \in Restante(m)
    BY <1>2 DEF ReceiveAck
  <2>2. net \ {m} \subseteq net' /\ m.cod = "ACK"
    BY <2>1 DEF Restante, EmVoo
  <2>3. NaRede(d) \subseteq NaRede(d)'
    BY <2>2, RetiradaAlheia
  <2>4. pc[d] = "wait" /\ fila' = fila /\ req' = req
    BY <1>2 DEF ReceiveAck, OnlyOwnAcks
  <2> QED
    BY <1>0, <2>3, <2>4 DEF Presente, NaFila, EmTratamento
<1>3. ASSUME NEW c \in Client, ReceiveAllow(c) PROVE Presente(d)'
  <2>1. PICK m \in EmVoo(c, "REPLY_ALLOW") : net' \in Restante(m)
    BY <1>3 DEF ReceiveAllow
  <2>2. d # c /\ pc[d] = "wait" /\ fila' = fila /\ req' = req
    BY <1>3 DEF ReceiveAllow, TypeOK
  <2>3. net \ {m} \subseteq net' /\ m.addr = c
    BY <2>1 DEF Restante, EmVoo
  <2>4. NaRede(d) \subseteq NaRede(d)'
    BY <2>2, <2>3, RetiradaAlheia
  <2> QED
    BY <1>0, <2>2, <2>4 DEF Presente, NaFila, EmTratamento
<1>4. ASSUME NEW c \in Client, SendRelease(c) PROVE Presente(d)'
  <2>1. pc[d] = "wait" /\ net \subseteq net' /\ fila' = fila /\ req' = req
    BY <1>4 DEF SendRelease, TypeOK
  <2> QED
    BY <1>0, <2>1 DEF Presente, NaRede, EmVoo, NaFila, EmTratamento
<1>5. ASSUME NEW m \in net, Receive(m) PROVE Presente(d)'
  <2>1. pc[d] = "wait" /\ fila' = fila /\ req' = m /\ req = SemReq
    BY <1>5 DEF Receive
  <2>2. CASE m.cod = "REQUEST_TOKEN" /\ m.addr = d
    BY <2>1, <2>2 DEF Presente, EmTratamento
  <2>3. CASE ~(m.cod = "REQUEST_TOKEN" /\ m.addr = d)
    <3>1. net \ {m} \subseteq net'
      BY <1>5 DEF Receive, Restante
    <3>2. NaRede(d) \subseteq NaRede(d)'
      BY <1>5, <2>3, <3>1, RetiradaAlheia DEF Receive
    <3> QED
      BY <1>0, <2>1, <3>2 DEF Presente, NaFila, EmTratamento, SemReq
  <2> QED
    BY <2>2, <2>3
<1>6. CASE HandleRequest
  <2>1. req \in Requisicoes /\ Entrada(req) \in Entradas
    BY <1>6, Conteudo DEF HandleRequest, TypeOK, SemReq
  <2>2. pc[d] = "wait" /\ net \subseteq net'
    BY <1>6 DEF HandleRequest
  <2>3. NaRede(d) \subseteq NaRede(d)'
    BY <2>2 DEF NaRede, EmVoo
  <2>4. EmTratamento(d) <=> req.addr = d
    BY <1>6 DEF HandleRequest, EmTratamento
  <2>5. CASE flag = -1
    <3> DEFINE m == Reply(req.addr, valor)
    <3>1. /\ m \in net' /\ fila' = fila
          /\ m.cod = "REPLY_ALLOW" /\ m.addr = req.addr
      BY <1>6, <2>5 DEF HandleRequest, Reply
    <3> HIDE DEF m
    <3>2. req.addr = d => NaRede(d)' # {}
      BY <3>1 DEF NaRede, EmVoo
    <3> QED
      BY <1>0, <2>2, <2>3, <2>4, <3>1, <3>2 DEF Presente, NaFila
  <2>6. CASE flag # -1
    <3> DEFINE e == Entrada(req)
    <3>1. fila' = insere(fila, N, e) /\ e.caddr = req.addr
      BY <1>6, <2>6 DEF HandleRequest, Entrada
    <3>2. fila \in Seq(Entradas) /\ \A x \in Entradas : x.tempo \in Int
      BY EntradaDef DEF TypeOK
    <3>3. e \in Entradas
      BY <2>1
    <3> HIDE DEF e
    <3>4. NaFila(d) # {} => NaFila(d)' # {}
      <4> SUFFICES ASSUME NEW k \in NaFila(d) PROVE NaFila(d)' # {}
        OBVIOUS
      <4>1. k \in DOMAIN fila
        BY DEF NaFila
      <4>2. PICK i \in DOMAIN fila' : fila'[i] = fila[k]
        BY <3>1, <3>2, <3>3, <4>1, InsereGuarda
      <4> QED
        BY <4>2 DEF NaFila
    <3>5. req.addr = d => NaFila(d)' # {}
      <4> SUFFICES ASSUME req.addr = d PROVE NaFila(d)' # {}
        OBVIOUS
      <4>1. NaFila(d) = {}
        BY <2>4 DEF UmPedidoCada, UmPedido
      <4>2. CabeNaFila(fila, N, e.PID)
        BY <3>1, <3>3, <4>1, HaLugar
      <4>3. PICK i \in DOMAIN fila' : fila'[i] = e
        BY <3>1, <3>2, <3>3, <4>2, InsereGuarda
      <4> QED
        BY <3>1, <4>3 DEF NaFila
    <3> QED
      BY <1>0, <2>2, <2>3, <2>4, <3>4, <3>5 DEF Presente
  <2> QED
    BY <2>5, <2>6
<1>7. CASE HandleRelease
  <2>1. pc[d] = "wait" /\ net \subseteq net' /\ ~EmTratamento(d)
    BY <1>7 DEF HandleRelease, EmTratamento
  <2>2. NaRede(d) \subseteq NaRede(d)'
    BY <2>1 DEF NaRede, EmVoo
  <2>3. CASE fila = << >>
    BY <1>0, <1>7, <2>1, <2>2, <2>3 DEF HandleRelease, Presente, NaFila
  <2>4. CASE fila # << >>
    <3> DEFINE m == Reply(Head(fila).caddr, req.rec)
    <3>1. /\ m \in net' /\ fila' = removeItem(fila)
          /\ m.cod = "REPLY_ALLOW" /\ m.addr = Head(fila).caddr
      BY <1>7, <2>4 DEF HandleRelease, Reply
    <3> HIDE DEF m
    <3>2. /\ Head(fila) = fila[1]
          /\ \A k \in DOMAIN fila : k # 1 =>
               k - 1 \in DOMAIN fila' /\ fila'[k - 1] = fila[k]
      BY <2>4, <3>1, RemoveItemLugares DEF TypeOK
    <3>3. CASE m.addr = d
      BY <3>1, <3>3 DEF Presente, NaRede, EmVoo
    <3>4. CASE m.addr # d
      <4>1. ASSUME NEW k \in NaFila(d) PROVE k - 1 \in NaFila(d)'
        <5>1. k \in DOMAIN fila /\ fila[k].caddr = d /\ k # 1
          BY <3>1, <3>2, <3>4 DEF NaFila
        <5> QED
          BY <3>2, <5>1 DEF NaFila
      <4> QED
        BY <1>0, <2>1, <2>2, <4>1 DEF Presente
    <3> QED
      BY <3>3, <3>4
  <2> QED
    BY <2>3, <2>4
<1>8. ASSUME NEW m \in net, Lose(m) PROVE Presente(d)'
  <2>1. m.cod \notin {"REQUEST_TOKEN", "REPLY_ALLOW"} /\ net \ {m} \subseteq net'
    BY <1>8 DEF Lose, NoLossAssumption
  <2>2. NaRede(d) \subseteq NaRede(d)'
    BY <2>1, RetiradaAlheia
  <2> QED
    BY <1>0, <1>8, <2>2 DEF Lose, Presente, NaFila, EmTratamento
<1>9. CASE UNCHANGED vars
  BY <1>0, <1>9 DEF vars, Presente, NaRede, EmVoo, NaFila, EmTratamento
<1>10. ~ServerExit /\ \A c \in Client : ~ClientExit(c)
  BY DEF NoLossAssumption, ServerExit, ClientExit
<1> QED
  BY <1>1, <1>2, <1>3, <1>4, <1>5, <1>6, <1>7, <1>8, <1>9, <1>10
     DEF Next, ClientNext, ServerNext

\* Where no request and no answer is lost, no process stops, and the queue
\* has room for every client, the request of a client that waits is always
\* somewhere: insere, whose refusal nobody looks at, refuses none.
THEOREM RequestsKept ==
  ASSUME NoLossAssumption PROVE Spec => []NoForgottenRequest
<1>1. Init => NinguemEsquecido
  BY DEF Init, ClientInit, NinguemEsquecido
<1>2. TypeOK /\ OnlyOwnAcks /\ UmPedidoCada /\ NinguemEsquecido /\ [Next]_vars
        => NinguemEsquecido'
  BY NextPresente DEF NinguemEsquecido
<1>3. UmPedidoCada /\ NinguemEsquecido => NoForgottenRequest
  <2> SUFFICES ASSUME UmPedidoCada, NinguemEsquecido,
                      NEW c \in Client, pc[c] = "wait"
               PROVE  Pedidos(c) >= 1
    BY DEF NoForgottenRequest
  <2>1. Pedidos(c) = 1
    BY PedidosDef DEF UmPedidoCada, NinguemEsquecido
  <2> QED
    BY <2>1
<1>4. RequestAssumption
  BY DEF NoLossAssumption
<1> QED
  BY <1>1, <1>2, <1>3, <1>4, UmPedidoSempre, NoForeignAcks, TypeCorrect, PTL
     DEF Spec
-----------------------------------------------------------------------------
(***************************************************************************)
(* The token is not lost.                                                  *)
(***************************************************************************)
\* Every step that takes the token from somebody gives it to somebody, or
\* frees it.
LEMMA NextTokenPresente ==
  ASSUME NoTokenLossAssumption, TypeOK, OnlyOwnAcks, TokenPresente, [Next]_vars
  PROVE  TokenPresente'
<1> USE DEF clientVars, serverVars, ComToken, Concessoes, Devolucoes, NaSecao
<1>1. ASSUME NEW c \in Client, SendRequest(c) PROVE TokenPresente'
  BY <1>1 DEF SendRequest, TypeOK, TokenPresente
<1>2. ASSUME NEW c \in Client, ReceiveAck(c) PROVE TokenPresente'
  <2>1. PICK m \in EmVoo(c, "ACK") : net' \in Restante(m)
    BY <1>2 DEF ReceiveAck
  <2>2. ComToken \subseteq ComToken'
    BY <2>1 DEF Restante, EmVoo
  <2>3. pc' = pc
    BY <1>2 DEF ReceiveAck, OnlyOwnAcks
  <2> QED
    BY <1>2, <2>2, <2>3 DEF ReceiveAck, TokenPresente
<1>3. ASSUME NEW c \in Client, ReceiveAllow(c) PROVE TokenPresente'
  <2>1. c \in NaSecao'
    BY <1>3 DEF ReceiveAllow, TypeOK
  <2> QED
    BY <2>1 DEF TokenPresente
<1>4. ASSUME NEW c \in Client, SendRelease(c) PROVE TokenPresente'
  <2> DEFINE m == Liberacao(c, Rem(Inc(TEMPO[c])), Seguinte(rec[c]))
  <2>1. m \in net' /\ m.cod = "RELEASE_TOKEN"
    BY <1>4 DEF SendRelease, Liberacao
  <2> HIDE DEF m
  <2> QED
    BY <2>1 DEF TokenPresente
<1>5. ASSUME NEW m \in net, Receive(m) PROVE TokenPresente'
  <2>1. CASE m.cod = "RELEASE_TOKEN"
    BY <1>5, <2>1 DEF Receive, TokenPresente
  <2>2. CASE m.cod = "REQUEST_TOKEN"
    <3>1. ComToken \subseteq ComToken'
      BY <1>5, <2>2 DEF Receive, Restante
    <3> QED
      BY <1>5, <3>1 DEF Receive, TokenPresente, SemReq
  <2> QED
    BY <1>5, <2>1, <2>2 DEF Receive
<1>6. CASE HandleRequest
  <2>1. CASE flag = -1
    <3>1. Reply(req.addr, valor) \in ComToken'
      BY <1>6, <2>1 DEF HandleRequest, Reply
    <3> QED
      BY <3>1 DEF TokenPresente
  <2>2. CASE flag # -1
    BY <1>6, <2>2 DEF HandleRequest, TokenPresente
  <2> QED
    BY <2>1, <2>2
<1>7. CASE HandleRelease
  <2>1. CASE fila = << >>
    BY <1>7, <2>1 DEF HandleRelease, TokenPresente
  <2>2. CASE fila # << >>
    <3>1. Reply(Head(fila).caddr, req.rec) \in ComToken'
      BY <1>7, <2>2 DEF HandleRelease, Reply
    <3> QED
      BY <3>1 DEF TokenPresente
  <2> QED
    BY <2>1, <2>2
<1>8. ASSUME NEW m \in net, Lose(m) PROVE TokenPresente'
  <2>1. ComToken' = ComToken
    BY <1>8 DEF Lose, NoTokenLossAssumption
  <2> QED
    BY <1>8, <2>1 DEF Lose, TokenPresente
<1>9. CASE UNCHANGED vars
  BY <1>9 DEF vars, TokenPresente
<1>10. ~ServerExit /\ \A c \in Client : ~ClientExit(c)
  BY DEF NoTokenLossAssumption, ServerExit, ClientExit
<1> QED
  BY <1>1, <1>2, <1>3, <1>4, <1>5, <1>6, <1>7, <1>8, <1>9, <1>10
     DEF Next, ClientNext, ServerNext

\* Where nothing that carries the token is lost, and no process stops, the
\* token is not lost either: it is free, or exactly one client, datagram or
\* treatment has it.
THEOREM TokenKept ==
  ASSUME NoTokenLossAssumption PROVE Spec => []TokenNeverLost
<1>1. Init => TokenPresente
  BY DEF Init, ServerInit, TokenPresente
<1>2. TypeOK /\ OnlyOwnAcks /\ TokenPresente /\ [Next]_vars => TokenPresente'
  BY NextTokenPresente
<1>3. TokenUnico /\ TokenPresente => TokenNeverLost
  <2> SUFFICES ASSUME TokenUnico, TokenPresente PROVE TokenNeverLost
    OBVIOUS
  <2>1. /\ \A c, d \in NaSecao : c = d
        /\ \A m, n \in Concessoes : m = n
        /\ \A m, n \in Devolucoes : m = n
        /\ Concessoes = {} \/ Devolucoes = {}
    BY DEF TokenUnico, ComToken, Concessoes, Devolucoes
  <2>2. /\ Cardinality(NaSecao) = IF NaSecao = {} THEN 0 ELSE 1
        /\ Cardinality(Concessoes) = IF Concessoes = {} THEN 0 ELSE 1
        /\ Cardinality(Devolucoes) = IF Devolucoes = {} THEN 0 ELSE 1
    BY <2>1, Contagem
  <2>3. ComToken = {} <=> Concessoes = {} /\ Devolucoes = {}
    BY DEF ComToken
  <2>4. /\ ComToken = {} \/ NaSecao = {}
        /\ req.cod = "RELEASE_TOKEN" => ComToken = {} /\ NaSecao = {}
        /\ flag = -1 <=> ComToken = {} /\ NaSecao = {} /\ req.cod # "RELEASE_TOKEN"
    BY DEF TokenUnico, TokenPresente
  <2> QED
    BY <2>1, <2>2, <2>3, <2>4 DEF TokenNeverLost
<1>4. TokenAssumption
  BY DEF NoTokenLossAssumption
<1> QED
  BY <1>1, <1>2, <1>3, <1>4, TokenUnique, NoForeignAcks, TypeCorrect, PTL
     DEF Spec
=============================================================================
