------------------------ MODULE CentralServerProofs -------------------------
(***************************************************************************)
(* Theorems about CentralServer, for any clients, PIDs, capacity, integer  *)
(* width, losses and failures.                                             *)
(***************************************************************************)
EXTENDS CentralServer, FilaProofs
-----------------------------------------------------------------------------
(***************************************************************************)
(* Integers.                                                               *)
(***************************************************************************)
\* C int arithmetic stays within an int, ...
LEMMA ToIntType ==
  ASSUME NEW max \in Nat, NEW x \in Int
  PROVE  ToInt(max, x) \in CInt(max)
<1> DEFINE w == 2 * (max + 1)
<1>1. w \in Nat \ {0}
  OBVIOUS
<1> HIDE DEF w
<1>2. \A y \in Int : y % w \in 0 .. w - 1
  BY <1>1
<1>3. (x + max + 1) % w \in 0 .. w - 1
  BY <1>2
<1> QED
  BY <1>3 DEF ToInt, CInt, w

\* ... so does the remainder by INT_MAX, ...
LEMMA RemType ==
  ASSUME NEW t \in Int
  PROVE  Rem(t) \in CInt(ClockMax)
<1>1. \A y \in Int : y % ClockMax \in 0 .. ClockMax - 1
  BY ClockAssumption
<1> QED
  BY <1>1, ClockAssumption DEF Rem, CInt

\* A clock and its stamps stay within an int, ...
LEMMA IncType ==
  ASSUME NEW t \in CInt(ClockMax)
  PROVE  Inc(t) \in CInt(ClockMax) /\ Rem(Inc(t)) \in CInt(ClockMax)
<1>1. t + 1 \in Int /\ ClockMax \in Nat
  BY ClockAssumption DEF CInt
<1>2. Inc(t) \in CInt(ClockMax)
  BY <1>1, ToIntType DEF Inc
<1>3. Inc(t) \in Int
  BY <1>1, <1>2 DEF CInt
<1> QED
  BY <1>2, <1>3, RemType

\* ... so does the counter, ...
LEMMA SeguinteType ==
  ASSUME NEW v \in CInt(ValorMax)
  PROVE  Seguinte(v) \in CInt(ValorMax)
<1>1. v + 1 \in Int /\ ValorMax \in Nat
  BY ValorAssumption DEF CInt
<1> QED
  BY <1>1, ToIntType DEF Seguinte

\* ... and what is left of a PID is a char.
LEMMA ToCharType ==
  ASSUME NEW x \in Int
  PROVE  ToChar(x) \in -128 .. 127
  BY DEF ToChar
-----------------------------------------------------------------------------
(***************************************************************************)
(* Type correctness.                                                       *)
(***************************************************************************)
\* The datagrams are what their code says they are.
LEMMA Datagramas ==
  ASSUME TypeOK, NEW m \in net
  PROVE  /\ m.addr \in Client
         /\ m.cod = "REQUEST_TOKEN" => m \in Requisicoes
         /\ m.cod = "RELEASE_TOKEN" => m \in Liberacoes
         /\ m.cod = "REPLY_ALLOW" => m \in Replies
         /\ m.cod = "ACK" => m \in Acks
  BY DEF TypeOK, Requisicoes, Liberacoes, Replies, Acks, Requisicao,
         Liberacao, Reply

\* A RELEASE_TOKEN names its client, and carries a clock and a counter; a
\* REQUEST_TOKEN becomes an entry of the queue.
LEMMA Conteudo ==
  /\ \A m \in Requisicoes \cup Liberacoes :
       /\ m.addr \in Client
       /\ m.PID = PID[m.addr]
       /\ m.tempo \in CInt(ClockMax)
  /\ \A m \in Requisicoes : m.cod = "REQUEST_TOKEN" /\ Entrada(m) \in Entradas
  /\ \A m \in Liberacoes : m.cod = "RELEASE_TOKEN" /\ m.rec \in CInt(ValorMax)
  /\ \A m \in Replies : /\ m.addr \in Client
                        /\ m.cod = "REPLY_ALLOW"
                        /\ m.rec \in CInt(ValorMax)
  /\ \A m \in Acks : m.cod = "ACK" /\ m.addr \in Client /\ m.PID = PID[m.addr]
  BY DEF Requisicoes, Liberacoes, Replies, Acks, Requisicao, Liberacao, Reply,
         Entradas

\* An entry of the queue is the request of a client.
LEMMA EntradaDef ==
  \A e \in Entradas : /\ e.caddr \in Client
                      /\ e.PID = PID[e.caddr]
                      /\ e.PID \in Int
                      /\ e.tempo \in Int
  BY PIDAssumption, ClockAssumption
     DEF Entradas, Entrada, Requisicoes, Requisicao, CInt

\* The program starts with values of the right types.
LEMMA InitType == Init => TypeOK
<1> SUFFICES ASSUME Init PROVE TypeOK
  OBVIOUS
<1>1. 0 \in CInt(ClockMax) /\ 0 \in CInt(ValorMax)
  BY ClockAssumption, ValorAssumption DEF CInt
<1>2. fila \in Seq(Entradas)
  BY DEF Init, ClientInit, ServerInit
<1> QED
  BY <1>1, <1>2, ValorAssumption DEF Init, ClientInit, ServerInit, TypeOK

\* What is left of the datagrams is some of them.
LEMMA RestanteDef ==
  ASSUME NEW m PROVE \A r \in Restante(m) : r \subseteq net
  BY DEF Restante

\* Every step of the program keeps the types.
LEMMA NextType == TypeOK /\ [Next]_vars => TypeOK'
<1> SUFFICES ASSUME TypeOK, [Next]_vars PROVE TypeOK'
  OBVIOUS
<1> USE DEF clientVars, serverVars
<1>1. ASSUME NEW c \in Client, SendRequest(c) PROVE TypeOK'
  <2>1. /\ Inc(TEMPO[c]) \in CInt(ClockMax)
        /\ Rem(Inc(TEMPO[c])) \in CInt(ClockMax)
    BY IncType DEF TypeOK
  <2>2. Requisicao(c, Rem(Inc(TEMPO[c]))) \in Requisicoes
    BY <2>1 DEF Requisicoes
  <2> QED
    BY <1>1, <2>1, <2>2 DEF SendRequest, TypeOK
<1>2. ASSUME NEW c \in Client, ReceiveAck(c) PROVE TypeOK'
  <2>1. PICK m \in EmVoo(c, "ACK") :
          /\ aguardar' = [aguardar EXCEPT ![c] =
               IF m.PID # PID[c] THEN aguardar[c] + 1 ELSE aguardar[c]]
          /\ pc' = IF m.PID # PID[c]
                        /\ (IF m.PID # PID[c] THEN aguardar[c] + 1
                                              ELSE aguardar[c]) > 3
                     THEN [pc EXCEPT ![c] = "start"] ELSE pc
          /\ net' \in Restante(m)
    BY <1>2 DEF ReceiveAck
  <2>2. m \in Acks /\ m.addr = c
    BY Datagramas DEF EmVoo
  <2>3. m.PID = PID[c]
    BY <2>2, Conteudo
  <2>4. pc' = pc /\ aguardar' = aguardar
    BY <2>1, <2>3 DEF TypeOK
  <2>5. net' \subseteq net
    BY <2>1, RestanteDef
  <2> QED
    BY <1>2, <2>4, <2>5 DEF ReceiveAck, TypeOK
<1>3. ASSUME NEW c \in Client, ReceiveAllow(c) PROVE TypeOK'
  <2>1. PICK m \in EmVoo(c, "REPLY_ALLOW") :
          rec' = [rec EXCEPT ![c] = m.rec] /\ net' \in Restante(m)
    BY <1>3 DEF ReceiveAllow
  <2>2. m.rec \in CInt(ValorMax)
    BY Datagramas, Conteudo DEF EmVoo
  <2>3. net' \subseteq net
    BY <2>1, RestanteDef
  <2>4. Rem(Inc(TEMPO[c])) \in CInt(ClockMax)
    BY IncType DEF TypeOK
  <2> QED
    BY <1>3, <2>1, <2>2, <2>3, <2>4 DEF ReceiveAllow, TypeOK
<1>4. ASSUME NEW c \in Client, SendRelease(c) PROVE TypeOK'
  <2>1. Inc(TEMPO[c]) \in CInt(ClockMax)
    BY IncType DEF TypeOK
  <2>2. Rem(Inc(TEMPO[c])) \in CInt(ClockMax)
    BY IncType DEF TypeOK
  <2>3. Seguinte(rec[c]) \in CInt(ValorMax) /\ 0 \in CInt(ValorMax)
    BY SeguinteType, ValorAssumption DEF CInt, TypeOK
  <2>4. Liberacao(c, Rem(Inc(TEMPO[c])), Seguinte(rec[c])) \in Liberacoes
    BY <2>2, <2>3 DEF Liberacoes
  <2> QED
    BY <1>4, <2>1, <2>3, <2>4 DEF SendRelease, TypeOK
<1>5. ASSUME NEW c \in Client, ClientExit(c) PROVE TypeOK'
  BY <1>5 DEF ClientExit, TypeOK
<1>6. ASSUME NEW m \in net, Receive(m) PROVE TypeOK'
  <2>1. m \in Requisicoes \cup Liberacoes
    BY <1>6, Datagramas DEF Receive
  <2>2. Ack(m) \in Acks
    BY <2>1, Conteudo DEF Ack, Acks
  <2>3. m.tempo \in Int
    BY <2>1, Conteudo, ClockAssumption DEF CInt
  <2>4. srvTEMPO' \in Int
    <3>1. (IF srvTEMPO > m.tempo THEN srvTEMPO ELSE m.tempo) + 1 \in Int
      BY <2>3 DEF TypeOK
    <3>2. srvTEMPO' \in CInt(ClockMax)
      BY <1>6, <3>1, RemType DEF Receive
    <3> QED
      BY <3>2, ClockAssumption DEF CInt
  <2>5. net' \subseteq net \cup Acks
    BY <1>6, <2>2, RestanteDef DEF Receive
  <2> QED
    BY <1>6, <2>1, <2>4, <2>5 DEF Receive, TypeOK
<1>7. CASE HandleRequest
  <2>1. req \in Requisicoes
    BY <1>7, Conteudo DEF HandleRequest, TypeOK, SemReq
  <2>2. req.addr \in Client /\ req.PID \in Int /\ Entrada(req) \in Entradas
    BY <2>1, Conteudo, PIDAssumption
  <2>3. ToChar(req.PID) \in -128 .. 127
    BY <2>2, ToCharType
  <2>4. Reply(req.addr, valor) \in Replies
    BY <2>2 DEF Replies, TypeOK
  <2>5. insere(fila, N, Entrada(req)) \in Seq(Entradas)
    BY <2>2, EntradaDef, InsereSeq DEF TypeOK
  <2>6. CASE flag = -1
    BY <1>7, <2>3, <2>4, <2>6 DEF HandleRequest, TypeOK
  <2>7. CASE flag # -1
    BY <1>7, <2>5, <2>7 DEF HandleRequest, TypeOK
  <2> QED
    BY <2>6, <2>7
<1>8. CASE HandleRelease
  <2>1. req \in Liberacoes
    BY <1>8, Conteudo DEF HandleRelease, TypeOK, SemReq
  <2>2. req.rec \in CInt(ValorMax)
    BY <2>1, Conteudo
  <2>3. CASE fila = << >>
    BY <1>8, <2>2, <2>3 DEF HandleRelease, TypeOK
  <2>4. CASE fila # << >>
    <3>1. Head(fila) \in Entradas /\ removeItem(fila) \in Seq(Entradas)
      BY <2>4, RemoveItemSeq DEF TypeOK
    <3>2. ToChar(Head(fila).PID) \in -128 .. 127
      BY <3>1, EntradaDef, ToCharType
    <3>3. Reply(Head(fila).caddr, req.rec) \in Replies
      BY <2>2, <3>1, EntradaDef DEF Replies
    <3> QED
      BY <1>8, <2>2, <2>4, <3>1, <3>2, <3>3 DEF HandleRelease, TypeOK
  <2> QED
    BY <2>3, <2>4
<1>9. CASE ServerExit
  BY <1>9 DEF ServerExit, TypeOK
<1>10. ASSUME NEW m \in net, Lose(m) PROVE TypeOK'
  BY <1>10 DEF Lose, TypeOK
<1>11. CASE UNCHANGED vars
  BY <1>11 DEF vars, TypeOK
<1> QED
  BY <1>1, <1>2, <1>3, <1>4, <1>5, <1>6, <1>7, <1>8, <1>9, <1>10, <1>11
     DEF Next, ClientNext, ServerNext

\* Every variable keeps the values its C type and its role allow.
THEOREM TypeCorrect == Spec => []TypeOK
  BY InitType, NextType, PTL DEF Spec
-----------------------------------------------------------------------------
(***************************************************************************)
(* The token.                                                              *)
(***************************************************************************)
\* Receiving a datagram that carries the token takes it off the network.
LEMMA RestanteToken ==
  ASSUME TokenAssumption, NEW m, m.cod \in {"REPLY_ALLOW", "RELEASE_TOKEN"}
  PROVE  Restante(m) = {net \ {m}}
  BY DEF TokenAssumption, Restante

\* At the start the token is free, and nowhere else.
LEMMA InitToken == Init => TokenUnico
  BY DEF Init, ClientInit, ServerInit, TokenUnico, ComToken, Concessoes, Devolucoes, NaSecao, SemReq

\* Every step moves the token, at most, and never makes a second one.
LEMMA NextToken ==
  ASSUME TokenAssumption, TypeOK, TokenUnico, [Next]_vars
  PROVE  TokenUnico'
<1> USE DEF clientVars, serverVars, ComToken, Concessoes, Devolucoes, NaSecao
<1>1. ASSUME NEW c \in Client, SendRequest(c) PROVE TokenUnico'
  <2>1. ComToken' = ComToken
    BY <1>1 DEF SendRequest, Requisicao
  <2>2. NaSecao' = NaSecao
    BY <1>1 DEF SendRequest, TypeOK
  <2> QED
    BY <1>1, <2>1, <2>2 DEF SendRequest, TokenUnico
<1>2. ASSUME NEW c \in Client, ReceiveAck(c) PROVE TokenUnico'
  <2>1. ComToken' \subseteq ComToken
    BY <1>2, RestanteDef DEF ReceiveAck
  <2>2. NaSecao' \subseteq NaSecao
    BY <1>2 DEF ReceiveAck, TypeOK
  <2> QED
    BY <1>2, <2>1, <2>2 DEF ReceiveAck, TokenUnico
<1>3. ASSUME NEW c \in Client, ReceiveAllow(c) PROVE TokenUnico'
  <2>1. PICK m \in EmVoo(c, "REPLY_ALLOW") : net' = net \ {m}
    BY <1>3, RestanteToken DEF ReceiveAllow, EmVoo
  <2>2. m \in ComToken
    BY DEF EmVoo
  <2>3. ComToken' = {}
    BY <2>1, <2>2 DEF TokenUnico
  <2>4. NaSecao' = {c}
    BY <1>3, <2>2 DEF ReceiveAllow, TypeOK, TokenUnico
  <2> QED
    BY <1>3, <2>2, <2>3, <2>4 DEF ReceiveAllow, TokenUnico
<1>4. ASSUME NEW c \in Client, SendRelease(c) PROVE TokenUnico'
  <2>1. c \in NaSecao
    BY <1>4 DEF SendRelease
  <2>2. NaSecao' = {}
    BY <1>4, <2>1 DEF SendRelease, TypeOK, TokenUnico
  <2> DEFINE m == Liberacao(c, Rem(Inc(TEMPO[c])), Seguinte(rec[c]))
  <2>3. net' = net \cup {m} /\ m.cod = "RELEASE_TOKEN"
    BY <1>4 DEF SendRelease, Liberacao
  <2> HIDE DEF m
  <2>4. ComToken' = {m}
    BY <2>1, <2>3 DEF TokenUnico
  <2> QED
    BY <1>4, <2>1, <2>2, <2>4 DEF SendRelease, TokenUnico
<1>5. ASSUME NEW c \in Client, ClientExit(c) PROVE TokenUnico'
  <2>1. NaSecao' \subseteq NaSecao
    BY <1>5 DEF ClientExit, TypeOK
  <2>2. ComToken' = ComToken
    BY <1>5 DEF ClientExit
  <2> QED
    BY <1>5, <2>1, <2>2 DEF ClientExit, TokenUnico
<1>6. ASSUME NEW m \in net, Receive(m) PROVE TokenUnico'
  <2>1. NaSecao' = NaSecao /\ flag' = flag /\ req' = m
    BY <1>6 DEF Receive
  <2>2. PICK r \in Restante(m) : net' = r \cup {Ack(m)}
    BY <1>6 DEF Receive
  <2>3. ComToken' = {n \in r : n.cod \in {"REPLY_ALLOW", "RELEASE_TOKEN"}}
    BY <2>2 DEF Ack
  <2>4. CASE m.cod = "REQUEST_TOKEN"
    <3>1. ComToken' \subseteq ComToken
      BY <2>3, RestanteDef
    <3> QED
      BY <2>1, <2>4, <3>1 DEF TokenUnico
  <2>5. CASE m.cod = "RELEASE_TOKEN"
    <3>1. r = net \ {m} /\ m \in ComToken
      BY <2>2, <2>5, RestanteToken
    <3>2. ComToken' = {}
      BY <2>3, <3>1 DEF TokenUnico
    <3> QED
      BY <2>1, <3>1, <3>2 DEF TokenUnico
  <2> QED
    BY <1>6, <2>4, <2>5 DEF Receive
<1>7. CASE HandleRequest
  <2>1. req' = SemReq /\ req'.cod # "RELEASE_TOKEN" /\ NaSecao' = NaSecao
    BY <1>7 DEF HandleRequest, SemReq
  <2>2. CASE flag = -1
    <3>1. req \in Requisicoes
      BY <1>7, Conteudo DEF HandleRequest, TypeOK, SemReq
    <3>2. ToChar(req.PID) # -1
      BY <3>1, Conteudo DEF TokenAssumption
    <3>3. flag' = ToChar(req.PID)
          /\ net' = net \cup {Reply(req.addr, valor)}
      BY <1>7, <2>2 DEF HandleRequest
    <3>4. ComToken' = {Reply(req.addr, valor)} /\ NaSecao = {}
      BY <2>2, <3>3 DEF TokenUnico, Reply
    <3> QED
      BY <2>1, <3>2, <3>3, <3>4 DEF TokenUnico
  <2>3. CASE flag # -1
    <3>1. ComToken' = ComToken /\ flag' = flag
      BY <1>7, <2>3 DEF HandleRequest
    <3> QED
      BY <2>1, <2>3, <3>1 DEF TokenUnico
  <2> QED
    BY <2>2, <2>3
<1>8. CASE HandleRelease
  <2>1. /\ req' = SemReq /\ req'.cod # "RELEASE_TOKEN"
        /\ NaSecao' = {} /\ ComToken = {}
    BY <1>8 DEF HandleRelease, SemReq, TokenUnico
  <2>2. CASE fila = << >>
    <3>1. ComToken' = {}
      BY <1>8, <2>1, <2>2 DEF HandleRelease
    <3> QED
      BY <2>1, <3>1 DEF TokenUnico
  <2>3. CASE fila # << >>
    <3>1. Head(fila) \in Entradas
      BY <2>3, RemoveItemSeq DEF TypeOK
    <3>2. ToChar(Head(fila).PID) # -1
      BY <3>1, EntradaDef DEF TokenAssumption
    <3>3. /\ flag' = ToChar(Head(fila).PID)
          /\ net' = net \cup {Reply(Head(fila).caddr, req.rec)}
      BY <1>8, <2>3 DEF HandleRelease
    <3>4. ComToken' = {Reply(Head(fila).caddr, req.rec)}
      BY <2>1, <3>3 DEF Reply
    <3> QED
      BY <2>1, <3>2, <3>3, <3>4 DEF TokenUnico
  <2> QED
    BY <2>2, <2>3
<1>9. CASE ServerExit
  BY <1>9 DEF ServerExit, TokenUnico, SemReq
<1>10. ASSUME NEW m \in net, Lose(m) PROVE TokenUnico'
  <2>1. ComToken' \subseteq ComToken
    BY <1>10 DEF Lose
  <2>2. NaSecao' = NaSecao /\ flag' = flag /\ req' = req
    BY <1>10 DEF Lose
  <2> QED
    BY <2>1, <2>2 DEF TokenUnico
<1>11. CASE UNCHANGED vars
  BY <1>11 DEF vars, TokenUnico
<1> QED
  BY <1>1, <1>2, <1>3, <1>4, <1>5, <1>6, <1>7, <1>8, <1>9, <1>10, <1>11
     DEF Next, ClientNext, ServerNext

\* There is never more than one token, wherever it is.
THEOREM TokenUnique ==
  ASSUME TokenAssumption PROVE Spec => []TokenUnico
<1>1. TypeOK /\ TokenUnico /\ [Next]_vars => TokenUnico'
  BY NextToken
<1> QED
  BY <1>1, InitToken, TypeCorrect, PTL DEF Spec

\* Two clients are never in their critical sections at once, however many
\* clients there are, and whatever is lost, late or overtaken.
THEOREM Mutex ==
  ASSUME TokenAssumption PROVE Spec => []MutualExclusion
<1>1. TokenUnico => MutualExclusion
  BY DEF TokenUnico, MutualExclusion
<1> QED
  BY <1>1, TokenUnique, PTL
-----------------------------------------------------------------------------
(***************************************************************************)
(* The counter that travels with the token.                                *)
(***************************************************************************)
\* At the start nobody has the counter but the server.
LEMMA InitCounter == Init => CounterHandedOver
  BY DEF Init, ClientInit, ServerInit, CounterHandedOver, NaSecao, Concessoes, Devolucoes, SemReq

\* Every step takes the counter along with the token.
LEMMA NextCounter ==
  ASSUME TokenAssumption, TypeOK, TokenUnico, CounterHandedOver, [Next]_vars
  PROVE  CounterHandedOver'
<1> USE DEF clientVars, serverVars, Concessoes, Devolucoes, NaSecao
<1>1. ASSUME NEW c \in Client, SendRequest(c) PROVE CounterHandedOver'
  <2>1. Concessoes' = Concessoes /\ Devolucoes' = Devolucoes
    BY <1>1 DEF SendRequest, Requisicao
  <2>2. NaSecao' = NaSecao
    BY <1>1 DEF SendRequest, TypeOK
  <2> QED
    BY <1>1, <2>1, <2>2 DEF SendRequest, CounterHandedOver
<1>2. ASSUME NEW c \in Client, ReceiveAck(c) PROVE CounterHandedOver'
  <2>1. Concessoes' \subseteq Concessoes /\ Devolucoes' \subseteq Devolucoes
    BY <1>2, RestanteDef DEF ReceiveAck
  <2>2. NaSecao' \subseteq NaSecao
    BY <1>2 DEF ReceiveAck, TypeOK
  <2> QED
    BY <1>2, <2>1, <2>2 DEF ReceiveAck, CounterHandedOver
<1>3. ASSUME NEW c \in Client, ReceiveAllow(c) PROVE CounterHandedOver'
  <2>1. PICK m \in EmVoo(c, "REPLY_ALLOW") :
          rec' = [rec EXCEPT ![c] = m.rec] /\ net' \in Restante(m)
    BY <1>3 DEF ReceiveAllow
  <2>2. m \in Concessoes
    BY DEF EmVoo
  <2>3. net' \subseteq net
    BY <2>1, RestanteDef
  <2>4. rec'[c] = valor
    BY <2>1, <2>2 DEF CounterHandedOver, TypeOK
  <2>5. NaSecao' = {c}
    BY <1>3, <2>2 DEF ReceiveAllow, TypeOK, TokenUnico, ComToken
  <2> QED
    BY <1>3, <2>3, <2>4, <2>5 DEF ReceiveAllow, CounterHandedOver
<1>4. ASSUME NEW c \in Client, SendRelease(c) PROVE CounterHandedOver'
  <2>1. c \in NaSecao /\ rec[c] = valor
    BY <1>4 DEF SendRelease, CounterHandedOver
  <2>2. NaSecao' = {}
    BY <1>4, <2>1 DEF SendRelease, TypeOK, TokenUnico
  <2> DEFINE m == Liberacao(c, Rem(Inc(TEMPO[c])), Seguinte(rec[c]))
  <2>3. net' = net \cup {m} /\ m.cod = "RELEASE_TOKEN"
        /\ m.rec = Seguinte(valor)
    BY <1>4, <2>1 DEF SendRelease, Liberacao
  <2> HIDE DEF m
  <2> QED
    BY <1>4, <2>2, <2>3 DEF SendRelease, CounterHandedOver
<1>5. ASSUME NEW c \in Client, ClientExit(c) PROVE CounterHandedOver'
  <2>1. NaSecao' \subseteq NaSecao
    BY <1>5 DEF ClientExit, TypeOK
  <2> QED
    BY <1>5, <2>1 DEF ClientExit, CounterHandedOver
<1>6. ASSUME NEW m \in net, Receive(m) PROVE CounterHandedOver'
  <2>1. net' \subseteq net \cup {Ack(m)}
    BY <1>6, RestanteDef DEF Receive
  <2>2. Concessoes' \subseteq Concessoes /\ Devolucoes' \subseteq Devolucoes
    BY <2>1 DEF Ack
  <2> QED
    BY <1>6, <2>2 DEF Receive, CounterHandedOver
<1>7. CASE HandleRequest
  <2>1. /\ req' = SemReq /\ req'.cod # "RELEASE_TOKEN" /\ NaSecao' = NaSecao
        /\ rec' = rec /\ valor' = valor
    BY <1>7 DEF HandleRequest, SemReq
  <2>2. CASE flag = -1
    <3>1. net' = net \cup {Reply(req.addr, valor)}
      BY <1>7, <2>2 DEF HandleRequest
    <3>2. Concessoes' = Concessoes \cup {Reply(req.addr, valor)}
          /\ Devolucoes' = Devolucoes /\ Reply(req.addr, valor).rec = valor
      BY <3>1 DEF Reply
    <3> QED
      BY <2>1, <3>2 DEF CounterHandedOver
  <2>3. CASE flag # -1
    BY <1>7, <2>1, <2>3 DEF HandleRequest, CounterHandedOver
  <2> QED
    BY <2>2, <2>3
<1>8. CASE HandleRelease
  <2>1. /\ req' = SemReq /\ req'.cod # "RELEASE_TOKEN" /\ NaSecao' = {}
        /\ Concessoes = {} /\ Devolucoes = {} /\ valor' = req.rec
    BY <1>8 DEF HandleRelease, SemReq, TokenUnico, ComToken
  <2>2. CASE fila = << >>
    BY <1>8, <2>1, <2>2 DEF HandleRelease, CounterHandedOver
  <2>3. CASE fila # << >>
    <3>1. net' = net \cup {Reply(Head(fila).caddr, req.rec)}
      BY <1>8, <2>3 DEF HandleRelease
    <3>2. Concessoes' = {Reply(Head(fila).caddr, req.rec)}
          /\ Devolucoes' = {} /\ Reply(Head(fila).caddr, req.rec).rec = req.rec
      BY <2>1, <3>1 DEF Reply
    <3> QED
      BY <2>1, <3>2 DEF CounterHandedOver
  <2> QED
    BY <2>2, <2>3
<1>9. CASE ServerExit
  BY <1>9 DEF ServerExit, CounterHandedOver, SemReq
<1>10. ASSUME NEW m \in net, Lose(m) PROVE CounterHandedOver'
  BY <1>10 DEF Lose, CounterHandedOver
<1>11. CASE UNCHANGED vars
  BY <1>11 DEF vars, CounterHandedOver
<1> QED
  BY <1>1, <1>2, <1>3, <1>4, <1>5, <1>6, <1>7, <1>8, <1>9, <1>10, <1>11
     DEF Next, ClientNext, ServerNext

\* Whoever has the token, or is about to, has the current counter, and what
\* it gives back is the counter plus one.
THEOREM CounterCorrect ==
  ASSUME TokenAssumption PROVE Spec => []CounterHandedOver
<1>1. TypeOK /\ TokenUnico /\ CounterHandedOver /\ [Next]_vars
        => CounterHandedOver'
  BY NextCounter
<1> QED
  BY <1>1, InitCounter, TypeCorrect, TokenUnique, PTL DEF Spec

\* The counter is left alone or goes up by one in every step.
THEOREM CounterSteps ==
  ASSUME TokenAssumption PROVE Spec => CounterStep
<1>1. CounterHandedOver /\ [Next]_vars => [valor' \in {valor, Seguinte(valor)}]_vars
  <2> SUFFICES ASSUME CounterHandedOver, [Next]_vars
               PROVE  valor' \in {valor, Seguinte(valor)}
    OBVIOUS
  <2>1. CASE HandleRelease
    BY <2>1 DEF HandleRelease, CounterHandedOver
  <2>2. CASE ~HandleRelease
    BY <2>2 DEF Next, ClientNext, ServerNext, SendRequest, ReceiveAck,
       ReceiveAllow, SendRelease, ClientExit, Receive, HandleRequest,
       ServerExit, Lose, vars, clientVars, serverVars
  <2> QED
    BY <2>1, <2>2
<1> QED
  BY <1>1, CounterCorrect, PTL DEF Spec, CounterStep
-----------------------------------------------------------------------------
(***************************************************************************)
(* The owner noted in the token.                                           *)
(***************************************************************************)
\* At the start there is no owner to name.
LEMMA InitHolder == Init => FlagNamesHolder
  BY DEF Init, ClientInit, ServerInit, FlagNamesHolder, NaSecao, Concessoes

\* Every step that gives the token away notes the new owner.
LEMMA NextHolder ==
  ASSUME TokenAssumption, TypeOK, TokenUnico, FlagNamesHolder, [Next]_vars
  PROVE  FlagNamesHolder'
<1> USE DEF clientVars, serverVars, Concessoes, NaSecao
<1>1. ASSUME NEW c \in Client, ReceiveAllow(c) PROVE FlagNamesHolder'
  <2>1. PICK m \in EmVoo(c, "REPLY_ALLOW") : net' \in Restante(m)
    BY <1>1 DEF ReceiveAllow
  <2>2. m \in Concessoes /\ m.addr = c
    BY DEF EmVoo
  <2>3. flag = ToChar(PID[c])
    BY <2>2 DEF FlagNamesHolder
  <2>4. NaSecao' = {c}
    BY <1>1, <2>2 DEF ReceiveAllow, TypeOK, TokenUnico, ComToken
  <2>5. net' \subseteq net
    BY <2>1, RestanteDef
  <2> QED
    BY <1>1, <2>3, <2>4, <2>5 DEF ReceiveAllow, FlagNamesHolder
<1>2. CASE HandleRequest
  <2>1. CASE flag = -1
    <3>1. req \in Requisicoes
      BY <1>2, Conteudo DEF HandleRequest, TypeOK, SemReq
    <3>2. NaSecao' = {} /\ Concessoes = {}
      BY <1>2, <2>1 DEF HandleRequest, TokenUnico, ComToken
    <3>3. /\ flag' = ToChar(PID[req.addr])
          /\ net' = net \cup {Reply(req.addr, valor)}
      BY <1>2, <2>1, <3>1, Conteudo DEF HandleRequest
    <3>4. Concessoes' = {Reply(req.addr, valor)}
          /\ Reply(req.addr, valor).addr = req.addr
      BY <3>2, <3>3 DEF Reply
    <3> QED
      BY <3>2, <3>3, <3>4 DEF FlagNamesHolder
  <2>2. CASE flag # -1
    BY <1>2, <2>2 DEF HandleRequest, FlagNamesHolder
  <2> QED
    BY <2>1, <2>2
<1>3. CASE HandleRelease
  <2>1. NaSecao' = {} /\ Concessoes = {}
    BY <1>3 DEF HandleRelease, TokenUnico, ComToken
  <2>2. CASE fila = << >>
    BY <1>3, <2>1, <2>2 DEF HandleRelease, FlagNamesHolder
  <2>3. CASE fila # << >>
    <3> DEFINE c == Head(fila).caddr
    <3>1. Head(fila) \in Entradas
      BY <2>3, RemoveItemSeq DEF TypeOK
    <3>2. /\ flag' = ToChar(PID[c])
          /\ net' = net \cup {Reply(c, req.rec)}
      BY <1>3, <2>3, <3>1, EntradaDef DEF HandleRelease
    <3>3. Concessoes' = {Reply(c, req.rec)} /\ Reply(c, req.rec).addr = c
      BY <2>1, <3>2 DEF Reply
    <3> QED
      BY <2>1, <3>2, <3>3 DEF FlagNamesHolder
  <2> QED
    BY <2>2, <2>3
<1>4. ASSUME NaSecao' \subseteq NaSecao, Concessoes' \subseteq Concessoes,
             flag' = flag
      PROVE  FlagNamesHolder'
  BY <1>4 DEF FlagNamesHolder
<1>5. ASSUME NEW c \in Client, SendRequest(c) PROVE FlagNamesHolder'
  BY <1>4, <1>5 DEF SendRequest, Requisicao, TypeOK
<1>6. ASSUME NEW c \in Client, ReceiveAck(c) PROVE FlagNamesHolder'
  <2>1. net' \subseteq net
    BY <1>6, RestanteDef DEF ReceiveAck
  <2> QED
    BY <1>4, <1>6, <2>1 DEF ReceiveAck, TypeOK
<1>7. ASSUME NEW c \in Client, SendRelease(c) PROVE FlagNamesHolder'
  BY <1>4, <1>7 DEF SendRelease, Liberacao, TypeOK
<1>8. ASSUME NEW c \in Client, ClientExit(c) PROVE FlagNamesHolder'
  BY <1>4, <1>8 DEF ClientExit, TypeOK
<1>9. ASSUME NEW m \in net, Receive(m) PROVE FlagNamesHolder'
  <2>1. net' \subseteq net \cup {Ack(m)}
    BY <1>9, RestanteDef DEF Receive
  <2> QED
    BY <1>4, <1>9, <2>1 DEF Receive, Ack
<1>10. CASE ServerExit
  BY <1>4, <1>10 DEF ServerExit
<1>11. ASSUME NEW m \in net, Lose(m) PROVE FlagNamesHolder'
  BY <1>4, <1>11 DEF Lose
<1>12. CASE UNCHANGED vars
  BY <1>4, <1>12 DEF vars
<1> QED
  BY <1>1, <1>2, <1>3, <1>5, <1>6, <1>7, <1>8, <1>9, <1>10, <1>11, <1>12
     DEF Next, ClientNext, ServerNext

\* Token.flag names the client that has the token or is about to have it.
THEOREM HolderNamed ==
  ASSUME TokenAssumption PROVE Spec => []FlagNamesHolder
<1>1. TypeOK /\ TokenUnico /\ FlagNamesHolder /\ [Next]_vars
        => FlagNamesHolder'
  BY NextHolder
<1> QED
  BY <1>1, InitHolder, TypeCorrect, TokenUnique, PTL DEF Spec
-----------------------------------------------------------------------------
(***************************************************************************)
(* The queue.                                                              *)
(***************************************************************************)
\* The queue is empty at the start.
LEMMA InitFila == Init => FilaOK
  BY NAssumption DEF Init, ClientInit, ServerInit, FilaOK, Ordenada, UmaPorPID

\* Only the two treatments touch the queue, and both keep it in order.
LEMMA NextFila ==
  ASSUME TokenAssumption, TypeOK, FilaOK, [Next]_vars
  PROVE  FilaOK'
<1> USE DEF clientVars, serverVars
<1>1. CASE HandleRequest
  <2>1. req \in Requisicoes
    BY <1>1, Conteudo DEF HandleRequest, TypeOK, SemReq
  <2>2. Entrada(req) \in Entradas
    BY <2>1, Conteudo
  <2>3. CASE flag = -1
    <3>1. fila' = << >>
      BY <1>1, <2>3 DEF HandleRequest, FilaOK
    <3> QED
      BY <3>1, NAssumption DEF FilaOK, Ordenada, UmaPorPID
  <2>4. CASE flag # -1
    <3>1. fila' = insere(fila, N, Entrada(req)) /\ flag' = flag
      BY <1>1, <2>4 DEF HandleRequest
    <3>2. \A e \in Entradas : e.tempo \in Int
      BY EntradaDef
    <3>3. Ordenada(fila')
      BY <2>2, <3>1, <3>2, InsereOrdenada DEF TypeOK, FilaOK
    <3>4. UmaPorPID(fila')
      BY <2>2, <3>1, <3>2, InsereUmaPorPID DEF TypeOK, FilaOK
    <3>5. Len(fila') <= N
      BY <2>2, <3>1, <3>2, InsereCapacidade, NAssumption DEF TypeOK, FilaOK
    <3> QED
      BY <2>4, <3>1, <3>3, <3>4, <3>5 DEF FilaOK
  <2> QED
    BY <2>3, <2>4
<1>2. CASE HandleRelease
  <2>1. CASE fila = << >>
    BY <1>2, <2>1 DEF HandleRelease, FilaOK
  <2>2. CASE fila # << >>
    <3>1. fila' = removeItem(fila) /\ flag' = ToChar(Head(fila).PID)
      BY <1>2, <2>2 DEF HandleRelease
    <3>2. Head(fila) \in Entradas /\ Len(removeItem(fila)) = Len(fila) - 1
      BY <2>2, RemoveItemSeq DEF TypeOK
    <3>3. flag' # -1
      BY <3>1, <3>2, EntradaDef DEF TokenAssumption
    <3>4. Ordenada(fila')
      BY <2>2, <3>1, RemoveItemOrdenada DEF TypeOK, FilaOK
    <3>5. UmaPorPID(fila')
      BY <2>2, <3>1, RemoveItemUmaPorPID DEF TypeOK, FilaOK
    <3>6. Len(fila') <= N
      BY <3>1, <3>2, NAssumption DEF TypeOK, FilaOK
    <3> QED
      BY <3>3, <3>4, <3>5, <3>6 DEF FilaOK
  <2> QED
    BY <2>1, <2>2
<1>3. ASSUME fila' = fila, flag' = flag PROVE FilaOK'
  BY <1>3 DEF FilaOK
<1>4. CASE ~HandleRequest /\ ~HandleRelease
  BY <1>3, <1>4 DEF Next, ClientNext, ServerNext, SendRequest, ReceiveAck,
     ReceiveAllow, SendRelease, ClientExit, Receive, ServerExit, Lose, vars
<1> QED
  BY <1>1, <1>2, <1>4

\* The queue is sorted by the stamps, has each client once, never grows
\* beyond N, and is empty while the token is free.
THEOREM QueueCorrect ==
  ASSUME TokenAssumption PROVE Spec => []FilaOK
<1>1. TypeOK /\ FilaOK /\ [Next]_vars => FilaOK'
  BY NextFila
<1> QED
  BY <1>1, InitFila, TypeCorrect, PTL DEF Spec
-----------------------------------------------------------------------------
(***************************************************************************)
(* CentralServer implements Exclusao.                                      *)
(***************************************************************************)
\* The new value of the counter is on its way to the server.
Pendente == Devolucoes # {} \/ req.cod = "RELEASE_TOKEN"

\* The initial states are initial states of Exclusao.
LEMMA InitAbstrato == Init => Abstrato!Init
  BY DEF Init, ClientInit, ServerInit, Abstrato!Init, NaSecao, Devolucoes, SemReq

\* Every step is a step of Exclusao or leaves its variables alone.
LEMMA NextAbstrato ==
  ASSUME TokenAssumption, TypeOK, TokenUnico, CounterHandedOver, [Next]_vars
  PROVE  [Abstrato!Next]_(Abstrato!exVars)
<1> USE DEF clientVars, serverVars, Devolucoes, NaSecao
<1>1. ASSUME NaSecao' = NaSecao, Pendente' <=> Pendente, valor' = valor
      PROVE  UNCHANGED Abstrato!exVars
  <2>1. Pendente' = Pendente
    BY <1>1 DEF Pendente
  <2> QED
    BY <1>1, <2>1 DEF Abstrato!exVars, Pendente
<1>2. ASSUME NEW c \in Client, SendRequest(c) PROVE UNCHANGED Abstrato!exVars
  <2>1. Devolucoes' = Devolucoes /\ NaSecao' = NaSecao
    BY <1>2 DEF SendRequest, Requisicao, TypeOK
  <2> QED
    BY <1>1, <1>2, <2>1 DEF SendRequest, Pendente
<1>3. ASSUME NEW c \in Client, ReceiveAck(c) PROVE UNCHANGED Abstrato!exVars
  <2>1. PICK m \in EmVoo(c, "ACK") : net' \in Restante(m)
    BY <1>3 DEF ReceiveAck
  <2>2. Devolucoes' = Devolucoes
    BY <2>1 DEF EmVoo, Restante
  <2>3. NaSecao' = NaSecao
    <3>1. \A n \in EmVoo(c, "ACK") : n.PID = PID[c]
      BY Datagramas, Conteudo DEF EmVoo
    <3> QED
      BY <1>3, <3>1 DEF ReceiveAck
  <2> QED
    BY <1>1, <1>3, <2>2, <2>3 DEF ReceiveAck, Pendente
<1>4. ASSUME NEW c \in Client, ReceiveAllow(c) PROVE Abstrato!Entrar(c)
  <2>1. PICK m \in EmVoo(c, "REPLY_ALLOW") : net' \in Restante(m)
    BY <1>4 DEF ReceiveAllow
  <2>2. m \in ComToken /\ m.cod = "REPLY_ALLOW"
    BY DEF EmVoo, ComToken, Concessoes
  <2>3. Devolucoes = {} /\ NaSecao = {} /\ req.cod # "RELEASE_TOKEN"
    BY <2>2 DEF TokenUnico, ComToken
  <2>4. Devolucoes' = {}
    BY <2>1, <2>3, RestanteDef
  <2>5. NaSecao' = {c}
    BY <1>4, <2>3 DEF ReceiveAllow, TypeOK
  <2>6. req' = req /\ valor' = valor
    BY <1>4 DEF ReceiveAllow
  <2> QED
    BY <2>3, <2>4, <2>5, <2>6 DEF Abstrato!Entrar
<1>5. ASSUME NEW c \in Client, SendRelease(c) PROVE Abstrato!Sair(c)
  <2>1. NaSecao = {c}
    BY <1>5 DEF SendRelease, TokenUnico
  <2>2. NaSecao' = {}
    BY <1>5, <2>1 DEF SendRelease, TypeOK
  <2>3. Devolucoes' # {}
    <3> DEFINE m == Liberacao(c, Rem(Inc(TEMPO[c])), Seguinte(rec[c]))
    <3>1. m \in net' /\ m.cod = "RELEASE_TOKEN"
      BY <1>5 DEF SendRelease, Liberacao
    <3> HIDE DEF m
    <3> QED
      BY <3>1
  <2>4. req' = req /\ valor' = valor
    BY <1>5 DEF SendRelease
  <2> QED
    BY <2>1, <2>2, <2>3, <2>4 DEF Abstrato!Sair
<1>6. ASSUME NEW c \in Client, ClientExit(c)
      PROVE  Abstrato!Cair(c) \/ UNCHANGED Abstrato!exVars
  <2>1. Devolucoes' = Devolucoes /\ req' = req /\ valor' = valor
    BY <1>6 DEF ClientExit
  <2>2. CASE c \in NaSecao
    <3>1. NaSecao = {c} /\ NaSecao' = {}
      BY <1>6, <2>2 DEF ClientExit, TypeOK, TokenUnico
    <3> QED
      BY <2>1, <3>1 DEF Abstrato!Cair
  <2>3. CASE c \notin NaSecao
    <3>1. NaSecao' = NaSecao
      BY <1>6, <2>3 DEF ClientExit, TypeOK
    <3> QED
      BY <1>1, <2>1, <3>1 DEF Pendente
  <2> QED
    BY <2>2, <2>3
<1>7. ASSUME NEW m \in net, Receive(m) PROVE UNCHANGED Abstrato!exVars
  <2>1. PICK r \in Restante(m) : net' = r \cup {Ack(m)}
    BY <1>7 DEF Receive
  <2>2. CASE m.cod = "REQUEST_TOKEN"
    <3>1. Devolucoes' = Devolucoes
      BY <2>1, <2>2 DEF Restante, Ack
    <3> QED
      BY <1>1, <1>7, <2>2, <3>1 DEF Receive, Pendente, SemReq
  <2>3. CASE m.cod = "RELEASE_TOKEN"
    <3>1. Pendente /\ Pendente'
      BY <1>7, <2>3 DEF Receive, Pendente
    <3> QED
      BY <1>1, <1>7, <3>1 DEF Receive
  <2> QED
    BY <1>7, <2>2, <2>3 DEF Receive
<1>8. CASE HandleRequest
  <2>1. Devolucoes' = Devolucoes
    <3>1. net' = net \/ net' = net \cup {Reply(req.addr, valor)}
      BY <1>8 DEF HandleRequest
    <3> QED
      BY <3>1 DEF Reply
  <2> QED
    BY <1>1, <1>8, <2>1 DEF HandleRequest, Pendente, SemReq
<1>9. CASE HandleRelease
  <2>1. Devolucoes = {} /\ req.cod = "RELEASE_TOKEN" /\ req'.cod # "RELEASE_TOKEN"
    BY <1>9 DEF HandleRelease, TokenUnico, ComToken, SemReq
  <2>2. Devolucoes' = {}
    <3>1. net' = net \/ net' = net \cup {Reply(Head(fila).caddr, req.rec)}
      BY <1>9 DEF HandleRelease
    <3> QED
      BY <2>1, <3>1 DEF Reply
  <2>3. valor' = Seguinte(valor) /\ NaSecao' = NaSecao
    BY <1>9 DEF HandleRelease, CounterHandedOver
  <2>4. Abstrato!Guardar
    BY <2>1, <2>2, <2>3 DEF Abstrato!Guardar
  <2> QED
    BY <2>4 DEF Abstrato!Next
<1>10. CASE ServerExit
  <2>1. /\ Devolucoes' = Devolucoes /\ NaSecao' = NaSecao /\ valor' = valor
        /\ req'.cod # "RELEASE_TOKEN"
    BY <1>10 DEF ServerExit, SemReq
  <2>2. CASE req.cod = "RELEASE_TOKEN"
    <3>1. Devolucoes = {}
      BY <2>2 DEF TokenUnico, ComToken
    <3>2. Abstrato!Perder
      BY <2>1, <2>2, <3>1 DEF Abstrato!Perder
    <3> QED
      BY <3>2 DEF Abstrato!Next
  <2>3. CASE req.cod # "RELEASE_TOKEN"
    BY <1>1, <2>1, <2>3 DEF Pendente
  <2> QED
    BY <2>2, <2>3
<1>11. ASSUME NEW m \in net, Lose(m)
       PROVE  Abstrato!Perder \/ UNCHANGED Abstrato!exVars
  <2>1. /\ net' = net \ {m} /\ NaSecao' = NaSecao /\ valor' = valor
        /\ req' = req
    BY <1>11 DEF Lose
  <2>2. CASE m.cod = "RELEASE_TOKEN"
    <3>1. Devolucoes # {} /\ Devolucoes' = {} /\ req.cod # "RELEASE_TOKEN"
      BY <2>1, <2>2 DEF TokenUnico, ComToken
    <3> QED
      BY <2>1, <3>1 DEF Abstrato!Perder
  <2>3. CASE m.cod # "RELEASE_TOKEN"
    <3>1. Devolucoes' = Devolucoes
      BY <2>1, <2>3
    <3> QED
      BY <1>1, <2>1, <3>1 DEF Pendente
  <2> QED
    BY <2>2, <2>3
<1>12. CASE UNCHANGED vars
  BY <1>1, <1>12 DEF vars, Pendente
<1> QED
  BY <1>2, <1>3, <1>4, <1>5, <1>6, <1>7, <1>8, <1>9, <1>10, <1>11, <1>12
     DEF Next, ClientNext, ServerNext, Abstrato!Next

\* Every behaviour of the program is one of Exclusao: one client at a time
\* takes the counter, and leaves it one higher or, if it or its datagram is
\* lost, as it was.
THEOREM Refinement ==
  ASSUME TokenAssumption PROVE Spec => ImplementsExclusao
<1>1. TypeOK /\ TokenUnico /\ CounterHandedOver /\ [Next]_vars
        => [Abstrato!Next]_(Abstrato!exVars)
  BY NextAbstrato
<1> QED
  BY <1>1, InitAbstrato, TypeCorrect, TokenUnique, CounterCorrect, PTL
     DEF Spec, ImplementsExclusao, Abstrato!Spec
=============================================================================
