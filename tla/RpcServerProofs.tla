--------------------------- MODULE RpcServerProofs ----------------------------
(***************************************************************************)
(* Theorems about RpcServer, for any clients, PIDs, capacity and integer   *)
(* widths, with processes that end at any time and calls that time out.    *)
(***************************************************************************)
EXTENDS RpcServer, FilaProofs
-----------------------------------------------------------------------------
(***************************************************************************)
(* Data.                                                                   *)
(***************************************************************************)
Rotulos == {"start", "req", "crit", "rel", "fim"}
Entradas == [PID : Int, tempo : Int]

\* C int arithmetic stays within an int, ...
LEMMA ToIntRange ==
  ASSUME NEW max \in Nat, NEW x \in Int
  PROVE  ToInt(max, x) \in CInt(max)
<1> DEFINE w == 2 * (max + 1)
<1>1. w \in Nat \ {0}
  OBVIOUS
<1> HIDE DEF w
<1>2. \A y \in Int : y % w \in 0 .. w - 1
  BY <1>1
<1>3. (x + max + 1) % w \in 0 .. w - 1
  BY <1>2
<1> QED
  BY <1>3 DEF ToInt, CInt, w

\* ... so does the resource that a client gives back, ...
LEMMA DobroType ==
  ASSUME NEW v \in CInt(ValorMax) PROVE Dobro(v) \in CInt(ValorMax)
<1>1. ValorMax \in Nat /\ ValorMax >= 2 /\ v \in Int /\ v * 2 \in Int
  BY ValorAssumption DEF CInt
<1>2. ToInt(ValorMax, v * 2) \in CInt(ValorMax)
  BY <1>1, ToIntRange
<1>3. 2 \in CInt(ValorMax)
  BY <1>1 DEF CInt
<1> QED
  BY <1>2, <1>3 DEF Dobro

\* ... and a clock that has caught up with another one goes on.
LEMMA AvancaType ==
  ASSUME NEW s \in Nat, NEW t \in Int PROVE Avanca(s, t) \in Nat
  BY DEF Avanca

\* What a connection holds, by what it is ...
LEMMA Conteudo ==
  ASSUME TypeOK, NEW c \in Client
  PROVE  /\ canal[c].proc \in {"NADA", "REQ", "REL", "RESPOSTA", "FEITO", "ERRO"}
         /\ canal[c].proc = "REQ" =>
              /\ canal[c].pid_c = PID[c]
              /\ canal[c].tempo \in CInt(ClockMax)
         /\ canal[c].proc \in {"REL", "RESPOSTA"} =>
              /\ canal[c].tempo \in CInt(ClockMax)
              /\ canal[c].recurso \in CInt(ValorMax)
         /\ canal[c] \in Canais(c) /\ Conversa(c)
  BY DEF TypeOK, Canais, Travels, Vazio, Feito, Erro

\* ... and what it may hold.
LEMMA Mensagens ==
  ASSUME NEW c \in Client
  PROVE  /\ {Vazio, Feito, Erro} \subseteq Canais(c)
         /\ Vazio.proc = "NADA" /\ Feito.proc = "FEITO" /\ Erro.proc = "ERRO"
         /\ \A t \in CInt(ClockMax) :
              /\ Requisicao(c, t) \in Canais(c)
              /\ Requisicao(c, t).proc = "REQ" /\ Requisicao(c, t).tempo = t
         /\ \A t \in CInt(ClockMax), v \in CInt(ValorMax) :
              /\ Liberacao(t, v) \in Canais(c) /\ Resposta(t, v) \in Canais(c)
         /\ \A t, v : /\ Liberacao(t, v).proc = "REL" /\ Liberacao(t, v).recurso = v
                      /\ Liberacao(t, v).tempo = t
                      /\ Resposta(t, v).proc = "RESPOSTA"
                      /\ Resposta(t, v).tempo = t /\ Resposta(t, v).recurso = v
  BY DEF Canais, Travels, Vazio, Feito, Erro, Requisicao, Liberacao, Resposta
-----------------------------------------------------------------------------
(***************************************************************************)
(* Type correctness.                                                       *)
(***************************************************************************)
LEMMA InitType == Init => TypeOK
<1> SUFFICES ASSUME Init PROVE TypeOK
  OBVIOUS
<1>1. 0 \in CInt(ValorMax) /\ -1 \in CInt(ValorMax)
  BY ValorAssumption DEF CInt
<1>2. fila \in Seq([PID : Int, tempo : Int])
  BY DEF Init, ServerInit
<1>3. \A c \in Client : canal[c] = Vazio /\ Vazio \in Canais(c) /\ Vazio.proc = "NADA"
  BY Mensagens DEF Init, ClientInit
<1>4. \A c \in Client : Conversa(c)
  BY <1>3 DEF Conversa, Init, ServerInit
<1> QED
  BY <1>1, <1>2, <1>3, <1>4 DEF Init, ClientInit, ServerInit, TypeOK

\* The part of a client and its connection, when one client moves, or the
\* server serves one call.
Ligacoes ==
  /\ pc \in [Client -> Rotulos]
  /\ canal = [c \in Client |-> canal[c]]
  /\ emCurso \subseteq Client
  /\ \A c, d \in emCurso : c = d
  /\ \A c \in Client : canal[c] \in Canais(c) /\ Conversa(c)

LEMMA UmaLigacao ==
  ASSUME TypeOK, NEW c \in Client, NEW l \in Rotulos, NEW m \in Canais(c),
         pc' = [pc EXCEPT ![c] = l], canal' = [canal EXCEPT ![c] = m],
         emCurso' \subseteq emCurso \/ emCurso' = {c}, Conversa(c)'
  PROVE  Ligacoes'
<1>1. pc' \in [Client -> Rotulos]
  BY DEF TypeOK, Rotulos
<1>2. canal' = [d \in Client |-> canal'[d]] /\ canal'[c] = m
  BY DEF TypeOK
<1>3. emCurso' \subseteq Client /\ \A a, b \in emCurso' : a = b
  BY DEF TypeOK
<1>4. ASSUME NEW d \in Client PROVE canal'[d] \in Canais(d)' /\ Conversa(d)'
  <2>1. CASE d = c
    BY <1>2, <2>1 DEF Canais
  <2>2. CASE d # c
    <3>1. canal'[d] = canal[d] /\ pc'[d] = pc[d] /\ (d \in emCurso' => d \in emCurso)
      BY <2>2 DEF TypeOK
    <3>2. canal[d] \in Canais(d) /\ Conversa(d)
      BY DEF TypeOK
    <3> QED
      BY <3>1, <3>2 DEF Conversa, Canais
  <2> QED
    BY <2>1, <2>2
<1> QED
  BY <1>1, <1>2, <1>3, <1>4 DEF Ligacoes

LEMMA TypeParts ==
  TypeOK <=> /\ Ligacoes
             /\ TEMPO \in [Client -> Nat] /\ rec \in [Client -> CInt(ValorMax)]
             /\ servidor \in {"ativo", "fim"} /\ srvTEMPO \in Nat
             /\ TOKEN \in CInt(ValorMax) /\ fila \in Seq(Entradas)
  BY DEF TypeOK, Ligacoes, Rotulos, Entradas

LEMMA TypePartsNext ==
  ASSUME Ligacoes',
         (TEMPO \in [Client -> Nat])', (rec \in [Client -> CInt(ValorMax)])',
         (servidor \in {"ativo", "fim"})', (srvTEMPO \in Nat)',
         (TOKEN \in CInt(ValorMax))', (fila \in Seq(Entradas))'
  PROVE  TypeOK'
  BY DEF TypeOK, Ligacoes, Rotulos, Entradas

\* clnt_call, of a call whose fields are in their types.
LEMMA ClntCallType ==
  ASSUME TypeOK, NEW c \in Client, NEW m, NEW l \in {"req", "rel"}, clnt_call(c, m, l),
         Codifica(m.tempo) => m \in Canais(c),
         m.proc = IF l = "req" THEN "REQ" ELSE "REL",
         canal[c].proc = "NADA", c \notin emCurso, UNCHANGED emCurso
  PROVE  Ligacoes'
<1>1. canal[c] \in Canais(c) /\ pc \in [Client -> Rotulos]
        /\ canal = [d \in Client |-> canal[d]]
  BY DEF TypeOK, Rotulos
<1>2. CASE Codifica(m.tempo)
  <2>1. canal' = [canal EXCEPT ![c] = m] /\ pc' = [pc EXCEPT ![c] = l]
    BY <1>2 DEF clnt_call
  <2>2. Conversa(c)'
    BY <1>1, <2>1 DEF Conversa
  <2> QED
    BY <1>2, <2>1, <2>2, UmaLigacao DEF Rotulos
<1>3. CASE ~Codifica(m.tempo)
  <2>1. canal' = [canal EXCEPT ![c] = canal[c]] /\ pc' = [pc EXCEPT ![c] = "fim"]
    BY <1>1, <1>3 DEF clnt_call
  <2>2. Conversa(c)'
    BY <1>1, <2>1 DEF Conversa
  <2> QED
    BY <1>1, <2>1, <2>2, UmaLigacao DEF Rotulos
<1> QED
  BY <1>2, <1>3

\* A client outside a call has an empty connection.
LEMMA ForaDeChamada ==
  ASSUME TypeOK, NEW c \in Client, pc[c] \in {"start", "crit"}
  PROVE  canal[c].proc = "NADA" /\ c \notin emCurso
  BY Conteudo DEF Conversa

LEMMA NextType == TypeOK /\ [Next]_vars => TypeOK'
<1> SUFFICES ASSUME TypeOK, [Next]_vars PROVE TypeOK'
  OBVIOUS
<1> USE DEF clientVars, serverVars
<1>0. /\ Ligacoes
      /\ TEMPO \in [Client -> Nat] /\ rec \in [Client -> CInt(ValorMax)]
      /\ servidor \in {"ativo", "fim"} /\ srvTEMPO \in Nat
      /\ TOKEN \in CInt(ValorMax) /\ fila \in Seq(Entradas)
  BY TypeParts
<1>a. 0 \in CInt(ValorMax)
  BY ValorAssumption DEF CInt
<1>1. ASSUME NEW c \in Client, CallReq(c) PROVE TypeOK'
  <2> DEFINE m == Requisicao(c, TEMPO[c] + 1)
  <2>1. Codifica(m.tempo) => m \in Canais(c)
    BY Mensagens DEF Codifica, Requisicao
  <2>2. m.proc = "REQ"
    BY DEF Requisicao
  <2>3. clnt_call(c, m, "req") /\ pc[c] = "start"
    BY <1>1 DEF CallReq
  <2>4. UNCHANGED <<rec, emCurso, servidor, srvTEMPO, TOKEN, fila>>
    BY <1>1 DEF CallReq
  <2> HIDE DEF m
  <2>5. Ligacoes'
    BY <2>1, <2>2, <2>3, <2>4, ForaDeChamada, ClntCallType
  <2>6. TEMPO' \in [Client -> Nat]
    BY <1>0, <1>1 DEF CallReq
  <2> QED
    BY <1>0, <2>4, <2>5, <2>6, TypePartsNext
<1>2. ASSUME NEW c \in Client, ReturnReq(c) PROVE TypeOK'
  <2>1. /\ canal[c].tempo \in Int /\ canal[c].recurso \in CInt(ValorMax)
        /\ c \notin emCurso
    BY <1>2, Conteudo, Mensagens, ClockAssumption DEF ReturnReq, CInt, Conversa
  <2>2. Avanca(TEMPO[c], canal[c].tempo) \in Nat
    BY <1>0, <2>1, AvancaType
  <2>3. TEMPO' \in [Client -> Nat] /\ rec' \in [Client -> CInt(ValorMax)]
    BY <1>0, <1>2, <2>1, <2>2 DEF ReturnReq
  <2>4. /\ pc' = [pc EXCEPT ![c] = "crit"] /\ canal' = [canal EXCEPT ![c] = Vazio]
        /\ UNCHANGED <<emCurso, servidor, srvTEMPO, TOKEN, fila>>
    BY <1>2 DEF ReturnReq
  <2>5. Conversa(c)'
    BY <1>0, <2>1, <2>4, Mensagens DEF Ligacoes, Conversa
  <2>6. Ligacoes'
    BY <2>4, <2>5, Mensagens, UmaLigacao DEF Rotulos
  <2> QED
    BY <1>0, <2>3, <2>4, <2>6, TypePartsNext
<1>3. ASSUME NEW c \in Client, CallRel(c) PROVE TypeOK'
  <2> DEFINE m == Liberacao(TEMPO[c] + 1, Dobro(rec[c]))
  <2>1. Dobro(rec[c]) \in CInt(ValorMax)
    BY <1>0, DobroType
  <2>2. Codifica(m.tempo) => m \in Canais(c)
    BY <2>1, Mensagens DEF Codifica
  <2>3. m.proc = "REL"
    BY DEF Liberacao
  <2>4. clnt_call(c, m, "rel") /\ pc[c] = "crit"
    BY <1>3 DEF CallRel
  <2>5. UNCHANGED <<emCurso, servidor, srvTEMPO, TOKEN, fila>>
    BY <1>3 DEF CallRel
  <2> HIDE DEF m
  <2>6. Ligacoes'
    BY <2>2, <2>3, <2>4, <2>5, ForaDeChamada, ClntCallType
  <2>7. TEMPO' \in [Client -> Nat] /\ rec' \in [Client -> CInt(ValorMax)]
    BY <1>0, <1>a, <1>3 DEF CallRel
  <2> QED
    BY <1>0, <2>5, <2>6, <2>7, TypePartsNext
<1>4. ASSUME NEW c \in Client, ReturnRel(c) \/ CallFails(c) PROVE TypeOK'
  <2>1. /\ canal' = [canal EXCEPT ![c] = Vazio]
        /\ UNCHANGED <<TEMPO, rec, emCurso, servidor, srvTEMPO, TOKEN, fila>>
        /\ \E l \in {"start", "fim"} : pc' = [pc EXCEPT ![c] = l]
    BY <1>4 DEF ReturnRel, CallFails
  <2>2. PICK l \in {"start", "fim"} : pc' = [pc EXCEPT ![c] = l]
    BY <2>1
  <2>3. c \notin emCurso
    BY <1>4, Conteudo, Mensagens DEF ReturnRel, CallFails, Conversa
  <2>4. Conversa(c)'
    BY <1>0, <2>1, <2>3, Mensagens DEF Ligacoes, Conversa
  <2>5. Ligacoes'
    BY <2>1, <2>2, <2>4, Mensagens, UmaLigacao DEF Rotulos
  <2> QED
    BY <1>0, <2>1, <2>5, TypePartsNext
<1>5. ASSUME NEW c \in Client, Timeout(c) \/ ClientExit(c) PROVE TypeOK'
  <2>1. /\ pc' = [pc EXCEPT ![c] = "fim"]
        /\ UNCHANGED <<TEMPO, rec, canal, emCurso, servidor, srvTEMPO, TOKEN, fila>>
    BY <1>5 DEF Timeout, ClientExit
  <2>2. canal' = [canal EXCEPT ![c] = canal[c]] /\ canal[c] \in Canais(c)
    BY <1>0, <2>1 DEF Ligacoes
  <2>3. Conversa(c)'
    BY <1>0, <2>1 DEF Ligacoes, Conversa
  <2>4. Ligacoes'
    BY <2>1, <2>2, <2>3, UmaLigacao DEF Rotulos
  <2> QED
    BY <1>0, <2>1, <2>4, TypePartsNext
<1>6. ASSUME NEW c \in Client, Req(c) PROVE TypeOK'
  <2>1. /\ canal[c].proc = "REQ" /\ emCurso = {} /\ emCurso' = {c}
        /\ canal' = [canal EXCEPT ![c] = Vazio]
        /\ fila' = insere(fila, N, Entrada(canal[c]))
        /\ UNCHANGED <<pc, TEMPO, rec, servidor, srvTEMPO, TOKEN>>
    BY <1>6 DEF Req, ReqInsere, Despacha, Enfileira
  <2>2. canal[c].tempo \in Int /\ canal[c].pid_c \in Int /\ pc[c] \in {"req", "fim"}
    BY <2>1, Conteudo, PIDAssumption, ClockAssumption DEF Conversa, CInt
  <2>3. Entrada(canal[c]) \in Entradas /\ \A e \in Entradas : e.tempo \in Int
    BY <2>2 DEF Entrada, Entradas
  <2>4. fila' \in Seq(Entradas)
    BY <1>0, <2>1, <2>3, InsereSeq
  <2>5. Conversa(c)'
    BY <1>0, <2>1, <2>2, Mensagens DEF Ligacoes, Conversa
  <2>6. pc' = [pc EXCEPT ![c] = pc[c]] /\ pc[c] \in Rotulos
    BY <1>0, <2>1 DEF Ligacoes
  <2>7. Ligacoes'
    BY <2>1, <2>5, <2>6, Mensagens, UmaLigacao
  <2> QED
    BY <1>0, <2>1, <2>4, <2>7, TypePartsNext
<1>7. ASSUME NEW c \in Client, ReqConcede(c) PROVE TypeOK'
  <2> DEFINE r == Resposta(srvTEMPO + 1, TOKEN)
             m == IF Codifica(srvTEMPO + 1) THEN r ELSE Erro
  <2>0. r.tempo = srvTEMPO + 1
    BY DEF Resposta
  <2>1. /\ c \in emCurso /\ emCurso' = {} /\ srvTEMPO' = srvTEMPO + 1
        /\ canal' = [canal EXCEPT ![c] = m]
        /\ UNCHANGED <<pc, TEMPO, rec, servidor, TOKEN, fila>>
    <3> HIDE DEF r
    <3>1. canal' = [canal EXCEPT ![c] = IF Codifica(r.tempo) THEN r ELSE Erro]
      BY <1>7 DEF ReqConcede, svc_sendreply, r
    <3> QED
      BY <1>7, <2>0, <3>1 DEF ReqConcede
  <2>2. m \in Canais(c) /\ m.proc \in {"RESPOSTA", "ERRO"}
    BY <1>0, Mensagens DEF Codifica
  <2> HIDE DEF m
  <2>3. pc[c] \in {"req", "fim"}
    BY <1>0, <2>1 DEF Ligacoes, Conversa
  <2>4. Conversa(c)'
    BY <1>0, <2>1, <2>2, <2>3 DEF Ligacoes, Conversa
  <2>5. pc' = [pc EXCEPT ![c] = pc[c]] /\ pc[c] \in Rotulos
    BY <1>0, <2>1 DEF Ligacoes
  <2>6. Ligacoes'
    BY <2>1, <2>2, <2>4, <2>5, UmaLigacao
  <2>7. srvTEMPO' \in Nat
    BY <1>0, <2>1
  <2> QED
    BY <1>0, <2>1, <2>6, <2>7, TypePartsNext
<1>8. ASSUME NEW c \in Client, Rel(c) PROVE TypeOK'
  <2>1. /\ canal[c].proc = "REL" /\ emCurso = {} /\ TOKEN' = canal[c].recurso
        /\ srvTEMPO' = Avanca(srvTEMPO, canal[c].tempo) /\ fila' = Remove(fila)
        /\ canal' = [canal EXCEPT ![c] = Feito]
        /\ UNCHANGED <<pc, TEMPO, rec, servidor, emCurso>>
    BY <1>8 DEF Rel, Despacha
  <2>2. /\ canal[c].tempo \in Int /\ canal[c].recurso \in CInt(ValorMax)
        /\ pc[c] \in {"rel", "fim"}
    BY <2>1, Conteudo, ClockAssumption DEF Conversa, CInt
  <2>3. fila' \in Seq(Entradas)
    BY <1>0, <2>1, RemoveItemSeq DEF Remove
  <2>4. Conversa(c)'
    BY <1>0, <2>1, <2>2, Mensagens DEF Ligacoes, Conversa
  <2>5. pc' = [pc EXCEPT ![c] = pc[c]] /\ pc[c] \in Rotulos
    BY <1>0, <2>1 DEF Ligacoes
  <2>6. Ligacoes'
    BY <2>1, <2>4, <2>5, Mensagens, UmaLigacao
  <2>7. srvTEMPO' \in Nat /\ TOKEN' \in CInt(ValorMax)
    BY <1>0, <2>1, <2>2, AvancaType
  <2> QED
    BY <1>0, <2>1, <2>3, <2>6, <2>7, TypePartsNext
<1>9. CASE ServerExit
  <2>1. /\ emCurso' = {} /\ servidor' = "fim"
        /\ UNCHANGED <<pc, TEMPO, rec, canal, srvTEMPO, TOKEN, fila>>
    BY <1>9 DEF ServerExit
  <2>2. Ligacoes'
    BY <1>0, <2>1 DEF Ligacoes, Conversa, Canais
  <2> QED
    BY <1>0, <2>1, <2>2, TypePartsNext
<1>10. CASE UNCHANGED vars
  BY <1>0, <1>10, TypePartsNext DEF vars, Ligacoes, Conversa, Canais
<1> QED
  BY <1>1, <1>2, <1>3, <1>4, <1>5, <1>6, <1>7, <1>8, <1>9, <1>10
     DEF Next, ClientNext, ServerNext

\* Every variable keeps its type, and no connection holds what its client
\* does not wait for.
THEOREM RpcTypeCorrect == Spec => []TypeOK
  BY InitType, NextType, PTL DEF Spec
-----------------------------------------------------------------------------
(***************************************************************************)
(* The client that has the token is at the head of the queue.              *)
(***************************************************************************)
\* The first request of an empty queue is its head, ...
LEMMA Primeiro ==
  ASSUME NEW e \in Entradas
  PROVE  LET q == insere(<< >>, N, e) IN q # << >> /\ Head(q) = e /\ Len(q) = 1
<1> DEFINE v == << >>
           q == insere(v, N, e)
<1>1. v \in Seq(Entradas) /\ Len(v) = 0 /\ e.tempo \in Int
  BY DEF Entradas
<1>2. Len(v) < N /\ ~EstaNaFila(v, e.PID)
  BY <1>1, NAssumption DEF EstaNaFila
<1>3. q = Inserir(v, Posicao(v, e.tempo), e) /\ Posicao(v, e.tempo) = 0
  BY <1>2 DEF insere, CabeNaFila, Posicao
<1>4. q = [k \in 1 .. 1 |-> e]
  BY <1>1, <1>3 DEF Inserir
<1>5. 0 \in 0 .. Len(v)
  BY <1>1
<1>6. q \in Seq(Entradas) /\ Len(q) = 1
  <2> HIDE DEF v, q
  <2>1. Inserir(v, 0, e) \in Seq(Entradas) /\ Len(Inserir(v, 0, e)) = Len(v) + 1
    BY <1>1, <1>5, InserirSeq
  <2> QED
    BY <1>1, <1>3, <2>1
<1> HIDE DEF q
<1>7. q[1] = e /\ q # << >>
  BY <1>4, <1>6
<1> QED
  BY <1>6, <1>7 DEF q

\* ... and a request that is not stamped before the head leaves it there.
LEMMA CabecaFica ==
  ASSUME NEW q \in Seq(Entradas), q # << >>, NEW e \in Entradas,
         Head(q).tempo <= e.tempo
  PROVE  /\ insere(q, N, e) # << >> /\ Head(insere(q, N, e)) = Head(q)
         /\ Len(insere(q, N, e)) <= Len(q) + 1
<1>1. CASE ~CabeNaFila(q, N, e.PID)
  BY <1>1, LenProperties DEF insere
<1>2. CASE CabeNaFila(q, N, e.PID)
  <2> DEFINE p == Posicao(q, e.tempo)
             r == Inserir(q, p, e)
  <2>1. \A x \in Entradas : x.tempo \in Int
    BY DEF Entradas
  <2>2. q[1] = Head(q) /\ Head(q) \in Entradas /\ Len(q) \in Nat /\ Len(q) >= 1
    BY LenProperties, HeadTailProperties
  <2>3. e.tempo \in Int /\ q[1].tempo \in Int /\ ~(q[1].tempo > e.tempo)
    BY <2>1, <2>2
  <2>4. p \in 1 .. Len(q)
    BY <2>1, <2>3, PosicaoDef
  <2> HIDE DEF p
  <2>5. r \in Seq(Entradas) /\ Len(r) = Len(q) + 1
    BY <2>2, <2>4, InserirSeq
  <2>6. r[1] = q[1]
    BY <2>2, <2>4 DEF Inserir
  <2> HIDE DEF r
  <2>7. r # << >> /\ Head(r) = r[1]
    BY <2>2, <2>5
  <2>8. insere(q, N, e) = r
    BY <1>2 DEF insere, r, p
  <2> QED
    BY <2>2, <2>5, <2>6, <2>7, <2>8
<1> QED
  BY <1>1, <1>2

\* One client at most is at the head, and one at most has the token.
LEMMA UmSo ==
  ASSUME OrderAssumption, HolderAtHead
  PROVE  /\ \A c, d \in Client : NaFrente(c) /\ NaFrente(d) => c = d
         /\ \A c, d \in Portadores : c = d
<1>1. \A c, d \in Client : NaFrente(c) /\ NaFrente(d) => c = d
  BY DEF OrderAssumption, NaFrente
<1> QED
  BY <1>1 DEF HolderAtHead, Portadores

\* A step of a client gives the token to nobody, and leaves the server alone.
LEMMA ClientHolders ==
  ASSUME TypeOK, NEW c \in Client, ClientNext(c)
  PROVE  Portadores' \subseteq Portadores /\ UNCHANGED <<emCurso, fila>>
<1>1. /\ pc \in [Client -> Rotulos] /\ canal = [d \in Client |-> canal[d]]
  BY DEF TypeOK, Rotulos
<1>2. ASSUME CallReq(c) PROVE Portadores' \subseteq Portadores
  <2>1. pc[c] = "start" /\ canal[c].proc = "NADA"
    BY <1>2, ForaDeChamada DEF CallReq
  <2>2. \A d \in Client \ {c} : pc'[d] = pc[d] /\ canal'[d] = canal[d]
    BY <1>1, <1>2 DEF CallReq, clnt_call
  <2>3. pc'[c] # "crit" /\ canal'[c].proc \in {"NADA", "REQ"}
    BY <1>1, <1>2, <2>1 DEF CallReq, clnt_call, Requisicao
  <2> QED
    BY <2>2, <2>3 DEF Portadores
<1>3. ASSUME ReturnReq(c) PROVE Portadores' \subseteq Portadores
  BY <1>1, <1>3 DEF ReturnReq, Portadores
<1>4. ASSUME CallRel(c) PROVE Portadores' \subseteq Portadores
  BY <1>1, <1>4 DEF CallRel, clnt_call, Portadores
<1>5. ASSUME ReturnRel(c) \/ CallFails(c) PROVE Portadores' \subseteq Portadores
  BY <1>1, <1>5, Mensagens DEF ReturnRel, CallFails, Portadores
<1>6. ASSUME Timeout(c) \/ ClientExit(c) PROVE Portadores' \subseteq Portadores
  BY <1>1, <1>6 DEF Timeout, ClientExit, Portadores
<1> QED
  BY <1>2, <1>3, <1>4, <1>5, <1>6
     DEF ClientNext, CallReq, ReturnReq, CallRel, ReturnRel, CallFails, Timeout,
         ClientExit, clientVars, serverVars

\* HolderAtHead holds on when nobody gets the token, no call is taken, and
\* the queue stays.
LEMMA FicaNaFrente ==
  ASSUME HolderAtHead, Portadores' \subseteq Portadores, emCurso' \subseteq emCurso,
         UNCHANGED fila
  PROVE  HolderAtHead'
  BY DEF HolderAtHead, NaFrente

\* What ReqInsere does to the queue.
LEMMA ReqInsereFila ==
  ASSUME TypeOK, OrderAssumption, NEW c \in Client, Req(c)
  PROVE  /\ fila' # << >>
         /\ fila = << >> => Head(fila').PID = PID[c] /\ Len(fila') = 1
         /\ fila # << >> => Head(fila') = Head(fila) /\ Len(fila') <= Len(fila) + 1
         /\ EstaNaFila(fila, PID[c]) => fila' = fila
<1> DEFINE e == Entrada(canal[c])
<1>1. /\ canal[c].proc = "REQ" /\ fila' = insere(fila, N, e) /\ EmOrdem(canal[c])
      /\ fila \in Seq(Entradas)
  BY DEF Req, ReqInsere, Despacha, Enfileira, TypeOK, Entradas
<1>2. canal[c].tempo \in Int /\ canal[c].pid_c = PID[c] /\ PID[c] \in Int
  BY <1>1, Conteudo, PIDAssumption, ClockAssumption DEF CInt
<1>3. e \in Entradas /\ e.PID = PID[c] /\ e.tempo = canal[c].tempo
  BY <1>2 DEF Entrada, Entradas
<1>4. fila # << >> => Head(fila).tempo <= e.tempo
  BY <1>1, <1>3 DEF EmOrdem, OrderAssumption
<1> HIDE DEF e
<1>5. EstaNaFila(fila, PID[c]) => fila' = fila
  BY <1>1, <1>3 DEF insere, CabeNaFila
<1> QED
  BY <1>1, <1>3, <1>4, <1>5, Primeiro, CabecaFica

LEMMA InitHolder == Init => HolderAtHead
  BY Mensagens DEF Init, ClientInit, ServerInit, HolderAtHead, Portadores

LEMMA NextHolder ==
  ASSUME OrderAssumption, TypeOK, HolderAtHead, [Next]_vars PROVE HolderAtHead'
<1>0. /\ pc \in [Client -> Rotulos] /\ canal = [d \in Client |-> canal[d]]
      /\ emCurso \subseteq Client
  BY DEF TypeOK, Rotulos
<1>1. ASSUME NEW c \in Client, ClientNext(c) PROVE HolderAtHead'
  BY <1>1, ClientHolders, FicaNaFrente
<1>2. ASSUME NEW c \in Client, Req(c) PROVE HolderAtHead'
  <2>1. /\ canal[c].proc = "REQ" /\ emCurso' = {c} /\ UNCHANGED pc
        /\ canal' = [canal EXCEPT ![c] = Vazio]
    BY <1>2 DEF Req, ReqInsere, Despacha, clientVars
  <2>2. Portadores' = Portadores /\ c \notin Portadores
    <3>1. pc[c] # "crit"
      BY <2>1, Conteudo DEF Conversa
    <3> QED
      BY <1>0, <2>1, <3>1, Mensagens DEF Portadores
  <2>3. CASE fila = << >>
    <3>1. Portadores = {}
      BY <2>3 DEF HolderAtHead, NaFrente
    <3> QED
      BY <1>2, <2>1, <2>2, <3>1, ReqInsereFila DEF HolderAtHead
  <2>4. CASE fila # << >>
    <3>1. fila' # << >> /\ Head(fila') = Head(fila)
      BY <1>2, <2>4, ReqInsereFila
    <3>2. \A d \in Client : NaFrente(d)' <=> NaFrente(d)
      BY <2>4, <3>1 DEF NaFrente
    <3>3. NaFrente(c) => Portadores = {}
      <4>1. \A d \in Portadores : d \in Client /\ NaFrente(d)
        BY DEF HolderAtHead, Portadores
      <4> QED
        BY <2>2, <4>1, UmSo
    <3>4. \A d \in Portadores : NaFrente(d)'
      BY <3>2 DEF HolderAtHead, Portadores
    <3> QED
      BY <2>1, <2>2, <3>1, <3>2, <3>3, <3>4 DEF HolderAtHead
  <2> QED
    BY <2>3, <2>4
<1>3. ASSUME NEW c \in Client, ReqConcede(c) PROVE HolderAtHead'
  <2>1. /\ c \in emCurso /\ NaFrente(c) /\ emCurso' = {} /\ UNCHANGED <<pc, fila>>
        /\ \A d \in Client \ {c} : canal'[d] = canal[d]
    BY <1>0, <1>3 DEF ReqConcede, svc_sendreply, clientVars, NaFrente
  <2>2. Portadores = {}
    BY <2>1 DEF HolderAtHead
  <2>3. Portadores' \subseteq {c}
    BY <2>1, <2>2 DEF Portadores
  <2>4. NaFrente(c)'
    BY <2>1 DEF NaFrente
  <2> QED
    BY <2>1, <2>3, <2>4 DEF HolderAtHead
<1>4. ASSUME NEW c \in Client, Rel(c) PROVE HolderAtHead'
  <2>1. /\ canal[c].proc = "REL" /\ emCurso' = {} /\ UNCHANGED pc
        /\ canal' = [canal EXCEPT ![c] = Feito]
    BY <1>4 DEF Rel, Despacha, clientVars
  <2>2. Portadores \subseteq {c}
    BY <2>1, UmSo DEF Portadores
  <2>3. pc[c] # "crit"
    BY <2>1, Conteudo DEF Conversa
  <2>4. Portadores' = {}
    BY <1>0, <2>1, <2>2, <2>3, Mensagens DEF Portadores
  <2> QED
    BY <2>1, <2>4 DEF HolderAtHead
<1>5. CASE ServerExit
  BY <1>5, FicaNaFrente DEF ServerExit, Portadores, clientVars
<1>6. CASE UNCHANGED vars
  BY <1>6, FicaNaFrente DEF vars, Portadores
<1> QED
  BY <1>1, <1>2, <1>3, <1>4, <1>5, <1>6 DEF Next, ServerNext

\* rel_1_svc removes the entry of its caller, and req_1_svc never looks for
\* the head of an empty queue (servidor.c, lines 112 and 127), for clients
\* with PIDs of their own whose requests arrive in the order of their stamps.
THEOREM HolderIsHead ==
  ASSUME OrderAssumption PROVE Spec => []HolderAtHead
<1>1. TypeOK /\ HolderAtHead /\ [Next]_vars => HolderAtHead'
  BY NextHolder
<1> QED
  BY <1>1, InitHolder, RpcTypeCorrect, PTL DEF Spec

\* At most one client is between a req that returned and its rel.
THEOREM RpcMutex ==
  ASSUME OrderAssumption PROVE Spec => []MutualExclusion
<1>1. HolderAtHead => MutualExclusion
  BY UmSo DEF MutualExclusion, NaSecao, Portadores
<1> QED
  BY <1>1, HolderIsHead, PTL
-----------------------------------------------------------------------------
(***************************************************************************)
(* The resource.                                                           *)
(***************************************************************************)
LEMMA InitCounter == Init => CounterHandedOver
  BY Mensagens DEF Init, ClientInit, CounterHandedOver

\* A step that changes neither the resource, nor what a client that has it
\* knows of it.
LEMMA MesmoValor ==
  ASSUME CounterHandedOver, UNCHANGED TOKEN,
         \A d \in Client : UNCHANGED <<pc[d], rec[d], canal[d]>>
                           \/ (pc'[d] # "crit" /\ canal'[d].proc \notin {"RESPOSTA", "REL"})
  PROVE  CounterHandedOver'
  BY DEF CounterHandedOver

LEMMA NextCounter ==
  ASSUME OrderAssumption, TypeOK, HolderAtHead, CounterHandedOver, [Next]_vars
  PROVE  CounterHandedOver'
<1>0. /\ pc \in [Client -> Rotulos] /\ canal = [d \in Client |-> canal[d]]
      /\ rec \in [Client -> CInt(ValorMax)]
  BY DEF TypeOK, Rotulos
<1>1. ASSUME NEW c \in Client, CallReq(c) PROVE CounterHandedOver'
  <2>1. canal[c].proc = "NADA"
    BY <1>1, ForaDeChamada DEF CallReq
  <2> QED
    BY <1>0, <1>1, <2>1, MesmoValor DEF CallReq, clnt_call, Requisicao, serverVars
<1>2. ASSUME NEW c \in Client, ReturnReq(c) PROVE CounterHandedOver'
  BY <1>0, <1>2, Mensagens DEF ReturnReq, CounterHandedOver, serverVars
<1>3. ASSUME NEW c \in Client, CallRel(c) PROVE CounterHandedOver'
  <2>1. canal[c].proc = "NADA" /\ rec[c] = TOKEN
    BY <1>3, ForaDeChamada DEF CallRel, CounterHandedOver
  <2>2. \A d \in Client \ {c} : UNCHANGED <<pc[d], rec[d], canal[d]>>
    BY <1>0, <1>3 DEF CallRel, clnt_call
  <2>3. /\ UNCHANGED TOKEN /\ pc'[c] # "crit" /\ canal'[c].proc # "RESPOSTA"
        /\ canal'[c].proc = "REL" => canal'[c].recurso = Dobro(TOKEN)
    BY <1>0, <1>3, <2>1 DEF CallRel, clnt_call, Liberacao, serverVars
  <2> QED
    BY <2>2, <2>3 DEF CounterHandedOver
<1>4. ASSUME NEW c \in Client, ReturnRel(c) \/ CallFails(c) PROVE CounterHandedOver'
  BY <1>0, <1>4, Mensagens, MesmoValor DEF ReturnRel, CallFails, serverVars
<1>5. ASSUME NEW c \in Client, Timeout(c) \/ ClientExit(c) PROVE CounterHandedOver'
  BY <1>0, <1>5 DEF Timeout, ClientExit, CounterHandedOver, serverVars
<1>6. ASSUME NEW c \in Client, Req(c) PROVE CounterHandedOver'
  <2>1. pc[c] # "crit"
    BY <1>6, Conteudo DEF Req, ReqInsere, Despacha, Conversa
  <2> QED
    BY <1>0, <1>6, <2>1, Mensagens, MesmoValor DEF Req, ReqInsere, clientVars
<1>7. ASSUME NEW c \in Client, ReqConcede(c) PROVE CounterHandedOver'
  <2> DEFINE r == Resposta(srvTEMPO + 1, TOKEN)
  <2>1. r.proc = "RESPOSTA" /\ r.recurso = TOKEN
    BY DEF Resposta
  <2> HIDE DEF r
  <2>2. /\ canal' \in {[canal EXCEPT ![c] = r], [canal EXCEPT ![c] = Erro]}
        /\ UNCHANGED <<pc, rec, TOKEN>>
    BY <1>7 DEF ReqConcede, svc_sendreply, clientVars, r
  <2>3. pc[c] # "crit"
    BY <1>7, Conteudo DEF ReqConcede, Conversa
  <2> QED
    BY <1>0, <2>1, <2>2, <2>3, Mensagens DEF CounterHandedOver
<1>8. ASSUME NEW c \in Client, Rel(c) PROVE CounterHandedOver'
  <2>1. /\ canal[c].proc = "REL" /\ UNCHANGED pc
        /\ canal' = [canal EXCEPT ![c] = Feito]
    BY <1>8 DEF Rel, Despacha, clientVars
  <2>2. pc[c] # "crit"
    BY <2>1, Conteudo DEF Conversa
  <2>3. \A d \in Client : pc[d] = "crit" \/ canal[d].proc \in {"RESPOSTA", "REL"} => d = c
    BY <2>1, UmSo DEF Portadores
  <2> QED
    BY <1>0, <2>1, <2>2, <2>3, Mensagens DEF CounterHandedOver
<1>9. CASE ServerExit
  BY <1>9 DEF ServerExit, CounterHandedOver, clientVars
<1>10. CASE UNCHANGED vars
  BY <1>10 DEF vars, CounterHandedOver
<1> QED
  BY <1>1, <1>2, <1>3, <1>4, <1>5, <1>6, <1>7, <1>8, <1>9, <1>10
     DEF Next, ClientNext, ServerNext

\* Each client that gets the token gets the value that the one before left,
\* and gives back its double (cliente-2.c, lines 45 to 52).
THEOREM RpcCounterCorrect ==
  ASSUME OrderAssumption PROVE Spec => []CounterHandedOver
<1>1. TypeOK /\ HolderAtHead /\ CounterHandedOver /\ [Next]_vars => CounterHandedOver'
  BY NextCounter
<1> QED
  BY <1>1, InitCounter, RpcTypeCorrect, HolderIsHead, PTL DEF Spec

\* Nothing but a client's double ever replaces the resource.
THEOREM RpcCounterSteps ==
  ASSUME OrderAssumption PROVE Spec => CounterStep
<1>1. CounterHandedOver /\ [Next]_vars => [TOKEN' \in {TOKEN, Dobro(TOKEN)}]_vars
  <2> SUFFICES ASSUME CounterHandedOver, Next PROVE TOKEN' \in {TOKEN, Dobro(TOKEN)}
    OBVIOUS
  <2>1. ASSUME NEW c \in Client, Rel(c) PROVE TOKEN' = Dobro(TOKEN)
    BY <2>1 DEF Rel, Despacha, CounterHandedOver
  <2>2. ASSUME NEW c \in Client, ClientNext(c) \/ Req(c) \/ ReqConcede(c)
        PROVE  UNCHANGED TOKEN
    BY <2>2 DEF ClientNext, CallReq, ReturnReq, CallRel, ReturnRel, CallFails, Timeout,
                ClientExit, Req, ReqInsere, ReqConcede, serverVars
  <2>3. ServerExit => UNCHANGED TOKEN
    BY DEF ServerExit
  <2> QED
    BY <2>1, <2>2, <2>3 DEF Next, ServerNext
<1> QED
  BY <1>1, RpcCounterCorrect, PTL DEF Spec, CounterStep
-----------------------------------------------------------------------------
(***************************************************************************)
(* Whom the only thread waits for.                                         *)
(***************************************************************************)
\* The client at the head has the token, or will not give it back.
Explicada(d) ==
  \/ d \in Portadores \cup emCurso
  \/ pc[d] = "fim"
  \/ canal[d].proc = "ERRO"

\* WaitsForHolder is not inductive: a call of the client at the head must not
\* have put a second entry into the queue.
WInv ==
  /\ WaitsForHolder
  /\ \A c \in emCurso : NaFrente(c) => Len(fila) <= 1

LEMMA InitWaits == Init => WInv
<1> SUFFICES ASSUME Init PROVE WInv
  OBVIOUS
<1>1. fila = << >> /\ Len(fila) = 0 /\ emCurso = {}
  BY DEF Init, ServerInit
<1> QED
  BY <1>1 DEF WInv, WaitsForHolder

\* A client at the head that was accounted for still is after its own step.
LEMMA ClientWaits ==
  ASSUME TypeOK, NEW c \in Client, ClientNext(c), NEW d \in Client, Explicada(d)
  PROVE  Explicada(d)'
<1>0. /\ pc \in [Client -> Rotulos] /\ canal = [x \in Client |-> canal[x]]
      /\ UNCHANGED <<emCurso, fila>>
  BY ClientHolders DEF TypeOK, Rotulos
<1>1. ASSUME d # c PROVE pc'[d] = pc[d] /\ canal'[d] = canal[d]
  BY <1>0, <1>1 DEF ClientNext, CallReq, clnt_call, ReturnReq, CallRel, ReturnRel,
                    CallFails, Timeout, ClientExit
<1>2. CASE d # c
  BY <1>0, <1>1, <1>2 DEF Explicada, Portadores
<1>3. CASE d = c
  <2>1. ASSUME CallReq(c) PROVE FALSE
    <3>1. pc[c] = "start" /\ canal[c].proc = "NADA" /\ c \notin emCurso
      BY <2>1, ForaDeChamada DEF CallReq
    <3> QED
      BY <1>3, <3>1 DEF Explicada, Portadores
  <2>2. ASSUME ReturnReq(c) PROVE pc'[c] = "crit"
    BY <1>0, <2>2 DEF ReturnReq
  <2>3. ASSUME CallRel(c) PROVE pc'[c] = "fim" \/ canal'[c].proc = "REL"
    BY <1>0, <2>3 DEF CallRel, clnt_call, Liberacao
  <2>4. ASSUME ReturnRel(c) PROVE FALSE
    <3>1. pc[c] = "rel" /\ canal[c].proc = "FEITO"
      BY <2>4 DEF ReturnRel
    <3>2. c \notin emCurso
      BY <3>1, Conteudo, Mensagens DEF Conversa
    <3> QED
      BY <1>3, <3>1, <3>2 DEF Explicada, Portadores
  <2>5. ASSUME CallFails(c) \/ Timeout(c) \/ ClientExit(c) PROVE pc'[c] = "fim"
    BY <1>0, <2>5 DEF CallFails, Timeout, ClientExit
  <2> QED
    BY <1>3, <2>1, <2>2, <2>3, <2>4, <2>5 DEF ClientNext, Explicada, Portadores
<1> QED
  BY <1>2, <1>3

LEMMA WInvParts ==
  ASSUME servidor' = "ativo" /\ emCurso' = {} => Len(fila') <= 1,
         servidor' = "ativo" /\ fila' # << >> =>
           \E d \in Client : NaFrente(d)' /\ Explicada(d)',
         \A c \in emCurso' : NaFrente(c)' => Len(fila') <= 1
  PROVE  WInv'
  BY DEF WInv, WaitsForHolder, Explicada

LEMMA NextWaits ==
  ASSUME OrderAssumption, TypeOK, HolderAtHead, WInv, [Next]_vars PROVE WInv'
<1>0. /\ pc \in [Client -> Rotulos] /\ canal = [d \in Client |-> canal[d]]
      /\ emCurso \subseteq Client /\ fila \in Seq(Entradas) /\ Len(fila) \in Nat
  BY LenProperties DEF TypeOK, Rotulos, Entradas
<1>a. servidor = "ativo" /\ fila # << >> => \E d \in Client : NaFrente(d) /\ Explicada(d)
  BY DEF WInv, WaitsForHolder, Explicada
<1>1. ASSUME NEW c \in Client, ClientNext(c) PROVE WInv'
  <2>1. UNCHANGED <<servidor, emCurso, fila>>
    BY <1>1 DEF ClientNext, CallReq, ReturnReq, CallRel, ReturnRel, CallFails, Timeout,
                ClientExit, serverVars
  <2>2. \A d \in Client : NaFrente(d) /\ Explicada(d) => NaFrente(d)' /\ Explicada(d)'
    BY <1>1, <2>1, ClientWaits DEF NaFrente
  <2>3. servidor' = "ativo" /\ fila' # << >> =>
          \E d \in Client : NaFrente(d)' /\ Explicada(d)'
    BY <1>a, <2>1, <2>2
  <2>4. servidor' = "ativo" /\ emCurso' = {} => Len(fila') <= 1
    BY <2>1 DEF WInv, WaitsForHolder
  <2>5. \A d \in emCurso' : NaFrente(d)' => Len(fila') <= 1
    BY <2>1 DEF WInv, NaFrente
  <2> QED
    BY WInvParts, <2>3, <2>4, <2>5
<1>2. ASSUME NEW c \in Client, Req(c) PROVE WInv'
  <2>1. /\ canal[c].proc = "REQ" /\ emCurso = {} /\ emCurso' = {c} /\ servidor = "ativo"
        /\ canal' = [canal EXCEPT ![c] = Vazio] /\ UNCHANGED <<pc, servidor>>
    BY <1>2 DEF Req, ReqInsere, Despacha, clientVars
  <2>2. Len(fila) <= 1
    BY <2>1 DEF WInv, WaitsForHolder
  <2>3. CASE fila = << >>
    <3>1. fila' # << >> /\ Head(fila').PID = PID[c] /\ Len(fila') = 1
      BY <1>2, <2>3, ReqInsereFila
    <3>2. NaFrente(c)' /\ Explicada(c)'
      BY <2>1, <3>1 DEF NaFrente, Explicada
    <3> QED
      BY WInvParts, <2>1, <3>1, <3>2
  <2>4. CASE fila # << >>
    <3>1. PICK d \in Client : NaFrente(d) /\ Explicada(d)
      BY <1>a, <2>1, <2>4
    <3>2. fila' # << >> /\ Head(fila') = Head(fila)
      BY <1>2, <2>4, ReqInsereFila
    <3>3. NaFrente(d)' /\ (NaFrente(c)' => NaFrente(c))
      BY <2>4, <3>1, <3>2 DEF NaFrente
    <3>4. Explicada(d)'
      BY <1>0, <2>1, <3>1, Conteudo DEF Explicada, Portadores, Conversa
    <3>5. NaFrente(c) => Len(fila') <= 1
      <4>1. fila[1] = Head(fila) /\ 1 \in DOMAIN fila
        BY <1>0, <2>4, LenProperties
      <4>2. NaFrente(c) => EstaNaFila(fila, PID[c])
        BY <4>1 DEF NaFrente, EstaNaFila
      <4> QED
        BY <1>2, <2>2, <4>2, ReqInsereFila
    <3> QED
      BY WInvParts, <2>1, <3>3, <3>4, <3>5
  <2> QED
    BY <2>3, <2>4
<1>3. ASSUME NEW c \in Client, ReqConcede(c) PROVE WInv'
  <2> DEFINE r == Resposta(srvTEMPO + 1, TOKEN)
  <2>1. r.proc = "RESPOSTA"
    BY DEF Resposta
  <2> HIDE DEF r
  <2>2. /\ c \in emCurso /\ NaFrente(c) /\ emCurso' = {} /\ UNCHANGED <<pc, servidor, fila>>
        /\ canal' \in {[canal EXCEPT ![c] = r], [canal EXCEPT ![c] = Erro]}
    BY <1>3 DEF ReqConcede, svc_sendreply, clientVars, NaFrente, r
  <2>3. canal'[c].proc \in {"RESPOSTA", "ERRO"}
    BY <1>0, <2>1, <2>2, Mensagens
  <2>4. NaFrente(c)' /\ Explicada(c)' /\ Len(fila') <= 1
    BY <2>2, <2>3 DEF NaFrente, Explicada, Portadores, WInv
  <2> QED
    BY WInvParts, <2>2, <2>4
<1>4. ASSUME NEW c \in Client, Rel(c) PROVE WInv'
  <2>1. canal[c].proc = "REL" /\ emCurso = {} /\ servidor = "ativo"
        /\ emCurso' = {} /\ fila' = Remove(fila)
    BY <1>4 DEF Rel, Despacha
  <2>2. fila # << >> /\ Len(fila) <= 1
    BY <2>1 DEF HolderAtHead, Portadores, NaFrente, WInv, WaitsForHolder
  <2>3. Len(Tail(fila)) = Len(fila) - 1 /\ Tail(fila) \in Seq(Entradas)
    BY <1>0, <2>2, HeadTailProperties
  <2>4. Len(fila) # 0
    BY <1>0, <2>2, EmptySeq
  <2>5. Len(Tail(fila)) = 0
    BY <1>0, <2>2, <2>3, <2>4
  <2>6. fila' = << >> /\ Len(fila') = 0
    BY <2>1, <2>2, <2>3, <2>5, EmptySeq DEF Remove, removeItem
  <2> QED
    BY WInvParts, <2>1, <2>6
<1>5. CASE ServerExit
  <2>1. servidor' = "fim" /\ emCurso' = {}
    BY <1>5 DEF ServerExit
  <2> QED
    BY WInvParts, <2>1
<1>6. CASE UNCHANGED vars
  <2>1. UNCHANGED <<pc, canal, servidor, emCurso, fila>>
    BY <1>6 DEF vars
  <2> QED
    BY <2>1 DEF WInv, WaitsForHolder, NaFrente, Portadores
<1> QED
  BY <1>1, <1>2, <1>3, <1>4, <1>5, <1>6 DEF Next, ServerNext

\* The server is held up in its loop only by a client that has the token, or
\* has ended without giving it back; and its queue, whatever its capacity,
\* keeps one entry at most from call to call (servidor.c, lines 111 to 116).
THEOREM RpcWaits ==
  ASSUME OrderAssumption PROVE Spec => []WaitsForHolder
<1>1. TypeOK /\ HolderAtHead /\ WInv /\ [Next]_vars => WInv'
  BY NextWaits
<1>2. WInv => WaitsForHolder
  BY DEF WInv
<1> QED
  BY <1>1, <1>2, InitWaits, RpcTypeCorrect, HolderIsHead, PTL DEF Spec
-----------------------------------------------------------------------------
(***************************************************************************)
(* Refinement: every step is one of Exclusao's, or changes nothing there.  *)
(***************************************************************************)
LEMMA InitAbstrato == Init => Abstrato!Init
  BY Mensagens DEF Init, ClientInit, ServerInit, Abstrato!Init, NaSecao, Devolucoes

\* A stutter, by what NaSecao and Devolucoes are made of.
LEMMA Gagueja ==
  ASSUME UNCHANGED TOKEN,
         \A d \in Client : /\ (pc'[d] = "crit") = (pc[d] = "crit")
                           /\ (canal'[d].proc = "REL") = (canal[d].proc = "REL")
  PROVE  UNCHANGED Abstrato!exVars
  BY DEF NaSecao, Devolucoes, Abstrato!exVars

LEMMA NextAbstrato ==
  ASSUME OrderAssumption, TypeOK, HolderAtHead, CounterHandedOver, [Next]_vars
  PROVE  [Abstrato!Next]_(Abstrato!exVars)
<1>0. /\ pc \in [Client -> Rotulos] /\ canal = [d \in Client |-> canal[d]]
  BY DEF TypeOK, Rotulos
<1>a. \A c, d \in Client : /\ pc[c] = "crit" \/ canal[c].proc \in {"RESPOSTA", "REL"}
                           /\ pc[d] = "crit" \/ canal[d].proc \in {"RESPOSTA", "REL"}
                           => c = d
  BY UmSo DEF Portadores
<1>1. ASSUME NEW c \in Client, CallReq(c) PROVE UNCHANGED Abstrato!exVars
  <2>1. canal[c].proc = "NADA"
    BY <1>1, ForaDeChamada DEF CallReq
  <2> QED
    BY <1>0, <1>1, <2>1, Gagueja DEF CallReq, clnt_call, Requisicao, serverVars
<1>2. ASSUME NEW c \in Client, ReturnReq(c) PROVE Abstrato!Entrar(c)
  <2>1. /\ pc[c] = "req" /\ canal[c].proc = "RESPOSTA" /\ UNCHANGED TOKEN
        /\ pc' = [pc EXCEPT ![c] = "crit"] /\ canal' = [canal EXCEPT ![c] = Vazio]
    BY <1>2 DEF ReturnReq, serverVars
  <2>2. NaSecao = {} /\ Devolucoes = {}
    BY <1>a, <2>1 DEF NaSecao, Devolucoes
  <2>3. NaSecao' = {c} /\ Devolucoes' = {}
    BY <1>0, <2>1, <2>2, Mensagens DEF NaSecao, Devolucoes
  <2> QED
    BY <2>1, <2>2, <2>3 DEF Abstrato!Entrar
<1>3. ASSUME NEW c \in Client, CallRel(c) PROVE Abstrato!Sair(c) \/ Abstrato!Cair(c)
  <2>1. pc[c] = "crit" /\ canal[c].proc = "NADA" /\ UNCHANGED TOKEN
    BY <1>3, ForaDeChamada DEF CallRel, serverVars
  <2>2. NaSecao = {c} /\ Devolucoes = {}
    BY <1>a, <2>1 DEF NaSecao, Devolucoes
  <2>3. /\ pc'[c] # "crit"
        /\ \A d \in Client \ {c} : pc'[d] = pc[d] /\ canal'[d] = canal[d]
    BY <1>0, <1>3 DEF CallRel, clnt_call
  <2>4. NaSecao' = {} /\ Devolucoes' \subseteq {c}
    BY <2>2, <2>3 DEF NaSecao, Devolucoes
  <2>5. CASE Devolucoes' = {}
    BY <2>1, <2>2, <2>4, <2>5 DEF Abstrato!Cair
  <2>6. CASE Devolucoes' # {}
    BY <2>1, <2>2, <2>4, <2>6 DEF Abstrato!Sair
  <2> QED
    BY <2>5, <2>6
<1>4. ASSUME NEW c \in Client, ReturnRel(c) \/ CallFails(c)
      PROVE  UNCHANGED Abstrato!exVars
  BY <1>0, <1>4, Mensagens, Gagueja DEF ReturnRel, CallFails, serverVars
<1>5. ASSUME NEW c \in Client, Timeout(c) \/ ClientExit(c)
      PROVE  UNCHANGED Abstrato!exVars \/ Abstrato!Cair(c)
  <2>1. pc' = [pc EXCEPT ![c] = "fim"] /\ UNCHANGED <<canal, TOKEN>>
    BY <1>5 DEF Timeout, ClientExit, serverVars
  <2>2. CASE pc[c] = "crit"
    <3>1. NaSecao = {c} /\ NaSecao' = {} /\ Devolucoes' = Devolucoes
      BY <1>0, <1>a, <2>1, <2>2 DEF NaSecao, Devolucoes
    <3> QED
      BY <2>1, <3>1 DEF Abstrato!Cair
  <2>3. CASE pc[c] # "crit"
    BY <1>0, <2>1, <2>3, Gagueja
  <2> QED
    BY <2>2, <2>3
<1>6. ASSUME NEW c \in Client, Req(c) PROVE UNCHANGED Abstrato!exVars
  BY <1>0, <1>6, Mensagens, Gagueja DEF Req, ReqInsere, Despacha, clientVars
<1>7. ASSUME NEW c \in Client, ReqConcede(c) PROVE UNCHANGED Abstrato!exVars
  <2> DEFINE r == Resposta(srvTEMPO + 1, TOKEN)
  <2>1. r.proc = "RESPOSTA"
    BY DEF Resposta
  <2> HIDE DEF r
  <2>2. /\ canal' \in {[canal EXCEPT ![c] = r], [canal EXCEPT ![c] = Erro]}
        /\ UNCHANGED <<pc, TOKEN>> /\ c \in emCurso
    BY <1>7 DEF ReqConcede, svc_sendreply, clientVars, r
  <2>3. canal[c].proc = "NADA"
    BY <2>2, Conteudo, Mensagens DEF Conversa
  <2> QED
    BY <1>0, <2>1, <2>2, <2>3, Mensagens, Gagueja
<1>8. ASSUME NEW c \in Client, Rel(c) PROVE Abstrato!Guardar
  <2>1. /\ canal[c].proc = "REL" /\ TOKEN' = canal[c].recurso /\ UNCHANGED pc
        /\ canal' = [canal EXCEPT ![c] = Feito]
    BY <1>8 DEF Rel, Despacha, clientVars
  <2>2. TOKEN' = Dobro(TOKEN)
    BY <2>1 DEF CounterHandedOver
  <2>3. Devolucoes = {c} /\ Devolucoes' = {} /\ NaSecao' = NaSecao
    BY <1>0, <1>a, <2>1, Mensagens DEF NaSecao, Devolucoes
  <2> QED
    BY <2>2, <2>3 DEF Abstrato!Guardar
<1>9. CASE ServerExit
  BY <1>9, Gagueja DEF ServerExit, clientVars
<1>10. CASE UNCHANGED vars
  BY <1>10, Gagueja DEF vars
<1> QED
  BY <1>1, <1>2, <1>3, <1>4, <1>5, <1>6, <1>7, <1>8, <1>9, <1>10
     DEF Next, ClientNext, ServerNext, Abstrato!Next

\* The RPC version does what the laboratory asks of every version, for a
\* resource that is doubled.
THEOREM RpcRefinement ==
  ASSUME OrderAssumption PROVE Spec => ImplementsExclusao
<1>1. TypeOK /\ HolderAtHead /\ CounterHandedOver /\ [Next]_vars
        => [Abstrato!Next]_(Abstrato!exVars)
  BY NextAbstrato
<1> QED
  BY <1>1, InitAbstrato, RpcTypeCorrect, HolderIsHead, RpcCounterCorrect, PTL
     DEF Spec, ImplementsExclusao, Abstrato!Spec
=============================================================================
