-------------------------------- MODULE RpcDict --------------------------------
(***************************************************************************)
(* The dictionary of LAB07-SD/thread-RPC.c: an RPC server over UDP that    *)
(* starts a thread for every call, and clients that initialise, insert,    *)
(* delete and look up words.                                               *)
(*                                                                         *)
(* Threads.  All of them share dict and nwords, without a lock, and the    *)
(* one transport of the server, with the request structure that the main   *)
(* thread passes them by reference: the next call that svc_run receives    *)
(* overwrites both.  A step of a thread is one access to shared memory;    *)
(* the copy of a word by strcpy is one step, so that no word is ever half  *)
(* of one and half of another.                                             *)
(*                                                                         *)
(* The RPC library (external).  svc_run receives a call into the           *)
(* transport; svc_getargs decodes the arguments from it, once;             *)
(* svc_sendreply writes the answer into it, for whichever call it holds;   *)
(* svc_freeargs leaves it in the mode that frees, in which svc_getargs     *)
(* yields a null pointer.  The client sends a call again when no answer    *)
(* comes in 5 s, gives up after 25 s, and drops the answers to its other   *)
(* calls.  The server remembers no call: it serves again what is sent      *)
(* again.                                                                  *)
(*                                                                         *)
(* Integers.  nwords and the threads' copies of it are C ints, which wrap  *)
(* around in the build; IntMax stands for INT_MAX.                         *)
(***************************************************************************)
EXTENDS Integers, FiniteSets

CONSTANTS Client,       \* the client processes
          Palavra,      \* the words
          Nulo,         \* a null pointer instead of a word
          DICTSIZ,      \* the places of dict (100 in the code)
          IntMax,       \* INT_MAX
          Thread,       \* as many threads as the system lets a process have
          MaxCalls      \* a bound on the calls of all the clients, and on
                        \* the times that a client waits in vain for one

ASSUME WordAssumption == {Nulo, "", "erro"} \cap Palavra = {} /\ Nulo # ""
ASSUME DictAssumption == DICTSIZ \in Nat \ {0}
ASSUME IntAssumption == IntMax \in Nat /\ DICTSIZ <= IntMax
ASSUME BoundAssumption == MaxCalls \in 0 .. IntMax

VARIABLES xid,          \* the number of the last call of each client
          espera,       \* the call whose answer each client waits for
          gastos,       \* the calls made and the times waited in vain
          rede,         \* the datagrams in flight
          servidor,     \* "ativo", or "fim" after a crash
          transp,       \* the call in the transport
          xdr,          \* what the transport's buffer is ready for
          th,           \* the threads
          dict, nwords, \* the dictionary
          fora,         \* history: two calls have been served at a time, or
                        \* a word has been inserted into a full dictionary
          estragado     \* history: a copy has been made outside dict

clientVars == <<xid, espera, gastos>>
dictVars == <<dict, nwords, fora, estragado>>
transpVars == <<transp, xdr>>
vars == <<xid, espera, gastos, rede, servidor, transp, xdr, th, dict, nwords,
          fora, estragado>>
-----------------------------------------------------------------------------
(***************************************************************************)
(* Data.  The result in an answer, which is only printed, is left out; fez *)
(* is history, the procedure that its thread has run and the word that it  *)
(* was given.  xdr is "novo" when a call has come and its arguments have   *)
(* not been decoded, "lido" when they have, "escrito" after an answer has  *)
(* been encoded over them, and "livre" after svc_freeargs.                 *)
(***************************************************************************)
Chamada(c, n, p, w) == [tipo |-> "chamada", c |-> c, xid |-> n, proc |-> p, w |-> w]
Resposta(m, f) == [tipo |-> "resposta", c |-> m.c, xid |-> m.xid, fez |-> f]
SemChamada == [tipo |-> "nenhuma"]

\* What a call asks for, and what a thread has done; or that it has done
\* nothing, since svc_getargs has failed.
Servico(r) == [proc |-> r.proc, w |-> r.w]
SemServico == [proc |-> "NULLPROC", w |-> Nulo]

Indice == 0 .. DICTSIZ - 1
Conteudos == Palavra \cup {""}   \* of a place of dict

CInt == -(IntMax + 1) .. IntMax
Sucessor(x) == IF x = IntMax THEN -(IntMax + 1) ELSE x + 1
Antecessor(x) == IF x = -(IntMax + 1) THEN IntMax ELSE x - 1

\* A thread: where it is, the procedure it runs and the word it was given,
\* i, the value of nwords it has read, and its result.
Parada == [pc |-> "livre", proc |-> "NULLPROC", w |-> Nulo, i |-> 0, n |-> 0,
           res |-> 0]
Ativas == {t \in Thread : th[t].pc # "livre"}
Em(t, l) == servidor = "ativo" /\ th[t].pc = l
Muda(t, r) == th' = [th EXCEPT ![t] = r]
Vai(t, l) == Muda(t, [th[t] EXCEPT !.pc = l])

\* The process gets a signal, and all its threads end with it.
Cai ==
  /\ servidor' = "fim"
  /\ th' = [t \in Thread |-> Parada]

\* What svc_getargs may find in the buffer, for a procedure that takes a
\* word: what comes behind the call's arguments is left from other calls,
\* and may decode or not.  "erro" is not a word: the decoding has failed.
Argumentos ==
  CASE xdr = "livre" -> {Nulo}
    [] xdr = "escrito" -> {"erro"}
    [] xdr = "novo" /\ transp.w # Nulo -> {transp.w}
    [] OTHER -> Conteudos \cup {"erro"}
-----------------------------------------------------------------------------
(***************************************************************************)
(* Variants of the steps below, each with one plausible bug.  They are no  *)
(* part of Spec: each one is a change of the code that some property must  *)
(* notice.                                                                 *)
(***************************************************************************)
\* The case of DELETEW has no break.
SwitchSemBreak(t) ==
  /\ Em(t, "switch")
  /\ Muda(t, [th[t] EXCEPT !.pc = "args",
                           !.proc = IF transp.proc = "DELETEW" THEN "LOOKUPW"
                                                               ELSE transp.proc])
  /\ UNCHANGED <<clientVars, rede, servidor, transpVars, dictVars>>

\* insertw begins with strcpy(dict[nwords++], word).
Ins1Incrementa(t) ==
  /\ Em(t, "ins1")
  /\ nwords' = Sucessor(nwords)
  /\ Muda(t, [th[t] EXCEPT !.pc = "ins2", !.n = nwords])
  /\ UNCHANGED <<clientVars, rede, servidor, transpVars, dict, fora, estragado>>

\* The loop counts down.
NaoAchouParaTras(t) ==
  /\ Muda(t, [th[t] EXCEPT !.pc = "laco", !.i = @ - 1])
  /\ UNCHANGED <<clientVars, rede, servidor, transpVars, dict, fora, estragado>>

\* insertw returns the number of words there were before.
Ins5Antes(t) ==
  /\ Em(t, "ins5")
  /\ Muda(t, [th[t] EXCEPT !.pc = "responde", !.res = nwords - 1])
  /\ UNCHANGED <<clientVars, rede, servidor, transpVars, dictVars>>

\* The last word is not moved to the place of the deleted one.
Del4SemCopia(t) ==
  /\ Em(t, "del4")
  /\ Muda(t, [th[t] EXCEPT !.pc = "responde", !.res = 1])
  /\ UNCHANGED <<clientVars, rede, servidor, transpVars, dictVars>>

\* i is not incremented.
ComparaParado(t) ==
  /\ Em(t, "cmp") /\ th[t].w # Nulo
  /\ IF th[t].i \in Indice /\ dict[th[t].i] = th[t].w
       THEN Muda(t, [th[t] EXCEPT !.pc = "responde", !.res = 1])
       ELSE Vai(t, "laco")
  /\ UNCHANGED <<clientVars, rede, servidor, transpVars, dictVars>>
-----------------------------------------------------------------------------
ClientInit ==
  /\ xid = [c \in Client |-> 0]
  /\ espera = [c \in Client |-> SemChamada]
  /\ gastos = 0

ServerInit ==
  /\ servidor = "ativo"
  /\ transp = SemChamada
  /\ xdr = "livre"
  /\ th = [t \in Thread |-> Parada]
  /\ dict = [k \in Indice |-> ""]
  /\ nwords = 0

Init == ClientInit /\ ServerInit /\ rede = {} /\ fora = FALSE /\ estragado = FALSE

(***************************************************************************)
(* The client.                                                             *)
(***************************************************************************)
\* One more call, or one more wait in vain.
MaisUma == gastos < MaxCalls /\ gastos' = gastos + 1

\* A command is read, with its word, and its call is sent.  The command q,
\* or the end of the input, ends the client here, which is as if it read no
\* further command.
Call(c, p, w) ==
  /\ espera[c] = SemChamada
  /\ MaisUma
  /\ xid' = [xid EXCEPT ![c] = @ + 1]
  /\ espera' = [espera EXCEPT ![c] = Chamada(c, xid[c] + 1, p, w)]
  /\ rede' = rede \cup {espera'[c]}
  /\ UNCHANGED <<servidor, transpVars, th, dictVars>>

CallAny(c) ==
  \/ Call(c, "INITW", Nulo)
  \/ \E p \in {"INSERTW", "DELETEW", "LOOKUPW"}, w \in Palavra : Call(c, p, w)

\* No answer has come in 5 s.  Two copies in flight count as one: the second
\* may as well be sent after the first has arrived.
Resend(c) ==
  /\ espera[c].tipo = "chamada"
  /\ MaisUma
  /\ rede' = rede \cup {espera[c]}
  /\ UNCHANGED <<xid, espera, servidor, transpVars, th, dictVars>>

\* An answer is read: it ends the call it is for, and is dropped otherwise.
Return(c, m) ==
  /\ espera[c].tipo = "chamada"
  /\ m.tipo = "resposta" /\ m.c = c
  /\ rede' = rede \ {m}
  /\ \/ /\ m.xid = xid[c]
        /\ espera' = [espera EXCEPT ![c] = SemChamada]
     \/ /\ m.xid # xid[c]
        /\ UNCHANGED espera
  /\ UNCHANGED <<xid, gastos, servidor, transpVars, th, dictVars>>

\* 25 s have passed: the failure is printed, and the next command is read.
GiveUp(c) ==
  /\ espera[c].tipo = "chamada"
  /\ MaisUma
  /\ espera' = [espera EXCEPT ![c] = SemChamada]
  /\ UNCHANGED <<xid, rede, servidor, transpVars, th, dictVars>>
-----------------------------------------------------------------------------
(***************************************************************************)
(* The main thread of the server, in svc_run.                              *)
(***************************************************************************)
\* The call overwrites the transport and the request structure, and a thread
\* is started for it; without a thread left pthread_create fails, which
\* nobody looks at.
Receive(m) ==
  /\ servidor = "ativo"
  /\ m.tipo = "chamada"
  /\ rede' = rede \ {m}
  /\ transp' = m
  /\ xdr' = "novo"
  /\ \/ /\ Ativas # Thread
        /\ Muda(CHOOSE t \in Thread \ Ativas : TRUE, [Parada EXCEPT !.pc = "switch"])
     \/ /\ Ativas = Thread
        /\ UNCHANGED th
  /\ fora' = (fora \/ Ativas # {})
  /\ UNCHANGED <<clientVars, servidor, dict, nwords, estragado>>

(***************************************************************************)
(* serv_request, in a thread.                                              *)
(***************************************************************************)
\* NULLPROC and the numbers of no procedure, which no client calls, are left
\* out.
Switch(t) ==
  /\ Em(t, "switch")
  /\ Muda(t, [th[t] EXCEPT !.pc = "args", !.proc = transp.proc])
  /\ UNCHANGED <<clientVars, rede, servidor, transpVars, dictVars>>

\* svc_getargs, and where the procedure begins.  svcerr_decode answers when
\* the arguments cannot be decoded, and the thread returns.
GetArgs(t) ==
  /\ Em(t, "args")
  /\ \/ /\ th[t].proc = "INITW"
        /\ Muda(t, [th[t] EXCEPT !.pc = "init"])
        /\ UNCHANGED <<rede, xdr>>
     \/ /\ th[t].proc # "INITW"
        /\ \E w \in Argumentos \ {"erro"} :
             Muda(t, [th[t] EXCEPT !.pc = IF th[t].proc = "INSERTW" THEN "ins1"
                                                                    ELSE "laco",
                                   !.w = w])
        /\ xdr' = IF xdr = "novo" THEN "lido" ELSE xdr
        /\ UNCHANGED rede
     \/ /\ th[t].proc # "INITW"
        /\ "erro" \in Argumentos
        /\ Muda(t, Parada)
        /\ rede' = rede \cup {Resposta(transp, SemServico)}
        /\ xdr' = "escrito"
  /\ UNCHANGED <<clientVars, servidor, transp, dictVars>>

SendReply(t) ==
  /\ Em(t, "responde")
  /\ rede' = rede \cup {Resposta(transp, Servico(th[t]))}
  /\ xdr' = "escrito"
  /\ Muda(t, [Parada EXCEPT !.pc = "libera"])
  /\ UNCHANGED <<clientVars, servidor, transp, dictVars>>

FreeArgs(t) ==
  /\ Em(t, "libera")
  /\ xdr' = "livre"
  /\ Muda(t, Parada)
  /\ UNCHANGED <<clientVars, rede, servidor, transp, dictVars>>
-----------------------------------------------------------------------------
(***************************************************************************)
(* initw, insertw, deletew and lookupw, compiled as written: one step for  *)
(* each access to dict or nwords.  What is read outside dict is anything.  *)
(* What is written there may be over nwords, which then is whatever int    *)
(* the bytes of the word make.  Or the access crashes the server, as a     *)
(* null pointer does.                                                      *)
(***************************************************************************)
\* A step of t that leaves all but nwords and the thread alone.
Local(t, r) ==
  /\ Muda(t, r)
  /\ UNCHANGED <<clientVars, rede, servidor, transpVars, dict, fora, estragado>>

\* strcpy(dict[k], w) of a word w, after which t is r.
Copia(t, k, w, r) ==
  \/ /\ k \in Indice /\ w # Nulo
     /\ dict' = [dict EXCEPT ![k] = w]
     /\ Muda(t, r)
     /\ UNCHANGED <<servidor, nwords>>
  \/ /\ k \notin Indice /\ w # Nulo
     /\ nwords' \in CInt
     /\ Muda(t, r)
     /\ UNCHANGED <<servidor, dict>>
  \/ /\ k \notin Indice \/ w = Nulo
     /\ Cai
     /\ UNCHANGED <<dict, nwords>>

\* strcpy(dict[k], dict[n]) for an n outside dict: what is found there may be
\* longer than a place, and go on over the next ones.
CopiaDeFora(t, k, r) ==
  \/ /\ dict' \in [Indice -> Conteudos]
     /\ \A j \in Indice : j < k => dict'[j] = dict[j]
     /\ nwords' \in CInt
     /\ Muda(t, r)
     /\ UNCHANGED servidor
  \/ /\ Cai
     /\ UNCHANGED <<dict, nwords>>

\* Variant of Ins2: nwords++ comes before the copy.
Ins2Adiante(t) ==
  /\ Em(t, "ins2")
  /\ Copia(t, th[t].n + 1, th[t].w, [th[t] EXCEPT !.pc = "ins3"])
  /\ fora' = (fora \/ th[t].n \notin Indice)
  /\ estragado' = (estragado \/ th[t].n + 1 \notin Indice)
  /\ UNCHANGED <<clientVars, rede, transpVars>>

InitW(t) ==
  /\ Em(t, "init")
  /\ nwords' = 0
  /\ Local(t, [th[t] EXCEPT !.pc = "responde", !.res = 1])

Ins1(t) ==
  /\ Em(t, "ins1")
  /\ Local(t, [th[t] EXCEPT !.pc = "ins2", !.n = nwords])
  /\ UNCHANGED nwords

Ins2(t) ==
  /\ Em(t, "ins2")
  /\ Copia(t, th[t].n, th[t].w, [th[t] EXCEPT !.pc = "ins3"])
  /\ fora' = (fora \/ th[t].n \notin Indice)
  /\ estragado' = (estragado \/ th[t].n \notin Indice)
  /\ UNCHANGED <<clientVars, rede, transpVars>>

Ins3(t) ==
  /\ Em(t, "ins3")
  /\ Local(t, [th[t] EXCEPT !.pc = "ins4", !.n = nwords])
  /\ UNCHANGED nwords

Ins4(t) ==
  /\ Em(t, "ins4")
  /\ nwords' = Sucessor(th[t].n)
  /\ Local(t, [th[t] EXCEPT !.pc = "ins5", !.n = 0])

Ins5(t) ==
  /\ Em(t, "ins5")
  /\ Local(t, [th[t] EXCEPT !.pc = "responde", !.res = nwords])
  /\ UNCHANGED nwords

\* The loop of deletew and of lookupw: the test, and the comparison.
Laco(t) ==
  /\ Em(t, "laco")
  /\ Local(t, IF th[t].i < nwords
                THEN [th[t] EXCEPT !.pc = "cmp"]
                ELSE [th[t] EXCEPT !.pc = "responde", !.i = 0])
  /\ UNCHANGED nwords

Achou(t) ==
  Local(t, IF th[t].proc = "LOOKUPW"
             THEN [th[t] EXCEPT !.pc = "responde", !.i = 0, !.res = 1]
             ELSE [th[t] EXCEPT !.pc = "del1"])
NaoAchou(t) == Local(t, [th[t] EXCEPT !.pc = "laco", !.i = @ + 1])

Compara(t) ==
  /\ Em(t, "cmp")
  /\ \/ /\ th[t].w # Nulo
        /\ th[t].i \in Indice => dict[th[t].i] = th[t].w
        /\ Achou(t)
     \/ /\ th[t].w # Nulo
        /\ th[t].i \in Indice => dict[th[t].i] # th[t].w
        /\ NaoAchou(t)
     \/ /\ th[t].w = Nulo \/ th[t].i \notin Indice
        /\ Cai
        /\ UNCHANGED <<clientVars, rede, transpVars, dict, fora, estragado>>
  /\ UNCHANGED nwords

Del1(t) ==
  /\ Em(t, "del1")
  /\ Local(t, [th[t] EXCEPT !.pc = "del2", !.n = nwords])
  /\ UNCHANGED nwords

Del2(t) ==
  /\ Em(t, "del2")
  /\ nwords' = Antecessor(th[t].n)
  /\ Local(t, [th[t] EXCEPT !.pc = "del3", !.n = 0])

Del3(t) ==
  /\ Em(t, "del3")
  /\ Local(t, [th[t] EXCEPT !.pc = "del4", !.n = nwords])
  /\ UNCHANGED nwords

Apagou(t) == [th[t] EXCEPT !.pc = "responde", !.i = 0, !.n = 0, !.res = 1]

Del4(t) ==
  /\ Em(t, "del4")
  /\ \/ /\ th[t].n \in Indice
        /\ Copia(t, th[t].i, dict[th[t].n], Apagou(t))
     \/ /\ th[t].n \notin Indice
        /\ CopiaDeFora(t, th[t].i, Apagou(t))
  /\ estragado' = (estragado \/ th[t].n \notin Indice \/ th[t].i \notin Indice)
  /\ UNCHANGED <<clientVars, rede, transpVars, fora>>
-----------------------------------------------------------------------------
ClientNext(c) ==
  \/ CallAny(c)
  \/ Resend(c)
  \/ \E m \in rede : Return(c, m)
  \/ GiveUp(c)

ThreadNext(t) ==
  \/ Switch(t) \/ GetArgs(t) \/ SendReply(t) \/ FreeArgs(t)
  \/ InitW(t)
  \/ Ins1(t) \/ Ins2(t) \/ Ins3(t) \/ Ins4(t) \/ Ins5(t)
  \/ Laco(t) \/ Compara(t)
  \/ Del1(t) \/ Del2(t) \/ Del3(t) \/ Del4(t)

Next ==
  \/ \E c \in Client : ClientNext(c)
  \/ \E m \in rede : Receive(m)
  \/ \E t \in Thread : ThreadNext(t)

Spec == Init /\ [][Next]_vars
-----------------------------------------------------------------------------
(***************************************************************************)
(* Properties.                                                             *)
(***************************************************************************)
Procs == {"NULLPROC", "INITW", "INSERTW", "DELETEW", "LOOKUPW"}
Chamadas ==
  [tipo : {"chamada"}, c : Client, xid : Nat \ {0}, proc : {"INITW"}, w : {Nulo}] \cup
  [tipo : {"chamada"}, c : Client, xid : Nat \ {0},
   proc : {"INSERTW", "DELETEW", "LOOKUPW"}, w : Palavra]
TalvezChamada == Chamadas \cup {SemChamada}
Respostas == [tipo : {"resposta"}, c : Client, xid : Nat,
              fez : [proc : Procs, w : Conteudos \cup {Nulo}]]
Registros ==
  [pc : {"livre", "switch", "args", "init", "ins1", "ins2", "ins3", "ins4",
         "ins5", "laco", "cmp", "del1", "del2", "del3", "del4", "responde",
         "libera"},
   proc : Procs, w : Conteudos \cup {Nulo}, i : 0 .. IntMax, n : CInt, res : CInt]
Coerente(r) ==
  /\ r.pc \in {"ins3", "ins4", "ins5", "del1", "del2", "del3", "del4"} => r.w # Nulo
  /\ r.pc \in {"switch", "args"} => r.i = 0
  /\ r.pc = "cmp" => r.i < IntMax

\* Every variable in its type; whatever is in flight, or in the transport,
\* is, or is for, a call that its client has made; a thread runs only after a
\* call has come; and i never leaves the range of nwords.
TypeOK ==
  /\ gastos \in 0 .. MaxCalls
  /\ xid \in [Client -> 0 .. gastos]
  /\ espera \in [Client -> TalvezChamada]
  /\ \A c \in Client : espera[c] # SemChamada =>
                         espera[c].c = c /\ espera[c].xid = xid[c]
  /\ rede \subseteq Chamadas \cup Respostas
  /\ \A m \in rede : m.xid \in 1 .. xid[m.c]
  /\ servidor \in {"ativo", "fim"}
  /\ transp \in TalvezChamada
  /\ transp # SemChamada => transp.xid \in 1 .. xid[transp.c]
  /\ Ativas # {} => transp # SemChamada
  /\ xdr \in {"novo", "lido", "escrito", "livre"}
  /\ th \in [Thread -> Registros]
  /\ \A t \in Thread : Coerente(th[t])
  /\ dict \in [Indice -> Conteudos]
  /\ nwords \in CInt /\ fora \in BOOLEAN /\ estragado \in BOOLEAN

\* How often each word is in dict.  While a deletion is between the
\* decrement and the copy, the last word is to be found behind the others.
Movendo(k) == \E t \in Thread : th[t].pc \in {"del3", "del4"} /\ th[t].i = k
Lugar(k) == IF Movendo(k) THEN dict[nwords] ELSE dict[k]
Conteudo ==
  [w \in Palavra |-> Cardinality({k \in Indice : k < nwords /\ Lugar(k) = w})]

\* The threads in the middle of a call, and what those that have done their
\* part are going to answer.
Servindo == {t \in Thread : th[t].pc \notin {"livre", "libera"}}
Efetuado(r) == r.pc \in {"ins5", "del3", "del4", "responde"}
Resultado(r) == CASE r.pc = "ins5"             -> nwords
                  [] r.pc \in {"del3", "del4"} -> 1
                  [] OTHER                     -> r.res
Resultados == {Resultado(th[t]) : t \in {u \in Servindo : Efetuado(th[u])}}
\* One call at a time, every thread does what Dicionario asks for: the call
\* that has been received has its effect, with its word, in one of the steps
\* of its thread, once, and the result is the one that goes with it.
Abstrato == INSTANCE Dicionario WITH
  Capacidade <- DICTSIZ,
  conteudo   <- IF fora THEN [w \in Palavra |-> 0] ELSE Conteudo,
  quantas    <- IF fora THEN 0 ELSE nwords,
  chamada    <- IF fora \/ Servindo = {} THEN SemServico ELSE Servico(transp),
  resultado  <- IF fora THEN {} ELSE Resultados

ImplementsDicionario == Abstrato!Spec

\* ... and the answer about to be sent is the one that the content gives at
\* that moment, where nobody has changed it since.
SerialAnswers ==
  \A t \in Thread :
    ~fora /\ th[t].pc = "responde" =>
      CASE th[t].proc = "INITW"   -> th[t].res = 1 /\ nwords = 0
        [] th[t].proc = "INSERTW" -> th[t].res = nwords /\ Conteudo[th[t].w] > 0
        [] th[t].proc = "LOOKUPW" -> (th[t].res = 1) <=> (Conteudo[th[t].w] > 0)
        [] th[t].proc = "DELETEW" -> th[t].res = 0 => Conteudo[th[t].w] = 0

\* The answers that c accepts, by their number.
Aceitas(c) ==
  {m \in rede : /\ espera[c].tipo = "chamada"
                /\ m.tipo = "resposta" /\ m.c = c /\ m.xid = xid[c]}

\* As long as no two calls have been served at a time, an answer that a
\* client accepts comes from a thread that has run the procedure of its call
\* with the word of its call, however often that was sent again, and whatever
\* came late.
AnswerIsOwn ==
  \A c \in Client : \A m \in Aceitas(c) : ~fora => m.fez = Servico(espera[c])

\* What "thread-safe code" that returns results to clients (thread-RPC.c,
\* lines 102 and 103) would have to ensure: a result that a client accepts is
\* that of its own call, calls that overlap included.
ResultsAreOwn ==
  \A c \in Client : \A m \in Aceitas(c) :
    m.fez # SemServico => m.fez = Servico(espera[c])

\* Nothing but the callers can crash the server: it only does so after two
\* calls at a time, or a word too many.
CrashCause == servidor = "fim" => fora

\* However the threads' accesses to nwords are interleaved, each call adds
\* one to it at most: updates are lost, but none is made up.  So insertw
\* leaves dict at its upper end only when more than DICTSIZ calls have been
\* sent; and until a copy has gone wrong, nwords is not above their number.
PlacesAreEarned ==
  ~estragado => /\ nwords <= gastos
                /\ \A t \in Thread : th[t].pc = "ins2" => th[t].n < gastos

\* Every thread comes to its end: whatever the other threads do to nwords
\* under it, and whatever a copy outside dict has made of it, it can always
\* go on, and its own steps bring it down.  Depois is the number of its steps
\* behind the scan, which makes two for each i at most, and nwords is an int.
Depois == [livre |-> 0, libera |-> 1, responde |-> 2, init |-> 3,
           ins5 |-> 3, ins4 |-> 4, ins3 |-> 5, ins2 |-> 6, ins1 |-> 7,
           del4 |-> 3, del3 |-> 4, del2 |-> 5, del1 |-> 6, cmp |-> 7, laco |-> 8,
           args |-> 9, switch |-> 10]
Resta(r) ==
  Depois[r.pc] + IF r.pc \in {"laco", "cmp", "args", "switch"} THEN 2 * (IntMax - r.i) ELSE 0

StepsDescend ==
  [][\A t \in Ativas : th'[t] # th[t] =>
       0 <= Resta(th'[t]) /\ Resta(th'[t]) < Resta(th[t])]_vars

ThreadsEnd ==
  /\ [](servidor = "ativo" => \A t \in Ativas : ENABLED ThreadNext(t))
  /\ StepsDescend
=============================================================================
