--------------------------- MODULE RpcDictProofs ----------------------------
(***************************************************************************)
(* Theorems about RpcDict, for any clients, words, threads, size of the    *)
(* dictionary and number of calls.                                         *)
(*                                                                         *)
(* Until two calls have been served at a time (fora), one thread runs at   *)
(* most, and what holds between two of its steps can be said for each      *)
(* place of its program: the assertions of Assercao, as in a proof of a    *)
(* sequential program.                                                     *)
(***************************************************************************)
EXTENDS RpcDict, FiniteSetTheorems, TLAPS
-----------------------------------------------------------------------------
(***************************************************************************)
(* The inductive invariants.                                               *)
(***************************************************************************)
\* The steps of insertw, of the scan, and of the deletion behind it.
Insercao == {"ins1", "ins2", "ins3", "ins4", "ins5"}
Busca == {"laco", "cmp"}
Remocao == {"del1", "del2", "del3", "del4"}

\* The places before the end of the scan, and before the new nwords of insertw
\* and of deletew.
Procura == {"switch", "args", "laco", "cmp"}
AntesDeMudar == {"switch", "args", "ins1", "ins2", "ins3", "ins4", "laco", "cmp",
                 "del1", "del2"}

\* w is one of the words of the dictionary.
Presente(w) == \E k \in Indice : k < nwords /\ dict[k] = w

\* A thread that serves a call on its own has that call's arguments, and ...
Argumentado(r) ==
  /\ r.pc \in {"switch", "args"} => xdr = "novo" /\ r.w = Nulo /\ r.i = 0 /\ r.res = 0
  /\ r.pc = "args" => r.proc = transp.proc
  /\ r.pc \in Insercao \cup Busca \cup Remocao \cup {"init", "responde"} =>
       r.proc = transp.proc /\ r.w = transp.w
  /\ r.pc = "init" => r.proc = "INITW"
  /\ r.pc \in Insercao => r.proc = "INSERTW"
  /\ r.pc \in Busca => r.proc \in {"LOOKUPW", "DELETEW"}
  /\ r.pc \in Remocao => r.proc = "DELETEW"

\* ... finds the dictionary as it has left it.
Assercao(r) ==
  /\ r.pc \in {"ins2", "ins4", "del2", "del4"} => r.n = nwords
  /\ r.pc \in {"ins3", "ins4"} => nwords \in Indice /\ dict[nwords] = r.w
  /\ r.pc = "ins5" => nwords - 1 \in Indice /\ dict[nwords - 1] = r.w
  /\ r.pc \in Busca => /\ r.res = 0 /\ r.i \in 0 .. nwords
                       /\ \A k \in Indice : k < r.i => dict[k] # r.w
  /\ r.pc = "cmp" => r.i < nwords
  /\ r.pc \in {"del1", "del2"} => r.i \in Indice /\ r.i < nwords /\ dict[r.i] = r.w
  /\ r.pc \in {"del3", "del4"} => nwords \in Indice /\ r.i \in 0 .. nwords
  /\ r.pc = "responde" =>
       /\ r.proc = "INITW" => r.res = 1 /\ nwords = 0
       /\ r.proc = "INSERTW" => r.res = nwords /\ Presente(r.w)
       /\ r.proc = "LOOKUPW" => (r.res = 1 <=> Presente(r.w))
       /\ r.proc = "DELETEW" => (r.res = 0 => ~Presente(r.w))

Serial ==
  ~fora => /\ servidor = "ativo"
           /\ nwords \in 0 .. DICTSIZ
           /\ \A t, u \in Ativas : t = u
           /\ \A t \in Thread : Argumentado(th[t]) /\ Assercao(th[t])

\* A call that its client waits for has no other one with its number, and an
\* answer with its number comes from its own service.
Propria(a) ==
  /\ a \in Chamadas
  /\ a.xid <= xid[a.c]
  /\ espera[a.c] # SemChamada /\ a.xid = xid[a.c] => a = espera[a.c]

Atendida(m) ==
  /\ m.xid <= xid[m.c]
  /\ espera[m.c] # SemChamada /\ m.xid = xid[m.c] => m.fez = Servico(espera[m.c])

Proprias ==
  /\ \A m \in rede : m.tipo = "chamada" => Propria(m)
  /\ transp # SemChamada => Propria(transp)
  /\ ~fora => \A m \in rede : m.tipo = "resposta" => Atendida(m)

\* What may still change nwords by one: the calls on their way, and the
\* threads that have not written it yet.
PorServir == {m \in rede : m.tipo = "chamada"}
PorMudar == {t \in Thread : th[t].pc \in AntesDeMudar}
PorVir == Cardinality(PorServir) + Cardinality(PorMudar)

\* Until a copy has been made outside dict, no nwords, and no copy of it in a
\* thread, is further from 0 than the calls that have changed it by one.
Mudancas == gastos - PorVir
Alcance == -Mudancas .. Mudancas
Contado ==
  /\ IsFiniteSet(PorServir) /\ IsFiniteSet(PorMudar)
  /\ PorVir <= gastos
  /\ ~estragado => nwords \in Alcance /\ \A t \in Thread : th[t].n \in Alcance
-----------------------------------------------------------------------------
(***************************************************************************)
(* Data.                                                                   *)
(***************************************************************************)
\* What is in a call, ...
LEMMA ChamadaDef ==
  /\ \A a \in Chamadas : /\ a.tipo = "chamada" /\ a # SemChamada
                         /\ a.c \in Client /\ a.xid \in Nat \ {0}
                         /\ a.proc \in {"INITW", "INSERTW", "DELETEW", "LOOKUPW"}
                         /\ a.w \in Palavra \cup {Nulo}
                         /\ a.proc # "INITW" => a.w \in Palavra
                         /\ a.proc = "INITW" => a.w = Nulo
  /\ SemChamada.tipo # "chamada"
  BY DEF Chamadas, SemChamada

\* ... what is in an answer, ...
LEMMA RespostaDef ==
  \A m \in Respostas : /\ m.tipo = "resposta"
                       /\ m.c \in Client /\ m.xid \in Nat
                       /\ m.fez \in [proc : Procs, w : Conteudos \cup {Nulo}]
  BY DEF Respostas

\* The C ints, up to the wrap-around.
LEMMA InteiroDef ==
  /\ CInt \subseteq Int /\ 0 .. IntMax \subseteq CInt
  /\ 0 \in CInt /\ 1 \in CInt /\ 0 \in 0 .. IntMax
  /\ \A x \in CInt : Sucessor(x) \in CInt /\ Antecessor(x) \in CInt
  /\ \A x \in CInt : x < IntMax => Sucessor(x) = x + 1
  /\ \A x \in CInt : 0 <= x + IntMax => Antecessor(x) = x - 1
<1>1. IntMax \in Nat /\ IntMax >= 1
  BY IntAssumption, DictAssumption
<1>2. CInt \subseteq Int /\ 0 .. IntMax \subseteq CInt
  BY <1>1 DEF CInt
<1>3. 0 \in CInt /\ 1 \in CInt /\ 0 \in 0 .. IntMax
  BY <1>1 DEF CInt
<1>4. \A x \in CInt : Sucessor(x) \in CInt /\ (x < IntMax => Sucessor(x) = x + 1)
  BY <1>1 DEF CInt, Sucessor
<1>5. \A x \in CInt : Antecessor(x) \in CInt
                     /\ (0 <= x + IntMax => Antecessor(x) = x - 1)
  BY <1>1 DEF CInt, Antecessor
<1> QED
  BY <1>2, <1>3, <1>4, <1>5

\* ... and what is in the state of a thread.
LEMMA RegistroDef ==
  /\ Parada \in Registros
  /\ \A r \in Registros : /\ r.w \in Conteudos \cup {Nulo} /\ r.proc \in Procs
                          /\ r.i \in 0 .. IntMax /\ r.n \in CInt /\ r.res \in CInt
                          /\ r.i \in Int /\ r.n \in Int /\ r.res \in Int
<1>1. Nulo \in Conteudos \cup {Nulo} /\ "NULLPROC" \in Procs
  BY DEF Procs
<1>2. Parada \in Registros
  BY <1>1, InteiroDef DEF Registros, Parada
<1>3. \A r \in Registros : /\ r.w \in Conteudos \cup {Nulo} /\ r.proc \in Procs
                          /\ r.i \in 0 .. IntMax /\ r.n \in CInt /\ r.res \in CInt
  BY DEF Registros
<1> QED
  BY <1>2, <1>3, InteiroDef

\* A word is not a null pointer, nor what a place of dict holds at first.
LEMMA PalavraDef == \A w \in Palavra : w # Nulo /\ w # "" /\ w # "erro"
  BY WordAssumption

\* What goes into the network is a call or an answer.
LEMMA ChamadaType ==
  /\ \A c \in Client, n \in Nat \ {0} : Chamada(c, n, "INITW", Nulo) \in Chamadas
  /\ \A c \in Client, n \in Nat \ {0}, p \in {"INSERTW", "DELETEW", "LOOKUPW"},
       w \in Palavra : Chamada(c, n, p, w) \in Chamadas
  /\ \A m \in Chamadas : /\ Resposta(m, SemServico) \in Respostas
                        /\ \A r \in Registros : Resposta(m, Servico(r)) \in Respostas
<1>1. \A c \in Client, n \in Nat \ {0} : Chamada(c, n, "INITW", Nulo) \in Chamadas
  BY DEF Chamada, Chamadas
<1>2. \A c \in Client, n \in Nat \ {0}, p \in {"INSERTW", "DELETEW", "LOOKUPW"},
       w \in Palavra : Chamada(c, n, p, w) \in Chamadas
  BY DEF Chamada, Chamadas
<1>3. \A m \in Chamadas, f \in [proc : Procs, w : Conteudos \cup {Nulo}] :
        Resposta(m, f) \in Respostas
  BY ChamadaDef DEF Resposta, Respostas
<1>4. SemServico \in [proc : Procs, w : Conteudos \cup {Nulo}]
  BY DEF SemServico, Procs
<1>5. \A r \in Registros : Servico(r) \in [proc : Procs, w : Conteudos \cup {Nulo}]
  BY RegistroDef DEF Servico
<1> QED
  BY <1>1, <1>2, <1>3, <1>4, <1>5
-----------------------------------------------------------------------------
(***************************************************************************)
(* Type correctness: the clients and the network, the threads and the      *)
(* dictionary.                                                             *)
(***************************************************************************)
TypeRede ==
  /\ gastos \in 0 .. MaxCalls
  /\ xid \in [Client -> 0 .. gastos]
  /\ espera \in [Client -> TalvezChamada]
  /\ \A c \in Client : espera[c] # SemChamada =>
                         espera[c].c = c /\ espera[c].xid = xid[c]
  /\ rede \subseteq Chamadas \cup Respostas
  /\ \A m \in rede : m.xid \in 1 .. xid[m.c]
  /\ transp \in TalvezChamada
  /\ transp # SemChamada => transp.xid \in 1 .. xid[transp.c]

TypeTh ==
  /\ servidor \in {"ativo", "fim"}
  /\ Ativas # {} => transp # SemChamada
  /\ xdr \in {"novo", "lido", "escrito", "livre"}
  /\ th \in [Thread -> Registros]
  /\ \A t \in Thread : Coerente(th[t])
  /\ dict \in [Indice -> Conteudos]
  /\ nwords \in CInt /\ fora \in BOOLEAN /\ estragado \in BOOLEAN

LEMMA TypeDef == TypeOK <=> TypeRede /\ TypeTh
  BY DEF TypeOK, TypeRede, TypeTh

\* A call or an answer to a call that has been made goes into the network.
LEMMA EnvioType ==
  ASSUME TypeRede, NEW m \in Chamadas \cup Respostas, m.xid \in 1 .. xid[m.c],
         rede' = rede \cup {m}, gastos' = gastos, xid' = xid,
         espera' = espera, transp' = transp
  PROVE  TypeRede'
  BY DEF TypeRede

\* The step of a thread: what it becomes is a thread, and a coherent one.
LEMMA MudaType ==
  ASSUME TypeTh, NEW t \in Thread, NEW r \in Registros, Muda(t, r), Coerente(r)
  PROVE  /\ th' \in [Thread -> Registros]
         /\ \A u \in Thread : Coerente(th'[u])
         /\ Ativas' \subseteq Ativas \cup {t}
  BY DEF TypeTh, Muda, Ativas

LEMMA InitType == Init => TypeOK
<1> SUFFICES ASSUME Init PROVE TypeOK
  OBVIOUS
<1>1. Parada \in Registros /\ Parada.pc = "livre" /\ Coerente(Parada)
  BY RegistroDef DEF Parada, Coerente
<1>2. TypeRede
  <2>1. /\ gastos = 0 /\ xid = [c \in Client |-> 0]
        /\ espera = [c \in Client |-> SemChamada]
        /\ rede = {} /\ transp = SemChamada
    BY DEF Init, ClientInit, ServerInit
  <2>2. SemChamada \in TalvezChamada /\ 0 \in 0 .. MaxCalls /\ 0 \in 0 .. 0
    BY BoundAssumption DEF TalvezChamada
  <2> QED
    BY <2>1, <2>2 DEF TypeRede
<1>3. TypeTh
  <2>1. /\ servidor = "ativo" /\ xdr = "livre" /\ th = [t \in Thread |-> Parada]
        /\ dict = [k \in Indice |-> ""] /\ nwords = 0
    BY DEF Init, ServerInit
  <2>2. Ativas = {}
    BY <1>1, <2>1 DEF Ativas
  <2>3. dict \in [Indice -> Conteudos]
    BY <2>1 DEF Conteudos
  <2>4. th \in [Thread -> Registros] /\ \A t \in Thread : Coerente(th[t])
    BY <1>1, <2>1
  <2>5. nwords \in CInt
    BY <2>1, InteiroDef
  <2>6. fora \in BOOLEAN /\ estragado \in BOOLEAN
    <3>1. fora = FALSE /\ estragado = FALSE
      BY DEF Init
    <3> QED
      BY <3>1, Zenon
  <2> QED
    BY <2>1, <2>2, <2>3, <2>4, <2>5, <2>6 DEF TypeTh
<1> QED
  BY <1>2, <1>3, TypeDef

\* What svc_getargs yields is a word, what dict holds without one, or null.
LEMMA ArgumentosType ==
  ASSUME transp \in Chamadas
  PROVE  Argumentos \ {"erro"} \subseteq Conteudos \cup {Nulo}
<1>1. transp.w \in Palavra \cup {Nulo}
  BY ChamadaDef
<1>2. Argumentos \in {{Nulo}, {"erro"}, {transp.w}, Conteudos \cup {"erro"}}
  BY DEF Argumentos
<1> QED
  BY <1>1, <1>2 DEF Conteudos

\* A step that changes neither what the clients wait for nor the network.
LEMMA TypeRedeIgual ==
  ASSUME TypeRede, UNCHANGED clientVars, rede' = rede, transp' = transp
  PROVE  TypeRede'
  BY DEF TypeRede, clientVars

\* A step of a thread on the dictionary leaves the rest of the types alone.
LEMMA TypeThMuda ==
  ASSUME TypeTh, NEW t \in Ativas, NEW r \in Registros, Muda(t, r), Coerente(r),
         servidor' = servidor, transp' = transp,
         xdr' \in {"novo", "lido", "escrito", "livre"},
         dict' \in [Indice -> Conteudos], nwords' \in CInt,
         fora' \in BOOLEAN, estragado' \in BOOLEAN
  PROVE  TypeTh'
<1>1. t \in Thread /\ Ativas # {}
  BY DEF Ativas
<1>2. th' \in [Thread -> Registros] /\ \A u \in Thread : Coerente(th'[u])
  BY <1>1, MudaType
<1>3. servidor' \in {"ativo", "fim"} /\ transp' # SemChamada
  BY <1>1 DEF TypeTh
<1> QED
  BY <1>2, <1>3 DEF TypeTh

\* When the process ends no thread is left.
LEMMA CaiType ==
  ASSUME TypeTh, Cai, xdr' = xdr, dict' = dict, nwords' = nwords,
         fora' \in BOOLEAN, estragado' \in BOOLEAN
  PROVE  TypeTh'
<1>1. servidor' = "fim" /\ th' = [t \in Thread |-> Parada]
  BY DEF Cai
<1>2. /\ th' \in [Thread -> Registros]
      /\ \A t \in Thread : th'[t].pc = "livre" /\ Coerente(th'[t])
  <2>1. Parada \in Registros /\ Parada.pc = "livre" /\ Coerente(Parada)
    BY RegistroDef DEF Parada, Coerente
  <2> QED
    BY <1>1, <2>1
<1>3. Ativas' = {}
  BY <1>2 DEF Ativas
<1> QED
  BY <1>1, <1>2, <1>3 DEF TypeTh

\* strcpy keeps the types, inside dict and outside.
LEMMA CopiaType ==
  ASSUME TypeTh, NEW t \in Ativas, NEW k, NEW w \in Conteudos \cup {Nulo},
         NEW r \in Registros, Copia(t, k, w, r), w # Nulo => Coerente(r),
         transp' = transp, xdr' = xdr, fora' \in BOOLEAN, estragado' \in BOOLEAN
  PROVE  TypeTh'
<1>1. CASE k \in Indice /\ w # Nulo /\ Muda(t, r) /\ dict' = [dict EXCEPT ![k] = w]
           /\ UNCHANGED <<servidor, nwords>>
  <2>1. dict' \in [Indice -> Conteudos]
    BY <1>1 DEF TypeTh
  <2> QED
    BY <1>1, <2>1, TypeThMuda DEF TypeTh
<1>2. CASE k \notin Indice /\ w # Nulo /\ Muda(t, r)
           /\ nwords' \in CInt /\ UNCHANGED <<servidor, dict>>
  BY <1>2, TypeThMuda DEF TypeTh
<1>3. CASE Cai /\ UNCHANGED <<dict, nwords>>
  BY <1>3, CaiType
<1> QED
  BY <1>1, <1>2, <1>3 DEF Copia

LEMMA CopiaDeForaType ==
  ASSUME TypeTh, NEW t \in Ativas, NEW k, NEW r \in Registros,
         CopiaDeFora(t, k, r), Coerente(r),
         transp' = transp, xdr' = xdr, fora' \in BOOLEAN, estragado' \in BOOLEAN
  PROVE  TypeTh'
<1>1. CASE /\ dict' \in [Indice -> Conteudos] /\ nwords' \in CInt
           /\ Muda(t, r) /\ UNCHANGED servidor
  BY <1>1, TypeThMuda DEF TypeTh
<1>2. CASE Cai /\ UNCHANGED <<dict, nwords>>
  BY <1>2, CaiType
<1> QED
  BY <1>1, <1>2 DEF CopiaDeFora

\* Fields of a thread that are set to a place of the program and to numbers.
LEMMA RegistroMuda ==
  ASSUME NEW r \in Registros,
         NEW l \in {"args", "init", "ins1", "ins2", "ins3", "ins4", "ins5", "laco",
                   "cmp", "del1", "del2", "del3", "del4", "responde", "libera"}
  PROVE  /\ [r EXCEPT !.pc = l] \in Registros
         /\ \A n \in CInt : /\ [r EXCEPT !.pc = l, !.n = n] \in Registros
                            /\ [r EXCEPT !.pc = l, !.res = n] \in Registros
         /\ \A n \in 0 .. IntMax : [r EXCEPT !.pc = l, !.i = n] \in Registros
         /\ [r EXCEPT !.pc = l, !.n = 0] \in Registros
         /\ [r EXCEPT !.pc = l, !.i = 0] \in Registros
         /\ [r EXCEPT !.pc = l, !.res = 1] \in Registros
         /\ [r EXCEPT !.pc = l, !.i = 0, !.res = 1] \in Registros
         /\ [r EXCEPT !.pc = l, !.i = 0, !.n = 0, !.res = 1] \in Registros
<1>1. [r EXCEPT !.pc = l] \in Registros
  BY DEF Registros
<1>2. \A n \in 0 .. IntMax, x, y \in CInt :
        /\ [r EXCEPT !.pc = l, !.n = x] \in Registros
        /\ [r EXCEPT !.pc = l, !.i = n] \in Registros
        /\ [r EXCEPT !.pc = l, !.res = y] \in Registros
        /\ [r EXCEPT !.pc = l, !.i = n, !.res = y] \in Registros
        /\ [r EXCEPT !.pc = l, !.i = n, !.n = x, !.res = y] \in Registros
  <2> TAKE n \in 0 .. IntMax, x, y \in CInt
  <2>1. [r EXCEPT !.pc = l, !.n = x] \in Registros
    BY DEF Registros
  <2>2. [r EXCEPT !.pc = l, !.i = n] \in Registros
    BY DEF Registros
  <2>3. [r EXCEPT !.pc = l, !.res = y] \in Registros
    BY DEF Registros
  <2>4. [r EXCEPT !.pc = l, !.i = n, !.res = y] \in Registros
    BY DEF Registros
  <2>5. [r EXCEPT !.pc = l, !.i = n, !.n = x, !.res = y] \in Registros
    BY DEF Registros
  <2> QED
    BY <2>1, <2>2, <2>3, <2>4, <2>5
<1> QED
  BY <1>1, <1>2, InteiroDef, Zenon

\* A thread that has just been started, or has nothing left but to return.
LEMMA ParadaMuda ==
  \A l \in {"switch", "libera"} :
    /\ [Parada EXCEPT !.pc = l] \in Registros
    /\ [Parada EXCEPT !.pc = l].pc = l
    /\ [Parada EXCEPT !.pc = l].w = Nulo
    /\ [Parada EXCEPT !.pc = l].i = 0
    /\ [Parada EXCEPT !.pc = l].n = 0
    /\ [Parada EXCEPT !.pc = l].res = 0
<1> SUFFICES ASSUME NEW l \in {"switch", "libera"}
             PROVE  /\ [Parada EXCEPT !.pc = l] \in Registros
                    /\ [Parada EXCEPT !.pc = l].pc = l
                    /\ [Parada EXCEPT !.pc = l].w = Nulo
                    /\ [Parada EXCEPT !.pc = l].i = 0
                    /\ [Parada EXCEPT !.pc = l].n = 0
                    /\ [Parada EXCEPT !.pc = l].res = 0
  OBVIOUS
<1>1. [Parada EXCEPT !.pc = l] =
        [pc |-> l, proc |-> "NULLPROC", w |-> Nulo, i |-> 0, n |-> 0, res |-> 0]
  BY DEF Parada
<1>2. Nulo \in Conteudos \cup {Nulo} /\ "NULLPROC" \in Procs
  BY DEF Procs
<1> QED
  BY <1>1, <1>2, InteiroDef DEF Registros

\* The calls of the clients.
LEMMA CallType ==
  ASSUME TypeOK, NEW c \in Client, CallAny(c) PROVE TypeOK'
<1>1. TypeRede /\ TypeTh
  BY TypeDef
<1>2. /\ espera[c] = SemChamada /\ gastos < MaxCalls /\ gastos' = gastos + 1
      /\ xid' = [xid EXCEPT ![c] = xid[c] + 1]
      /\ UNCHANGED <<servidor, transpVars, th, dictVars>>
  BY DEF CallAny, Call, MaisUma
<1>3. PICK m \in Chamadas :
        /\ m.c = c /\ m.xid = xid[c] + 1
        /\ espera' = [espera EXCEPT ![c] = m] /\ rede' = rede \cup {m}
  <2>1. /\ c \in DOMAIN espera /\ xid[c] + 1 \in Nat \ {0}
        /\ espera \in [Client -> TalvezChamada]
    BY <1>1, BoundAssumption DEF TypeRede
  <2>2. PICK p \in {"INITW", "INSERTW", "DELETEW", "LOOKUPW"}, w \in Palavra \cup {Nulo} :
          Call(c, p, w) /\ Chamada(c, xid[c] + 1, p, w) \in Chamadas
    BY <2>1, ChamadaType DEF CallAny
  <2>3. espera'[c] = Chamada(c, xid[c] + 1, p, w)
    BY <2>1, <2>2 DEF Call
  <2>4. /\ Chamada(c, xid[c] + 1, p, w).c = c
        /\ Chamada(c, xid[c] + 1, p, w).xid = xid[c] + 1
    BY DEF Chamada
  <2> QED
    BY <2>2, <2>3, <2>4 DEF Call
<1>4. /\ gastos \in 0 .. MaxCalls /\ xid[c] \in 0 .. gastos
      /\ gastos' \in 0 .. MaxCalls /\ xid[c] + 1 \in 0 .. gastos'
      /\ \A d \in Client : xid[d] \in 0 .. gastos'
  BY <1>1, <1>2, BoundAssumption DEF TypeRede
<1>5. xid' \in [Client -> 0 .. gastos'] /\ \A d \in Client : xid[d] <= xid'[d]
      /\ xid'[c] = xid[c] + 1
  BY <1>1, <1>2, <1>4 DEF TypeRede
<1>6. espera' \in [Client -> TalvezChamada]
      /\ \A d \in Client : espera'[d] # SemChamada =>
                             espera'[d].c = d /\ espera'[d].xid = xid'[d]
  BY <1>1, <1>2, <1>3, <1>5 DEF TypeRede, TalvezChamada
<1>7. rede' \subseteq Chamadas \cup Respostas
      /\ \A n \in rede' : n.xid \in 1 .. xid'[n.c]
  <2>1. ASSUME NEW n \in rede PROVE n.xid \in 1 .. xid'[n.c]
    <3>1. n.c \in Client
      BY <1>1, ChamadaDef, RespostaDef DEF TypeRede
    <3>2. /\ n.xid \in 1 .. xid[n.c] /\ xid[n.c] \in Nat /\ xid'[n.c] \in Nat
          /\ xid[n.c] <= xid'[n.c]
      BY <1>1, <1>4, <1>5, <3>1 DEF TypeRede
    <3> QED
      BY <3>2
  <2> QED
    BY <1>1, <1>3, <1>4, <1>5, <2>1 DEF TypeRede
<1>8. transp # SemChamada => transp.xid \in 1 .. xid'[transp.c]
  <2> SUFFICES ASSUME transp # SemChamada PROVE transp.xid \in 1 .. xid'[transp.c]
    OBVIOUS
  <2>1. transp.c \in Client
    BY <1>1, ChamadaDef DEF TypeRede, TalvezChamada
  <2>2. /\ transp.xid \in 1 .. xid[transp.c] /\ xid[transp.c] \in Nat
        /\ xid'[transp.c] \in Nat /\ xid[transp.c] <= xid'[transp.c]
    BY <1>1, <1>4, <1>5, <2>1 DEF TypeRede
  <2> QED
    BY <2>2
<1>9. TypeRede'
  BY <1>1, <1>2, <1>4, <1>5, <1>6, <1>7, <1>8 DEF TypeRede, transpVars
<1>10. TypeTh'
  BY <1>1, <1>2 DEF TypeTh, Ativas, transpVars, dictVars
<1> QED
  BY <1>9, <1>10 DEF TypeOK, TypeRede, TypeTh

\* The rest of the clients' steps.
LEMMA ClienteType ==
  ASSUME TypeOK, NEW c \in Client,
         Resend(c) \/ (\E m \in rede : Return(c, m)) \/ GiveUp(c)
  PROVE  TypeOK'
<1>1. TypeRede /\ TypeTh
  BY TypeDef
<1>2. /\ xid' = xid /\ gastos' \in {gastos} \cup {gastos + 1}
      /\ gastos' = gastos \/ gastos < MaxCalls
      /\ espera' \in {espera, [espera EXCEPT ![c] = SemChamada]}
      /\ rede' \subseteq rede \cup {espera[c]} /\ espera[c].tipo = "chamada"
      /\ UNCHANGED <<servidor, transpVars, th, dictVars>>
  BY DEF Resend, Return, GiveUp, MaisUma
<1>3. espera[c] # SemChamada
  BY <1>2 DEF SemChamada
<1>4. espera[c] \in Chamadas /\ espera[c].xid \in 1 .. xid[espera[c].c]
  <2>1. /\ espera[c] \in Chamadas /\ espera[c].c = c /\ espera[c].xid = xid[c]
    BY <1>1, <1>3 DEF TypeRede, TalvezChamada
  <2>2. espera[c].xid \in Nat \ {0}
    BY <2>1, ChamadaDef
  <2> QED
    BY <2>1, <2>2
<1>5. gastos' \in 0 .. MaxCalls /\ xid' \in [Client -> 0 .. gastos']
  BY <1>1, <1>2, BoundAssumption DEF TypeRede
<1>6. TypeRede'
  BY <1>1, <1>2, <1>4, <1>5 DEF TypeRede, TalvezChamada, transpVars
<1>7. TypeTh'
  BY <1>1, <1>2 DEF TypeTh, Ativas, transpVars, dictVars
<1> QED
  BY <1>6, <1>7 DEF TypeOK, TypeRede, TypeTh

\* The main thread: a call comes, and a thread is started for it.
LEMMA ReceiveType ==
  ASSUME TypeOK, NEW m \in rede, Receive(m) PROVE TypeOK'
<1>1. TypeRede /\ TypeTh
  BY TypeDef
<1>2. /\ m.tipo = "chamada" /\ rede' = rede \ {m} /\ transp' = m /\ xdr' = "novo"
      /\ UNCHANGED <<clientVars, servidor, dict, nwords, estragado>>
  BY DEF Receive
<1>3. m \in Chamadas /\ m.xid \in 1 .. xid[m.c] /\ m # SemChamada
  BY <1>1, <1>2, RespostaDef, ChamadaDef DEF TypeRede
<1>4. TypeRede'
  BY <1>1, <1>2, <1>3 DEF TypeRede, TalvezChamada, clientVars
<1>5. th' \in [Thread -> Registros] /\ \A u \in Thread : Coerente(th'[u])
  <2>1. CASE Ativas # Thread
    <3> DEFINE t == CHOOSE u \in Thread \ Ativas : TRUE
               r == [Parada EXCEPT !.pc = "switch"]
    <3>1. t \in Thread
      BY <2>1 DEF Ativas
    <3>2. r \in Registros /\ r.pc = "switch" /\ r.i = 0
      BY ParadaMuda
    <3>3. Muda(t, r)
      BY <2>1 DEF Receive
    <3>4. Coerente(r)
      BY <3>2 DEF Coerente
    <3> HIDE DEF t, r
    <3> QED
      BY <1>1, <3>1, <3>2, <3>3, <3>4, MudaType
  <2>2. CASE Ativas = Thread
    BY <1>1, <2>2 DEF Receive, TypeTh
  <2> QED
    BY <2>1, <2>2
<1>6. fora' \in BOOLEAN
  <2>1. fora' = (fora \/ Ativas # {})
    BY DEF Receive
  <2> QED
    BY <2>1, Zenon
<1>7. TypeTh'
  BY <1>1, <1>2, <1>3, <1>5, <1>6 DEF TypeTh
<1> QED
  BY <1>4, <1>7 DEF TypeOK, TypeRede, TypeTh

\* serv_request: what comes before and after the procedure.
LEMMA ServType ==
  ASSUME TypeOK, NEW t \in Thread,
         Switch(t) \/ GetArgs(t) \/ SendReply(t) \/ FreeArgs(t)
  PROVE  TypeOK'
<1>1. TypeRede /\ TypeTh
  BY TypeDef
<1>2. /\ t \in Ativas /\ servidor' = servidor /\ UNCHANGED clientVars
      /\ transp' = transp /\ dict' = dict /\ nwords' = nwords /\ fora' = fora
      /\ estragado' = estragado
  BY DEF Switch, GetArgs, SendReply, FreeArgs, Em, Ativas, transpVars, dictVars
<1>3. /\ transp \in Chamadas /\ transp.xid \in 1 .. xid[transp.c]
      /\ th[t] \in Registros /\ Coerente(th[t])
      /\ dict' \in [Indice -> Conteudos] /\ nwords' \in CInt
  BY <1>1, <1>2 DEF TypeTh, TypeRede, TalvezChamada
<1>4. fora' \in BOOLEAN /\ estragado' \in BOOLEAN
  BY <1>1, <1>2 DEF TypeTh
<1>5. Parada \in Registros /\ Coerente(Parada)
  BY RegistroDef DEF Parada, Coerente
<1>6. CASE Switch(t)
  <2> DEFINE r == [th[t] EXCEPT !.pc = "args", !.proc = transp.proc]
  <2>1. r \in Registros /\ r.pc = "args" /\ r.i = th[t].i
    <3>1. transp.proc \in Procs
      BY <1>3, ChamadaDef DEF Procs
    <3> QED
      BY <1>3, <3>1 DEF Registros
  <2>2. Muda(t, r) /\ rede' = rede /\ xdr' = xdr /\ th[t].pc = "switch"
    BY <1>6 DEF Switch, transpVars, Em
  <2> HIDE DEF r
  <2>3. xdr' \in {"novo", "lido", "escrito", "livre"}
    BY <1>1, <2>2 DEF TypeTh
  <2>4. Coerente(r)
    BY <1>3, <2>1, <2>2 DEF Coerente
  <2>5. TypeTh'
    BY <1>1, <1>2, <1>3, <1>4, <2>1, <2>2, <2>3, <2>4, TypeThMuda
  <2> QED
    BY <1>1, <1>2, <2>2, <2>5, TypeRedeIgual DEF TypeOK, TypeRede, TypeTh
<1>7. CASE GetArgs(t)
  <2> DEFINE m == Resposta(transp, SemServico)
  <2>1. xdr' \in {"novo", "lido", "escrito", "livre"}
    BY <1>1, <1>7 DEF GetArgs, TypeTh
  <2>2. TypeTh' /\ rede' \in {rede, rede \cup {m}}
    <3>1. CASE Muda(t, [th[t] EXCEPT !.pc = "init"]) /\ UNCHANGED rede
      <4> DEFINE r == [th[t] EXCEPT !.pc = "init"]
      <4>1. r \in Registros
        BY <1>3, RegistroMuda
      <4>2. r.pc = "init"
        BY <1>3 DEF Registros
      <4>3. Coerente(r) /\ Muda(t, r)
        BY <3>1, <4>2 DEF Coerente
      <4> HIDE DEF r
      <4> QED
        BY <1>1, <1>2, <1>3, <1>4, <2>1, <3>1, <4>1, <4>3, TypeThMuda
    <3>2. ASSUME NEW w \in Argumentos \ {"erro"},
                 Muda(t, [th[t] EXCEPT !.pc = IF th[t].proc = "INSERTW"
                                                THEN "ins1" ELSE "laco",
                                       !.w = w]),
                 UNCHANGED rede
          PROVE  TypeTh'
      <4> DEFINE r == [th[t] EXCEPT !.pc = IF th[t].proc = "INSERTW"
                                             THEN "ins1" ELSE "laco",
                                    !.w = w]
      <4>1. w \in Conteudos \cup {Nulo}
        BY <1>3, ArgumentosType
      <4>2. r \in Registros /\ r.pc \in {"ins1", "laco"}
        BY <1>3, <4>1 DEF Registros
      <4>3. Muda(t, r)
        BY <3>2
      <4> HIDE DEF r
      <4>4. Coerente(r)
        BY <4>2 DEF Coerente
      <4> QED
        BY <1>1, <1>2, <1>3, <1>4, <2>1, <4>2, <4>3, <4>4, TypeThMuda
    <3>3. CASE Muda(t, Parada) /\ rede' = rede \cup {m}
      BY <1>1, <1>2, <1>3, <1>4, <1>5, <2>1, <3>3, TypeThMuda
    <3> QED
      BY <1>7, <3>1, <3>2, <3>3 DEF GetArgs
  <2>3. m \in Chamadas \cup Respostas /\ m.c = transp.c /\ m.xid = transp.xid
    BY <1>3, ChamadaType DEF Resposta
  <2> HIDE DEF m
  <2>4. TypeRede'
    <3>1. CASE rede' = rede
      BY <1>1, <1>2, <3>1, TypeRedeIgual
    <3>2. CASE rede' = rede \cup {m}
      BY <1>1, <1>2, <1>3, <2>3, <3>2, EnvioType DEF clientVars
    <3> QED
      BY <2>2, <3>1, <3>2
  <2> QED
    BY <2>2, <2>4 DEF TypeOK, TypeRede, TypeTh
<1>8. CASE SendReply(t)
  <2> DEFINE m == Resposta(transp, Servico(th[t]))
             r == [Parada EXCEPT !.pc = "libera"]
  <2>1. rede' = rede \cup {m} /\ xdr' = "escrito" /\ Muda(t, r)
    BY <1>8 DEF SendReply
  <2>2. r \in Registros /\ r.pc = "libera"
    BY ParadaMuda
  <2>3. m \in Chamadas \cup Respostas /\ m.c = transp.c /\ m.xid = transp.xid
    BY <1>3, ChamadaType DEF Resposta
  <2> HIDE DEF m, r
  <2>4. Coerente(r)
    BY <2>2 DEF Coerente
  <2>5. TypeTh'
    BY <1>1, <1>2, <1>3, <1>4, <2>1, <2>2, <2>4, TypeThMuda
  <2>6. TypeRede'
    BY <1>1, <1>2, <1>3, <2>1, <2>3, EnvioType DEF clientVars
  <2> QED
    BY <2>5, <2>6 DEF TypeOK, TypeRede, TypeTh
<1>9. CASE FreeArgs(t)
  <2>1. xdr' = "livre" /\ Muda(t, Parada) /\ rede' = rede
    BY <1>9 DEF FreeArgs
  <2>2. TypeTh'
    BY <1>1, <1>2, <1>3, <1>4, <1>5, <2>1, TypeThMuda
  <2> QED
    BY <1>1, <1>2, <2>1, <2>2, TypeRedeIgual DEF TypeOK, TypeRede, TypeTh
<1> QED
  BY <1>6, <1>7, <1>8, <1>9

\* The dictionary: a step that changes at most nwords and the thread, ...
LEMMA LocalType ==
  ASSUME TypeOK, NEW t \in Ativas, NEW r \in Registros, Local(t, r), Coerente(r),
         nwords' \in CInt
  PROVE  TypeOK'
<1>1. TypeRede /\ TypeTh
  BY TypeDef
<1>2. /\ Muda(t, r) /\ servidor' = servidor /\ transp' = transp /\ xdr' = xdr
      /\ dict' = dict /\ fora' = fora /\ estragado' = estragado
      /\ UNCHANGED clientVars /\ rede' = rede
  BY DEF Local, transpVars
<1>3. /\ xdr' \in {"novo", "lido", "escrito", "livre"}
      /\ dict' \in [Indice -> Conteudos]
  BY <1>1, <1>2 DEF TypeTh
<1>4. fora' \in BOOLEAN /\ estragado' \in BOOLEAN
  BY <1>1, <1>2 DEF TypeTh
<1>5. TypeTh'
  BY <1>1, <1>2, <1>3, <1>4, TypeThMuda
<1>6. TypeRede'
  BY <1>1, <1>2, TypeRedeIgual
<1> QED
  BY <1>5, <1>6 DEF TypeOK, TypeRede, TypeTh

\* ... and every step of the four procedures.
LEMMA DicionarioType ==
  ASSUME TypeOK, NEW t \in Thread,
         \/ InitW(t) \/ Ins1(t) \/ Ins2(t) \/ Ins3(t) \/ Ins4(t) \/ Ins5(t)
         \/ Laco(t) \/ Compara(t)
         \/ Del1(t) \/ Del2(t) \/ Del3(t) \/ Del4(t)
  PROVE  TypeOK'
<1>1. TypeRede /\ TypeTh
  BY TypeDef
<1>2. t \in Ativas
  BY DEF InitW, Ins1, Ins2, Ins3, Ins4, Ins5, Laco, Compara, Del1, Del2, Del3, Del4,
         Em, Ativas
<1>3. /\ th[t] \in Registros /\ Coerente(th[t])
      /\ nwords \in CInt /\ nwords \in Int
      /\ th[t].n \in CInt /\ th[t].i \in 0 .. IntMax /\ th[t].w \in Conteudos \cup {Nulo}
  BY <1>1, RegistroDef, InteiroDef DEF TypeTh
<1>4. CASE InitW(t)
  <2> DEFINE r == [th[t] EXCEPT !.pc = "responde", !.res = 1]
  <2>1. r \in Registros
    BY <1>3, RegistroMuda
  <2>2. Coerente(r)
    BY <1>3, <1>4 DEF Registros, Coerente, InitW, Em
  <2>3. Local(t, r) /\ nwords' \in CInt
    BY <1>3, <1>4, InteiroDef DEF InitW
  <2> HIDE DEF r
  <2> QED
    BY <1>2, <2>1, <2>2, <2>3, LocalType
<1>5. CASE Ins1(t)
  <2> DEFINE r == [th[t] EXCEPT !.pc = "ins2", !.n = nwords]
  <2>1. r \in Registros
    BY <1>3, RegistroMuda
  <2>2. Coerente(r)
    BY <1>3, <1>5 DEF Registros, Coerente, Ins1, Em
  <2>3. Local(t, r) /\ nwords' \in CInt
    BY <1>3, <1>5 DEF Ins1
  <2> HIDE DEF r
  <2> QED
    BY <1>2, <2>1, <2>2, <2>3, LocalType
<1>6. CASE Ins2(t)
  <2> DEFINE r == [th[t] EXCEPT !.pc = "ins3"]
  <2>1. r \in Registros
    BY <1>3, RegistroMuda
  <2>2. th[t].w # Nulo => Coerente(r)
    BY <1>3 DEF Registros, Coerente
  <2>3. /\ Copia(t, th[t].n, th[t].w, r) /\ UNCHANGED clientVars /\ rede' = rede
        /\ transp' = transp /\ xdr' = xdr
    BY <1>6 DEF Ins2, transpVars
  <2>4. fora' \in BOOLEAN /\ estragado' \in BOOLEAN
    <3>1. /\ fora' = (fora \/ th[t].n \notin Indice)
          /\ estragado' = (estragado \/ th[t].n \notin Indice)
      BY <1>6 DEF Ins2
    <3> QED
      BY <3>1, Zenon
  <2> HIDE DEF r
  <2>5. TypeTh'
    BY <1>1, <1>2, <1>3, <2>1, <2>2, <2>3, <2>4, CopiaType
  <2>6. TypeRede'
    BY <1>1, <2>3, TypeRedeIgual
  <2> QED
    BY <2>5, <2>6 DEF TypeOK, TypeRede, TypeTh
<1>7. CASE Ins3(t)
  <2> DEFINE r == [th[t] EXCEPT !.pc = "ins4", !.n = nwords]
  <2>1. r \in Registros
    BY <1>3, RegistroMuda
  <2>2. Coerente(r)
    BY <1>3, <1>7 DEF Registros, Coerente, Ins3, Em
  <2>3. Local(t, r) /\ nwords' \in CInt
    BY <1>3, <1>7 DEF Ins3
  <2> HIDE DEF r
  <2> QED
    BY <1>2, <2>1, <2>2, <2>3, LocalType
<1>8. CASE Ins4(t)
  <2> DEFINE r == [th[t] EXCEPT !.pc = "ins5", !.n = 0]
  <2>1. r \in Registros
    BY <1>3, RegistroMuda
  <2>2. Coerente(r)
    BY <1>3, <1>8 DEF Registros, Coerente, Ins4, Em
  <2>3. Local(t, r) /\ nwords' \in CInt
    BY <1>3, <1>8, InteiroDef DEF Ins4
  <2> HIDE DEF r
  <2> QED
    BY <1>2, <2>1, <2>2, <2>3, LocalType
<1>9. CASE Ins5(t)
  <2> DEFINE r == [th[t] EXCEPT !.pc = "responde", !.res = nwords]
  <2>1. r \in Registros
    BY <1>3, RegistroMuda
  <2>2. Coerente(r)
    BY <1>3, <1>9 DEF Registros, Coerente, Ins5, Em
  <2>3. Local(t, r) /\ nwords' \in CInt
    BY <1>3, <1>9 DEF Ins5
  <2> HIDE DEF r
  <2> QED
    BY <1>2, <2>1, <2>2, <2>3, LocalType
<1>10. CASE Laco(t)
  <2> DEFINE q == [th[t] EXCEPT !.pc = "cmp"]
             r == [th[t] EXCEPT !.pc = "responde", !.i = 0]
  <2>1. q \in Registros /\ r \in Registros
    BY <1>3, RegistroMuda
  <2>2. /\ th[t].i < nwords => Coerente(q)
        /\ Coerente(r)
    <3>1. q.pc = "cmp" /\ q.i = th[t].i /\ r.pc = "responde"
      BY <1>3 DEF Registros
    <3>2. th[t].i < nwords => th[t].i < IntMax
      BY <1>3, IntAssumption DEF CInt
    <3> QED
      BY <3>1, <3>2 DEF Coerente
  <2>3. nwords' \in CInt /\ ((th[t].i < nwords /\ Local(t, q)) \/ Local(t, r))
    BY <1>3, <1>10 DEF Laco
  <2> HIDE DEF q, r
  <2> QED
    BY <1>2, <2>1, <2>2, <2>3, LocalType
<1>11. CASE Compara(t)
  <2>1. nwords' = nwords /\ th[t].pc = "cmp"
    BY <1>11 DEF Compara, Em
  <2>2. CASE Achou(t) /\ th[t].w # Nulo
    <3> DEFINE q == [th[t] EXCEPT !.pc = "responde", !.i = 0, !.res = 1]
               r == [th[t] EXCEPT !.pc = "del1"]
    <3>1. q \in Registros /\ r \in Registros
      BY <1>3, RegistroMuda
    <3>2. Coerente(q) /\ Coerente(r)
      BY <1>3, <2>2 DEF Registros, Coerente
    <3>3. Local(t, q) \/ Local(t, r)
      BY <2>2 DEF Achou
    <3> HIDE DEF q, r
    <3> QED
      BY <1>2, <1>3, <2>1, <3>1, <3>2, <3>3, LocalType
  <2>3. CASE NaoAchou(t)
    <3> DEFINE r == [th[t] EXCEPT !.pc = "laco", !.i = th[t].i + 1]
    <3>1. r \in Registros
      <4>1. th[t].i + 1 \in 0 .. IntMax
        BY <1>3, <2>1, IntAssumption DEF Coerente
      <4> QED
        BY <1>3, <4>1, RegistroMuda
    <3>2. Coerente(r)
      BY <1>3 DEF Registros, Coerente
    <3>3. Local(t, r)
      BY <2>3 DEF NaoAchou
    <3> HIDE DEF r
    <3> QED
      BY <1>2, <1>3, <2>1, <3>1, <3>2, <3>3, LocalType
  <2>4. CASE Cai /\ UNCHANGED <<clientVars, rede, transpVars, dict, fora, estragado>>
    <3>1. fora' \in BOOLEAN /\ estragado' \in BOOLEAN
      BY <1>1, <2>4 DEF TypeTh
    <3>2. TypeTh'
      BY <1>1, <2>1, <2>4, <3>1, CaiType DEF transpVars
    <3>3. TypeRede'
      BY <1>1, <2>4, TypeRedeIgual DEF transpVars
    <3> QED
      BY <3>2, <3>3 DEF TypeOK, TypeRede, TypeTh
  <2> QED
    BY <1>11, <2>2, <2>3, <2>4 DEF Compara
<1>12. CASE Del1(t)
  <2> DEFINE r == [th[t] EXCEPT !.pc = "del2", !.n = nwords]
  <2>1. r \in Registros
    BY <1>3, RegistroMuda
  <2>2. Coerente(r)
    BY <1>3, <1>12 DEF Registros, Coerente, Del1, Em
  <2>3. Local(t, r) /\ nwords' \in CInt
    BY <1>3, <1>12 DEF Del1
  <2> HIDE DEF r
  <2> QED
    BY <1>2, <2>1, <2>2, <2>3, LocalType
<1>13. CASE Del2(t)
  <2> DEFINE r == [th[t] EXCEPT !.pc = "del3", !.n = 0]
  <2>1. r \in Registros
    BY <1>3, RegistroMuda
  <2>2. Coerente(r)
    BY <1>3, <1>13 DEF Registros, Coerente, Del2, Em
  <2>3. Local(t, r) /\ nwords' \in CInt
    BY <1>3, <1>13, InteiroDef DEF Del2
  <2> HIDE DEF r
  <2> QED
    BY <1>2, <2>1, <2>2, <2>3, LocalType
<1>14. CASE Del3(t)
  <2> DEFINE r == [th[t] EXCEPT !.pc = "del4", !.n = nwords]
  <2>1. r \in Registros
    BY <1>3, RegistroMuda
  <2>2. Coerente(r)
    BY <1>3, <1>14 DEF Registros, Coerente, Del3, Em
  <2>3. Local(t, r) /\ nwords' \in CInt
    BY <1>3, <1>14 DEF Del3
  <2> HIDE DEF r
  <2> QED
    BY <1>2, <2>1, <2>2, <2>3, LocalType
<1>15. CASE Del4(t)
  <2> DEFINE r == Apagou(t)
  <2>1. r \in Registros
    BY <1>3, RegistroMuda DEF Apagou
  <2>2. Coerente(r)
    BY <1>3 DEF Registros, Apagou, Coerente
  <2>3. PICK w \in Conteudos \cup {Nulo} :
          Copia(t, th[t].i, w, r) \/ CopiaDeFora(t, th[t].i, r)
    BY <1>1, <1>15 DEF Del4, TypeTh
  <2>4. UNCHANGED clientVars /\ rede' = rede /\ transp' = transp /\ xdr' = xdr
    BY <1>15 DEF Del4, transpVars
  <2>5. fora' \in BOOLEAN /\ estragado' \in BOOLEAN
    <3>1. /\ fora' = fora /\ fora \in BOOLEAN
          /\ estragado' = (estragado \/ th[t].n \notin Indice \/ th[t].i \notin Indice)
      BY <1>1, <1>15 DEF Del4, TypeTh
    <3> QED
      BY <3>1, Zenon
  <2> HIDE DEF r
  <2>6. TypeTh'
    BY <1>1, <1>2, <2>1, <2>2, <2>3, <2>4, <2>5, CopiaType, CopiaDeForaType
  <2>7. TypeRede'
    BY <1>1, <2>4, TypeRedeIgual
  <2> QED
    BY <2>6, <2>7 DEF TypeOK, TypeRede, TypeTh
<1> QED
  BY <1>4, <1>5, <1>6, <1>7, <1>8, <1>9, <1>10, <1>11, <1>12, <1>13, <1>14, <1>15

LEMMA NextType == TypeOK /\ [Next]_vars => TypeOK'
<1> SUFFICES ASSUME TypeOK, [Next]_vars PROVE TypeOK'
  OBVIOUS
<1>1. CASE UNCHANGED vars
  BY <1>1 DEF vars, TypeOK, Ativas
<1>2. ASSUME NEW c \in Client, ClientNext(c) PROVE TypeOK'
  BY <1>2, CallType, ClienteType DEF ClientNext
<1>3. ASSUME NEW m \in rede, Receive(m) PROVE TypeOK'
  BY <1>3, ReceiveType
<1>4. ASSUME NEW t \in Thread, ThreadNext(t) PROVE TypeOK'
  BY <1>4, ServType, DicionarioType DEF ThreadNext
<1> QED
  BY <1>1, <1>2, <1>3, <1>4 DEF Next

\* TypeOK of RpcDict: whatever the threads do to each other, what dict and
\* nwords hold, what the threads have read and what is in flight stays in its
\* type; and every answer in flight, and the call in the transport, is for a
\* call that its client has made, in however many threads it is served.
THEOREM DictTypeCorrect == Spec => []TypeOK
  BY InitType, NextType, PTL DEF Spec
-----------------------------------------------------------------------------
(***************************************************************************)
(* One call at a time.                                                     *)
(***************************************************************************)
\* What is known of the only thread that runs.
LEMMA Sozinha ==
  ASSUME TypeOK, Serial, ~fora, NEW t \in Ativas
  PROVE  /\ t \in Thread /\ th[t] \in Registros /\ Ativas = {t}
         /\ th \in [Thread -> Registros] /\ dict \in [Indice -> Conteudos]
         /\ transp \in Chamadas /\ nwords \in 0 .. DICTSIZ
         /\ Argumentado(th[t]) /\ Assercao(th[t])
<1>1. t \in Thread /\ Ativas # {}
  BY DEF Ativas
<1>2. th \in [Thread -> Registros] /\ dict \in [Indice -> Conteudos]
  BY DEF TypeOK
<1>3. transp \in Chamadas
  BY <1>1 DEF TypeOK, TalvezChamada
<1>4. nwords \in 0 .. DICTSIZ /\ Ativas = {t}
  BY DEF Serial
<1>5. Argumentado(th[t]) /\ Assercao(th[t])
  BY <1>1 DEF Serial
<1> QED
  BY <1>1, <1>2, <1>3, <1>4, <1>5

\* A step of that thread: the assertions have to hold of what it becomes.
LEMMA SerialMuda ==
  ASSUME TypeOK, Serial, ~fora, NEW t \in Ativas, NEW r, Muda(t, r),
         servidor' = servidor, nwords' \in 0 .. DICTSIZ,
         Argumentado(r)', Assercao(r)'
  PROVE  Serial'
<1>1. t \in Thread /\ Ativas = {t} /\ th \in [Thread -> Registros]
  BY Sozinha
<1>2. th'[t] = r /\ \A u \in Thread \ {t} : th'[u] = th[u] /\ th[u].pc = "livre"
  BY <1>1 DEF Muda, Ativas
<1>3. servidor' = "ativo"
  BY DEF Serial
<1>4. \A u, v \in Ativas' : u = v
  BY <1>2 DEF Ativas
<1>5. \A u \in Thread : (Argumentado(th[u]) /\ Assercao(th[u]))'
  <2> TAKE u \in Thread
  <2>1. CASE u = t
    BY <1>2, <2>1 DEF Argumentado, Assercao, Presente
  <2>2. CASE u # t
    <3>1. th'[u].pc = "livre"
      BY <1>2, <2>2
    <3>2. Argumentado(th[u])'
      BY <3>1 DEF Argumentado, Insercao, Busca, Remocao
    <3>3. Assercao(th[u])'
      BY <3>1 DEF Assercao, Busca
    <3> QED
      BY <3>2, <3>3
  <2> QED
    BY <2>1, <2>2
<1> QED
  BY <1>3, <1>4, <1>5 DEF Serial

\* A step that leaves the thread, its dictionary and its call alone.
LEMMA SerialIgual ==
  ASSUME Serial, UNCHANGED <<servidor, transp, xdr, th, dict, nwords, fora>>
  PROVE  Serial'
<1>1. ASSUME NEW t \in Thread, Argumentado(th[t]), Assercao(th[t])
      PROVE  (Argumentado(th[t]) /\ Assercao(th[t]))'
  BY <1>1 DEF Argumentado, Assercao, Presente
<1> QED
  BY <1>1 DEF Serial, Ativas

\* A call comes, and finds no thread running.
LEMMA SerialReceive ==
  ASSUME TypeOK, Serial, NEW m \in rede, Receive(m), ~fora' PROVE Serial'
<1>1. ~fora /\ Ativas = {}
  BY DEF Receive
<1>2. servidor' = "ativo" /\ nwords' \in 0 .. DICTSIZ /\ xdr' = "novo"
  BY <1>1 DEF Receive, Serial
<1>3. PICK t \in Thread \cup {m} : \A u \in Thread :
        IF u = t THEN th'[u] = [Parada EXCEPT !.pc = "switch"]
                 ELSE th'[u].pc = "livre"
  <2>1. th \in [Thread -> Registros] /\ \A u \in Thread : th[u].pc = "livre"
    BY <1>1 DEF TypeOK, Ativas
  <2>2. CASE Ativas # Thread
    <3> DEFINE t == CHOOSE u \in Thread \ Ativas : TRUE
               r == [Parada EXCEPT !.pc = "switch"]
    <3>1. t \in Thread
      BY <2>2 DEF Ativas
    <3>2. th' = [th EXCEPT ![t] = r]
      BY <2>2 DEF Receive, Muda
    <3> HIDE DEF t
    <3>3. \A u \in Thread : IF u = t THEN th'[u] = r ELSE th'[u].pc = "livre"
      <4> HIDE DEF r
      <4> QED
        BY <2>1, <3>1, <3>2
    <3> QED
      BY <3>1, <3>3
  <2>3. CASE Ativas = Thread
    BY <1>1, <2>3
  <2> QED
    BY <2>2, <2>3
<1>4. \A u, v \in Ativas' : u = v
  BY <1>3 DEF Ativas
<1>5. \A u \in Thread : (Argumentado(th[u]) /\ Assercao(th[u]))'
  <2> TAKE u \in Thread
  <2>1. th'[u].pc = "livre" \/ (th'[u].pc = "switch" /\ th'[u].w = Nulo
                                 /\ th'[u].i = 0 /\ th'[u].res = 0)
    <3>1. th'[u].pc = "livre" \/ th'[u] = [Parada EXCEPT !.pc = "switch"]
      BY <1>3
    <3> QED
      BY <3>1, ParadaMuda
  <2>2. Argumentado(th[u])'
    BY <1>2, <2>1 DEF Argumentado, Insercao, Busca, Remocao
  <2>3. Assercao(th[u])'
    BY <2>1 DEF Assercao, Busca
  <2> QED
    BY <2>2, <2>3
<1> QED
  BY <1>2, <1>4, <1>5 DEF Serial

\* serv_request, with the arguments of the call, which nobody has overwritten.
LEMMA SerialServ ==
  ASSUME TypeOK, Serial, NEW t \in Thread, ~fora',
         Switch(t) \/ GetArgs(t) \/ SendReply(t) \/ FreeArgs(t)
  PROVE  Serial'
<1>1. /\ t \in Ativas /\ ~fora /\ servidor' = servidor /\ transp' = transp
      /\ nwords' = nwords /\ dict' = dict
  <2>1. t \in Ativas /\ servidor' = servidor /\ transp' = transp
        /\ nwords' = nwords /\ dict' = dict /\ fora' = fora
    BY DEF Switch, GetArgs, SendReply, FreeArgs, Em, Ativas, dictVars, transpVars
  <2> QED
    BY <2>1, Zenon
<1>2. /\ th[t] \in Registros /\ transp \in Chamadas /\ nwords' \in 0 .. DICTSIZ
      /\ Argumentado(th[t])
  BY <1>1, Sozinha
<1>3. CASE Switch(t)
  <2>1. PICK r : r = [th[t] EXCEPT !.pc = "args", !.proc = transp.proc]
    OBVIOUS
  <2>2. /\ r.pc = "args" /\ r.proc = transp.proc
        /\ r.w = th[t].w /\ r.i = th[t].i /\ r.res = th[t].res
    BY <1>2, <2>1 DEF Registros
  <2>3. Muda(t, r) /\ xdr' = xdr /\ th[t].pc = "switch"
    BY <1>3, <2>1 DEF Switch, Em, transpVars
  <2>4. Argumentado(r)'
    BY <1>1, <1>2, <2>2, <2>3 DEF Argumentado, Insercao, Busca, Remocao
  <2>5. Assercao(r)'
    BY <2>2 DEF Assercao, Busca
  <2> QED
    BY <1>1, <1>2, <2>3, <2>4, <2>5, SerialMuda
<1>4. CASE GetArgs(t)
  <2>1. /\ th[t].pc = "args" /\ xdr = "novo" /\ th[t].w = Nulo
        /\ th[t].i = 0 /\ th[t].res = 0 /\ th[t].proc = transp.proc
    BY <1>2, <1>4 DEF GetArgs, Em, Argumentado
  <2>2. CASE th[t].proc = "INITW" /\ Muda(t, [th[t] EXCEPT !.pc = "init"])
    <3>1. PICK r : r = [th[t] EXCEPT !.pc = "init"]
      OBVIOUS
    <3>2. /\ r.pc = "init" /\ r.proc = "INITW" /\ transp.proc = "INITW"
          /\ r.w = transp.w
      BY <1>2, <2>1, <2>2, <3>1, ChamadaDef DEF Registros
    <3>3. Argumentado(r)'
      BY <1>1, <3>2 DEF Argumentado, Insercao, Busca, Remocao
    <3>4. Assercao(r)'
      BY <3>2 DEF Assercao, Busca
    <3> QED
      BY <1>1, <1>2, <2>2, <3>1, <3>3, <3>4, SerialMuda
  <2>4. CASE th[t].proc # "INITW"
    <3>1. transp.w \in Palavra /\ transp.w # Nulo /\ transp.w # "erro"
      BY <1>2, <2>1, <2>4, ChamadaDef, PalavraDef
    <3>2. Argumentos = {transp.w}
      BY <2>1, <3>1 DEF Argumentos
    <3>3. Muda(t, [th[t] EXCEPT !.pc = IF th[t].proc = "INSERTW" THEN "ins1" ELSE "laco",
                                !.w = transp.w])
      BY <1>4, <2>4, <3>1, <3>2 DEF GetArgs
    <3>4. PICK r : r = [th[t] EXCEPT !.pc = IF th[t].proc = "INSERTW" THEN "ins1" ELSE "laco",
                                     !.w = transp.w]
      OBVIOUS
    <3>5. /\ r.pc = IF th[t].proc = "INSERTW" THEN "ins1" ELSE "laco"
          /\ r.proc = transp.proc /\ r.w = transp.w
          /\ r.i = 0 /\ r.res = 0
      BY <1>2, <2>1, <3>4 DEF Registros
    <3>6. \/ r.pc = "ins1" /\ r.proc = "INSERTW"
          \/ r.pc = "laco" /\ r.proc \in {"LOOKUPW", "DELETEW"}
      BY <1>2, <2>1, <2>4, <3>5, ChamadaDef
    <3>7. Argumentado(r)'
      BY <1>1, <3>5, <3>6 DEF Argumentado, Insercao, Busca, Remocao
    <3>8. Assercao(r)'
      BY <1>1, <1>2, <3>5, <3>6, DictAssumption DEF Assercao, Busca, Indice
    <3> QED
      BY <1>1, <1>2, <3>3, <3>4, <3>7, <3>8, SerialMuda
  <2> QED
    BY <1>4, <2>2, <2>4 DEF GetArgs
<1>5. CASE SendReply(t) \/ FreeArgs(t)
  <2>1. PICK r : Muda(t, r) /\ r.pc \in {"libera", "livre"}
    <3>1. CASE SendReply(t)
      <4>1. Muda(t, [Parada EXCEPT !.pc = "libera"])
        BY <3>1 DEF SendReply
      <4> QED
        BY <4>1, ParadaMuda
    <3>2. CASE FreeArgs(t)
      BY <3>2 DEF FreeArgs, Parada
    <3> QED
      BY <1>5, <3>1, <3>2
  <2>2. Argumentado(r)'
    BY <2>1 DEF Argumentado, Insercao, Busca, Remocao
  <2>3. Assercao(r)'
    BY <2>1 DEF Assercao, Busca
  <2> QED
    BY <1>1, <1>2, <2>1, <2>2, <2>3, SerialMuda
<1> QED
  BY <1>3, <1>4, <1>5

\* A step of a procedure keeps the call and its arguments, and goes on from
\* one place of the procedure to another.
LEMMA ArgumentadoPasso ==
  ASSUME NEW q, NEW r, Argumentado(q), transp' = transp,
         r.proc = q.proc, r.w = q.w,
         \/ q.pc = "init" /\ r.pc = "responde"
         \/ q.pc \in Insercao /\ r.pc \in Insercao \cup {"responde"}
         \/ q.pc \in Busca /\ r.pc \in Busca \cup {"responde"}
         \/ q.pc \in Busca /\ q.proc # "LOOKUPW" /\ r.pc = "del1"
         \/ q.pc \in Remocao /\ r.pc \in Remocao \cup {"responde"}
  PROVE  Argumentado(r)'
  BY DEF Argumentado, Insercao, Busca, Remocao

\* The arithmetic of insertw and deletew, which does not wrap there.
LEMMA SucessorDentro ==
  \A n \in Indice : /\ Sucessor(n) = n + 1
                   /\ Sucessor(n) \in 0 .. DICTSIZ /\ Sucessor(n) - 1 = n
<1> SUFFICES ASSUME NEW n \in Indice
             PROVE  /\ Sucessor(n) = n + 1
                    /\ Sucessor(n) \in 0 .. DICTSIZ /\ Sucessor(n) - 1 = n
  OBVIOUS
<1>1. n \in 0 .. IntMax /\ n < IntMax /\ n + 1 \in 0 .. DICTSIZ
  BY DictAssumption, IntAssumption DEF Indice
<1>2. Sucessor(n) = n + 1
  BY <1>1, InteiroDef
<1> QED
  BY <1>1, <1>2

LEMMA AntecessorDentro ==
  ASSUME NEW n \in 0 .. DICTSIZ, NEW i \in Indice, i < n
  PROVE  /\ Antecessor(n) = n - 1 /\ Antecessor(n) \in Indice
         /\ Antecessor(n) \in 0 .. DICTSIZ /\ i \in 0 .. Antecessor(n)
<1>1. n \in 0 .. IntMax /\ 0 <= n + IntMax /\ i \in Int
  BY DictAssumption, IntAssumption DEF Indice
<1>2. Antecessor(n) = n - 1
  BY <1>1, InteiroDef
<1> QED
  BY <1>1, <1>2, DictAssumption DEF Indice

\* insertw on its own.
LEMMA SerialInsere ==
  ASSUME TypeOK, Serial, NEW t \in Thread, ~fora',
         Ins1(t) \/ Ins2(t) \/ Ins3(t) \/ Ins4(t) \/ Ins5(t)
  PROVE  Serial'
<1>1. /\ t \in Ativas /\ ~fora /\ transp' = transp
  <2>1. t \in Ativas /\ transp' = transp
    BY DEF Ins1, Ins2, Ins3, Ins4, Ins5, Em, Ativas, Local, transpVars
  <2>2. ~fora
    <3>1. CASE fora' = fora
      BY <3>1, Zenon
    <3>2. CASE Ins2(t)
      BY <3>2, Zenon DEF Ins2
    <3> QED
      BY <3>1, <3>2 DEF Ins1, Ins3, Ins4, Ins5, Local
  <2> QED
    BY <2>1, <2>2
<1>2. /\ th[t] \in Registros /\ transp \in Chamadas /\ nwords \in 0 .. DICTSIZ
      /\ dict \in [Indice -> Conteudos]
      /\ Argumentado(th[t]) /\ Assercao(th[t])
  BY <1>1, Sozinha
<1>3. CASE Ins1(t)
  <2>1. PICK r : r = [th[t] EXCEPT !.pc = "ins2", !.n = nwords]
    OBVIOUS
  <2>2. /\ r.pc = "ins2" /\ r.n = nwords
        /\ r.proc = th[t].proc /\ r.w = th[t].w
    BY <1>2, <2>1 DEF Registros
  <2>3. /\ Muda(t, r) /\ servidor' = servidor /\ nwords' = nwords /\ th[t].pc = "ins1"
    BY <1>3, <2>1 DEF Ins1, Em, Local
  <2>4. Argumentado(r)'
    BY <1>1, <1>2, <2>2, <2>3, ArgumentadoPasso DEF Insercao
  <2>5. Assercao(r)'
    BY <2>2, <2>3 DEF Assercao, Busca
  <2> QED
    BY <1>1, <1>2, <2>3, <2>4, <2>5, SerialMuda
<1>4. CASE Ins2(t)
  <2>1. PICK r : r = [th[t] EXCEPT !.pc = "ins3"]
    OBVIOUS
  <2>2. /\ r.pc = "ins3" /\ r.proc = th[t].proc /\ r.w = th[t].w
    BY <1>2, <2>1 DEF Registros
  <2>3. th[t].pc = "ins2" /\ th[t].n = nwords /\ th[t].w # Nulo
    <3>1. th[t].pc = "ins2"
      BY <1>4 DEF Ins2, Em
    <3>2. th[t].proc = "INSERTW" /\ th[t].w = transp.w /\ transp.proc = "INSERTW"
      BY <1>2, <3>1 DEF Argumentado, Insercao
    <3>3. transp.w \in Palavra
      BY <1>2, <3>2, ChamadaDef
    <3> QED
      BY <1>2, <3>1, <3>2, <3>3, PalavraDef DEF Assercao
  <2>4. nwords \in Indice
    BY <1>4, <2>3 DEF Ins2
  <2>5. /\ Muda(t, r) /\ servidor' = servidor /\ nwords' = nwords
        /\ dict' = [dict EXCEPT ![nwords] = th[t].w]
    BY <1>4, <2>1, <2>3, <2>4 DEF Ins2, Copia
  <2>6. Argumentado(r)'
    BY <1>1, <1>2, <2>2, <2>3, ArgumentadoPasso DEF Insercao
  <2>7. Assercao(r)'
    BY <1>2, <2>2, <2>4, <2>5 DEF Assercao, Busca
  <2> QED
    BY <1>1, <1>2, <2>5, <2>6, <2>7, SerialMuda
<1>5. CASE Ins3(t)
  <2>1. PICK r : r = [th[t] EXCEPT !.pc = "ins4", !.n = nwords]
    OBVIOUS
  <2>2. /\ r.pc = "ins4" /\ r.n = nwords
        /\ r.proc = th[t].proc /\ r.w = th[t].w
    BY <1>2, <2>1 DEF Registros
  <2>3. /\ Muda(t, r) /\ servidor' = servidor /\ nwords' = nwords /\ dict' = dict
        /\ th[t].pc = "ins3"
    BY <1>5, <2>1 DEF Ins3, Em, Local
  <2>4. Argumentado(r)'
    BY <1>1, <1>2, <2>2, <2>3, ArgumentadoPasso DEF Insercao
  <2>5. Assercao(r)'
    BY <1>2, <2>2, <2>3 DEF Assercao, Busca
  <2> QED
    BY <1>1, <1>2, <2>3, <2>4, <2>5, SerialMuda
<1>6. CASE Ins4(t)
  <2>1. PICK r : r = [th[t] EXCEPT !.pc = "ins5", !.n = 0]
    OBVIOUS
  <2>2. /\ r.pc = "ins5"
        /\ r.proc = th[t].proc /\ r.w = th[t].w
    BY <1>2, <2>1 DEF Registros
  <2>3. /\ Muda(t, r) /\ servidor' = servidor /\ nwords' = Sucessor(th[t].n)
        /\ dict' = dict /\ th[t].pc = "ins4"
    BY <1>6, <2>1 DEF Ins4, Em, Local
  <2>4. th[t].n = nwords /\ nwords \in Indice /\ dict[nwords] = th[t].w
    BY <1>2, <2>3 DEF Assercao
  <2>5. nwords' \in 0 .. DICTSIZ /\ nwords' - 1 = nwords
    BY <2>3, <2>4, SucessorDentro
  <2>6. Argumentado(r)'
    BY <1>1, <1>2, <2>2, <2>3, ArgumentadoPasso DEF Insercao
  <2>7. Assercao(r)'
    BY <2>2, <2>3, <2>4, <2>5 DEF Assercao, Busca
  <2> QED
    BY <1>1, <1>2, <2>3, <2>5, <2>6, <2>7, SerialMuda
<1>7. CASE Ins5(t)
  <2>1. PICK r : r = [th[t] EXCEPT !.pc = "responde", !.res = nwords]
    OBVIOUS
  <2>2. /\ r.pc = "responde" /\ r.res = nwords
        /\ r.proc = th[t].proc /\ r.w = th[t].w
    BY <1>2, <2>1 DEF Registros
  <2>3. /\ Muda(t, r) /\ servidor' = servidor /\ nwords' = nwords /\ dict' = dict
        /\ th[t].pc = "ins5"
    BY <1>7, <2>1 DEF Ins5, Em, Local
  <2>4. nwords - 1 \in Indice /\ dict[nwords - 1] = th[t].w /\ nwords - 1 < nwords
    BY <1>2, <2>3 DEF Assercao
  <2>5. th[t].proc = "INSERTW"
    BY <1>2, <2>3 DEF Argumentado, Insercao
  <2>6. Presente(r.w)'
    BY <2>2, <2>3, <2>4 DEF Presente
  <2>7. Argumentado(r)'
    BY <1>1, <1>2, <2>2, <2>3, ArgumentadoPasso DEF Insercao
  <2>8. Assercao(r)'
    BY <2>2, <2>3, <2>5, <2>6 DEF Assercao, Busca
  <2> QED
    BY <1>1, <1>2, <2>3, <2>7, <2>8, SerialMuda
<1> QED
  BY <1>3, <1>4, <1>5, <1>6, <1>7

\* initw and the scan of deletew and lookupw on their own.
LEMMA SerialBusca ==
  ASSUME TypeOK, Serial, NEW t \in Thread, ~fora',
         InitW(t) \/ Laco(t) \/ Compara(t)
  PROVE  Serial'
<1>1. t \in Ativas
  BY DEF InitW, Laco, Compara, Em, Ativas
<1>2. fora' = fora
  BY DEF InitW, Laco, Compara, Achou, NaoAchou, Local
<1>3. ~fora
  BY <1>2, Zenon
<1>4. /\ th[t] \in Registros /\ transp \in Chamadas /\ nwords \in 0 .. DICTSIZ
      /\ Argumentado(th[t]) /\ Assercao(th[t])
  BY <1>1, <1>3, Sozinha
<1>5. CASE InitW(t)
  <2>1. PICK r : r = [th[t] EXCEPT !.pc = "responde", !.res = 1]
    OBVIOUS
  <2>2. /\ r.pc = "responde" /\ r.res = 1
        /\ r.proc = th[t].proc /\ r.w = th[t].w
    BY <1>4, <2>1 DEF Registros
  <2>3. /\ Muda(t, r) /\ servidor' = servidor /\ nwords' = 0 /\ transp' = transp
        /\ th[t].pc = "init"
    BY <1>5, <2>1 DEF InitW, Em, Local, transpVars
  <2>4. th[t].proc = "INITW"
    BY <1>4, <2>3 DEF Argumentado
  <2>5. Argumentado(r)'
    BY <1>4, <2>2, <2>3, ArgumentadoPasso
  <2>6. Assercao(r)'
    BY <2>2, <2>3, <2>4 DEF Assercao, Busca
  <2>7. nwords' \in 0 .. DICTSIZ
    BY <2>3, DictAssumption
  <2> QED
    BY <1>1, <1>3, <2>3, <2>5, <2>6, <2>7, SerialMuda
<1>6. CASE Laco(t)
  <2>1. /\ servidor' = servidor /\ nwords' = nwords /\ dict' = dict /\ transp' = transp
        /\ th[t].pc = "laco"
    BY <1>6 DEF Laco, Em, Local, transpVars
  <2>2. /\ th[t].res = 0 /\ th[t].i \in 0 .. nwords
        /\ \A k \in Indice : k < th[t].i => dict[k] # th[t].w
    BY <1>4, <2>1 DEF Assercao, Busca
  <2>3. th[t].proc \in {"LOOKUPW", "DELETEW"}
    BY <1>4, <2>1 DEF Argumentado, Busca
  <2>4. CASE th[t].i < nwords
    <3>1. PICK r : r = [th[t] EXCEPT !.pc = "cmp"]
      OBVIOUS
    <3>2. /\ r.pc = "cmp" /\ r.i = th[t].i /\ r.res = 0
          /\ r.proc = th[t].proc /\ r.w = th[t].w
      BY <1>4, <2>2, <3>1 DEF Registros
    <3>3. Muda(t, r)
      BY <1>6, <2>4, <3>1 DEF Laco, Local
    <3>4. Argumentado(r)'
      BY <1>4, <2>1, <3>2, ArgumentadoPasso DEF Busca
    <3>5. Assercao(r)'
      BY <2>1, <2>2, <2>4, <3>2 DEF Assercao, Busca
    <3> QED
      BY <1>1, <1>3, <1>4, <2>1, <3>3, <3>4, <3>5, SerialMuda
  <2>5. CASE ~(th[t].i < nwords)
    <3>1. PICK r : r = [th[t] EXCEPT !.pc = "responde", !.i = 0]
      OBVIOUS
    <3>2. /\ r.pc = "responde" /\ r.res = 0
          /\ r.proc = th[t].proc /\ r.w = th[t].w
      BY <1>4, <2>2, <3>1 DEF Registros
    <3>3. Muda(t, r)
      BY <1>6, <2>5, <3>1 DEF Laco, Local
    <3>4. Argumentado(r)'
      BY <1>4, <2>1, <3>2, ArgumentadoPasso DEF Busca
    <3>5. ~Presente(r.w)'
      <4>1. th[t].i = nwords
        BY <1>4, <2>2, <2>5
      <4> QED
        BY <2>1, <2>2, <3>2, <4>1 DEF Presente
    <3>6. Assercao(r)'
      BY <2>3, <3>2, <3>5 DEF Assercao, Busca
    <3> QED
      BY <1>1, <1>3, <1>4, <2>1, <3>3, <3>4, <3>6, SerialMuda
  <2> QED
    BY <2>4, <2>5
<1>7. CASE Compara(t)
  <2>1. th[t].pc = "cmp" /\ nwords' = nwords
    BY <1>7 DEF Compara, Em
  <2>2. /\ th[t].res = 0 /\ th[t].i \in 0 .. nwords /\ th[t].i < nwords
        /\ \A k \in Indice : k < th[t].i => dict[k] # th[t].w
    BY <1>4, <2>1 DEF Assercao, Busca
  <2>3. /\ th[t].proc \in {"LOOKUPW", "DELETEW"} /\ th[t].w = transp.w
        /\ transp.proc = th[t].proc
    BY <1>4, <2>1 DEF Argumentado, Busca
  <2>4. th[t].w # Nulo
    BY <1>4, <2>3, ChamadaDef, PalavraDef
  <2>5. th[t].i \in Indice /\ th[t].i + 1 \in 0 .. nwords
    BY <1>4, <2>2, DictAssumption DEF Indice
  <2>6. CASE Achou(t) /\ dict[th[t].i] = th[t].w
    <3>1. servidor' = servidor /\ dict' = dict /\ transp' = transp
      BY <2>6 DEF Achou, Local, transpVars
    <3>2. CASE th[t].proc = "LOOKUPW"
      <4>1. PICK r : r = [th[t] EXCEPT !.pc = "responde", !.i = 0, !.res = 1]
        OBVIOUS
      <4>2. /\ r.pc = "responde" /\ r.res = 1
            /\ r.proc = th[t].proc /\ r.w = th[t].w
        BY <1>4, <4>1 DEF Registros
      <4>3. Muda(t, r)
        BY <2>6, <3>2, <4>1 DEF Achou, Local
      <4>4. Argumentado(r)'
        BY <1>4, <2>1, <3>1, <4>2, ArgumentadoPasso DEF Busca
      <4>5. Presente(r.w)'
        BY <2>1, <2>2, <2>5, <2>6, <3>1, <4>2 DEF Presente
      <4>6. Assercao(r)'
        BY <3>2, <4>2, <4>5 DEF Assercao, Busca
      <4> QED
        BY <1>1, <1>3, <1>4, <2>1, <3>1, <4>3, <4>4, <4>6, SerialMuda
    <3>3. CASE th[t].proc # "LOOKUPW"
      <4>1. PICK r : r = [th[t] EXCEPT !.pc = "del1"]
        OBVIOUS
      <4>2. /\ r.pc = "del1" /\ r.i = th[t].i
            /\ r.proc = th[t].proc /\ r.w = th[t].w
        BY <1>4, <4>1 DEF Registros
      <4>3. Muda(t, r)
        BY <2>6, <3>3, <4>1 DEF Achou, Local
      <4>4. Argumentado(r)'
        BY <1>4, <2>1, <3>1, <3>3, <4>2, ArgumentadoPasso DEF Busca
      <4>5. Assercao(r)'
        BY <2>1, <2>2, <2>5, <2>6, <3>1, <4>2 DEF Assercao, Busca
      <4> QED
        BY <1>1, <1>3, <1>4, <2>1, <3>1, <4>3, <4>4, <4>5, SerialMuda
    <3> QED
      BY <3>2, <3>3
  <2>7. CASE NaoAchou(t) /\ dict[th[t].i] # th[t].w
    <3>1. servidor' = servidor /\ dict' = dict /\ transp' = transp
      BY <2>7 DEF NaoAchou, Local, transpVars
    <3>2. PICK r : r = [th[t] EXCEPT !.pc = "laco", !.i = th[t].i + 1]
      OBVIOUS
    <3>3. /\ r.pc = "laco" /\ r.i = th[t].i + 1 /\ r.res = 0
          /\ r.proc = th[t].proc /\ r.w = th[t].w
      BY <1>4, <2>2, <3>2 DEF Registros
    <3>4. Muda(t, r)
      BY <2>7, <3>2 DEF NaoAchou, Local
    <3>5. Argumentado(r)'
      BY <1>4, <2>1, <3>1, <3>3, ArgumentadoPasso DEF Busca
    <3>6. \A k \in Indice : k < r.i => dict[k] # r.w
      BY <2>2, <2>7, <3>3 DEF Indice
    <3>7. Assercao(r)'
      BY <2>1, <2>5, <3>1, <3>3, <3>6 DEF Assercao, Busca
    <3> QED
      BY <1>1, <1>3, <1>4, <2>1, <3>1, <3>4, <3>5, <3>7, SerialMuda
  <2> QED
    BY <1>7, <2>4, <2>5, <2>6, <2>7 DEF Compara
<1> QED
  BY <1>5, <1>6, <1>7

\* The deletion on its own.
LEMMA SerialRemove ==
  ASSUME TypeOK, Serial, NEW t \in Thread, ~fora',
         Del1(t) \/ Del2(t) \/ Del3(t) \/ Del4(t)
  PROVE  Serial'
<1>1. t \in Ativas /\ transp' = transp
  BY DEF Del1, Del2, Del3, Del4, Em, Ativas, Local, transpVars
<1>2. fora' = fora
  BY DEF Del1, Del2, Del3, Del4, Local
<1>3. ~fora
  BY <1>2, Zenon
<1>4. /\ th[t] \in Registros /\ transp \in Chamadas /\ nwords \in 0 .. DICTSIZ
      /\ dict \in [Indice -> Conteudos]
      /\ Argumentado(th[t]) /\ Assercao(th[t])
  BY <1>1, <1>3, Sozinha
<1>5. CASE Del1(t)
  <2>1. PICK r : r = [th[t] EXCEPT !.pc = "del2", !.n = nwords]
    OBVIOUS
  <2>2. /\ r.pc = "del2" /\ r.n = nwords /\ r.i = th[t].i
        /\ r.proc = th[t].proc /\ r.w = th[t].w
    BY <1>4, <2>1 DEF Registros
  <2>3. /\ Muda(t, r) /\ servidor' = servidor /\ nwords' = nwords /\ dict' = dict
        /\ th[t].pc = "del1"
    BY <1>5, <2>1 DEF Del1, Em, Local
  <2>4. Argumentado(r)'
    BY <1>1, <1>4, <2>2, <2>3, ArgumentadoPasso DEF Remocao
  <2>5. Assercao(r)'
    BY <1>4, <2>2, <2>3 DEF Assercao, Busca
  <2> QED
    BY <1>1, <1>3, <1>4, <2>3, <2>4, <2>5, SerialMuda
<1>6. CASE Del2(t)
  <2>1. PICK r : r = [th[t] EXCEPT !.pc = "del3", !.n = 0]
    OBVIOUS
  <2>2. /\ r.pc = "del3" /\ r.i = th[t].i
        /\ r.proc = th[t].proc /\ r.w = th[t].w
    BY <1>4, <2>1 DEF Registros
  <2>3. /\ Muda(t, r) /\ servidor' = servidor /\ nwords' = Antecessor(th[t].n)
        /\ th[t].pc = "del2"
    BY <1>6, <2>1 DEF Del2, Em, Local
  <2>4. th[t].n = nwords /\ th[t].i \in Indice /\ th[t].i < nwords
    BY <1>4, <2>3 DEF Assercao
  <2>5. nwords' \in Indice /\ nwords' \in 0 .. DICTSIZ /\ r.i \in 0 .. nwords'
    BY <1>4, <2>2, <2>3, <2>4, AntecessorDentro
  <2>6. Argumentado(r)'
    BY <1>1, <1>4, <2>2, <2>3, ArgumentadoPasso DEF Remocao
  <2>7. Assercao(r)'
    BY <2>2, <2>5 DEF Assercao, Busca
  <2> QED
    BY <1>1, <1>3, <2>3, <2>5, <2>6, <2>7, SerialMuda
<1>7. CASE Del3(t)
  <2>1. PICK r : r = [th[t] EXCEPT !.pc = "del4", !.n = nwords]
    OBVIOUS
  <2>2. /\ r.pc = "del4" /\ r.n = nwords /\ r.i = th[t].i
        /\ r.proc = th[t].proc /\ r.w = th[t].w
    BY <1>4, <2>1 DEF Registros
  <2>3. /\ Muda(t, r) /\ servidor' = servidor /\ nwords' = nwords
        /\ th[t].pc = "del3"
    BY <1>7, <2>1 DEF Del3, Em, Local
  <2>4. Argumentado(r)'
    BY <1>1, <1>4, <2>2, <2>3, ArgumentadoPasso DEF Remocao
  <2>5. Assercao(r)'
    BY <1>4, <2>2, <2>3 DEF Assercao, Busca
  <2> QED
    BY <1>1, <1>3, <1>4, <2>3, <2>4, <2>5, SerialMuda
<1>8. CASE Del4(t)
  <2>1. PICK r : r = Apagou(t)
    OBVIOUS
  <2>2. /\ r.pc = "responde" /\ r.res = 1
        /\ r.proc = th[t].proc /\ r.w = th[t].w
    BY <1>4, <2>1 DEF Registros, Apagou
  <2>3. th[t].pc = "del4"
    BY <1>8 DEF Del4, Em
  <2>4. /\ th[t].n = nwords /\ nwords \in Indice /\ th[t].i \in 0 .. nwords
        /\ th[t].proc = "DELETEW"
    BY <1>4, <2>3 DEF Assercao, Argumentado, Remocao
  <2>5. th[t].i \in Indice /\ dict[nwords] # Nulo
    <3>1. th[t].i \in Indice
      BY <2>4, DictAssumption DEF Indice
    <3>2. dict[nwords] \in Conteudos
      BY <1>4, <2>4
    <3>3. \A w \in Conteudos : w # Nulo
      BY WordAssumption DEF Conteudos
    <3> QED
      BY <3>1, <3>2, <3>3
  <2>6. Copia(t, th[t].i, dict[nwords], r)
    BY <1>8, <2>1, <2>4 DEF Del4
  <2>7. Muda(t, r) /\ servidor' = servidor /\ nwords' = nwords
    BY <2>5, <2>6 DEF Copia
  <2>8. Argumentado(r)'
    BY <1>1, <1>4, <2>2, <2>3, ArgumentadoPasso DEF Remocao
  <2>9. Assercao(r)'
    BY <2>2, <2>4 DEF Assercao, Busca
  <2> QED
    BY <1>1, <1>3, <1>4, <2>7, <2>8, <2>9, SerialMuda
<1> QED
  BY <1>5, <1>6, <1>7, <1>8

LEMMA SerialInit == Init => Serial
<1> SUFFICES ASSUME Init PROVE Serial
  OBVIOUS
<1>1. servidor = "ativo" /\ nwords = 0 /\ th = [t \in Thread |-> Parada]
  BY DEF Init, ServerInit
<1>2. \A t \in Thread : th[t].pc = "livre"
  BY <1>1 DEF Parada
<1>3. nwords \in 0 .. DICTSIZ /\ Ativas = {}
  BY <1>1, <1>2, DictAssumption DEF Ativas
<1>4. \A t \in Thread : Argumentado(th[t]) /\ Assercao(th[t])
  BY <1>2 DEF Argumentado, Assercao, Insercao, Busca, Remocao
<1> QED
  BY <1>1, <1>3, <1>4 DEF Serial

LEMMA SerialNext == TypeOK /\ Serial /\ [Next]_vars => Serial'
<1> SUFFICES ASSUME TypeOK, Serial, [Next]_vars, ~fora' PROVE Serial'
  BY DEF Serial
<1>1. CASE UNCHANGED vars
  BY <1>1, SerialIgual DEF vars
<1>2. ASSUME NEW c \in Client, ClientNext(c) PROVE Serial'
  <2>1. UNCHANGED <<servidor, transp, xdr, th, dict, nwords, fora>>
    BY <1>2 DEF ClientNext, CallAny, Call, Resend, Return, GiveUp, transpVars, dictVars
  <2> QED
    BY <2>1, SerialIgual
<1>3. ASSUME NEW m \in rede, Receive(m) PROVE Serial'
  BY <1>3, SerialReceive
<1>4. ASSUME NEW t \in Thread, ThreadNext(t) PROVE Serial'
  BY <1>4, SerialServ, SerialInsere, SerialBusca, SerialRemove DEF ThreadNext
<1> QED
  BY <1>1, <1>2, <1>3, <1>4 DEF Next

\* Until two calls have been served at a time, one thread at most is in the
\* middle of a call, it has the arguments of the call in the transport, and
\* what it has read of nwords and dict (n, res, its place in the scan) still
\* says what they hold: the invariant the next three theorems rest on.
THEOREM SerialInvariant == Spec => []Serial
<1>1. Init => Serial /\ TypeOK
  BY SerialInit, InitType
<1>2. TypeOK /\ Serial /\ [Next]_vars => Serial'
  BY SerialNext
<1> QED
  BY <1>1, <1>2, DictTypeCorrect, PTL DEF Spec

\* CrashCause: the server ends only after a second call has come while one
\* was being served, or a word has been inserted into a full dictionary; no
\* sequence of calls one after the other, however often they are sent again
\* or given up, makes a thread use a null pointer or leave dict.
THEOREM CrashOnlyOutside == Spec => []CrashCause
<1>1. Serial => CrashCause
  BY DEF Serial, CrashCause
<1> QED
  BY <1>1, SerialInvariant, PTL
-----------------------------------------------------------------------------
(***************************************************************************)
(* The answers, and the abstract dictionary.                               *)
(***************************************************************************)
\* The places that hold w.
Lugares(w) == {k \in Indice : k < nwords /\ Lugar(k) = w}

LEMMA LugaresFinito ==
  ASSUME NEW w
  PROVE  /\ IsFiniteSet(Lugares(w)) /\ Cardinality(Lugares(w)) \in Nat
         /\ Cardinality(Lugares(w)) > 0 <=> Lugares(w) # {}
<1>1. IsFiniteSet(Indice) /\ Lugares(w) \subseteq Indice
  BY DictAssumption, FS_Interval DEF Indice, Lugares
<1>2. IsFiniteSet(Lugares(w))
  BY <1>1, FS_Subset
<1> HIDE DEF Lugares
<1>3. /\ Cardinality(Lugares(w)) \in Nat
      /\ Cardinality(Lugares(w)) = 0 <=> Lugares(w) = {}
  BY <1>2, FS_CardinalityType, FS_EmptySet
<1> QED
  BY <1>2, <1>3

\* Outside a deletion, the content is what the scans find in dict.
LEMMA ConteudoPresente ==
  ASSUME NEW w \in Palavra, \A t \in Thread : th[t].pc \notin {"del3", "del4"}
  PROVE  Conteudo[w] > 0 <=> Presente(w)
<1>1. \A k \in Indice : Lugar(k) = dict[k]
  BY DEF Lugar, Movendo
<1>2. Lugares(w) # {} <=> Presente(w)
  BY <1>1 DEF Lugares, Presente
<1>3. Conteudo[w] = Cardinality(Lugares(w))
  BY DEF Conteudo, Lugares
<1> QED
  BY <1>2, <1>3, LugaresFinito

LEMMA SerialAnswersLemma == TypeOK /\ Serial => SerialAnswers
<1> SUFFICES ASSUME TypeOK, Serial, NEW t \in Thread, ~fora, th[t].pc = "responde"
             PROVE  CASE th[t].proc = "INITW"   -> th[t].res = 1 /\ nwords = 0
                      [] th[t].proc = "INSERTW" -> th[t].res = nwords /\ Conteudo[th[t].w] > 0
                      [] th[t].proc = "LOOKUPW" -> (th[t].res = 1) <=> (Conteudo[th[t].w] > 0)
                      [] th[t].proc = "DELETEW" -> th[t].res = 0 => Conteudo[th[t].w] = 0
  BY DEF SerialAnswers
<1>1. t \in Ativas
  BY DEF Ativas
<1>2. /\ transp \in Chamadas /\ Ativas = {t} /\ Argumentado(th[t]) /\ Assercao(th[t])
  BY <1>1, Sozinha
<1>3. \A u \in Thread : th[u].pc \notin {"del3", "del4"}
  BY <1>2 DEF Ativas
<1>4. /\ th[t].proc = transp.proc
      /\ th[t].proc # "INITW" => th[t].w = transp.w
  BY <1>2 DEF Argumentado
<1>5. /\ th[t].proc \in {"INITW", "INSERTW", "LOOKUPW", "DELETEW"}
      /\ th[t].proc # "INITW" => th[t].w \in Palavra
  BY <1>2, <1>4, ChamadaDef
<1>6. /\ th[t].proc = "INITW" => th[t].res = 1 /\ nwords = 0
      /\ th[t].proc = "INSERTW" => th[t].res = nwords /\ Presente(th[t].w)
      /\ th[t].proc = "LOOKUPW" => (th[t].res = 1 <=> Presente(th[t].w))
      /\ th[t].proc = "DELETEW" => (th[t].res = 0 => ~Presente(th[t].w))
  BY <1>2 DEF Assercao
<1>7. th[t].proc # "INITW" => /\ Conteudo[th[t].w] > 0 <=> Presente(th[t].w)
                              /\ Conteudo[th[t].w] \in Nat
  <2> SUFFICES ASSUME th[t].proc # "INITW"
               PROVE  /\ Conteudo[th[t].w] > 0 <=> Presente(th[t].w)
                      /\ Conteudo[th[t].w] \in Nat
    OBVIOUS
  <2>1. th[t].w \in Palavra
    BY <1>5
  <2>2. Conteudo[th[t].w] = Cardinality(Lugares(th[t].w))
    BY <2>1 DEF Conteudo, Lugares
  <2> QED
    BY <1>3, <2>1, <2>2, ConteudoPresente, LugaresFinito
<1>8. CASE th[t].proc = "INITW"
  BY <1>6, <1>8
<1>9. CASE th[t].proc = "INSERTW"
  BY <1>6, <1>7, <1>9
<1>10. CASE th[t].proc = "LOOKUPW"
  BY <1>6, <1>7, <1>10
<1>11. CASE th[t].proc = "DELETEW"
  BY <1>6, <1>7, <1>11
<1> QED
  BY <1>5, <1>8, <1>9, <1>10, <1>11

\* SerialAnswers: while calls are served one at a time, insertw answers with
\* the number of words, lookupw whether the word is there, and deletew that
\* there was none only when there is none, however often a word has been
\* inserted and whichever of its places a deletion has filled with the last.
THEOREM AnswersMatchContent == Spec => []SerialAnswers
  BY SerialAnswersLemma, SerialInvariant, DictTypeCorrect, PTL
-----------------------------------------------------------------------------
(***************************************************************************)
(* A call that is waited for, and its answer.                              *)
(***************************************************************************)
\* What a client may do to its last call: it is waited for no longer, or
\* another one takes its place.
Adiante(d) ==
  \/ xid'[d] = xid[d] /\ espera'[d] \in {espera[d], SemChamada}
  \/ xid'[d] = xid[d] + 1

LEMMA PropriaMantida ==
  ASSUME TypeOK, NEW a, Propria(a), \A d \in Client : Adiante(d)
  PROVE  Propria(a)'
<1>1. a \in Chamadas /\ a.xid \in Nat /\ a.c \in Client /\ a.xid <= xid[a.c]
  BY ChamadaDef DEF Propria
<1>2. xid[a.c] \in Nat
  BY <1>1, BoundAssumption DEF TypeOK
<1>3. a.xid <= xid'[a.c]
  BY <1>1, <1>2 DEF Adiante
<1>4. espera'[a.c] # SemChamada /\ a.xid = xid'[a.c] => a = espera'[a.c]
  <2>1. CASE xid'[a.c] = xid[a.c] /\ espera'[a.c] \in {espera[a.c], SemChamada}
    BY <2>1 DEF Propria
  <2>2. CASE xid'[a.c] = xid[a.c] + 1
    BY <1>1, <1>2, <2>2
  <2> QED
    BY <1>1, <2>1, <2>2 DEF Adiante
<1> QED
  BY <1>1, <1>3, <1>4 DEF Propria

LEMMA AtendidaMantida ==
  ASSUME TypeOK, NEW m \in Respostas, Atendida(m), \A d \in Client : Adiante(d)
  PROVE  Atendida(m)'
<1>1. /\ m.xid \in Nat /\ m.c \in Client /\ m.xid <= xid[m.c] /\ xid[m.c] \in Nat
  BY RespostaDef, BoundAssumption DEF TypeOK, Atendida
<1>2. m.xid <= xid'[m.c]
  BY <1>1 DEF Adiante
<1>3. ASSUME espera'[m.c] # SemChamada, m.xid = xid'[m.c]
      PROVE  m.fez = Servico(espera[m.c])'
  <2>1. CASE xid'[m.c] = xid[m.c] /\ espera'[m.c] \in {espera[m.c], SemChamada}
    BY <1>3, <2>1 DEF Atendida, Servico
  <2>2. CASE xid'[m.c] = xid[m.c] + 1
    BY <1>1, <1>3, <2>2
  <2> QED
    BY <1>1, <2>1, <2>2 DEF Adiante
<1> QED
  BY <1>2, <1>3 DEF Atendida

\* A step keeps Proprias if whatever it sends, and the call that comes into
\* the transport, are as they should be.
LEMMA PropriasPasso ==
  ASSUME TypeOK, Proprias, \A d \in Client : Adiante(d), fora => fora',
         transp' = transp \/ transp' \in PorServir,
         \A m \in rede' \ rede :
           /\ m.tipo = "chamada" => Propria(m)'
           /\ ~fora' /\ m.tipo = "resposta" =>
                m \in Respostas /\ Atendida(m)
  PROVE  Proprias'
<1>1. \A m \in rede' : m.tipo = "chamada" => Propria(m)'
  <2> SUFFICES ASSUME NEW m \in rede', m.tipo = "chamada" PROVE Propria(m)'
    OBVIOUS
  <2>1. CASE m \in rede
    BY <2>1, PropriaMantida DEF Proprias
  <2>2. CASE m \notin rede
    BY <2>2
  <2> QED
    BY <2>1, <2>2
<1>2. transp' # SemChamada => Propria(transp)'
  <2> SUFFICES ASSUME transp' # SemChamada PROVE Propria(transp)'
    OBVIOUS
  <2>1. PICK a : a = transp' /\ Propria(a)
    BY DEF Proprias, PorServir
  <2>2. Propria(a)'
    BY <2>1, PropriaMantida
  <2> QED
    BY <2>1, <2>2 DEF Propria
<1>3. ASSUME ~fora', NEW m \in rede', m.tipo = "resposta"
      PROVE  Atendida(m)'
  <2>1. m \in Respostas /\ Atendida(m)
    <3>1. CASE m \in rede
      BY <1>3, <3>1, ChamadaDef DEF Proprias, TypeOK
    <3>2. CASE m \notin rede
      BY <1>3, <3>2
    <3> QED
      BY <3>1, <3>2
  <2> QED
    BY <2>1, AtendidaMantida
<1> QED
  BY <1>1, <1>2, <1>3 DEF Proprias

LEMMA PropriasInit == Init => Proprias
  BY DEF Init, ServerInit, Proprias

LEMMA PropriasNext == TypeOK /\ Serial /\ Proprias /\ [Next]_vars => Proprias'
<1> SUFFICES ASSUME TypeOK, Serial, Proprias, [Next]_vars PROVE Proprias'
  OBVIOUS
<1>1. /\ xid \in [Client -> Nat] /\ espera \in [Client -> TalvezChamada]
      /\ \A c \in Client : espera[c] # SemChamada =>
                             espera[c].c = c /\ espera[c].xid = xid[c]
  BY BoundAssumption DEF TypeOK
<1>2. UNCHANGED <<xid, espera>> => \A d \in Client : Adiante(d)
  BY DEF Adiante
<1>3. CASE UNCHANGED vars
  <2>1. UNCHANGED <<xid, espera, transp, rede>>
    BY <1>3 DEF vars
  <2>2. fora => fora'
    BY <1>3, Zenon DEF vars
  <2> QED
    BY <1>2, <2>1, <2>2, PropriasPasso
<1>4. ASSUME NEW c \in Client, ClientNext(c) PROVE Proprias'
  <2>1. transp' = transp /\ fora' = fora
    BY <1>4 DEF ClientNext, CallAny, Call, Resend, Return, GiveUp, transpVars, dictVars
  <2>2. fora => fora'
    BY <2>1, Zenon
  <2>3. CASE CallAny(c)
    <3>1. PICK p \in {"INITW", "INSERTW", "DELETEW", "LOOKUPW"}, w \in Palavra \cup {Nulo} :
            Call(c, p, w) /\ Chamada(c, xid[c] + 1, p, w) \in Chamadas
      BY <1>1, <2>3, ChamadaType DEF CallAny
    <3>2. PICK m : m = Chamada(c, xid[c] + 1, p, w)
      OBVIOUS
    <3>3. m \in Chamadas /\ m.c = c /\ m.xid = xid[c] + 1 /\ m.tipo = "chamada"
      BY <3>1, <3>2 DEF Chamada
    <3>4. xid' = [xid EXCEPT ![c] = xid[c] + 1] /\ espera' = [espera EXCEPT ![c] = m]
      BY <3>1, <3>2 DEF Call
    <3>5. rede' = rede \cup {m}
      BY <1>1, <3>1, <3>4 DEF Call
    <3>6. \A d \in Client : Adiante(d)
      BY <1>1, <3>4 DEF Adiante
    <3>7. Propria(m)'
      <4>1. xid'[c] = xid[c] + 1 /\ espera'[c] = m /\ xid'[c] \in Nat
        BY <1>1, <3>4
      <4> QED
        BY <3>3, <4>1 DEF Propria
    <3> QED
      BY <2>1, <2>2, <3>3, <3>5, <3>6, <3>7, PropriasPasso
  <2>4. CASE Resend(c)
    <3>1. espera[c].tipo = "chamada" /\ rede' = rede \cup {espera[c]}
          /\ UNCHANGED <<xid, espera>>
      BY <2>4 DEF Resend
    <3>2. PICK m : m = espera[c]
      OBVIOUS
    <3>3. m \in Chamadas /\ m.c = c /\ m.xid = xid[c] /\ m.tipo = "chamada"
      BY <1>1, <3>1, <3>2, ChamadaDef DEF TalvezChamada
    <3>4. Propria(m)'
      BY <1>1, <3>1, <3>2, <3>3 DEF Propria
    <3> QED
      BY <1>2, <2>1, <2>2, <3>1, <3>2, <3>3, <3>4, PropriasPasso
  <2>5. CASE (\E m \in rede : Return(c, m)) \/ GiveUp(c)
    <3>1. /\ rede' \subseteq rede /\ xid' = xid
          /\ espera' \in {espera, [espera EXCEPT ![c] = SemChamada]}
      BY <2>5 DEF Return, GiveUp
    <3>2. \A d \in Client : Adiante(d)
      BY <1>1, <3>1 DEF Adiante
    <3> QED
      BY <2>1, <2>2, <3>1, <3>2, PropriasPasso
  <2> QED
    BY <1>4, <2>3, <2>4, <2>5 DEF ClientNext
<1>5. ASSUME NEW m \in rede, Receive(m) PROVE Proprias'
  <2>1. /\ UNCHANGED <<xid, espera>> /\ rede' \subseteq rede
        /\ transp' = m /\ m.tipo = "chamada"
    BY <1>5 DEF Receive, clientVars
  <2>2. fora => fora'
    BY <1>5, Zenon DEF Receive
  <2>3. m \in PorServir
    BY <2>1 DEF PorServir
  <2> QED
    BY <1>2, <2>1, <2>2, <2>3, PropriasPasso
<1>6. ASSUME NEW t \in Thread, ThreadNext(t) PROVE Proprias'
  <2>1. UNCHANGED <<xid, espera>> /\ transp' = transp
    BY <1>6 DEF ThreadNext, Switch, GetArgs, SendReply, FreeArgs, InitW, Ins1, Ins2,
       Ins3, Ins4, Ins5, Laco, Compara, Del1, Del2, Del3, Del4, Local, Achou,
       NaoAchou, clientVars, transpVars
  <2>2. fora => fora'
    <3>1. CASE fora' = fora
      BY <3>1, Zenon
    <3>2. CASE Ins2(t)
      BY <3>2, Zenon DEF Ins2
    <3> QED
      BY <1>6, <3>1, <3>2 DEF ThreadNext, Switch, GetArgs, SendReply, FreeArgs, InitW,
         Ins1, Ins3, Ins4, Ins5, Laco, Compara, Del1, Del2, Del3, Del4, Local,
         Achou, NaoAchou, dictVars
  <2>3. CASE rede' = rede
    BY <1>2, <2>1, <2>2, <2>3, PropriasPasso
  <2>4. CASE GetArgs(t) /\ rede' # rede
    \* The arguments could not be decoded: not in the thread that is alone.
    <3>1. t \in Ativas /\ th[t].pc = "args"
      BY <2>4 DEF GetArgs, Em, Ativas
    <3>2. fora
      <4> SUFFICES ASSUME ~fora PROVE FALSE
        OBVIOUS
      <4>1. /\ transp \in Chamadas /\ xdr = "novo" /\ th[t].proc = transp.proc
        BY <3>1, Sozinha DEF Argumentado
      <4>2. th[t].proc # "INITW" /\ "erro" \in Argumentos
        BY <2>4 DEF GetArgs
      <4>3. transp.w \in Palavra /\ transp.w # Nulo /\ transp.w # "erro"
        BY <4>1, <4>2, ChamadaDef, PalavraDef
      <4> QED
        BY <4>1, <4>2, <4>3 DEF Argumentos
    <3>3. fora'
      BY <2>2, <3>2
    <3>4. rede' = rede \cup {Resposta(transp, SemServico)}
      BY <2>4 DEF GetArgs
    <3>5. Resposta(transp, SemServico).tipo = "resposta"
      BY DEF Resposta
    <3> QED
      BY <1>2, <2>1, <2>2, <3>3, <3>4, <3>5, PropriasPasso
  <2>5. CASE SendReply(t)
    <3>1. t \in Ativas /\ th[t].pc = "responde" /\ fora' = fora
      BY <2>5 DEF SendReply, Em, Ativas, dictVars
    <3>2. transp \in Chamadas /\ Propria(transp)
      BY <3>1, ChamadaDef DEF TypeOK, TalvezChamada, Proprias
    <3>3. PICK m : m = Resposta(transp, Servico(th[t]))
      OBVIOUS
    <3>4. rede' = rede \cup {m}
      BY <2>5, <3>3 DEF SendReply
    <3>5. /\ m.tipo = "resposta" /\ m.c = transp.c /\ m.xid = transp.xid
          /\ m.fez = Servico(th[t])
      BY <3>3 DEF Resposta
    <3>6. ~fora' => m.fez = Servico(transp) /\ m \in Respostas
      <4> SUFFICES ASSUME ~fora' PROVE m.fez = Servico(transp) /\ m \in Respostas
        OBVIOUS
      <4>1. ~fora
        BY <2>2
      <4>2. /\ th[t].proc = transp.proc /\ th[t].w = transp.w
            /\ th[t] \in Registros
        BY <3>1, <4>1, Sozinha DEF Argumentado
      <4> QED
        BY <3>2, <3>3, <3>5, <4>2, ChamadaType DEF Servico
    <3>7. ~fora' => Atendida(m)
      BY <3>2, <3>5, <3>6 DEF Atendida, Propria
    <3> QED
      BY <1>2, <2>1, <2>2, <3>4, <3>5, <3>6, <3>7, PropriasPasso
  <2> QED
    BY <1>6, <2>3, <2>4, <2>5 DEF ThreadNext, Switch, FreeArgs, InitW, Ins1, Ins2,
       Ins3, Ins4, Ins5, Laco, Compara, Del1, Del2, Del3, Del4, Local, Achou, NaoAchou
<1> QED
  BY <1>3, <1>4, <1>5, <1>6 DEF Next

\* AnswerIsOwn: until two calls have been served at a time, the answer that a
\* client accepts, by its number, comes from a thread that has run the
\* procedure of the very call it waits for, with the word of that call, even
\* if the call was sent several times, or others were given up before it and
\* are answered late: svc_getargs and the switch have found that call in the
\* transport, and svc_sendreply still finds it there.
THEOREM OwnAnswers == Spec => []AnswerIsOwn
<1>1. Proprias => AnswerIsOwn
  <2> SUFFICES ASSUME Proprias, NEW c \in Client, NEW m \in Aceitas(c), ~fora
               PROVE  m.fez = Servico(espera[c])
    BY DEF AnswerIsOwn
  <2>1. /\ m \in rede /\ m.tipo = "resposta" /\ m.c = c /\ m.xid = xid[c]
        /\ espera[c] # SemChamada
    BY DEF Aceitas, SemChamada
  <2>2. Atendida(m)
    BY <2>1 DEF Proprias
  <2> QED
    BY <2>1, <2>2 DEF Atendida
<1>2. Init => Proprias
  BY PropriasInit
<1>3. TypeOK /\ Serial /\ Proprias /\ [Next]_vars => Proprias'
  BY PropriasNext
<1> QED
  BY <1>1, <1>2, <1>3, DictTypeCorrect, SerialInvariant, PTL DEF Spec
-----------------------------------------------------------------------------
(***************************************************************************)
(* The abstract dictionary, step by step.                                  *)
(***************************************************************************)
Movimento == {"del3", "del4"}

\* Where the words are, when t is the only thread, before and after a step.
LEMMA LugaresPasso ==
  ASSUME NEW t \in Thread, Ativas \subseteq {t}, Ativas' \subseteq {t}, NEW w
  PROVE  /\ Lugares(w) = {k \in Indice : k < nwords /\ w =
              IF th[t].pc \in Movimento /\ th[t].i = k THEN dict[nwords] ELSE dict[k]}
         /\ Lugares(w)' = {k \in Indice : k < nwords' /\ w =
              IF th'[t].pc \in Movimento /\ th'[t].i = k THEN dict'[nwords']
                                                         ELSE dict'[k]}
<1>1. \A k : Movendo(k) <=> th[t].pc \in Movimento /\ th[t].i = k
  BY DEF Movendo, Movimento, Ativas
<1>2. \A k : Movendo(k)' <=> th'[t].pc \in Movimento /\ th'[t].i = k
  BY DEF Movendo, Movimento, Ativas
<1>3. Lugares(w) = {k \in Indice : k < nwords /\ w =
              IF th[t].pc \in Movimento /\ th[t].i = k THEN dict[nwords] ELSE dict[k]}
  BY <1>1 DEF Lugares, Lugar
<1>4. Lugares(w)' = {k \in Indice : k < nwords' /\ w =
              IF th'[t].pc \in Movimento /\ th'[t].i = k THEN dict'[nwords']
                                                         ELSE dict'[k]}
  BY <1>2 DEF Lugares, Lugar
<1> QED
  BY <1>3, <1>4

LEMMA ConteudoDef ==
  /\ Conteudo = [w \in Palavra |-> Cardinality(Lugares(w))]
  /\ Conteudo' = [w \in Palavra |-> Cardinality(Lugares(w)')]
<1>1. Conteudo = [w \in Palavra |-> Cardinality(Lugares(w))]
  BY DEF Conteudo, Lugares
<1>2. Conteudo' = [w \in Palavra |-> Cardinality(Lugares(w)')]
  BY DEF Conteudo, Lugares
<1> QED
  BY <1>1, <1>2

LEMMA ConteudoIgual ==
  ASSUME \A w \in Palavra : Lugares(w)' = Lugares(w)
  PROVE  Conteudo' = Conteudo
  BY ConteudoDef

\* The threads before and after a step of the only one.
LEMMA SoEla ==
  ASSUME TypeOK, Serial, ~fora, NEW t \in Ativas, NEW r, Muda(t, r)
  PROVE  t \in Thread /\ Ativas \subseteq {t} /\ Ativas' \subseteq {t} /\ th'[t] = r
<1>1. t \in Thread /\ Ativas = {t} /\ th \in [Thread -> Registros]
  BY Sozinha
<1>2. th'[t] = r /\ \A u \in Thread \ {t} : th'[u] = th[u] /\ th[u].pc = "livre"
  BY <1>1 DEF Muda, Ativas
<1> QED
  BY <1>1, <1>2 DEF Ativas

\* A step that neither begins nor ends the move of the last word.
LEMMA ConteudoEstavel ==
  ASSUME TypeOK, Serial, ~fora, NEW t \in Ativas, NEW r, Muda(t, r),
         dict' = dict, nwords' = nwords,
         \/ th[t].pc \notin Movimento /\ r.pc \notin Movimento
         \/ th[t].pc \in Movimento /\ r.pc \in Movimento /\ r.i = th[t].i
  PROVE  Conteudo' = Conteudo
<1>1. t \in Thread /\ Ativas \subseteq {t} /\ Ativas' \subseteq {t} /\ th'[t] = r
  BY SoEla
<1>2. ASSUME NEW w \in Palavra PROVE Lugares(w)' = Lugares(w)
  <2>1. Lugares(w) = {k \in Indice : k < nwords /\ w =
              IF th[t].pc \in Movimento /\ th[t].i = k THEN dict[nwords] ELSE dict[k]}
    BY <1>1, LugaresPasso
  <2>2. Lugares(w)' = {k \in Indice : k < nwords' /\ w =
              IF r.pc \in Movimento /\ r.i = k THEN dict'[nwords'] ELSE dict'[k]}
    BY <1>1, LugaresPasso
  <2> QED
    BY <2>1, <2>2
<1> QED
  BY <1>2, ConteudoIgual

\* initw empties the dictionary.
LEMMA EsvaziaPasso ==
  ASSUME TypeOK, Serial, ~fora, NEW t \in Thread, InitW(t)
  PROVE  Conteudo' = [w \in Palavra |-> 0]
<1>1. nwords' = 0
  BY DEF InitW
<1>2. \A k \in Indice : ~(k < nwords')
  BY <1>1, DictAssumption DEF Indice
<1>3. \A w \in Palavra : Lugares(w)' = {}
  BY <1>2 DEF Lugares
<1>4. \A w \in Palavra : Cardinality(Lugares(w)') = 0
  BY <1>3, FS_EmptySet
<1> QED
  BY <1>4, ConteudoDef

\* The word of insertw is copied behind the last one, where it is not seen, ...
LEMMA EscrevePasso ==
  ASSUME TypeOK, Serial, ~fora, ~fora', NEW t \in Thread, Ins2(t)
  PROVE  /\ Conteudo' = Conteudo /\ nwords' = nwords
         /\ Muda(t, [th[t] EXCEPT !.pc = "ins3"])
<1>1. t \in Ativas /\ th[t].pc = "ins2"
  BY DEF Ins2, Em, Ativas
<1>2. /\ th[t] \in Registros /\ nwords \in 0 .. DICTSIZ /\ Argumentado(th[t])
      /\ dict \in [Indice -> Conteudos] /\ transp \in Chamadas /\ th[t].n = nwords
  BY <1>1, Sozinha DEF Assercao
<1>3. th[t].w # Nulo
  <2>1. th[t].w = transp.w /\ transp.proc = "INSERTW"
    BY <1>1, <1>2 DEF Argumentado, Insercao
  <2> QED
    BY <1>2, <2>1, ChamadaDef, PalavraDef
<1>4. th[t].n \in Indice
  BY DEF Ins2
<1>5. PICK r : r = [th[t] EXCEPT !.pc = "ins3"]
  OBVIOUS
<1>6. r.pc = "ins3"
  BY <1>2, <1>5 DEF Registros
<1>7. /\ Muda(t, r) /\ nwords' = nwords
      /\ dict' = [dict EXCEPT ![nwords] = th[t].w]
  BY <1>2, <1>3, <1>4, <1>5 DEF Ins2, Copia
<1>8. t \in Thread /\ Ativas \subseteq {t} /\ Ativas' \subseteq {t} /\ th'[t] = r
  BY <1>1, <1>7, SoEla
<1>9. \A k \in Indice : k < nwords => dict'[k] = dict[k]
  BY <1>2, <1>7, DictAssumption DEF Indice
<1>10. ASSUME NEW w \in Palavra PROVE Lugares(w)' = Lugares(w)
  <2>1. Lugares(w) = {k \in Indice : k < nwords /\ w = dict[k]}
    BY <1>1, <1>8, LugaresPasso DEF Movimento
  <2>2. Lugares(w)' = {k \in Indice : k < nwords' /\ w = dict'[k]}
    BY <1>6, <1>8, LugaresPasso DEF Movimento
  <2> QED
    BY <1>7, <1>9, <2>1, <2>2
<1> QED
  BY <1>5, <1>7, <1>10, ConteudoIgual

\* ... and is inserted when nwords is incremented.
LEMMA InserePasso ==
  ASSUME TypeOK, Serial, ~fora, NEW t \in Thread, Ins4(t)
  PROVE  /\ nwords < DICTSIZ /\ nwords' = nwords + 1
         /\ Conteudo' = [Conteudo EXCEPT ![th[t].w] = @ + 1]
<1>1. t \in Ativas /\ th[t].pc = "ins4"
  BY DEF Ins4, Em, Ativas
<1>2. /\ th[t] \in Registros /\ Argumentado(th[t]) /\ transp \in Chamadas
      /\ th[t].n = nwords /\ nwords \in Indice /\ dict[nwords] = th[t].w
  BY <1>1, Sozinha DEF Assercao
<1>3. th[t].w \in Palavra
  <2>1. th[t].w = transp.w /\ transp.proc = "INSERTW"
    BY <1>1, <1>2 DEF Argumentado, Insercao
  <2> QED
    BY <1>2, <2>1, ChamadaDef
<1>4. PICK r : r = [th[t] EXCEPT !.pc = "ins5", !.n = 0]
  OBVIOUS
<1>5. r.pc = "ins5"
  BY <1>2, <1>4 DEF Registros
<1>6. Muda(t, r) /\ nwords' = nwords + 1 /\ dict' = dict
  BY <1>2, <1>4, SucessorDentro DEF Ins4, Local
<1>7. t \in Thread /\ Ativas \subseteq {t} /\ Ativas' \subseteq {t} /\ th'[t] = r
  BY <1>1, <1>6, SoEla
<1>8. \A k \in Indice : k < nwords' <=> k < nwords \/ k = nwords
  BY <1>2, <1>6, DictAssumption DEF Indice
<1>9. ~(nwords < nwords)
  BY <1>2, DictAssumption DEF Indice
<1>10. ASSUME NEW w \in Palavra
       PROVE  Cardinality(Lugares(w)') =
                IF w = th[t].w THEN Cardinality(Lugares(w)) + 1 ELSE Cardinality(Lugares(w))
  <2>1. Lugares(w) = {k \in Indice : k < nwords /\ w = dict[k]}
    BY <1>1, <1>7, LugaresPasso DEF Movimento
  <2>2. Lugares(w)' = {k \in Indice : k < nwords' /\ w = dict'[k]}
    BY <1>5, <1>7, LugaresPasso DEF Movimento
  <2>3. nwords \notin Lugares(w)
    BY <1>9, <2>1
  <2>4. Lugares(w)' = IF w = th[t].w THEN Lugares(w) \cup {nwords} ELSE Lugares(w)
    BY <1>2, <1>6, <1>8, <2>1, <2>2
  <2> QED
    BY <2>3, <2>4, LugaresFinito, FS_AddElement
<1>11. Conteudo' = [Conteudo EXCEPT ![th[t].w] = @ + 1]
  BY <1>3, <1>10, ConteudoDef
<1>12. nwords < DICTSIZ
  BY <1>2, DictAssumption DEF Indice
<1> QED
  BY <1>6, <1>11, <1>12

\* deletew takes the word out when nwords is decremented: from then on the
\* last word counts as being at the place of the deleted one, ...
LEMMA ApagaPasso ==
  ASSUME TypeOK, Serial, ~fora, NEW t \in Thread, Del2(t)
  PROVE  /\ Conteudo[th[t].w] > 0 /\ nwords' = nwords - 1
         /\ Conteudo' = [Conteudo EXCEPT ![th[t].w] = @ - 1]
<1>1. t \in Ativas /\ th[t].pc = "del2"
  BY DEF Del2, Em, Ativas
<1>2. /\ th[t] \in Registros /\ Argumentado(th[t]) /\ transp \in Chamadas
      /\ nwords \in 0 .. DICTSIZ
      /\ th[t].n = nwords /\ th[t].i \in Indice /\ th[t].i < nwords
      /\ dict[th[t].i] = th[t].w
  BY <1>1, Sozinha DEF Assercao
<1>3. th[t].w \in Palavra
  <2>1. th[t].w = transp.w /\ transp.proc = "DELETEW"
    BY <1>1, <1>2 DEF Argumentado, Remocao
  <2> QED
    BY <1>2, <2>1, ChamadaDef
<1>4. PICK r : r = [th[t] EXCEPT !.pc = "del3", !.n = 0]
  OBVIOUS
<1>5. r.pc = "del3" /\ r.i = th[t].i
  BY <1>2, <1>4 DEF Registros
<1>6. Muda(t, r) /\ nwords' = nwords - 1 /\ dict' = dict
  BY <1>2, <1>4, AntecessorDentro DEF Del2, Local
<1>7. t \in Thread /\ Ativas \subseteq {t} /\ Ativas' \subseteq {t} /\ th'[t] = r
  BY <1>1, <1>6, SoEla
<1> DEFINE i == th[t].i
           l == nwords - 1
<1>8. /\ l \in Indice /\ nwords' = l /\ i \in Indice /\ i <= l
      /\ l < nwords /\ ~(l < l)
      /\ \A k \in Indice : k < nwords <=> k < l \/ k = l
  BY <1>2, <1>6, DictAssumption DEF Indice
<1>9. i < l \/ i = l
  BY <1>8, DictAssumption DEF Indice
<1>10. ASSUME NEW w \in Palavra
       PROVE  Cardinality(Lugares(w)') =
                IF w = th[t].w THEN Cardinality(Lugares(w)) - 1 ELSE Cardinality(Lugares(w))
  <2>1. Lugares(w) = {k \in Indice : k < nwords /\ w = dict[k]}
    BY <1>1, <1>7, LugaresPasso DEF Movimento
  <2>2. Lugares(w)' = {k \in Indice : k < l /\ w = IF i = k THEN dict[l] ELSE dict[k]}
    BY <1>5, <1>6, <1>7, <1>8, LugaresPasso DEF Movimento
  <2>3. i \in Lugares(w) <=> w = th[t].w
    BY <1>2, <2>1
  <2>4. l \in Lugares(w) <=> w = dict[l]
    BY <1>8, <2>1
  <2> HIDE DEF i, l
  <2>5. Lugares(w)' = IF dict[l] = w THEN IF i = l THEN Lugares(w) \ {l}
                                          ELSE (Lugares(w) \ {l}) \cup {i}
                                     ELSE Lugares(w) \ {i}
    <3>1. CASE i = l
      BY <1>8, <2>1, <2>2, <3>1
    <3>2. CASE i < l
      BY <1>8, <2>1, <2>2, <3>2
    <3> QED
      BY <1>9, <3>1, <3>2
  <2>6. /\ IsFiniteSet(Lugares(w)) /\ Cardinality(Lugares(w)) \in Nat
        /\ IsFiniteSet(Lugares(w) \ {l}) /\ IsFiniteSet(Lugares(w) \ {i})
        /\ Cardinality(Lugares(w) \ {l}) =
             IF l \in Lugares(w) THEN Cardinality(Lugares(w)) - 1 ELSE Cardinality(Lugares(w))
        /\ Cardinality(Lugares(w) \ {i}) =
             IF i \in Lugares(w) THEN Cardinality(Lugares(w)) - 1 ELSE Cardinality(Lugares(w))
    BY LugaresFinito, FS_RemoveElement
  <2>7. CASE dict[l] # w
    BY <2>3, <2>5, <2>6, <2>7
  <2>8. CASE dict[l] = w /\ i = l
    BY <2>3, <2>4, <2>5, <2>6, <2>8
  <2>9. CASE dict[l] = w /\ i # l
    <3>1. Cardinality((Lugares(w) \ {l}) \cup {i}) =
            IF i \in Lugares(w) \ {l} THEN Cardinality(Lugares(w) \ {l})
                                      ELSE Cardinality(Lugares(w) \ {l}) + 1
      BY <2>6, FS_AddElement
    <3>2. Cardinality(Lugares(w) \ {l}) = Cardinality(Lugares(w)) - 1
      BY <2>4, <2>6, <2>9
    <3>3. i \in Lugares(w) \ {l} <=> w = th[t].w
      BY <2>3, <2>9
    <3>4. Lugares(w)' = (Lugares(w) \ {l}) \cup {i}
      BY <2>5, <2>9
    <3> QED
      BY <2>6, <3>1, <3>2, <3>3, <3>4
  <2> QED
    BY <2>7, <2>8, <2>9
<1>11. Conteudo' = [Conteudo EXCEPT ![th[t].w] = @ - 1]
  BY <1>3, <1>10, ConteudoDef
<1>12. Conteudo[th[t].w] > 0
  <2>1. i \in Lugares(th[t].w)
    BY <1>1, <1>2, <1>7, LugaresPasso DEF Movimento
  <2>2. Cardinality(Lugares(th[t].w)) > 0
    BY <2>1, LugaresFinito
  <2> QED
    BY <1>3, <2>2, ConteudoDef
<1> QED
  BY <1>6, <1>11, <1>12

\* ... where the copy then puts it.
LEMMA MovePasso ==
  ASSUME TypeOK, Serial, ~fora, NEW t \in Thread, Del4(t)
  PROVE  Conteudo' = Conteudo /\ nwords' = nwords /\ Muda(t, Apagou(t))
<1>1. t \in Ativas /\ th[t].pc = "del4"
  BY DEF Del4, Em, Ativas
<1>2. /\ th[t] \in Registros /\ dict \in [Indice -> Conteudos]
      /\ th[t].n = nwords /\ nwords \in Indice /\ th[t].i \in 0 .. nwords
  BY <1>1, Sozinha DEF Assercao
<1>3. PICK r : r = Apagou(t)
  OBVIOUS
<1>4. r.pc = "responde"
  BY <1>2, <1>3 DEF Registros, Apagou
<1>5. th[t].i \in Indice /\ dict[nwords] # Nulo
  <2>1. th[t].i \in Indice
    BY <1>2, DictAssumption DEF Indice
  <2>2. dict[nwords] \in Conteudos
    BY <1>2
  <2>3. \A w \in Conteudos : w # Nulo
    BY WordAssumption DEF Conteudos
  <2> QED
    BY <2>1, <2>2, <2>3
<1>6. Copia(t, th[t].i, dict[nwords], r)
  BY <1>2, <1>3 DEF Del4
<1>7. /\ Muda(t, r) /\ nwords' = nwords
      /\ dict' = [dict EXCEPT ![th[t].i] = dict[nwords]]
  BY <1>5, <1>6 DEF Copia
<1>8. t \in Thread /\ Ativas \subseteq {t} /\ Ativas' \subseteq {t} /\ th'[t] = r
  BY <1>1, <1>7, SoEla
<1>9. \A k \in Indice : dict'[k] = IF th[t].i = k THEN dict[nwords] ELSE dict[k]
  BY <1>2, <1>5, <1>7
<1>10. ASSUME NEW w \in Palavra PROVE Lugares(w)' = Lugares(w)
  <2>1. Lugares(w) = {k \in Indice : k < nwords /\ w =
                        IF th[t].i = k THEN dict[nwords] ELSE dict[k]}
    BY <1>1, <1>8, LugaresPasso DEF Movimento
  <2>2. Lugares(w)' = {k \in Indice : k < nwords' /\ w = dict'[k]}
    BY <1>4, <1>8, LugaresPasso DEF Movimento
  <2> QED
    BY <1>7, <1>9, <2>1, <2>2
<1> QED
  BY <1>3, <1>7, <1>10, ConteudoIgual

\* serv_request, and the steps of a procedure that only read dict.
LEMMA EfeitoNenhum ==
  ASSUME TypeOK, Serial, ~fora, ~fora', NEW t \in Thread,
         \/ Switch(t) \/ GetArgs(t) \/ SendReply(t) \/ FreeArgs(t)
         \/ Ins1(t) \/ Ins3(t) \/ Ins5(t) \/ Laco(t) \/ Del1(t) \/ Del3(t)
  PROVE  Conteudo' = Conteudo
<1>1. t \in Ativas /\ dict' = dict /\ nwords' = nwords
  BY DEF Switch, GetArgs, SendReply, FreeArgs, Ins1, Ins3, Ins5, Laco, Del1, Del3,
         Em, Ativas, Local, dictVars
<1>2. th[t] \in Registros
  BY <1>1, Sozinha
<1>3. CASE Del3(t)
  <2>1. PICK r : r = [th[t] EXCEPT !.pc = "del4", !.n = nwords]
    OBVIOUS
  <2>2. r.pc = "del4" /\ r.i = th[t].i
    BY <1>2, <2>1 DEF Registros
  <2>3. Muda(t, r) /\ th[t].pc = "del3"
    BY <1>3, <2>1 DEF Del3, Em, Local
  <2> QED
    BY <1>1, <2>2, <2>3, ConteudoEstavel DEF Movimento
<1>4. ASSUME NEW r, Muda(t, r), r.pc \notin Movimento, th[t].pc \notin Movimento
      PROVE  Conteudo' = Conteudo
  BY <1>1, <1>4, ConteudoEstavel
<1>5. CASE Switch(t) \/ GetArgs(t)
  <2>1. th[t].pc \notin Movimento
    BY <1>5 DEF Switch, GetArgs, Em, Movimento
  <2>2. PICK r : Muda(t, r) /\ r.pc \notin Movimento
    <3>1. CASE Switch(t)
      <4>1. [th[t] EXCEPT !.pc = "args", !.proc = transp.proc].pc \notin Movimento
        BY <1>2 DEF Registros, Movimento
      <4> QED
        BY <3>1, <4>1 DEF Switch
    <3>2. ASSUME NEW w,
                 Muda(t, [th[t] EXCEPT !.pc = IF th[t].proc = "INSERTW" THEN "ins1" ELSE "laco",
                                       !.w = w])
          PROVE  \E r : Muda(t, r) /\ r.pc \notin Movimento
      <4>1. [th[t] EXCEPT !.pc = IF th[t].proc = "INSERTW" THEN "ins1" ELSE "laco",
                          !.w = w].pc \notin Movimento
        BY <1>2 DEF Registros, Movimento
      <4> QED
        BY <3>2, <4>1
    <3>3. CASE Muda(t, [th[t] EXCEPT !.pc = "init"])
      <4>1. [th[t] EXCEPT !.pc = "init"].pc \notin Movimento
        BY <1>2 DEF Registros, Movimento
      <4> QED
        BY <3>3, <4>1
    <3>4. CASE Muda(t, Parada)
      <4>1. Parada.pc \notin Movimento
        BY DEF Parada, Movimento
      <4> QED
        BY <3>4, <4>1
    <3> QED
      BY <1>5, <3>1, <3>2, <3>3, <3>4 DEF GetArgs
  <2> QED
    BY <1>4, <2>1, <2>2
<1>6. CASE SendReply(t) \/ FreeArgs(t)
  <2>1. th[t].pc \notin Movimento
    BY <1>6 DEF SendReply, FreeArgs, Em, Movimento
  <2>2. \/ Muda(t, [Parada EXCEPT !.pc = "libera"])
        \/ Muda(t, Parada)
    BY <1>6 DEF SendReply, FreeArgs
  <2>3. /\ [Parada EXCEPT !.pc = "libera"].pc \notin Movimento
        /\ Parada.pc \notin Movimento
    BY DEF Parada, Movimento
  <2> QED
    BY <1>4, <2>1, <2>2, <2>3
<1>7. CASE Ins1(t) \/ Ins3(t) \/ Ins5(t) \/ Laco(t) \/ Del1(t)
  <2>1. th[t].pc \notin Movimento
    BY <1>7 DEF Ins1, Ins3, Ins5, Laco, Del1, Em, Movimento
  <2>2. PICK l \in {"ins2", "ins4", "responde", "cmp", "del2"} :
          \/ Muda(t, [th[t] EXCEPT !.pc = l, !.n = nwords])
          \/ Muda(t, [th[t] EXCEPT !.pc = l, !.res = nwords])
          \/ Muda(t, [th[t] EXCEPT !.pc = l])
          \/ Muda(t, [th[t] EXCEPT !.pc = l, !.i = 0])
    BY <1>7 DEF Ins1, Ins3, Ins5, Laco, Del1, Local
  <2>3. /\ [th[t] EXCEPT !.pc = l, !.n = nwords].pc \notin Movimento
        /\ [th[t] EXCEPT !.pc = l, !.res = nwords].pc \notin Movimento
        /\ [th[t] EXCEPT !.pc = l].pc \notin Movimento
        /\ [th[t] EXCEPT !.pc = l, !.i = 0].pc \notin Movimento
    BY <1>2 DEF Registros, Movimento
  <2> QED
    BY <1>4, <2>1, <2>2, <2>3
<1> QED
  BY <1>3, <1>5, <1>6, <1>7

\* The comparison, which does not crash.
LEMMA EfeitoCompara ==
  ASSUME TypeOK, Serial, Serial', ~fora, ~fora', NEW t \in Thread, Compara(t)
  PROVE  Conteudo' = Conteudo
<1>1. t \in Ativas /\ th[t].pc = "cmp" /\ nwords' = nwords
  BY DEF Compara, Em, Ativas
<1>2. th[t] \in Registros /\ servidor' = "ativo"
  BY <1>1, Sozinha DEF Serial
<1>3. dict' = dict /\ (Achou(t) \/ NaoAchou(t))
  BY <1>2 DEF Compara, Cai, Achou, NaoAchou, Local
<1>4. PICK r : Muda(t, r) /\ r.pc \notin Movimento
  <2>1. /\ [th[t] EXCEPT !.pc = "responde", !.i = 0, !.res = 1].pc \notin Movimento
        /\ [th[t] EXCEPT !.pc = "del1"].pc \notin Movimento
        /\ [th[t] EXCEPT !.pc = "laco", !.i = @ + 1].pc \notin Movimento
    BY <1>2 DEF Registros, Movimento
  <2>2. \/ Muda(t, [th[t] EXCEPT !.pc = "responde", !.i = 0, !.res = 1])
        \/ Muda(t, [th[t] EXCEPT !.pc = "del1"])
        \/ Muda(t, [th[t] EXCEPT !.pc = "laco", !.i = @ + 1])
    BY <1>3 DEF Achou, NaoAchou, Local
  <2> QED
    BY <2>1, <2>2
<1> QED
  BY <1>1, <1>3, <1>4, ConteudoEstavel DEF Movimento

\* The clients, and the main thread, when no other runs.
LEMMA EfeitoFora ==
  ASSUME TypeOK, dict' = dict, nwords' = nwords,
         \/ th' = th
         \/ (\E m \in rede : Receive(m)) /\ ~fora'
  PROVE  Conteudo' = Conteudo
<1>1. \A k : Movendo(k)' = Movendo(k)
  <2>1. CASE th' = th
    BY <2>1 DEF Movendo
  <2>2. ASSUME NEW m \in rede, Receive(m), ~fora' PROVE \A k : Movendo(k)' = Movendo(k)
    <3>1. Ativas = {} /\ th \in [Thread -> Registros]
      BY <2>2 DEF Receive, TypeOK
    <3>2. \A t \in Thread : th[t].pc = "livre"
      BY <3>1 DEF Ativas
    <3>3. PICK u, r : r.pc = "switch" /\ (th' = th \/ th' = [th EXCEPT ![u] = r])
      <4>1. [Parada EXCEPT !.pc = "switch"].pc = "switch"
        BY ParadaMuda
      <4>2. \E u : th' = th \/ th' = [th EXCEPT ![u] = [Parada EXCEPT !.pc = "switch"]]
        BY <2>2 DEF Receive, Muda
      <4> QED
        BY <4>1, <4>2
    <3>4. \A t \in Thread : th'[t].pc \in {"livre", "switch"}
      BY <3>1, <3>2, <3>3
    <3> QED
      BY <3>2, <3>4 DEF Movendo
  <2> QED
    BY <2>1, <2>2
<1>2. \A k \in Indice : Lugar(k)' = Lugar(k)
  BY <1>1 DEF Lugar
<1>3. \A w \in Palavra : Lugares(w)' = Lugares(w)
  BY <1>2 DEF Lugares
<1> QED
  BY <1>3, ConteudoIgual

\* The contract is left once and for all.
LEMMA ForaFica == ASSUME fora, [Next]_vars PROVE fora'
<1>1. CASE fora' = fora
  BY <1>1, Zenon
<1>2. ASSUME NEW m, Receive(m) PROVE fora'
  BY <1>2, Zenon DEF Receive
<1>3. ASSUME NEW t, Ins2(t) PROVE fora'
  BY <1>3, Zenon DEF Ins2
<1> QED
  BY <1>1, <1>2, <1>3 DEF Next, ClientNext, CallAny, Call, Resend, Return, GiveUp,
     ThreadNext, Switch, GetArgs, SendReply, FreeArgs, InitW, Ins1, Ins3, Ins4, Ins5,
     Laco, Compara, Del1, Del2, Del3, Del4, Local, Achou, NaoAchou, dictVars, vars

-----------------------------------------------------------------------------
(***************************************************************************)
(* The steps, seen from Dicionario, without the cases in which the         *)
(* contract has been left.                                                 *)
(***************************************************************************)
Chamado == IF Servindo = {} THEN SemServico ELSE Servico(transp)
Aberto == INSTANCE Dicionario WITH
  Capacidade <- DICTSIZ, conteudo <- Conteudo, quantas <- nwords,
  chamada <- Chamado, resultado <- Resultados

LEMMA AbertoDentro ==
  ASSUME ~fora, ~fora', fora' = fora, [Aberto!Next]_(Aberto!dicVars)
  PROVE  [Abstrato!Next]_(Abstrato!dicVars)
<1> DEFINE C == IF fora THEN [w \in Palavra |-> 0] ELSE Conteudo
           Q == IF fora THEN 0 ELSE nwords
           H == IF fora \/ Servindo = {} THEN SemServico ELSE Servico(transp)
           R == IF fora THEN {} ELSE Resultados
<1>1. C = Conteudo /\ Q = nwords /\ H = Chamado /\ R = Resultados
  BY DEF Chamado
<1>2. C' = Conteudo' /\ Q' = nwords' /\ H' = Chamado' /\ R' = Resultados'
  BY DEF Chamado
<1> HIDE DEF C, Q, H, R
<1>3. CASE UNCHANGED Aberto!dicVars
  <2>1. C' = C /\ Q' = Q /\ H' = H /\ R' = R
    BY <1>1, <1>2, <1>3 DEF Aberto!dicVars
  <2> QED
    BY <2>1 DEF C, Q, H, R, Abstrato!dicVars
<1>4. ASSUME NEW p, NEW w, Aberto!Recebe(p, w)
      PROVE  Abstrato!Recebe(p, w)
  <2>1. /\ H = Abstrato!Nenhuma /\ H' = [proc |-> p, w |-> w]
        /\ C' = C /\ Q' = Q /\ R' = R
    BY <1>1, <1>2, <1>4 DEF Aberto!Recebe, Aberto!Nenhuma, Abstrato!Nenhuma
  <2> QED
    BY <2>1 DEF C, Q, H, R, Abstrato!Recebe
<1>5. ASSUME NEW p, NEW r, Aberto!Efetua(p, r)
      PROVE  Abstrato!Efetua(p, r)
  <2>1. H.proc = p /\ R = {} /\ R' = {r} /\ H' = H
    BY <1>1, <1>2, <1>5 DEF Aberto!Efetua
  <2> QED
    BY <2>1 DEF H, R, Abstrato!Efetua
<1>6. CASE Aberto!RecebeAlguma
  BY <1>4, <1>6 DEF Aberto!RecebeAlguma, Abstrato!RecebeAlguma, Abstrato!Next, Abstrato!Dentro
<1>7. CASE Aberto!Inicia
  <2>1. Abstrato!Efetua("INITW", 1) /\ C' = [w \in Palavra |-> 0] /\ Q' = 0
    BY <1>2, <1>5, <1>7 DEF Aberto!Inicia, Aberto!Vazio
  <2>2. Abstrato!Inicia
    BY <2>1 DEF C, Q, Abstrato!Inicia, Abstrato!Vazio
  <2> QED
    BY <2>2 DEF Abstrato!Next, Abstrato!Dentro
<1>8. CASE Aberto!Insere
  <2>1. /\ Abstrato!Efetua("INSERTW", Q + 1) /\ Q < DICTSIZ
        /\ C' = [C EXCEPT ![H.w] = @ + 1] /\ Q' = Q + 1
    BY <1>1, <1>2, <1>5, <1>8 DEF Aberto!Insere
  <2>2. Abstrato!Insere
    BY <2>1 DEF C, Q, H, Abstrato!Insere
  <2> QED
    BY <2>2 DEF Abstrato!Next, Abstrato!Dentro
<1>9. CASE Aberto!Apaga
  <2>1. /\ Abstrato!Efetua("DELETEW", 1) /\ C[H.w] > 0
        /\ C' = [C EXCEPT ![H.w] = @ - 1] /\ Q' = Q - 1
    BY <1>1, <1>2, <1>5, <1>9 DEF Aberto!Apaga
  <2>2. Abstrato!Apaga
    BY <2>1 DEF C, Q, H, Abstrato!Apaga
  <2> QED
    BY <2>2 DEF Abstrato!Next, Abstrato!Dentro
<1>10. CASE Aberto!NaoApaga
  <2>1. Abstrato!Efetua("DELETEW", 0) /\ C[H.w] = 0 /\ C' = C /\ Q' = Q
    BY <1>1, <1>2, <1>5, <1>10 DEF Aberto!NaoApaga
  <2>2. Abstrato!NaoApaga
    BY <2>1 DEF C, Q, H, Abstrato!NaoApaga
  <2> QED
    BY <2>2 DEF Abstrato!Next, Abstrato!Dentro
<1>11. CASE Aberto!Procura
  <2>1. /\ C' = C /\ Q' = Q
        /\ \/ Abstrato!Efetua("LOOKUPW", 1) /\ C[H.w] > 0
           \/ Abstrato!Efetua("LOOKUPW", 0) /\ C[H.w] = 0
    BY <1>1, <1>2, <1>5, <1>11 DEF Aberto!Procura
  <2>2. Abstrato!Procura
    BY <2>1 DEF C, Q, H, Abstrato!Procura
  <2> QED
    BY <2>2 DEF Abstrato!Next, Abstrato!Dentro
<1>12. CASE Aberto!Responde
  <2>1. /\ R # {} /\ R' = {} /\ H' = Abstrato!Nenhuma /\ C' = C /\ Q' = Q
    BY <1>1, <1>2, <1>12 DEF Aberto!Responde, Aberto!Nenhuma, Abstrato!Nenhuma
  <2>2. Abstrato!Responde
    BY <2>1 DEF C, Q, H, R, Abstrato!Responde
  <2> QED
    BY <2>2 DEF Abstrato!Next, Abstrato!Dentro
<1> QED
  BY <1>3, <1>6, <1>7, <1>8, <1>9, <1>10, <1>11, <1>12
     DEF Aberto!Next, Aberto!Dentro, Aberto!Sair, Aberto!Fora

\* What the only thread shows, before and after its step: the call as long as
\* it serves it, and a result as soon as the call has had its effect.
ComEfeito == {"ins5", "del3", "del4", "responde"}

LEMMA Visto ==
  ASSUME NEW t \in Thread, Ativas = {t}
  PROVE  /\ Chamado = IF th[t].pc = "libera" THEN SemServico ELSE Servico(transp)
         /\ th[t].pc \notin ComEfeito => Resultados = {}
         /\ th[t].pc = "ins5" => Resultados = {nwords}
         /\ th[t].pc \in Movimento => Resultados = {1}
         /\ th[t].pc = "responde" => Resultados = {th[t].res}
<1>1. Servindo = IF th[t].pc = "libera" THEN {} ELSE {t}
  BY DEF Ativas, Servindo
<1>2. Resultados = IF th[t].pc \in ComEfeito THEN {Resultado(th[t])} ELSE {}
  BY <1>1 DEF Resultados, Efetuado, ComEfeito
<1>3. Chamado = IF th[t].pc = "libera" THEN SemServico ELSE Servico(transp)
  BY <1>1 DEF Chamado
<1>4. /\ th[t].pc = "ins5" => Resultado(th[t]) = nwords
      /\ th[t].pc \in Movimento => Resultado(th[t]) = 1
      /\ th[t].pc = "responde" => Resultado(th[t]) = th[t].res
  BY DEF Resultado, Movimento
<1> QED
  BY <1>2, <1>3, <1>4 DEF ComEfeito, Movimento

LEMMA VistoDepois ==
  ASSUME NEW t \in Thread, Ativas' \subseteq {t}
  PROVE  /\ Chamado' = IF th'[t].pc \in {"livre", "libera"} THEN SemServico
                                                            ELSE Servico(transp)'
         /\ th'[t].pc \notin ComEfeito => Resultados' = {}
         /\ th'[t].pc = "ins5" => Resultados' = {nwords'}
         /\ th'[t].pc \in Movimento => Resultados' = {1}
         /\ th'[t].pc = "responde" => Resultados' = {th'[t].res}
<1>1. Servindo' = IF th'[t].pc \in {"livre", "libera"} THEN {} ELSE {t}
  BY DEF Ativas, Servindo
<1>2. Resultados' = IF th'[t].pc \in ComEfeito THEN {Resultado(th[t])'} ELSE {}
  BY <1>1 DEF Resultados, Efetuado, ComEfeito
<1>3. Chamado' = IF th'[t].pc \in {"livre", "libera"} THEN SemServico ELSE Servico(transp)'
  BY <1>1 DEF Chamado
<1>4. /\ th'[t].pc = "ins5" => Resultado(th[t])' = nwords'
      /\ th'[t].pc \in Movimento => Resultado(th[t])' = 1
      /\ th'[t].pc = "responde" => Resultado(th[t])' = th'[t].res
  BY DEF Resultado, Movimento
<1> QED
  BY <1>2, <1>3, <1>4 DEF ComEfeito, Movimento

\* A step that leaves what is seen as it is, ...
LEMMA PassoParado ==
  ASSUME TypeOK, Serial, ~fora, fora' = fora, NEW t \in Ativas, NEW r, Muda(t, r),
         transp' = transp, nwords' = nwords, Conteudo' = Conteudo,
         \/ /\ th[t].pc \notin ComEfeito /\ r.pc \notin ComEfeito
            /\ th[t].pc = "libera" <=> r.pc \in {"livre", "libera"}
         \/ th[t].pc = "ins5" /\ r.pc = "responde" /\ r.res = nwords
         \/ th[t].pc = "del3" /\ r.pc = "del4"
         \/ th[t].pc = "del4" /\ r.pc = "responde" /\ r.res = 1
  PROVE  UNCHANGED Aberto!dicVars
<1>1. t \in Thread /\ Ativas = {t} /\ Ativas' \subseteq {t} /\ th'[t] = r
  BY Sozinha, SoEla
<1>2. Servico(transp)' = Servico(transp)
  BY DEF Servico
<1>3. Chamado' = Chamado
  BY <1>1, <1>2, Visto, VistoDepois DEF ComEfeito
<1>4. Resultados' = Resultados
  BY <1>1, Visto, VistoDepois DEF ComEfeito, Movimento
<1> QED
  BY <1>3, <1>4 DEF Aberto!dicVars

\* ... and one in which the call has its effect.
LEMMA PassoEfeito ==
  ASSUME TypeOK, Serial, ~fora, fora' = fora, NEW t \in Ativas, NEW r, Muda(t, r),
         transp' = transp,
         th[t].pc \in {"init", "ins4", "laco", "cmp", "del2"}, r.pc \in ComEfeito,
         NEW x, r.pc = "ins5" => x = nwords', r.pc \in Movimento => x = 1,
         r.pc = "responde" => x = r.res
  PROVE  /\ Aberto!Efetua(th[t].proc, x)
         /\ Chamado.w = th[t].w
<1>1. t \in Thread /\ Ativas = {t} /\ Ativas' \subseteq {t} /\ th'[t] = r
      /\ Argumentado(th[t])
  BY Sozinha, SoEla
<1>2. Chamado = Servico(transp) /\ Resultados = {}
  BY <1>1, Visto DEF ComEfeito
<1>3. Servico(transp)' = Servico(transp)
  BY DEF Servico
<1>4. Chamado' = Chamado /\ Resultados' = {x}
  BY <1>1, <1>2, <1>3, VistoDepois DEF ComEfeito, Movimento
<1>5. th[t].proc = transp.proc /\ th[t].w = transp.w
  BY <1>1 DEF Argumentado, Insercao, Busca, Remocao
<1>6. Chamado.proc = th[t].proc /\ Chamado.w = th[t].w
  BY <1>2, <1>5 DEF Servico
<1> QED
  BY <1>2, <1>4, <1>6 DEF Aberto!Efetua

\* serv_request.
LEMMA VistaServ ==
  ASSUME TypeOK, Serial, ~fora, ~fora', fora' = fora, NEW t \in Thread,
         Switch(t) \/ GetArgs(t) \/ SendReply(t) \/ FreeArgs(t)
  PROVE  [Aberto!Next]_(Aberto!dicVars)
<1>1. t \in Ativas /\ transp' = transp /\ nwords' = nwords
  BY DEF Switch, GetArgs, SendReply, FreeArgs, Em, Ativas, transpVars, dictVars
<1>2. Conteudo' = Conteudo
  BY EfeitoNenhum
<1>3. th[t] \in Registros /\ Argumentado(th[t]) /\ transp \in Chamadas
  BY <1>1, Sozinha
<1>4. CASE Switch(t)
  <2>1. PICK r : r = [th[t] EXCEPT !.pc = "args", !.proc = transp.proc]
    OBVIOUS
  <2>2. r.pc = "args" /\ Muda(t, r) /\ th[t].pc = "switch"
    BY <1>3, <1>4, <2>1 DEF Registros, Switch, Em
  <2> QED
    BY <1>1, <1>2, <2>2, PassoParado DEF ComEfeito
<1>5. CASE GetArgs(t)
  <2>1. th[t].pc = "args" /\ th[t].proc = transp.proc /\ xdr = "novo"
    BY <1>3, <1>5 DEF GetArgs, Em, Argumentado
  <2>2. th[t].proc = "INITW" \/ "erro" \notin Argumentos
    <3>1. transp.proc # "INITW" => transp.w # Nulo /\ transp.w # "erro"
      BY <1>3, ChamadaDef, PalavraDef
    <3> QED
      BY <2>1, <3>1 DEF Argumentos
  <2>3. PICK r : Muda(t, r) /\ r.pc \in {"init", "ins1", "laco"}
    <3>1. CASE Muda(t, [th[t] EXCEPT !.pc = "init"])
      <4>1. [th[t] EXCEPT !.pc = "init"].pc = "init"
        BY <1>3 DEF Registros
      <4> QED
        BY <3>1, <4>1
    <3>2. ASSUME NEW w,
                 Muda(t, [th[t] EXCEPT !.pc = IF th[t].proc = "INSERTW" THEN "ins1" ELSE "laco",
                                       !.w = w])
          PROVE  \E r : Muda(t, r) /\ r.pc \in {"init", "ins1", "laco"}
      <4>1. PICK r : r = [th[t] EXCEPT !.pc = IF th[t].proc = "INSERTW" THEN "ins1"
                                                                     ELSE "laco",
                                       !.w = w]
        OBVIOUS
      <4>2. r.pc \in {"ins1", "laco"}
        BY <1>3, <4>1 DEF Registros
      <4>3. Muda(t, r)
        BY <3>2, <4>1
      <4> QED
        BY <4>2, <4>3
    <3> QED
      BY <1>5, <2>2, <3>1, <3>2 DEF GetArgs
  <2> QED
    BY <1>1, <1>2, <2>1, <2>3, PassoParado DEF ComEfeito
<1>6. CASE SendReply(t)
  <2>1. PICK r : r = [Parada EXCEPT !.pc = "libera"]
    OBVIOUS
  <2>2. r.pc = "libera" /\ Muda(t, r) /\ th[t].pc = "responde"
    BY <1>6, <2>1, ParadaMuda DEF SendReply, Em
  <2>3. t \in Thread /\ Ativas = {t} /\ Ativas' \subseteq {t} /\ th'[t] = r
    BY <1>1, <2>2, Sozinha, SoEla
  <2>4. Resultados # {} /\ Resultados' = {} /\ Chamado' = SemServico
    BY <2>2, <2>3, Visto, VistoDepois DEF ComEfeito
  <2>5. Aberto!Responde
    BY <1>1, <1>2, <2>4 DEF Aberto!Responde, Aberto!Nenhuma, SemServico
  <2> QED
    BY <2>5 DEF Aberto!Next, Aberto!Dentro
<1>7. CASE FreeArgs(t)
  <2>1. Parada.pc = "livre" /\ Muda(t, Parada) /\ th[t].pc = "libera"
    BY <1>7 DEF FreeArgs, Em, Parada
  <2> QED
    BY <1>1, <1>2, <2>1, PassoParado DEF ComEfeito
<1> QED
  BY <1>4, <1>5, <1>6, <1>7

\* insertw and initw.
LEMMA VistaInsere ==
  ASSUME TypeOK, Serial, ~fora, ~fora', fora' = fora, NEW t \in Thread,
         InitW(t) \/ Ins1(t) \/ Ins2(t) \/ Ins3(t) \/ Ins4(t) \/ Ins5(t)
  PROVE  [Aberto!Next]_(Aberto!dicVars)
<1>1. t \in Ativas /\ transp' = transp
  BY DEF InitW, Ins1, Ins2, Ins3, Ins4, Ins5, Em, Ativas, Local, transpVars
<1>2. th[t] \in Registros /\ Argumentado(th[t]) /\ Assercao(th[t])
  BY <1>1, Sozinha
<1>3. CASE InitW(t)
  <2>1. PICK r : r = [th[t] EXCEPT !.pc = "responde", !.res = 1]
    OBVIOUS
  <2>2. r.pc = "responde" /\ r.res = 1
    BY <1>2, <2>1 DEF Registros
  <2>3. /\ Muda(t, r) /\ th[t].pc = "init" /\ nwords' = 0 /\ th[t].proc = "INITW"
    BY <1>2, <1>3, <2>1 DEF InitW, Em, Local, Argumentado
  <2>4. Aberto!Efetua("INITW", 1)
    BY <1>1, <2>2, <2>3, PassoEfeito DEF ComEfeito, Movimento
  <2>5. Aberto!Inicia
    BY <1>3, <2>3, <2>4, EsvaziaPasso DEF Aberto!Inicia, Aberto!Vazio
  <2> QED
    BY <2>5 DEF Aberto!Next, Aberto!Dentro
<1>4. CASE Ins1(t) \/ Ins3(t)
  <2>1. Conteudo' = Conteudo /\ nwords' = nwords
    BY <1>4, EfeitoNenhum DEF Ins1, Ins3
  <2>2. PICK r : Muda(t, r) /\ r.pc \in {"ins2", "ins4"}
    <3>1. /\ [th[t] EXCEPT !.pc = "ins2", !.n = nwords].pc = "ins2"
          /\ [th[t] EXCEPT !.pc = "ins4", !.n = nwords].pc = "ins4"
      BY <1>2 DEF Registros
    <3> QED
      BY <1>4, <3>1 DEF Ins1, Ins3, Local
  <2>3. th[t].pc \in {"ins1", "ins3"}
    BY <1>4 DEF Ins1, Ins3, Em
  <2> QED
    BY <1>1, <2>1, <2>2, <2>3, PassoParado DEF ComEfeito
<1>5. CASE Ins2(t)
  <2>1. PICK r : r = [th[t] EXCEPT !.pc = "ins3"]
    OBVIOUS
  <2>2. r.pc = "ins3" /\ th[t].pc = "ins2"
    BY <1>2, <1>5, <2>1 DEF Registros, Ins2, Em
  <2>3. Conteudo' = Conteudo /\ nwords' = nwords /\ Muda(t, r)
    BY <1>5, <2>1, EscrevePasso
  <2> QED
    BY <1>1, <2>2, <2>3, PassoParado DEF ComEfeito
<1>6. CASE Ins4(t)
  <2>1. PICK r : r = [th[t] EXCEPT !.pc = "ins5", !.n = 0]
    OBVIOUS
  <2>2. r.pc = "ins5"
    BY <1>2, <2>1 DEF Registros
  <2>3. Muda(t, r) /\ th[t].pc = "ins4" /\ th[t].proc = "INSERTW"
    BY <1>2, <1>6, <2>1 DEF Ins4, Em, Local, Argumentado, Insercao
  <2>4. /\ nwords < DICTSIZ /\ nwords' = nwords + 1
        /\ Conteudo' = [Conteudo EXCEPT ![th[t].w] = @ + 1]
    BY <1>6, InserePasso
  <2>5. PICK x : x = nwords + 1
    OBVIOUS
  <2>6. Aberto!Efetua("INSERTW", x) /\ Chamado.w = th[t].w
    BY <1>1, <2>2, <2>3, <2>4, <2>5, PassoEfeito DEF ComEfeito, Movimento
  <2>7. Aberto!Insere
    BY <2>4, <2>5, <2>6 DEF Aberto!Insere
  <2> QED
    BY <2>7 DEF Aberto!Next, Aberto!Dentro
<1>7. CASE Ins5(t)
  <2>1. PICK r : r = [th[t] EXCEPT !.pc = "responde", !.res = nwords]
    OBVIOUS
  <2>2. r.pc = "responde" /\ r.res = nwords
    BY <1>2, <2>1 DEF Registros
  <2>3. Muda(t, r) /\ th[t].pc = "ins5" /\ nwords' = nwords
    BY <1>7, <2>1 DEF Ins5, Em, Local
  <2>4. Conteudo' = Conteudo
    BY <1>7, EfeitoNenhum
  <2> QED
    BY <1>1, <2>2, <2>3, <2>4, PassoParado
<1> QED
  BY <1>3, <1>4, <1>5, <1>6, <1>7

\* The scan, which ends with the effect of a call that changes nothing.
LEMMA VistaBusca ==
  ASSUME TypeOK, Serial, Serial', ~fora, ~fora', fora' = fora, NEW t \in Thread,
         Laco(t) \/ Compara(t)
  PROVE  [Aberto!Next]_(Aberto!dicVars)
<1>1. t \in Ativas /\ nwords' = nwords /\ th[t].pc \in Busca
  BY DEF Laco, Compara, Em, Ativas, Busca
<1>2. /\ th[t] \in Registros /\ transp \in Chamadas /\ nwords \in 0 .. DICTSIZ
      /\ Ativas = {t} /\ Argumentado(th[t]) /\ Assercao(th[t])
  BY <1>1, Sozinha
<1>3. Conteudo' = Conteudo
  BY EfeitoNenhum, EfeitoCompara
<1>4. /\ th[t].proc \in {"LOOKUPW", "DELETEW"} /\ th[t].w \in Palavra
      /\ th[t].res = 0 /\ th[t].i \in 0 .. nwords
      /\ \A k \in Indice : k < th[t].i => dict[k] # th[t].w
  BY <1>1, <1>2, ChamadaDef DEF Argumentado, Assercao, Busca
<1>5. /\ Conteudo[th[t].w] > 0 <=> Presente(th[t].w)
      /\ Conteudo[th[t].w] \in Nat
  <2>1. \A u \in Thread : th[u].pc \notin {"del3", "del4"}
    BY <1>1, <1>2 DEF Ativas, Busca
  <2>2. Conteudo[th[t].w] = Cardinality(Lugares(th[t].w))
    BY <1>4, ConteudoDef
  <2> QED
    BY <1>4, <2>1, <2>2, ConteudoPresente, LugaresFinito
<1>6. CASE Laco(t)
  <2>1. th[t].pc = "laco" /\ transp' = transp
    BY <1>6 DEF Laco, Em, Local, transpVars
  <2>2. CASE th[t].i < nwords
    <3>1. PICK r : r = [th[t] EXCEPT !.pc = "cmp"]
      OBVIOUS
    <3>2. r.pc = "cmp" /\ Muda(t, r)
      BY <1>2, <1>6, <2>2, <3>1 DEF Registros, Laco, Local
    <3> QED
      BY <1>1, <1>3, <2>1, <3>2, PassoParado DEF ComEfeito
  <2>3. CASE ~(th[t].i < nwords)
    <3>1. PICK r : r = [th[t] EXCEPT !.pc = "responde", !.i = 0]
      OBVIOUS
    <3>2. r.pc = "responde" /\ r.res = 0
      BY <1>2, <1>4, <3>1 DEF Registros
    <3>3. Muda(t, r)
      BY <1>6, <2>3, <3>1 DEF Laco, Local
    <3>4. Aberto!Efetua(th[t].proc, 0) /\ Chamado.w = th[t].w
      BY <1>1, <2>1, <3>2, <3>3, PassoEfeito DEF ComEfeito, Movimento
    <3>5. th[t].i = nwords
      BY <1>2, <1>4, <2>3
    <3>6. Conteudo[th[t].w] = 0
      <4>1. ~Presente(th[t].w)
        BY <1>4, <3>5 DEF Presente
      <4> QED
        BY <1>5, <4>1
    <3>7. Aberto!NaoApaga \/ Aberto!Procura
      BY <1>1, <1>3, <1>4, <3>4, <3>6 DEF Aberto!NaoApaga, Aberto!Procura
    <3> QED
      BY <3>7 DEF Aberto!Next, Aberto!Dentro
  <2> QED
    BY <2>2, <2>3
<1>7. CASE Compara(t)
  <2>1. /\ th[t].pc = "cmp" /\ th[t].i < nwords
    BY <1>2, <1>7 DEF Compara, Em, Assercao
  <2>2. th[t].i \in Indice
    BY <1>2, <1>4, <2>1, DictAssumption DEF Indice
  <2>3. CASE Achou(t) /\ dict[th[t].i] = th[t].w
    <3>1. transp' = transp
      BY <2>3 DEF Achou, Local, transpVars
    <3>2. CASE th[t].proc = "LOOKUPW"
      <4>1. PICK r : r = [th[t] EXCEPT !.pc = "responde", !.i = 0, !.res = 1]
        OBVIOUS
      <4>2. r.pc = "responde" /\ r.res = 1
        BY <1>2, <4>1 DEF Registros
      <4>3. Muda(t, r)
        BY <2>3, <3>2, <4>1 DEF Achou, Local
      <4>4. Aberto!Efetua("LOOKUPW", 1) /\ Chamado.w = th[t].w
        BY <1>1, <2>1, <3>1, <3>2, <4>2, <4>3, PassoEfeito DEF ComEfeito, Movimento
      <4>5. Presente(th[t].w)
        BY <2>1, <2>2, <2>3 DEF Presente
      <4>6. Aberto!Procura
        BY <1>1, <1>3, <1>5, <4>4, <4>5 DEF Aberto!Procura
      <4> QED
        BY <4>6 DEF Aberto!Next, Aberto!Dentro
    <3>3. CASE th[t].proc # "LOOKUPW"
      <4>1. PICK r : r = [th[t] EXCEPT !.pc = "del1"]
        OBVIOUS
      <4>2. r.pc = "del1" /\ Muda(t, r)
        BY <1>2, <2>3, <3>3, <4>1 DEF Registros, Achou, Local
      <4> QED
        BY <1>1, <1>3, <2>1, <3>1, <4>2, PassoParado DEF ComEfeito
    <3> QED
      BY <3>2, <3>3
  <2>4. CASE NaoAchou(t)
    <3>1. PICK r : r = [th[t] EXCEPT !.pc = "laco", !.i = th[t].i + 1]
      OBVIOUS
    <3>2. r.pc = "laco" /\ Muda(t, r) /\ transp' = transp
      BY <1>2, <2>4, <3>1 DEF Registros, NaoAchou, Local, transpVars
    <3> QED
      BY <1>1, <1>3, <2>1, <3>2, PassoParado DEF ComEfeito
  <2>5. servidor' = "ativo"
    BY DEF Serial
  <2> QED
    BY <1>7, <2>2, <2>3, <2>4, <2>5 DEF Compara, Cai
<1> QED
  BY <1>6, <1>7

\* The deletion.
LEMMA VistaRemove ==
  ASSUME TypeOK, Serial, ~fora, ~fora', fora' = fora, NEW t \in Thread,
         Del1(t) \/ Del2(t) \/ Del3(t) \/ Del4(t)
  PROVE  [Aberto!Next]_(Aberto!dicVars)
<1>1. t \in Ativas /\ transp' = transp
  BY DEF Del1, Del2, Del3, Del4, Em, Ativas, Local, transpVars
<1>2. th[t] \in Registros /\ Argumentado(th[t])
  BY <1>1, Sozinha
<1>3. CASE Del1(t)
  <2>1. PICK r : r = [th[t] EXCEPT !.pc = "del2", !.n = nwords]
    OBVIOUS
  <2>2. r.pc = "del2" /\ Muda(t, r) /\ th[t].pc = "del1" /\ nwords' = nwords
    BY <1>2, <1>3, <2>1 DEF Registros, Del1, Em, Local
  <2>3. Conteudo' = Conteudo
    BY <1>3, EfeitoNenhum
  <2> QED
    BY <1>1, <2>2, <2>3, PassoParado DEF ComEfeito
<1>4. CASE Del2(t)
  <2>1. PICK r : r = [th[t] EXCEPT !.pc = "del3", !.n = 0]
    OBVIOUS
  <2>2. r.pc = "del3"
    BY <1>2, <2>1 DEF Registros
  <2>3. Muda(t, r) /\ th[t].pc = "del2" /\ th[t].proc = "DELETEW"
    BY <1>2, <1>4, <2>1 DEF Del2, Em, Local, Argumentado, Remocao
  <2>4. Aberto!Efetua("DELETEW", 1) /\ Chamado.w = th[t].w
    BY <1>1, <2>2, <2>3, PassoEfeito DEF ComEfeito, Movimento
  <2>5. Aberto!Apaga
    BY <1>4, <2>4, ApagaPasso DEF Aberto!Apaga
  <2> QED
    BY <2>5 DEF Aberto!Next, Aberto!Dentro
<1>5. CASE Del3(t)
  <2>1. PICK r : r = [th[t] EXCEPT !.pc = "del4", !.n = nwords]
    OBVIOUS
  <2>2. r.pc = "del4" /\ Muda(t, r) /\ th[t].pc = "del3" /\ nwords' = nwords
    BY <1>2, <1>5, <2>1 DEF Registros, Del3, Em, Local
  <2>3. Conteudo' = Conteudo
    BY <1>5, EfeitoNenhum
  <2> QED
    BY <1>1, <2>2, <2>3, PassoParado
<1>6. CASE Del4(t)
  <2>1. PICK r : r = Apagou(t)
    OBVIOUS
  <2>2. r.pc = "responde" /\ r.res = 1 /\ th[t].pc = "del4"
    BY <1>2, <1>6, <2>1 DEF Registros, Apagou, Del4, Em
  <2>3. Conteudo' = Conteudo /\ nwords' = nwords /\ Muda(t, r)
    BY <1>6, <2>1, MovePasso
  <2> QED
    BY <1>1, <2>2, <2>3, PassoParado
<1> QED
  BY <1>3, <1>4, <1>5, <1>6

\* The main thread, which finds no call being served.
LEMMA VistaReceive ==
  ASSUME TypeOK, ~fora, ~fora', fora' = fora, NEW m \in rede, Receive(m)
  PROVE  [Aberto!Next]_(Aberto!dicVars)
<1>1. Ativas = {} /\ dict' = dict /\ nwords' = nwords /\ transp' = m
  BY DEF Receive
<1>2. Conteudo' = Conteudo
  BY <1>1, EfeitoFora
<1>3. m \in Chamadas
  BY RespostaDef DEF TypeOK, Receive
<1>4. th \in [Thread -> Registros] /\ \A u \in Thread : th[u].pc = "livre"
  BY <1>1 DEF TypeOK, Ativas
<1>5. Servindo = {}
  BY <1>4 DEF Servindo
<1>6. Chamado = SemServico /\ Resultados = {}
  BY <1>5 DEF Chamado, Resultados
<1>7. CASE Ativas # Thread
  <2> DEFINE t == CHOOSE u \in Thread \ Ativas : TRUE
             r == [Parada EXCEPT !.pc = "switch"]
  <2>1. t \in Thread
    BY <1>7 DEF Ativas
  <2>2. th' = [th EXCEPT ![t] = r] /\ r.pc = "switch"
    BY <1>7, ParadaMuda DEF Receive, Muda
  <2> HIDE DEF t, r
  <2>3. th'[t].pc = "switch" /\ Ativas' \subseteq {t}
    BY <1>4, <2>1, <2>2 DEF Ativas
  <2>4. Chamado' = Servico(transp)' /\ Resultados' = {}
    BY <2>1, <2>3, VistoDepois DEF ComEfeito
  <2>5. Chamado' = [proc |-> m.proc, w |-> m.w]
    BY <1>1, <2>4 DEF Servico
  <2>6. Aberto!Recebe(m.proc, m.w)
    BY <1>1, <1>2, <1>6, <2>4, <2>5 DEF Aberto!Recebe, Aberto!Nenhuma, SemServico
  <2>7. Aberto!RecebeAlguma
    BY <1>3, <2>6, ChamadaDef DEF Aberto!RecebeAlguma
  <2> QED
    BY <2>7 DEF Aberto!Next, Aberto!Dentro
<1>8. CASE Ativas = Thread
  <2>1. Servindo' = {}
    BY <1>1, <1>8 DEF Servindo
  <2>2. Chamado' = SemServico /\ Resultados' = {}
    BY <2>1 DEF Chamado, Resultados
  <2> QED
    BY <1>1, <1>2, <1>6, <2>2 DEF Aberto!dicVars
<1> QED
  BY <1>7, <1>8

\* The clients.
LEMMA VistaIgual ==
  ASSUME TypeOK, UNCHANGED <<th, transp, dict, nwords, fora>>
  PROVE  UNCHANGED Aberto!dicVars
<1>1. Conteudo' = Conteudo
  BY EfeitoFora
<1>2. Servindo' = Servindo
  BY DEF Servindo
<1>3. Chamado' = Chamado
  BY <1>2 DEF Chamado, Servico
<1>4. Resultados' = Resultados
  BY <1>2 DEF Resultados, Resultado, Efetuado
<1> QED
  BY <1>1, <1>3, <1>4 DEF Aberto!dicVars

LEMMA VistaPasso ==
  ASSUME TypeOK, Serial, Serial', ~fora, ~fora', fora' = fora, [Next]_vars
  PROVE  [Aberto!Next]_(Aberto!dicVars)
<1>1. CASE UNCHANGED vars
  BY <1>1, VistaIgual DEF vars
<1>2. ASSUME NEW c \in Client, ClientNext(c) PROVE UNCHANGED Aberto!dicVars
  <2>1. UNCHANGED <<th, transp, dict, nwords, fora>>
    BY <1>2 DEF ClientNext, CallAny, Call, Resend, Return, GiveUp, dictVars, transpVars
  <2> QED
    BY <2>1, VistaIgual
<1>3. ASSUME NEW m \in rede, Receive(m) PROVE [Aberto!Next]_(Aberto!dicVars)
  BY <1>3, VistaReceive
<1>4. ASSUME NEW t \in Thread, ThreadNext(t) PROVE [Aberto!Next]_(Aberto!dicVars)
  BY <1>4, VistaServ, VistaInsere, VistaBusca, VistaRemove DEF ThreadNext
<1> QED
  BY <1>1, <1>2, <1>3, <1>4 DEF Next

LEMMA RefinaInit == Init => Abstrato!Init
<1> SUFFICES ASSUME Init PROVE Abstrato!Init
  OBVIOUS
<1>1. nwords = 0 /\ fora = FALSE /\ th = [t \in Thread |-> Parada]
  BY DEF Init, ServerInit
<1>2. ASSUME NEW w \in Palavra PROVE Lugares(w) = {}
  BY <1>1, DictAssumption DEF Lugares, Indice
<1>3. Conteudo = [w \in Palavra |-> 0]
  BY <1>2, ConteudoDef, FS_EmptySet
<1>4. Servindo = {}
  BY <1>1 DEF Servindo, Parada
<1>5. Resultados = {}
  BY <1>4 DEF Resultados
<1> QED
  BY <1>1, <1>3, <1>4, <1>5
     DEF Abstrato!Init, Abstrato!Vazio, Abstrato!Nenhuma, SemServico

LEMMA RefinaPasso ==
  TypeOK /\ TypeOK' /\ Serial /\ Serial' /\ [Next]_vars
    => [Abstrato!Next]_(Abstrato!dicVars)
<1> SUFFICES ASSUME TypeOK, TypeOK', Serial, Serial', [Next]_vars
             PROVE  [Abstrato!Next]_(Abstrato!dicVars)
  OBVIOUS
<1>1. CASE fora
  BY <1>1, ForaFica DEF Abstrato!Next, Abstrato!Fora
<1>2. CASE ~fora /\ fora'
  BY <1>2 DEF Abstrato!Next, Abstrato!Sair
<1>3. CASE ~fora /\ ~fora'
  <2>1. fora \in BOOLEAN /\ fora' \in BOOLEAN
    BY DEF TypeOK
  <2>2. fora' = fora
    BY <1>3, <2>1, Zenon
  <2> QED
    BY <1>3, <2>2, VistaPasso, AbertoDentro
<1> QED
  BY <1>1, <1>2, <1>3

\* Thread-RPC implements Dicionario: until the callers leave the contract, a
\* call that is received has its effect once, in one of the steps of its
\* thread, for its own word, however its clients send it again (then it is
\* received again) or give it up: insertw adds an occurrence, when nwords is
\* incremented and while there is room; deletew takes one out, when nwords is
\* decremented and before the last word is moved, or finds none; lookupw finds
\* one or none; initw empties the dictionary; and what is answered is the
\* result of that effect.
THEOREM DictImplements == Spec => ImplementsDicionario
<1>1. Init => Abstrato!Init
  BY RefinaInit
<1>2. TypeOK /\ TypeOK' /\ Serial /\ Serial' /\ [Next]_vars
        => [Abstrato!Next]_(Abstrato!dicVars)
  BY RefinaPasso
<1> QED
  BY <1>1, <1>2, DictTypeCorrect, SerialInvariant, PTL
     DEF Spec, ImplementsDicionario, Abstrato!Spec
-----------------------------------------------------------------------------
(***************************************************************************)
(* Every thread comes to its end.                                          *)
(***************************************************************************)
\* A step of a thread from q to r: down the program, unless it begins one
\* more turn of the scan.
Desce(q, r) ==
  \/ q.pc = "cmp" /\ r.pc = "laco" /\ r.i = q.i + 1
  \/ Depois[r.pc] < Depois[q.pc] /\ (r.pc \in Procura => q.pc \in Procura /\ r.i = q.i)

\* A thread does not go back before its new nwords, and takes nwords as it
\* finds it; ...
Segue(q, r) ==
  /\ r.pc \in AntesDeMudar => q.pc \in AntesDeMudar
  /\ r.n \in {q.n, 0, nwords}

\* ... and it changes nwords by one only there, or clears it, or makes a copy
\* outside dict.
Conta(q, r) ==
  \/ estragado'
  \/ nwords' \in {nwords, 0}
  \/ /\ nwords' \in {Sucessor(q.n), Antecessor(q.n)}
     /\ q.pc \in AntesDeMudar /\ r.pc \notin AntesDeMudar

LEMMA DepoisDef ==
  /\ Depois["livre"] = 0 /\ Depois["libera"] = 1 /\ Depois["responde"] = 2
  /\ Depois["init"] = 3
  /\ Depois["ins5"] = 3 /\ Depois["ins4"] = 4 /\ Depois["ins3"] = 5
  /\ Depois["ins2"] = 6 /\ Depois["ins1"] = 7
  /\ Depois["del4"] = 3 /\ Depois["del3"] = 4 /\ Depois["del2"] = 5
  /\ Depois["del1"] = 6 /\ Depois["cmp"] = 7 /\ Depois["laco"] = 8
  /\ Depois["args"] = 9 /\ Depois["switch"] = 10
  BY DEF Depois

LEMMA PassoServ ==
  ASSUME TypeOK, NEW t \in Thread,
         Switch(t) \/ GetArgs(t) \/ SendReply(t) \/ FreeArgs(t)
  PROVE  /\ nwords' = nwords /\ gastos' = gastos /\ PorServir' = PorServir
         /\ \E r : Muda(t, r) /\ Desce(th[t], r) /\ Segue(th[t], r)
<1>1. /\ nwords' = nwords /\ gastos' = gastos /\ th[t].pc # "livre"
      /\ rede' = rede \/ \E d : rede' = rede \cup {Resposta(transp, d)}
  BY DEF Switch, GetArgs, SendReply, FreeArgs, Em, clientVars, dictVars
<1>2. PorServir' = PorServir
  BY <1>1 DEF PorServir, Resposta
<1>3. th[t] \in Registros
  BY DEF TypeOK
<1>4. Parada.pc = "livre" /\ Parada.n = 0
  BY DEF Parada
<1>5. CASE Switch(t)
  <2>1. PICK r : r = [th[t] EXCEPT !.pc = "args", !.proc = transp.proc]
    OBVIOUS
  <2>2. r.pc = "args" /\ r.i = th[t].i /\ r.n = th[t].n
    BY <1>3, <2>1 DEF Registros
  <2>3. Muda(t, r) /\ th[t].pc = "switch"
    BY <1>5, <2>1 DEF Switch, Em
  <2>4. Desce(th[t], r) /\ Segue(th[t], r)
    BY <2>2, <2>3, DepoisDef DEF Desce, Segue, Procura, AntesDeMudar
  <2> QED
    BY <1>1, <1>2, <2>3, <2>4
<1>6. ASSUME GetArgs(t), NEW r, r.pc \in {"init", "ins1", "laco"}, r.i = th[t].i,
             r.n = th[t].n
      PROVE  Desce(th[t], r) /\ Segue(th[t], r)
  <2>1. th[t].pc = "args"
    BY <1>6 DEF GetArgs, Em
  <2> QED
    BY <1>6, <2>1, DepoisDef DEF Desce, Segue, Procura, AntesDeMudar
<1>7. CASE GetArgs(t)
  <2>1. CASE Muda(t, [th[t] EXCEPT !.pc = "init"])
    <3>1. PICK r : r = [th[t] EXCEPT !.pc = "init"]
      OBVIOUS
    <3>2. r.pc = "init" /\ r.i = th[t].i /\ r.n = th[t].n
      BY <1>3, <3>1 DEF Registros
    <3>3. Desce(th[t], r) /\ Segue(th[t], r)
      BY <1>6, <1>7, <3>2
    <3>4. Muda(t, r)
      BY <2>1, <3>1
    <3> QED
      BY <1>1, <1>2, <3>3, <3>4
  <2>2. ASSUME NEW w,
               Muda(t, [th[t] EXCEPT !.pc = IF th[t].proc = "INSERTW" THEN "ins1" ELSE "laco",
                                     !.w = w])
        PROVE  \E r : Muda(t, r) /\ Desce(th[t], r) /\ Segue(th[t], r)
    <3>1. PICK r : r = [th[t] EXCEPT !.pc = IF th[t].proc = "INSERTW" THEN "ins1" ELSE "laco",
                                     !.w = w]
      OBVIOUS
    <3>2. r.pc \in {"ins1", "laco"} /\ r.i = th[t].i /\ r.n = th[t].n
      BY <1>3, <3>1 DEF Registros
    <3>3. Desce(th[t], r) /\ Segue(th[t], r)
      BY <1>6, <1>7, <3>2
    <3>4. Muda(t, r)
      BY <2>2, <3>1
    <3> QED
      BY <3>3, <3>4
  <2>3. CASE Muda(t, Parada)
    <3>1. th[t].pc = "args"
      BY <1>7 DEF GetArgs, Em
    <3>2. Desce(th[t], Parada) /\ Segue(th[t], Parada)
      BY <1>4, <3>1, DepoisDef DEF Desce, Segue, Procura, AntesDeMudar
    <3> QED
      BY <1>1, <1>2, <2>3, <3>2
  <2> QED
    BY <1>1, <1>2, <1>7, <2>1, <2>2, <2>3 DEF GetArgs
<1>8. CASE SendReply(t)
  <2>1. PICK r : r = [Parada EXCEPT !.pc = "libera"]
    OBVIOUS
  <2>2. r.pc = "libera" /\ r.n = 0
    BY <2>1, ParadaMuda
  <2>3. Muda(t, r) /\ th[t].pc = "responde"
    BY <1>8, <2>1 DEF SendReply, Em
  <2>4. Desce(th[t], r) /\ Segue(th[t], r)
    BY <2>2, <2>3, DepoisDef DEF Desce, Segue, Procura, AntesDeMudar
  <2> QED
    BY <1>1, <1>2, <2>3, <2>4
<1>9. CASE FreeArgs(t)
  <2>1. Muda(t, Parada) /\ th[t].pc = "libera"
    BY <1>9 DEF FreeArgs, Em
  <2>2. Desce(th[t], Parada) /\ Segue(th[t], Parada)
    BY <1>4, <2>1, DepoisDef DEF Desce, Segue, Procura, AntesDeMudar
  <2> QED
    BY <1>1, <1>2, <2>1, <2>2
<1> QED
  BY <1>5, <1>7, <1>8, <1>9

LEMMA PassoLocal ==
  ASSUME TypeOK, NEW t \in Thread,
         \/ InitW(t) \/ Ins1(t) \/ Ins3(t) \/ Ins4(t) \/ Ins5(t)
         \/ Del1(t) \/ Del2(t) \/ Del3(t)
  PROVE  \E r : Muda(t, r) /\ Desce(th[t], r) /\ Segue(th[t], r) /\ Conta(th[t], r)
<1>1. th[t] \in Registros
  BY DEF TypeOK
<1> USE DepoisDef DEF Desce, Segue, Conta, Procura, AntesDeMudar
<1>2. CASE InitW(t)
  <2>1. PICK r : r = [th[t] EXCEPT !.pc = "responde", !.res = 1]
    OBVIOUS
  <2>2. r.pc = "responde" /\ r.n = th[t].n
    BY <1>1, <2>1 DEF Registros
  <2>3. Muda(t, r) /\ nwords' = 0 /\ th[t].pc = "init"
    BY <1>2, <2>1 DEF InitW, Em, Local
  <2> QED
    BY <2>2, <2>3
<1>3. CASE Ins1(t)
  <2>1. PICK r : r = [th[t] EXCEPT !.pc = "ins2", !.n = nwords]
    OBVIOUS
  <2>2. r.pc = "ins2" /\ r.n = nwords
    BY <1>1, <2>1 DEF Registros
  <2>3. Muda(t, r) /\ nwords' = nwords /\ th[t].pc = "ins1"
    BY <1>3, <2>1 DEF Ins1, Em, Local
  <2> QED
    BY <2>2, <2>3
<1>4. CASE Ins3(t)
  <2>1. PICK r : r = [th[t] EXCEPT !.pc = "ins4", !.n = nwords]
    OBVIOUS
  <2>2. r.pc = "ins4" /\ r.n = nwords
    BY <1>1, <2>1 DEF Registros
  <2>3. Muda(t, r) /\ nwords' = nwords /\ th[t].pc = "ins3"
    BY <1>4, <2>1 DEF Ins3, Em, Local
  <2> QED
    BY <2>2, <2>3
<1>5. CASE Ins4(t)
  <2>1. PICK r : r = [th[t] EXCEPT !.pc = "ins5", !.n = 0]
    OBVIOUS
  <2>2. r.pc = "ins5" /\ r.n = 0
    BY <1>1, <2>1 DEF Registros
  <2>3. Muda(t, r) /\ nwords' = Sucessor(th[t].n) /\ th[t].pc = "ins4"
    BY <1>5, <2>1 DEF Ins4, Em, Local
  <2> QED
    BY <2>2, <2>3
<1>6. CASE Ins5(t)
  <2>1. PICK r : r = [th[t] EXCEPT !.pc = "responde", !.res = nwords]
    OBVIOUS
  <2>2. r.pc = "responde" /\ r.n = th[t].n
    BY <1>1, <2>1 DEF Registros
  <2>3. Muda(t, r) /\ nwords' = nwords /\ th[t].pc = "ins5"
    BY <1>6, <2>1 DEF Ins5, Em, Local
  <2> QED
    BY <2>2, <2>3
<1>7. CASE Del1(t)
  <2>1. PICK r : r = [th[t] EXCEPT !.pc = "del2", !.n = nwords]
    OBVIOUS
  <2>2. r.pc = "del2" /\ r.n = nwords
    BY <1>1, <2>1 DEF Registros
  <2>3. Muda(t, r) /\ nwords' = nwords /\ th[t].pc = "del1"
    BY <1>7, <2>1 DEF Del1, Em, Local
  <2> QED
    BY <2>2, <2>3
<1>8. CASE Del2(t)
  <2>1. PICK r : r = [th[t] EXCEPT !.pc = "del3", !.n = 0]
    OBVIOUS
  <2>2. r.pc = "del3" /\ r.n = 0
    BY <1>1, <2>1 DEF Registros
  <2>3. Muda(t, r) /\ nwords' = Antecessor(th[t].n) /\ th[t].pc = "del2"
    BY <1>8, <2>1 DEF Del2, Em, Local
  <2> QED
    BY <2>2, <2>3
<1>9. CASE Del3(t)
  <2>1. PICK r : r = [th[t] EXCEPT !.pc = "del4", !.n = nwords]
    OBVIOUS
  <2>2. r.pc = "del4" /\ r.n = nwords
    BY <1>1, <2>1 DEF Registros
  <2>3. Muda(t, r) /\ nwords' = nwords /\ th[t].pc = "del3"
    BY <1>9, <2>1 DEF Del3, Em, Local
  <2> QED
    BY <2>2, <2>3
<1> QED
  BY <1>2, <1>3, <1>4, <1>5, <1>6, <1>7, <1>8, <1>9

LEMMA PassoBusca ==
  ASSUME TypeOK, NEW t \in Thread, Laco(t) \/ Compara(t)
  PROVE  /\ nwords' = nwords
         /\ \/ Cai
            \/ \E r : Muda(t, r) /\ Desce(th[t], r) /\ Segue(th[t], r)
<1>1. th[t] \in Registros /\ nwords' = nwords
  BY DEF TypeOK, Laco, Compara
<1> USE DepoisDef DEF Desce, Segue, Procura, AntesDeMudar
<1>2. CASE Laco(t) /\ th[t].i < nwords
  <2>1. PICK r : r = [th[t] EXCEPT !.pc = "cmp"]
    OBVIOUS
  <2>2. r.pc = "cmp" /\ r.i = th[t].i /\ r.n = th[t].n
    BY <1>1, <2>1 DEF Registros
  <2>3. Muda(t, r) /\ th[t].pc = "laco"
    BY <1>2, <2>1 DEF Laco, Em, Local
  <2> QED
    BY <1>1, <1>2, <2>2, <2>3
<1>3. CASE Laco(t) /\ ~(th[t].i < nwords)
  <2>1. PICK r : r = [th[t] EXCEPT !.pc = "responde", !.i = 0]
    OBVIOUS
  <2>2. r.pc = "responde" /\ r.n = th[t].n
    BY <1>1, <2>1 DEF Registros
  <2>3. Muda(t, r) /\ th[t].pc = "laco"
    BY <1>3, <2>1 DEF Laco, Em, Local
  <2> QED
    BY <1>1, <2>2, <2>3
<1>4. CASE Compara(t)
  <2>1. th[t].pc = "cmp"
    BY <1>4 DEF Compara, Em
  <2>2. CASE Achou(t)
    <3>1. PICK r : /\ Muda(t, r)
                   /\ r \in {[th[t] EXCEPT !.pc = "responde", !.i = 0, !.res = 1],
                             [th[t] EXCEPT !.pc = "del1"]}
      BY <2>2 DEF Achou, Local
    <3>2. r.pc \in {"responde", "del1"} /\ r.n = th[t].n
      BY <1>1, <3>1 DEF Registros
    <3> QED
      BY <1>1, <2>1, <3>1, <3>2
  <2>3. CASE NaoAchou(t)
    <3>1. PICK r : r = [th[t] EXCEPT !.pc = "laco", !.i = @ + 1]
      OBVIOUS
    <3>2. r.pc = "laco" /\ r.i = th[t].i + 1 /\ r.n = th[t].n
      BY <1>1, <3>1 DEF Registros
    <3>3. Muda(t, r)
      BY <2>3, <3>1 DEF NaoAchou, Local
    <3> QED
      BY <1>1, <2>1, <3>2, <3>3
  <2>4. CASE Cai
    BY <1>1, <2>4
  <2> QED
    BY <1>4, <2>2, <2>3, <2>4 DEF Compara
<1> QED
  BY <1>2, <1>3, <1>4

\* The two steps that copy a word.
LEMMA PassoCopia ==
  ASSUME TypeOK, NEW t \in Thread, Ins2(t) \/ Del4(t)
  PROVE  \/ Cai /\ nwords' = nwords
         \/ \E r : Muda(t, r) /\ Desce(th[t], r) /\ Segue(th[t], r) /\ Conta(th[t], r)
<1>1. th[t] \in Registros
  BY DEF TypeOK
<1>2. ASSUME NEW r, Muda(t, r), nwords' = nwords \/ estragado',
             \/ th[t].pc = "ins2" /\ r = [th[t] EXCEPT !.pc = "ins3"]
             \/ th[t].pc = "del4" /\ r = Apagou(t)
      PROVE  Muda(t, r) /\ Desce(th[t], r) /\ Segue(th[t], r) /\ Conta(th[t], r)
  <2>1. \/ th[t].pc = "ins2" /\ r.pc = "ins3" /\ r.n = th[t].n
        \/ th[t].pc = "del4" /\ r.pc = "responde" /\ r.n = 0
    BY <1>1, <1>2 DEF Registros, Apagou
  <2>2. Desce(th[t], r) /\ Segue(th[t], r)
    BY <2>1, DepoisDef DEF Desce, Segue, Procura, AntesDeMudar
  <2>3. Conta(th[t], r)
    <3>1. CASE nwords' = nwords
      BY <3>1 DEF Conta
    <3>2. CASE estragado'
      BY <3>2, Zenon DEF Conta
    <3> QED
      BY <1>2, <3>1, <3>2
  <2> QED
    BY <1>2, <2>2, <2>3
<1>3. CASE Ins2(t)
  <2>1. PICK r : r = [th[t] EXCEPT !.pc = "ins3"]
    OBVIOUS
  <2>2. th[t].pc = "ins2" /\ Copia(t, th[t].n, th[t].w, r)
    BY <1>3, <2>1 DEF Ins2, Em
  <2>3. th[t].n \notin Indice => estragado'
    BY <1>3, Zenon DEF Ins2
  <2>4. \/ Cai /\ nwords' = nwords
        \/ Muda(t, r) /\ (nwords' = nwords \/ th[t].n \notin Indice)
    BY <2>2 DEF Copia
  <2> QED
    BY <1>2, <2>1, <2>2, <2>3, <2>4
<1>4. CASE Del4(t)
  <2>1. th[t].pc = "del4"
    BY <1>4 DEF Del4, Em
  <2>2. th[t].n \notin Indice \/ th[t].i \notin Indice => estragado'
    BY <1>4, Zenon DEF Del4
  <2>3. \/ Cai /\ nwords' = nwords
        \/ /\ Muda(t, Apagou(t))
           /\ nwords' = nwords \/ th[t].n \notin Indice \/ th[t].i \notin Indice
    BY <1>4 DEF Del4, Copia, CopiaDeFora
  <2> QED
    BY <1>2, <2>1, <2>2, <2>3
<1> QED
  BY <1>3, <1>4

\* All of them together.
LEMMA PassoThread ==
  ASSUME TypeOK, NEW t \in Thread, ThreadNext(t)
  PROVE  /\ gastos' = gastos /\ PorServir' = PorServir
         /\ \/ Cai /\ nwords' = nwords
            \/ \E r : Muda(t, r) /\ Desce(th[t], r) /\ Segue(th[t], r) /\ Conta(th[t], r)
<1>1. CASE Switch(t) \/ GetArgs(t) \/ SendReply(t) \/ FreeArgs(t)
  BY <1>1, PassoServ DEF Conta
<1>2. CASE \/ InitW(t) \/ Ins1(t) \/ Ins2(t) \/ Ins3(t) \/ Ins4(t) \/ Ins5(t)
           \/ Laco(t) \/ Compara(t) \/ Del1(t) \/ Del2(t) \/ Del3(t) \/ Del4(t)
  <2>1. gastos' = gastos /\ rede' = rede
    BY <1>2 DEF InitW, Ins1, Ins2, Ins3, Ins4, Ins5, Laco, Compara, Del1, Del2, Del3,
       Del4, Local, Achou, NaoAchou, clientVars
  <2>2. PorServir' = PorServir
    BY <2>1 DEF PorServir
  <2>3. \/ Cai /\ nwords' = nwords
        \/ \E r : Muda(t, r) /\ Desce(th[t], r) /\ Segue(th[t], r) /\ Conta(th[t], r)
    BY <1>2, PassoLocal, PassoBusca, PassoCopia DEF Conta
  <2> QED
    BY <2>1, <2>2, <2>3
<1> QED
  BY <1>1, <1>2 DEF ThreadNext
-----------------------------------------------------------------------------
(***************************************************************************)
(* What may still change nwords by one, and how far nwords can get.        *)
(***************************************************************************)
LEMMA UmMais ==
  ASSUME NEW S, IsFiniteSet(S), NEW x
  PROVE  /\ IsFiniteSet(S \cup {x}) /\ Cardinality(S \cup {x}) \in Nat
         /\ Cardinality(S \cup {x}) <= Cardinality(S) + 1
<1>1. IsFiniteSet(S \cup {x}) /\ Cardinality(S) \in Nat
  BY FS_AddElement, FS_CardinalityType
<1>2. \/ Cardinality(S \cup {x}) = Cardinality(S)
      \/ Cardinality(S \cup {x}) = Cardinality(S) + 1
  BY FS_AddElement
<1> QED
  BY <1>1, <1>2

LEMMA MenosUm ==
  ASSUME NEW S, NEW T, IsFiniteSet(S), NEW x \in S, T \subseteq S \ {x}
  PROVE  /\ IsFiniteSet(T) /\ Cardinality(S) \in Nat /\ Cardinality(T) \in Nat
         /\ Cardinality(T) + 1 <= Cardinality(S)
<1>1. /\ Cardinality(S) \in Nat /\ IsFiniteSet(S \ {x})
      /\ Cardinality(S \ {x}) = Cardinality(S) - 1
  BY FS_RemoveElement, FS_CardinalityType
<1>2. IsFiniteSet(T) /\ Cardinality(T) <= Cardinality(S \ {x})
  BY <1>1, FS_Subset
<1>3. Cardinality(T) \in Nat
  BY <1>2, FS_CardinalityType
<1> QED
  BY <1>1, <1>2, <1>3

\* What Contado says of the numbers.
LEMMA ContadoTipo ==
  ASSUME TypeOK, Contado
  PROVE  /\ IsFiniteSet(PorServir) /\ IsFiniteSet(PorMudar)
         /\ Cardinality(PorServir) \in Nat /\ Cardinality(PorMudar) \in Nat
         /\ PorVir = Cardinality(PorServir) + Cardinality(PorMudar)
         /\ PorVir \in Nat /\ gastos \in Nat /\ PorVir <= gastos
         /\ Mudancas = gastos - PorVir /\ Mudancas \in Nat
<1>1. IsFiniteSet(PorServir) /\ IsFiniteSet(PorMudar) /\ PorVir <= gastos
  BY DEF Contado
<1>2. gastos \in Nat
  BY BoundAssumption DEF TypeOK
<1>3. Cardinality(PorServir) \in Nat /\ Cardinality(PorMudar) \in Nat
  BY <1>1, FS_CardinalityType
<1> QED
  BY <1>1, <1>2, <1>3 DEF PorVir, Mudancas

\* A number in the reach of m changes is in the reach of more; and a C int is
\* there after one more change by one, which does not wrap.
LEMMA AlcanceMaior ==
  ASSUME NEW m \in Nat, NEW m1 \in Int, m <= m1, NEW x \in -m .. m
  PROVE  x \in -m1 .. m1 /\ 0 \in -m1 .. m1
  OBVIOUS

LEMMA AlcanceUm ==
  ASSUME NEW m \in Nat, NEW m1 \in Int, m + 1 <= m1, m1 <= IntMax,
         NEW x \in CInt, x \in -m .. m
  PROVE  Sucessor(x) \in -m1 .. m1 /\ Antecessor(x) \in -m1 .. m1
<1>1. x \in Int /\ IntMax \in Nat
  BY IntAssumption
<1>2. x < IntMax /\ 0 <= x + IntMax
  BY <1>1
<1>3. Sucessor(x) = x + 1 /\ Antecessor(x) = x - 1
  BY <1>2, InteiroDef
<1> QED
  BY <1>1, <1>3

LEMMA ContadoPasso ==
  ASSUME TypeOK, TypeOK', Contado, estragado => estragado',
         IsFiniteSet(PorServir'), IsFiniteSet(PorMudar'), Mudancas <= Mudancas',
         \A t \in Thread : th'[t].n \in {th[t].n, 0, nwords},
         \/ estragado'
         \/ nwords' \in {nwords, 0}
         \/ \E t \in Thread : /\ Mudancas + 1 <= Mudancas'
                              /\ nwords' \in {Sucessor(th[t].n), Antecessor(th[t].n)}
  PROVE  Contado'
<1>1. PICK m : m = Mudancas /\ m \in Nat
  BY ContadoTipo
<1>2. Cardinality(PorServir') \in Nat /\ Cardinality(PorMudar') \in Nat
  BY FS_CardinalityType
<1>3. PICK g, p : g = gastos' /\ g \in Int /\ g <= MaxCalls /\ p = PorVir' /\ p \in Nat
  BY <1>2, BoundAssumption DEF TypeOK, PorVir
<1>4. PICK m1 : m1 = Mudancas' /\ m1 = g - p
  BY <1>3 DEF Mudancas
<1>5. m \in Nat /\ m1 \in Int /\ m <= m1 /\ m1 <= IntMax /\ p <= g
  <2>1. MaxCalls \in Nat /\ IntMax \in Nat /\ MaxCalls <= IntMax
    BY BoundAssumption, IntAssumption
  <2>2. m \in Nat /\ g \in Int /\ p \in Nat /\ g <= MaxCalls /\ m1 = g - p /\ m <= m1
    BY <1>1, <1>3, <1>4
  <2> QED
    BY <2>1, <2>2
<1>6. Alcance = -m .. m /\ Alcance' = -m1 .. m1
  BY <1>1, <1>4 DEF Alcance
<1>7. ASSUME ~estragado'
      PROVE  nwords' \in Alcance' /\ \A t \in Thread : th'[t].n \in Alcance'
  <2>1. ~estragado
    BY <1>7, Zenon
  <2>2. nwords \in -m .. m /\ \A t \in Thread : th[t].n \in -m .. m
    BY <1>6, <2>1 DEF Contado
  <2>3. /\ 0 \in -m1 .. m1 /\ nwords \in -m1 .. m1
        /\ \A t \in Thread : th[t].n \in -m1 .. m1
    BY <1>5, <2>2, AlcanceMaior
  <2>4. \A t \in Thread : th'[t].n \in -m1 .. m1
    BY <2>3
  <2>5. nwords' \in -m1 .. m1
    <3>1. CASE nwords' \in {nwords, 0}
      BY <2>3, <3>1
    <3>2. ASSUME NEW t \in Thread, Mudancas + 1 <= Mudancas',
                 nwords' \in {Sucessor(th[t].n), Antecessor(th[t].n)}
          PROVE  nwords' \in -m1 .. m1
      <4>1. th[t].n \in CInt /\ th[t].n \in -m .. m
        BY <2>2, RegistroDef DEF TypeOK
      <4>2. m + 1 <= m1
        BY <1>1, <1>4, <3>2
      <4> QED
        BY <1>5, <3>2, <4>1, <4>2, AlcanceUm
    <3>3. \/ nwords' \in {nwords, 0}
          \/ \E t \in Thread : /\ Mudancas + 1 <= Mudancas'
                               /\ nwords' \in {Sucessor(th[t].n), Antecessor(th[t].n)}
      BY <1>7, Zenon
    <3> QED
      BY <3>1, <3>2, <3>3
  <2> QED
    BY <1>6, <2>4, <2>5
<1>8. PorVir' <= gastos'
  BY <1>3, <1>5
<1> QED
  BY <1>7, <1>8 DEF Contado

LEMMA EstragadoFica == ASSUME estragado, [Next]_vars PROVE estragado'
<1>1. CASE estragado' = estragado
  BY <1>1, Zenon
<1>2. ASSUME NEW t, Ins2(t) PROVE estragado'
  BY <1>2, Zenon DEF Ins2
<1>3. ASSUME NEW t, Del4(t) PROVE estragado'
  BY <1>3, Zenon DEF Del4
<1> QED
  BY <1>1, <1>2, <1>3 DEF Next, ClientNext, CallAny, Call, Resend, Return, GiveUp,
     Receive, ThreadNext, Switch, GetArgs, SendReply, FreeArgs, InitW, Ins1, Ins3, Ins4,
     Ins5, Laco, Compara, Del1, Del2, Del3, Local, Achou, NaoAchou, dictVars, vars

LEMMA ContadoInit == Init => Contado
<1> SUFFICES ASSUME Init PROVE Contado
  OBVIOUS
<1>1. /\ gastos = 0 /\ nwords = 0 /\ rede = {} /\ th = [t \in Thread |-> Parada]
  BY DEF Init, ClientInit, ServerInit
<1>2. \A t \in Thread : th[t].pc = "livre" /\ th[t].n = 0
  BY <1>1 DEF Parada
<1>3. PorServir = {} /\ PorMudar = {}
  BY <1>1, <1>2 DEF PorServir, PorMudar, AntesDeMudar
<1>4. IsFiniteSet(PorServir) /\ IsFiniteSet(PorMudar) /\ PorVir = 0
  <2>1. Cardinality(PorServir) = 0 /\ Cardinality(PorMudar) = 0
    BY <1>3, FS_EmptySet
  <2> QED
    BY <1>3, <2>1, FS_EmptySet DEF PorVir
<1>5. 0 \in Alcance
  BY <1>1, <1>4 DEF Alcance, Mudancas
<1> QED
  BY <1>1, <1>2, <1>4, <1>5 DEF Contado

\* A call is made, made again, or given up: gastos makes up for it.
LEMMA ContadoCliente ==
  ASSUME TypeOK, TypeOK', Contado, NEW c \in Client, ClientNext(c)
  PROVE  Contado'
<1>1. th' = th /\ nwords' = nwords /\ (estragado => estragado')
  <2>1. th' = th /\ nwords' = nwords /\ estragado' = estragado
    BY DEF ClientNext, CallAny, Call, Resend, Return, GiveUp, dictVars
  <2> QED
    BY <2>1, Zenon
<1>2. PorMudar' = PorMudar
  BY <1>1 DEF PorMudar
<1>3. /\ IsFiniteSet(PorServir) /\ IsFiniteSet(PorMudar) /\ gastos \in Nat
      /\ Cardinality(PorServir) \in Nat /\ Cardinality(PorMudar) \in Nat
      /\ Mudancas = gastos - (Cardinality(PorServir) + Cardinality(PorMudar))
  BY ContadoTipo
<1>4. \/ gastos' = gastos + 1 /\ \E m : PorServir' \subseteq PorServir \cup {m}
      \/ gastos' = gastos /\ PorServir' \subseteq PorServir
  <2>1. CASE CallAny(c)
    BY <2>1 DEF CallAny, Call, MaisUma, PorServir
  <2>2. CASE Resend(c)
    BY <2>2 DEF Resend, MaisUma, PorServir
  <2>3. CASE \E m \in rede : Return(c, m)
    BY <2>3 DEF Return, PorServir
  <2>4. CASE GiveUp(c)
    BY <2>4 DEF GiveUp, MaisUma, PorServir
  <2> QED
    BY <2>1, <2>2, <2>3, <2>4 DEF ClientNext
<1>5. PICK k, g : /\ k = Cardinality(PorServir') /\ g = gastos' /\ IsFiniteSet(PorServir')
                  /\ k \in Nat /\ g \in Nat /\ k + gastos <= Cardinality(PorServir) + g
  <2>1. ASSUME NEW m, PorServir' \subseteq PorServir \cup {m}, gastos' = gastos + 1
        PROVE  /\ IsFiniteSet(PorServir') /\ Cardinality(PorServir') \in Nat
               /\ gastos' \in Nat
               /\ Cardinality(PorServir') + gastos <= Cardinality(PorServir) + gastos'
    <3>1. /\ IsFiniteSet(PorServir \cup {m}) /\ Cardinality(PorServir \cup {m}) \in Nat
          /\ Cardinality(PorServir \cup {m}) <= Cardinality(PorServir) + 1
      BY <1>3, UmMais
    <3>2. /\ IsFiniteSet(PorServir')
          /\ Cardinality(PorServir') <= Cardinality(PorServir \cup {m})
      BY <2>1, <3>1, FS_Subset
    <3>3. Cardinality(PorServir') \in Nat
      BY <3>2, FS_CardinalityType
    <3> QED
      BY <1>3, <2>1, <3>1, <3>2, <3>3
  <2>2. CASE PorServir' \subseteq PorServir /\ gastos' = gastos
    <3>1. /\ IsFiniteSet(PorServir')
          /\ Cardinality(PorServir') <= Cardinality(PorServir)
      BY <1>3, <2>2, FS_Subset
    <3>2. Cardinality(PorServir') \in Nat
      BY <3>1, FS_CardinalityType
    <3> QED
      BY <1>3, <2>2, <3>1, <3>2
  <2> QED
    BY <1>4, <2>1, <2>2
<1>6. Mudancas' = g - (k + Cardinality(PorMudar))
  BY <1>2, <1>5 DEF Mudancas, PorVir
<1>7. Mudancas <= Mudancas'
  <2>1. k \in Nat /\ g \in Nat /\ k + gastos <= Cardinality(PorServir) + g
    BY <1>5
  <2>2. Mudancas <= g - (k + Cardinality(PorMudar))
    BY <1>3, <2>1
  <2> QED
    BY <1>6, <2>2
<1> QED
  BY <1>1, <1>2, <1>3, <1>5, <1>7, ContadoPasso

\* A call that has come is no longer in flight.
LEMMA ContadoReceive ==
  ASSUME TypeOK, TypeOK', Contado, NEW m \in rede, Receive(m)
  PROVE  Contado'
<1>1. nwords' = nwords /\ gastos' = gastos /\ m.tipo = "chamada" /\ rede' = rede \ {m}
      /\ estragado' = estragado
  BY DEF Receive, clientVars
<1>2. PorServir' \subseteq PorServir \ {m} /\ m \in PorServir
  BY <1>1 DEF PorServir
<1>3. /\ IsFiniteSet(PorServir) /\ IsFiniteSet(PorMudar) /\ gastos \in Nat
      /\ Cardinality(PorServir) \in Nat /\ Cardinality(PorMudar) \in Nat
      /\ Mudancas = gastos - (Cardinality(PorServir) + Cardinality(PorMudar))
  BY ContadoTipo
<1>4. PICK k : /\ k = Cardinality(PorServir') /\ IsFiniteSet(PorServir')
               /\ k \in Nat /\ k + 1 <= Cardinality(PorServir)
  BY <1>2, <1>3, MenosUm
<1>5. PICK u, r : r.n = 0 /\ (th' = th \/ th' = [th EXCEPT ![u] = r])
  <2>1. [Parada EXCEPT !.pc = "switch"].n = 0
    BY ParadaMuda
  <2>2. \E u : th' = th \/ th' = [th EXCEPT ![u] = [Parada EXCEPT !.pc = "switch"]]
    BY DEF Receive, Muda
  <2> QED
    BY <2>1, <2>2
<1>6. \A t \in Thread : th'[t] = th[t] \/ (t = u /\ th'[t].n = 0)
  BY <1>5 DEF TypeOK
<1>7. PorMudar' \subseteq PorMudar \cup {u}
  BY <1>6 DEF PorMudar
<1>8. PICK l : /\ l = Cardinality(PorMudar') /\ IsFiniteSet(PorMudar')
               /\ l \in Nat /\ l <= Cardinality(PorMudar) + 1
  <2>1. /\ IsFiniteSet(PorMudar \cup {u}) /\ Cardinality(PorMudar \cup {u}) \in Nat
        /\ Cardinality(PorMudar \cup {u}) <= Cardinality(PorMudar) + 1
    BY <1>3, UmMais
  <2>2. /\ IsFiniteSet(PorMudar')
        /\ Cardinality(PorMudar') <= Cardinality(PorMudar \cup {u})
    BY <1>7, <2>1, FS_Subset
  <2>3. Cardinality(PorMudar') \in Nat
    BY <2>2, FS_CardinalityType
  <2> QED
    BY <1>3, <2>1, <2>2, <2>3
<1>9. Mudancas' = gastos - (k + l)
  BY <1>1, <1>4, <1>8 DEF Mudancas, PorVir
<1>10. Mudancas <= Mudancas'
  <2>1. k \in Nat /\ l \in Nat /\ k + l <= Cardinality(PorServir) + Cardinality(PorMudar)
    BY <1>3, <1>4, <1>8
  <2>2. Mudancas <= gastos - (k + l)
    BY <1>3, <2>1
  <2> QED
    BY <1>9, <2>2
<1>11. \A t \in Thread : th'[t].n \in {th[t].n, 0, nwords}
  BY <1>6
<1>12. estragado => estragado'
  BY <1>1, Zenon
<1> QED
  BY <1>1, <1>4, <1>8, <1>10, <1>11, <1>12, ContadoPasso

\* A thread that changes nwords by one does not change it again.
LEMMA ContadoThread ==
  ASSUME TypeOK, TypeOK', Contado, NEW t \in Thread, ThreadNext(t)
  PROVE  Contado'
<1>1. gastos' = gastos /\ PorServir' = PorServir /\ (estragado => estragado')
  BY PassoThread, EstragadoFica DEF Next
<1>2. /\ IsFiniteSet(PorServir) /\ IsFiniteSet(PorMudar) /\ gastos \in Nat
      /\ Cardinality(PorServir) \in Nat /\ Cardinality(PorMudar) \in Nat
      /\ Mudancas = gastos - (Cardinality(PorServir) + Cardinality(PorMudar))
      /\ th \in [Thread -> Registros]
  BY ContadoTipo DEF TypeOK
<1>3. ASSUME NEW l \in Nat, l = Cardinality(PorMudar')
      PROVE  /\ l <= Cardinality(PorMudar) => Mudancas <= Mudancas'
             /\ l + 1 <= Cardinality(PorMudar) => Mudancas + 1 <= Mudancas'
  <2>1. Mudancas' = gastos - (Cardinality(PorServir) + l)
    BY <1>1, <1>3 DEF Mudancas, PorVir
  <2>2. l <= Cardinality(PorMudar)
        => Mudancas <= gastos - (Cardinality(PorServir) + l)
    BY <1>2
  <2>3. l + 1 <= Cardinality(PorMudar)
        => Mudancas + 1 <= gastos - (Cardinality(PorServir) + l)
    BY <1>2
  <2> QED
    BY <2>1, <2>2, <2>3
<1>4. ASSUME PorMudar' \subseteq PorMudar
      PROVE  IsFiniteSet(PorMudar') /\ Mudancas <= Mudancas'
  <2>1. IsFiniteSet(PorMudar') /\ Cardinality(PorMudar') <= Cardinality(PorMudar)
    BY <1>2, <1>4, FS_Subset
  <2>2. Cardinality(PorMudar') \in Nat
    BY <2>1, FS_CardinalityType
  <2> QED
    BY <1>3, <2>1, <2>2
<1>5. CASE Cai /\ nwords' = nwords
  <2>1. \A u \in Thread : th'[u].pc = "livre" /\ th'[u].n = 0
    BY <1>5 DEF Cai, Parada
  <2>2. PorMudar' \subseteq PorMudar
    BY <2>1 DEF PorMudar, AntesDeMudar
  <2>3. IsFiniteSet(PorMudar') /\ Mudancas <= Mudancas'
    BY <1>4, <2>2
  <2> QED
    BY <1>1, <1>2, <1>5, <2>1, <2>3, ContadoPasso
<1>6. ASSUME NEW r, Muda(t, r), Segue(th[t], r), Conta(th[t], r)
      PROVE  Contado'
  <2>1. \A u \in Thread : th'[u] = IF u = t THEN r ELSE th[u]
    BY <1>2, <1>6 DEF Muda
  <2>2. /\ r.pc \in AntesDeMudar => th[t].pc \in AntesDeMudar
        /\ r.n \in {th[t].n, 0, nwords}
    BY <1>6 DEF Segue
  <2>3. PorMudar' \subseteq PorMudar
    BY <2>1, <2>2 DEF PorMudar
  <2>4. IsFiniteSet(PorMudar') /\ Mudancas <= Mudancas'
    BY <1>4, <2>3
  <2>5. th[t].pc \in AntesDeMudar /\ r.pc \notin AntesDeMudar => Mudancas + 1 <= Mudancas'
    <3> SUFFICES ASSUME th[t].pc \in AntesDeMudar, r.pc \notin AntesDeMudar
                 PROVE  Mudancas + 1 <= Mudancas'
      OBVIOUS
    <3>1. t \in PorMudar /\ PorMudar' \subseteq PorMudar \ {t}
      BY <2>1, <2>3 DEF PorMudar
    <3>2. PICK l : l = Cardinality(PorMudar') /\ l \in Nat /\ l + 1 <= Cardinality(PorMudar)
      BY <1>2, <3>1, MenosUm
    <3> QED
      BY <1>3, <3>2
  <2>6. \A u \in Thread : th'[u].n \in {th[u].n, 0, nwords}
    BY <2>1, <2>2
  <2>7. \/ estragado'
        \/ nwords' \in {nwords, 0}
        \/ \E u \in Thread : /\ Mudancas + 1 <= Mudancas'
                             /\ nwords' \in {Sucessor(th[u].n), Antecessor(th[u].n)}
    <3>1. CASE estragado'
      BY <3>1, Zenon
    <3>2. CASE nwords' \in {nwords, 0}
      BY <3>2, Zenon
    <3>3. CASE /\ nwords' \in {Sucessor(th[t].n), Antecessor(th[t].n)}
               /\ th[t].pc \in AntesDeMudar /\ r.pc \notin AntesDeMudar
      BY <2>5, <3>3, Zenon
    <3> QED
      BY <1>6, <3>1, <3>2, <3>3, Zenon DEF Conta
  <2> QED
    BY <1>1, <1>2, <2>4, <2>6, <2>7, ContadoPasso
<1> QED
  BY <1>5, <1>6, PassoThread

LEMMA ContadoNext == TypeOK /\ TypeOK' /\ Contado /\ [Next]_vars => Contado'
<1> SUFFICES ASSUME TypeOK, TypeOK', Contado, [Next]_vars PROVE Contado'
  OBVIOUS
<1>1. CASE UNCHANGED vars
  <2>1. UNCHANGED <<rede, th, gastos, nwords, estragado>>
    BY <1>1 DEF vars
  <2> QED
    BY <2>1 DEF Contado, PorServir, PorMudar, PorVir, Alcance, Mudancas
<1> QED
  BY <1>1, ContadoCliente, ContadoReceive, ContadoThread DEF Next

LEMMA ContadoSempre == Spec => []Contado
<1>1. Init => Contado
  BY ContadoInit
<1>2. TypeOK /\ TypeOK' /\ Contado /\ [Next]_vars => Contado'
  BY ContadoNext
<1> QED
  BY <1>1, <1>2, DictTypeCorrect, PTL DEF Spec

\* Until a copy has been made outside dict, nwords is at most the number of
\* calls made and sent again, and the place of a word that insertw is about to
\* copy is below it, however the threads write old values of nwords over new
\* ones: a thread at ins2 has not changed nwords yet, so the others have done
\* so less often than there have been calls.
THEOREM PlacesEarned == Spec => []PlacesAreEarned
<1>1. TypeOK /\ Contado => PlacesAreEarned
  <2> SUFFICES ASSUME TypeOK, Contado, ~estragado PROVE
               nwords <= gastos /\ \A t \in Thread : th[t].pc = "ins2" => th[t].n < gastos
    BY DEF PlacesAreEarned
  <2>1. /\ PorVir \in Nat /\ gastos \in Nat /\ Mudancas = gastos - PorVir
        /\ IsFiniteSet(PorMudar) /\ Cardinality(PorServir) \in Nat
        /\ PorVir = Cardinality(PorServir) + Cardinality(PorMudar)
    BY ContadoTipo
  <2>2. /\ nwords \in -Mudancas .. Mudancas
        /\ \A t \in Thread : th[t].n \in -Mudancas .. Mudancas
    BY DEF Contado, Alcance
  <2>3. nwords <= gastos
    BY <2>1, <2>2
  <2>4. ASSUME NEW t \in Thread, th[t].pc = "ins2" PROVE th[t].n < gastos
    <3>1. t \in PorMudar
      BY <2>4 DEF PorMudar, AntesDeMudar
    <3>2. Cardinality(PorMudar) \in Nat /\ 0 + 1 <= Cardinality(PorMudar)
      <4>1. {} \subseteq PorMudar \ {t} /\ Cardinality({}) = 0
        BY FS_EmptySet
      <4> QED
        BY <2>1, <3>1, <4>1, MenosUm
    <3>3. Mudancas < gastos
      BY <2>1, <3>2
    <3> QED
      BY <2>1, <2>2, <3>3
  <2> QED
    BY <2>3, <2>4
<1> QED
  BY <1>1, DictTypeCorrect, ContadoSempre, PTL
-----------------------------------------------------------------------------
(***************************************************************************)
(* The rank of a thread's state: what is left behind the scan, and the     *)
(* scan.  i never leaves the range of nwords, so that the rank is never    *)
(* below zero, whatever a copy outside dict makes of nwords.               *)
(***************************************************************************)
LEMMA DepoisTipo == \A r \in Registros : /\ Depois[r.pc] \in 0 .. 10
                                         /\ Depois[r.pc] = 0 <=> r.pc = "livre"
<1> SUFFICES ASSUME NEW r \in Registros
             PROVE  Depois[r.pc] \in 0 .. 10 /\ (Depois[r.pc] = 0 <=> r.pc = "livre")
  OBVIOUS
<1>1. r.pc \in {"livre", "switch", "args", "init", "ins1", "ins2", "ins3", "ins4",
                "ins5", "laco", "cmp", "del1", "del2", "del3", "del4", "responde",
                "libera"}
  BY DEF Registros
<1> QED
  BY <1>1, DepoisDef

\* A rank is what is left behind the scan, or some more.
LEMMA RestaDef ==
  ASSUME NEW r \in Registros
  PROVE  /\ r.pc \in Procura => Resta(r) = Depois[r.pc] + 2 * (IntMax - r.i)
         /\ r.pc \notin Procura => Resta(r) = Depois[r.pc]
         /\ 2 * (IntMax - r.i) \in Nat /\ Depois[r.pc] \in Nat /\ Depois[r.pc] <= 10
         /\ Resta(r) \in Nat /\ Depois[r.pc] <= Resta(r)
<1>1. Depois[r.pc] \in Nat /\ Depois[r.pc] <= 10
  BY DepoisTipo
<1>2. IntMax \in Nat /\ r.i \in 0 .. IntMax
  BY RegistroDef, IntAssumption
<1>3. 2 * (IntMax - r.i) \in Nat
  BY <1>2
<1>4. r.pc \in Procura => Resta(r) = Depois[r.pc] + 2 * (IntMax - r.i)
  BY DEF Resta, Procura
<1>5. r.pc \notin Procura => Resta(r) = Depois[r.pc]
  BY <1>1 DEF Resta, Procura
<1> QED
  BY <1>1, <1>3, <1>4, <1>5

LEMMA RestaPasso ==
  ASSUME NEW q \in Registros, NEW r \in Registros, Desce(q, r)
  PROVE  Resta(r) < Resta(q)
<1>1. CASE q.pc = "cmp" /\ r.pc = "laco" /\ r.i = q.i + 1
  <2>1. Resta(q) = 7 + 2 * (IntMax - q.i) /\ Resta(r) = 8 + 2 * (IntMax - r.i)
    BY <1>1, RestaDef, DepoisDef DEF Procura
  <2>2. q.i \in Int /\ r.i \in Int /\ IntMax \in Nat
    BY RegistroDef, IntAssumption
  <2>3. 2 * (IntMax - r.i) = 2 * (IntMax - q.i) - 2 /\ 2 * (IntMax - q.i) \in Int
    BY <1>1, <2>2
  <2> QED
    BY <2>1, <2>3
<1>2. CASE /\ Depois[r.pc] < Depois[q.pc]
           /\ r.pc \in Procura => q.pc \in Procura /\ r.i = q.i
  <2>1. CASE r.pc \in Procura
    <3>1. /\ Resta(q) = Depois[q.pc] + 2 * (IntMax - q.i)
          /\ Resta(r) = Depois[r.pc] + 2 * (IntMax - q.i)
          /\ 2 * (IntMax - q.i) \in Nat
      BY <1>2, <2>1, RestaDef
    <3>2. Depois[q.pc] \in Nat /\ Depois[r.pc] \in Nat
      BY RestaDef
    <3> QED
      BY <1>2, <3>1, <3>2
  <2>2. CASE r.pc \notin Procura
    <3>1. Resta(r) = Depois[r.pc] /\ Depois[q.pc] <= Resta(q)
          /\ Depois[q.pc] \in Nat /\ Depois[r.pc] \in Nat /\ Resta(q) \in Nat
      BY <2>2, RestaDef
    <3> QED
      BY <1>2, <3>1
  <2> QED
    BY <2>1, <2>2
<1> QED
  BY <1>1, <1>2 DEF Desce

\* The steps of the threads bring them down, or end them.
LEMMA DesceThread ==
  ASSUME TypeOK, TypeOK', NEW t \in Thread, ThreadNext(t)
  PROVE  \A u \in Ativas : th'[u] # th[u] => Resta(th'[u]) < Resta(th[u])
<1>1. th \in [Thread -> Registros] /\ th' \in [Thread -> Registros]
  BY DEF TypeOK
<1>2. CASE Cai
  <2>1. \A u \in Thread : th'[u] = Parada
    BY <1>2 DEF Cai
  <2>2. Parada \in Registros /\ Parada.pc = "livre"
    BY RegistroDef DEF Parada
  <2>3. Resta(Parada) = 0
    BY <2>2, RestaDef, DepoisDef DEF Procura
  <2>4. ASSUME NEW u \in Ativas PROVE u \in Thread /\ 0 < Resta(th[u])
    <3>1. u \in Thread /\ th[u] \in Registros /\ th[u].pc # "livre"
      BY <1>1 DEF Ativas
    <3>2. Depois[th[u].pc] # 0
      BY <3>1, DepoisTipo
    <3> QED
      BY <3>1, <3>2, RestaDef
  <2> QED
    BY <2>1, <2>3, <2>4
<1>3. ASSUME NEW r, Muda(t, r), Desce(th[t], r)
      PROVE  \A u \in Ativas : th'[u] # th[u] => Resta(th'[u]) < Resta(th[u])
  <2>1. \A u \in Thread : th'[u] = IF u = t THEN r ELSE th[u]
    BY <1>1, <1>3 DEF Muda
  <2>2. r \in Registros /\ th[t] \in Registros
    BY <1>1, <2>1
  <2>3. Resta(r) < Resta(th[t])
    BY <1>3, <2>2, RestaPasso
  <2>4. Ativas \subseteq Thread
    BY DEF Ativas
  <2> QED
    BY <2>1, <2>3, <2>4
<1> QED
  BY <1>2, <1>3, PassoThread

\* A call that comes leaves the running threads alone.
LEMMA DesceReceive ==
  ASSUME TypeOK, NEW m \in rede, Receive(m)
  PROVE  \A u \in Ativas : th'[u] = th[u]
<1>1. th \in [Thread -> Registros] /\ Ativas \subseteq Thread
  BY DEF TypeOK, Ativas
<1>2. CASE Ativas # Thread
  <2> DEFINE s == CHOOSE u \in Thread \ Ativas : TRUE
  <2>1. s \in Thread \ Ativas
    BY <1>1, <1>2
  <2> HIDE DEF s
  <2>2. PICK r : th' = [th EXCEPT ![s] = r]
    BY <1>2 DEF Receive, Muda, s
  <2> QED
    BY <1>1, <2>1, <2>2
<1>3. CASE Ativas = Thread
  BY <1>3 DEF Receive
<1> QED
  BY <1>2, <1>3

LEMMA DescePasso ==
  ASSUME TypeOK, TypeOK', [Next]_vars
  PROVE  \A t \in Ativas : th'[t] # th[t] =>
           0 <= Resta(th'[t]) /\ Resta(th'[t]) < Resta(th[t])
<1>1. \A u \in Ativas : th'[u] # th[u] => Resta(th'[u]) < Resta(th[u])
  <2>1. \/ th' = th
        \/ \E m \in rede : Receive(m)
        \/ \E t \in Thread : ThreadNext(t)
    BY DEF Next, ClientNext, CallAny, Call, Resend, Return, GiveUp, vars
  <2> QED
    BY <2>1, DesceReceive, DesceThread
<1>2. ASSUME NEW t \in Ativas PROVE 0 <= Resta(th'[t])
  <2>1. th'[t] \in Registros
    BY DEF Ativas, TypeOK
  <2>2. \A n \in Nat : 0 <= n
    OBVIOUS
  <2> QED
    BY <2>1, <2>2, RestaDef
<1> QED
  BY <1>1, <1>2

\* The safety half of ThreadsEnd: each step of a running thread brings its
\* rank down, never below zero, whatever the other threads do to nwords in
\* the middle of its scan, and whatever int a copy outside dict leaves there;
\* so a thread makes a bounded number of steps.
THEOREM ThreadsDescend == Spec => StepsDescend
<1>1. TypeOK /\ TypeOK' /\ [Next]_vars
        => \A t \in Ativas : th'[t] # th[t] =>
             0 <= Resta(th'[t]) /\ Resta(th'[t]) < Resta(th[t])
  BY DescePasso
<1> QED
  BY <1>1, DictTypeCorrect, PTL DEF Spec, StepsDescend
=============================================================================
