--------------------------- MODULE FilaAvulsaProofs ---------------------------
(***************************************************************************)
(* Theorems about fila.c: with room for all, its two loops sort the items. *)
(***************************************************************************)
EXTENDS FilaAvulsa, FilaProofs

\* A PID that is not in the queue yet: the test that fila.c leaves out would
\* have found nothing.
LEMMA SemTeste ==
  ASSUME NEW q, NEW n, NEW e, Len(q) < n, ~EstaNaFila(q, e.PID)
  PROVE  insereSempre(q, n, e) = insere(q, n, e)
  BY DEF insereSempre, insere, CabeNaFila

\* The removed item goes from one end to the other.
LEMMA Passagem ==
  ASSUME NEW S, NEW s \in Seq(S), NEW q \in Seq(S), q # << >>
  PROVE  Append(s, Head(q)) \o Tail(q) = s \o q
<1> DEFINE h == Head(q)
           r == Tail(q)
<1>1. h \in S /\ r \in Seq(S) /\ q = <<h>> \o r
  <2>1. h \in S /\ r \in Seq(S) /\ Len(r) = Len(q) - 1
           /\ \A k \in 1 .. Len(r) : r[k] = q[k + 1]
    BY HeadTailProperties
  <2>2. <<h>> \in Seq(S) /\ Len(<<h>>) = 1 /\ <<h>>[1] = h
    BY <2>1
  <2>3. /\ <<h>> \o r \in Seq(S)
        /\ Len(<<h>> \o r) = Len(<<h>>) + Len(r)
        /\ \A k \in 1 .. Len(<<h>>) + Len(r) :
             (<<h>> \o r)[k] = IF k <= Len(<<h>>) THEN <<h>>[k] ELSE r[k - Len(<<h>>)]
    BY <2>1, <2>2, ConcatProperties
  <2>4. Len(q) \in Nat /\ Len(<<h>> \o r) = Len(q)
    BY <2>1, <2>2, <2>3, LenProperties
  <2>5. ASSUME NEW k \in 1 .. Len(q) PROVE (<<h>> \o r)[k] = q[k]
    <3>1. CASE k = 1
      BY <2>2, <2>3, <2>4, <3>1
    <3>2. CASE k # 1
      BY <2>1, <2>2, <2>3, <2>4, <3>2
    <3> QED
      BY <3>1, <3>2
  <2> HIDE DEF h, r
  <2> QED
    BY <2>1, <2>3, <2>4, <2>5, SeqEqual
<1> HIDE DEF h, r
<1>2. Append(s, h) = s \o <<h>>
  BY <1>1, AppendIsConcat
<1>3. (s \o <<h>>) \o r = s \o (<<h>> \o r)
  <2>1. <<h>> \in Seq(S)
    BY <1>1
  <2> QED
    BY <1>1, <2>1, ConcatAssociative
<1> QED
  BY <1>1, <1>2, <1>3 DEF h, r
-----------------------------------------------------------------------------
(***************************************************************************)
(* The inductive invariant: while the first loop runs, no PID in the queue *)
(* is larger than the turns that it has made.                              *)
(***************************************************************************)
PIDsUsados == pc = "insere" => \A k \in DOMAIN fila : fila[k].PID <= volta

IInv == TypeOK /\ PIDsUsados /\ SaidaOrdenada /\ CadaUmUmaVez

LEMMA InitIInv == ASSUME Cabem, Init PROVE IInv
<1>1. fila = << >> /\ saida = << >> /\ volta = 0 /\ pc = "insere"
  BY DEF Init
<1>2. fila \in Seq(Itens) /\ saida \in Seq(Itens) /\ Len(fila) = 0 /\ DOMAIN fila = {}
  BY <1>1
<1>3. saida \o fila = << >> /\ DOMAIN (saida \o fila) = {}
  BY <1>1
<1>4. TypeOK /\ PIDsUsados
  BY <1>1, <1>2 DEF TypeOK, PIDsUsados, Cabem
<1> QED
  BY <1>3, <1>4 DEF IInv, SaidaOrdenada, CadaUmUmaVez, Ordenada, UmaPorPID

LEMMA InsereIInv == ASSUME Cabem, IInv, Insere PROVE IInv'
<1>1. PICK t \in Tempos : fila' = insereSempre(fila, N, [PID |-> volta + 1, tempo |-> t])
  BY DEF Insere
<1> DEFINE e == [PID |-> volta + 1, tempo |-> t]
           p == Posicao(fila, t)
<1>2. /\ pc = "insere" /\ pc' = "insere" /\ saida = << >> /\ saida' = << >>
      /\ volta \in Nat /\ volta < Voltas /\ volta' = volta + 1
      /\ fila \in Seq(Itens) /\ Len(fila) = volta
      /\ \A k \in DOMAIN fila : fila[k].PID <= volta
      /\ t \in Int /\ N \in Nat /\ Voltas \in Nat /\ Voltas <= N
  BY DEF Insere, IInv, TypeOK, PIDsUsados, Cabem
<1>3. e \in Itens /\ e.tempo = t /\ e.PID = volta + 1 /\ \A x \in Itens : x.tempo \in Int
  BY <1>2 DEF Itens
<1>4. ~EstaNaFila(fila, e.PID)
  <2>1. \A k \in DOMAIN fila : fila[k] \in Itens
    BY <1>2, LenProperties, ElementOfSeq
  <2>2. \A k \in DOMAIN fila : fila[k].PID \in Int
    BY <2>1 DEF Itens
  <2> QED
    BY <1>2, <1>3, <2>2 DEF EstaNaFila
<1> HIDE DEF e
<1>5. fila' = insere(fila, N, e) /\ fila' = Inserir(fila, p, e)
  <2>1. Len(fila) < N
    BY <1>2
  <2>2. fila' = insereSempre(fila, N, e)
    BY <1>1 DEF e
  <2> QED
    BY <1>3, <1>4, <2>1, <2>2, SemTeste DEF insereSempre
<1>6. p \in 0 .. Len(fila)
  BY <1>2, <1>3, PosicaoDef
<1> HIDE DEF p
<1>7. /\ fila' \in Seq(Itens) /\ Len(fila') = volta + 1
      /\ \A k \in 1 .. Len(fila) + 1 :
           fila'[k] = IF k <= p THEN fila[k] ELSE IF k = p + 1 THEN e ELSE fila[k - 1]
  BY <1>2, <1>3, <1>5, <1>6, InserirSeq DEF Inserir
<1>8. TypeOK'
  BY <1>2, <1>7 DEF TypeOK
<1>9. PIDsUsados'
  <2> SUFFICES ASSUME NEW k \in DOMAIN fila' PROVE fila'[k].PID <= volta'
    BY DEF PIDsUsados
  <2>1. k \in 1 .. volta + 1 /\ DOMAIN fila = 1 .. volta
    BY <1>2, <1>7, LenProperties
  <2>2. CASE k = p + 1
    BY <1>2, <1>3, <1>6, <1>7, <2>1, <2>2
  <2>3. CASE k # p + 1
    <3>1. \E j \in 1 .. volta : fila'[k] = fila[j]
      BY <1>2, <1>6, <1>7, <2>1, <2>3
    <3>2. PICK j \in 1 .. volta : fila'[k] = fila[j]
      BY <3>1
    <3>3. fila[j].PID <= volta /\ fila[j] \in Itens
      BY <1>2, <2>1, ElementOfSeq
    <3>4. fila[j].PID \in Int
      BY <3>3 DEF Itens
    <3> QED
      BY <1>2, <3>2, <3>3, <3>4
  <2> QED
    BY <2>2, <2>3
<1>10. Ordenada(fila) /\ UmaPorPID(fila)
  <2>1. saida \o fila = fila
    BY <1>2, ConcatEmptySeq
  <2> QED
    BY <2>1 DEF IInv, SaidaOrdenada, CadaUmUmaVez
<1>11. Ordenada(fila') /\ UmaPorPID(fila')
  BY <1>2, <1>3, <1>5, <1>10, InsereOrdenada, InsereUmaPorPID
<1>12. saida' \o fila' = fila'
  BY <1>2, <1>7, ConcatEmptySeq
<1> QED
  BY <1>8, <1>9, <1>11, <1>12 DEF IInv, SaidaOrdenada, CadaUmUmaVez

LEMMA RemoveIInv == ASSUME Cabem, IInv, Remove PROVE IInv'
<1>1. /\ pc = "remove" /\ pc' = "remove" /\ volta \in Nat /\ volta < Voltas
      /\ fila # << >> /\ fila \in Seq(Itens) /\ saida \in Seq(Itens)
      /\ Len(saida) = volta /\ Len(saida) + Len(fila) = Voltas
      /\ fila' = Tail(fila) /\ saida' = Append(saida, Head(fila)) /\ volta' = volta + 1
      /\ Voltas \in Nat
  BY DEF Remove, IInv, TypeOK, Cabem, removeItem
<1>2. /\ fila' \in Seq(Itens) /\ Len(fila') = Len(fila) - 1
      /\ saida' \in Seq(Itens) /\ Len(saida') = Len(saida) + 1
  BY <1>1, HeadTailProperties, AppendProperties
<1>3. saida' \o fila' = saida \o fila
  BY <1>1, Passagem
<1>4. Len(fila) \in Nat
  BY <1>1, LenProperties
<1>5. TypeOK'
  <2>1. volta' \in 0 .. Voltas /\ Len(saida') = volta' /\ Len(saida') + Len(fila') = Voltas
    <3>1. /\ volta \in Nat /\ volta < Voltas /\ Voltas \in Nat /\ volta' = volta + 1
          /\ Len(saida) = volta /\ Len(saida) + Len(fila) = Voltas
      BY <1>1
    <3>2. Len(fila') = Len(fila) - 1 /\ Len(saida') = Len(saida) + 1
      BY <1>2
    <3> QED
      BY <3>1, <3>2, <1>4
  <2> QED
    BY <1>1, <1>2, <2>1 DEF TypeOK
<1> QED
  BY <1>1, <1>3, <1>5 DEF IInv, PIDsUsados, SaidaOrdenada, CadaUmUmaVez

LEMMA NextIInv == ASSUME Cabem, IInv, [Next]_vars PROVE IInv'
<1>1. CASE Insere
  BY <1>1, InsereIInv
<1>2. CASE Remove
  BY <1>2, RemoveIInv
<1>3. CASE Muda
  BY <1>3 DEF Muda, Cabem, IInv, TypeOK, PIDsUsados, SaidaOrdenada, CadaUmUmaVez
<1>4. CASE RemoveVazia \/ Aborta
  BY <1>4 DEF RemoveVazia, Aborta, IInv, TypeOK, PIDsUsados, SaidaOrdenada, CadaUmUmaVez
<1>5. CASE Acaba
  BY <1>5 DEF Acaba, Cabem, IInv, TypeOK, PIDsUsados, SaidaOrdenada, CadaUmUmaVez
<1>6. CASE UNCHANGED vars
  BY <1>6 DEF vars, IInv, TypeOK, PIDsUsados, SaidaOrdenada, CadaUmUmaVez
<1> QED
  BY <1>1, <1>2, <1>3, <1>4, <1>5, <1>6 DEF Next

LEMMA Segue == ASSUME Cabem PROVE Spec => []IInv
<1>1. Init => IInv
  BY InitIInv
<1>2. IInv /\ [Next]_vars => IInv'
  BY NextIInv
<1> QED
  BY <1>1, <1>2, PTL DEF Spec
-----------------------------------------------------------------------------
\* The items come out in the order of their stamps, and none that is still
\* in the queue should have come out before (fila.c, lines 110 to 117).
THEOREM DrainsInOrder == ASSUME Cabem PROVE Spec => []SaidaOrdenada
<1>1. IInv => SaidaOrdenada
  BY DEF IInv
<1> QED
  BY <1>1, Segue, PTL

\* No item comes out twice, although insere looks for no PID.
THEOREM DrainsOnce == ASSUME Cabem PROVE Spec => []CadaUmUmaVez
<1>1. IInv => CadaUmUmaVez
  BY DEF IInv
<1> QED
  BY <1>1, Segue, PTL

\* The second loop dereferences no NULL, and takes out everything.
THEOREM DrainsAll == ASSUME Cabem PROVE Spec => []NuncaVazia
<1>1. ASSUME IInv PROVE NuncaVazia
  <2>1. fila \in Seq(Itens) /\ Voltas \in Nat /\ volta \in Nat /\ Len(fila) \in Nat
    BY <1>1, LenProperties DEF IInv, TypeOK, Cabem
  <2>2. pc = "remove" /\ volta < Voltas => fila # << >>
    <3>1. pc = "remove" /\ volta < Voltas => Len(fila) # 0
      BY <1>1, <2>1 DEF IInv, TypeOK
    <3> QED
      BY <3>1
  <2>3. pc = "fim" => Len(fila) = 0 /\ Len(saida) = Voltas
    BY <1>1, <2>1 DEF IInv, TypeOK
  <2>4. Len(fila) = 0 => fila = << >>
    BY <2>1, EmptySeq
  <2> QED
    BY <2>2, <2>3, <2>4 DEF NuncaVazia
<1>2. IInv => NuncaVazia
  BY <1>1
<1> QED
  BY <1>2, Segue, PTL
=============================================================================
