----------------------------- MODULE FilaProofs -----------------------------
(***************************************************************************)
(* What the operators of Fila do to every queue: the lemmas the proofs     *)
(* about the servers rest on.                                              *)
(***************************************************************************)
EXTENDS Fila, SequenceTheorems, WellFoundedInduction, TLAPS

\* A set of natural numbers that is not empty has a smallest element.
LEMMA Menor ==
  ASSUME NEW T, T \subseteq Nat, T # {}
  PROVE  \E p \in T : \A k \in T : p <= k
<1> DEFINE R == {par \in Nat \X Nat : par[1] < par[2]}
<1>1. IsWellFoundedOn(R, Nat)
  BY NatLessThanWellFounded DEF OpToRel
<1> HIDE DEF R
<1>2. \E p \in T : \A k \in T : <<k, p>> \notin R
  BY <1>1, WFMin
<1>3. \A p, k \in T : <<k, p>> \notin R => p <= k
  BY DEF R
<1> QED
  BY <1>2, <1>3

\* The walk of insere stops somewhere: the place it finds is one of the
\* places of the queue, the entries between the head and that place are
\* smaller, and the one behind it is not.
LEMMA PosicaoDef ==
  ASSUME NEW S, \A e \in S : e.tempo \in Int,
         NEW q \in Seq(S), NEW t \in Int
  PROVE  /\ Posicao(q, t) \in 0 .. Len(q)
         /\ (q = << >> \/ q[1].tempo > t) => Posicao(q, t) = 0
         /\ ~(q = << >> \/ q[1].tempo > t) =>
              /\ Posicao(q, t) \in 1 .. Len(q)
              /\ \A k \in 2 .. Posicao(q, t) : q[k].tempo < t
              /\ Posicao(q, t) = Len(q) \/ q[Posicao(q, t) + 1].tempo >= t
<1>1. CASE q = << >> \/ q[1].tempo > t
  BY <1>1 DEF Posicao
<1>2. CASE ~(q = << >> \/ q[1].tempo > t)
  <2> DEFINE P(p) == /\ p = Len(q) \/ q[p + 1].tempo >= t
                     /\ \A k \in 2 .. p : q[k].tempo < t
             T == {p \in 1 .. Len(q) : p = Len(q) \/ q[p + 1].tempo >= t}
  <2>1. Len(q) \in T /\ T \subseteq Nat
    BY <1>2
  <2> HIDE DEF T
  <2>2. PICK p \in T : \A k \in T : p <= k
    BY <2>1, Menor
  <2>3. ASSUME NEW k \in 2 .. p PROVE q[k].tempo < t
    <3>1. k - 1 \notin T /\ k - 1 \in 1 .. Len(q) /\ k \in 1 .. Len(q)
      BY <2>2 DEF T
    <3>2. ~(q[k].tempo >= t) /\ q[k].tempo \in Int
      BY <3>1 DEF T
    <3> QED
      BY <3>2
  <2>4. p \in 1 .. Len(q) /\ P(p)
    BY <2>3 DEF T
  <2> HIDE DEF P
  <2>5. (CHOOSE r \in 1 .. Len(q) : P(r)) \in 1 .. Len(q)
        /\ P(CHOOSE r \in 1 .. Len(q) : P(r))
    BY <2>4
  <2>6. Posicao(q, t) = CHOOSE r \in 1 .. Len(q) : P(r)
    BY <1>2 DEF Posicao, P
  <2> QED
    BY <1>2, <2>5, <2>6 DEF P
<1> QED
  BY <1>1, <1>2

\* Putting an entry anywhere in a queue gives a queue, one entry longer.
LEMMA InserirSeq ==
  ASSUME NEW S, NEW q \in Seq(S), NEW p \in 0 .. Len(q), NEW e \in S
  PROVE  /\ Inserir(q, p, e) \in Seq(S)
         /\ Len(Inserir(q, p, e)) = Len(q) + 1
<1> DEFINE f == Inserir(q, p, e)
<1>1. f = [i \in 1 .. Len(q) + 1 |-> IF i <= p THEN q[i]
                                     ELSE IF i = p + 1 THEN e ELSE q[i - 1]]
  BY DEF Inserir
<1>2. ASSUME NEW i \in 1 .. Len(q) + 1
      PROVE  (IF i <= p THEN q[i] ELSE IF i = p + 1 THEN e ELSE q[i - 1]) \in S
  <2>1. CASE i <= p
    BY <2>1
  <2>2. CASE i = p + 1
    BY <2>2
  <2>3. CASE i > p + 1
    <3>1. i - 1 \in 1 .. Len(q)
      BY <2>3
    <3> QED
      BY <2>3, <3>1
  <2> QED
    BY <2>1, <2>2, <2>3
<1>3. f \in [1 .. Len(q) + 1 -> S]
  BY <1>1, <1>2
<1>4. Len(q) + 1 \in Nat
  OBVIOUS
<1>5. f \in Seq(S)
  BY <1>3, <1>4, IsASeq
<1>6. Len(f) = Len(q) + 1
  BY <1>3, <1>4, <1>5, LenProperties
<1> QED
  BY <1>5, <1>6

\* insere makes a queue of entries a queue of entries, ...
LEMMA InsereSeq ==
  ASSUME NEW S, \A e \in S : e.tempo \in Int,
         NEW q \in Seq(S), NEW N, NEW e \in S
  PROVE  insere(q, N, e) \in Seq(S)
<1>1. e.tempo \in Int
  OBVIOUS
<1>2. Posicao(q, e.tempo) \in 0 .. Len(q)
  BY <1>1, PosicaoDef
<1> QED
  BY <1>2, InserirSeq DEF insere

\* ... so does removeItem, which takes the head off.
LEMMA RemoveItemSeq ==
  ASSUME NEW S, NEW q \in Seq(S), q # << >>
  PROVE  /\ Head(q) \in S
         /\ removeItem(q) \in Seq(S)
         /\ Len(removeItem(q)) = Len(q) - 1
         /\ \A i \in 1 .. Len(q) - 1 : removeItem(q)[i] = q[i + 1]
  BY HeadTailProperties DEF removeItem

\* The queue stays sorted by the stamps, whatever their order of arrival.
LEMMA InsereOrdenada ==
  ASSUME NEW S, \A e \in S : e.tempo \in Int,
         NEW q \in Seq(S), NEW N, NEW e \in S, Ordenada(q)
  PROVE  Ordenada(insere(q, N, e))
<1> DEFINE t == e.tempo
           p == Posicao(q, t)
           f == Inserir(q, p, e)
<1>1. t \in Int /\ \A i \in 1 .. Len(q) : q[i].tempo \in Int
  OBVIOUS
<1>2. /\ p \in 0 .. Len(q)
      /\ (q = << >> \/ q[1].tempo > t) => p = 0
      /\ ~(q = << >> \/ q[1].tempo > t) =>
           /\ p \in 1 .. Len(q)
           /\ \A k \in 2 .. p : q[k].tempo < t
           /\ p = Len(q) \/ q[p + 1].tempo >= t
  BY <1>1, PosicaoDef
<1> HIDE DEF p
<1>3. \A i, j \in 1 .. Len(q) : i < j => q[i].tempo <= q[j].tempo
  BY DEF Ordenada
<1>4. \A i \in 1 .. p : q[i].tempo <= t
  BY <1>1, <1>2
<1>5. \A i \in p + 1 .. Len(q) : t <= q[i].tempo
  <2>1. CASE q = << >> \/ q[1].tempo > t
    BY <1>1, <1>2, <1>3, <2>1
  <2>2. CASE ~(q = << >> \/ q[1].tempo > t)
    BY <1>1, <1>2, <1>3, <2>2
  <2> QED
    BY <2>1, <2>2
<1>6. /\ f \in Seq(S) /\ Len(f) = Len(q) + 1
      /\ \A i \in 1 .. p : f[i] = q[i]
      /\ f[p + 1] = e
      /\ \A i \in p + 2 .. Len(q) + 1 : f[i] = q[i - 1]
  <2> HIDE DEF f
  <2>1. f = Inserir(q, p, e)
    BY DEF f
  <2>2. p \in 0 .. Len(q)
    BY <1>2
  <2>3. f \in Seq(S)
    BY <2>1, <2>2, InserirSeq
  <2>4. Len(f) = Len(q) + 1
    BY <2>1, <2>2, InserirSeq
  <2>5. /\ \A i \in 1 .. p : f[i] = q[i]
        /\ f[p + 1] = e
        /\ \A i \in p + 2 .. Len(q) + 1 : f[i] = q[i - 1]
    BY <2>1, <2>2 DEF Inserir
  <2> QED
    BY <2>3, <2>4, <2>5
<1> HIDE DEF f
<1>7. ASSUME NEW i \in 1 .. Len(q) + 1, NEW j \in 1 .. Len(q) + 1, i < j
      PROVE  f[i].tempo <= f[j].tempo
  <2>1. CASE j <= p
    <3>1. i \in 1 .. p /\ j \in 1 .. p
      BY <1>2, <1>7, <2>1
    <3>2. i \in 1 .. Len(q) /\ j \in 1 .. Len(q)
      BY <1>2, <3>1
    <3>3. q[i].tempo <= q[j].tempo
      BY <1>3, <1>7, <3>2
    <3> QED
      BY <1>6, <3>1, <3>3
  <2>2. CASE j = p + 1
    <3>1. i \in 1 .. p
      BY <1>2, <1>7, <2>2
    <3>2. q[i].tempo <= t
      BY <1>4, <3>1
    <3> QED
      BY <1>6, <2>2, <3>1, <3>2
  <2>3. CASE j > p + 1 /\ i <= p
    <3>1. i \in 1 .. p /\ j \in p + 2 .. Len(q) + 1 /\ i < j - 1
      BY <1>2, <2>3
    <3>2. i \in 1 .. Len(q) /\ j - 1 \in 1 .. Len(q)
      BY <1>2, <3>1
    <3> QED
      BY <1>3, <1>6, <3>1, <3>2
  <2>4. CASE j > p + 1 /\ i = p + 1
    <3>1. j \in p + 2 .. Len(q) + 1
      BY <1>2, <2>4
    <3>2. j - 1 \in p + 1 .. Len(q)
      BY <1>2, <3>1
    <3>3. t <= q[j - 1].tempo
      BY <1>5, <3>2
    <3> QED
      BY <1>6, <2>4, <3>1, <3>3
  <2>5. CASE j > p + 1 /\ i > p + 1
    <3>1. i \in p + 2 .. Len(q) + 1 /\ j \in p + 2 .. Len(q) + 1
      BY <1>2, <2>5
    <3>2. i - 1 \in 1 .. Len(q) /\ j - 1 \in 1 .. Len(q) /\ i - 1 < j - 1
      BY <1>2, <1>7, <3>1
    <3> QED
      BY <1>3, <1>6, <3>1, <3>2
  <2> QED
    BY <1>2, <2>1, <2>2, <2>3, <2>4, <2>5
<1>8. Ordenada(f)
  BY <1>6, <1>7 DEF Ordenada
<1> QED
  BY <1>8 DEF insere, f, p

\* What is behind the head is as sorted as the queue was.
LEMMA RemoveItemOrdenada ==
  ASSUME NEW S, NEW q \in Seq(S), q # << >>, Ordenada(q)
  PROVE  Ordenada(removeItem(q))
<1>1. /\ removeItem(q) \in Seq(S) /\ Len(removeItem(q)) = Len(q) - 1
      /\ \A i \in 1 .. Len(q) - 1 : removeItem(q)[i] = q[i + 1]
  BY RemoveItemSeq
<1>2. \A i \in 1 .. Len(q) - 1 : i + 1 \in DOMAIN q
  OBVIOUS
<1>3. ASSUME NEW i \in 1 .. Len(q) - 1, NEW j \in 1 .. Len(q) - 1, i < j
      PROVE  q[i + 1].tempo <= q[j + 1].tempo
  BY <1>2, <1>3 DEF Ordenada
<1> QED
  BY <1>1, <1>3 DEF Ordenada

\* A client that waits is not queued a second time.
LEMMA InsereUmaPorPID ==
  ASSUME NEW S, \A e \in S : e.tempo \in Int,
         NEW q \in Seq(S), NEW N, NEW e \in S, UmaPorPID(q)
  PROVE  UmaPorPID(insere(q, N, e))
<1> SUFFICES ASSUME ~EstaNaFila(q, e.PID)
             PROVE  UmaPorPID(Inserir(q, Posicao(q, e.tempo), e))
  BY DEF insere, CabeNaFila
<1> DEFINE p == Posicao(q, e.tempo)
           f == Inserir(q, p, e)
<1>1. p \in 0 .. Len(q)
  <2>1. e.tempo \in Int
    OBVIOUS
  <2> QED
    BY <2>1, PosicaoDef
<1> HIDE DEF p
<1>2. /\ f \in Seq(S) /\ Len(f) = Len(q) + 1
      /\ \A i \in 1 .. p : f[i] = q[i]
      /\ f[p + 1] = e
      /\ \A i \in p + 2 .. Len(q) + 1 : f[i] = q[i - 1]
  <2> HIDE DEF f
  <2>1. f = Inserir(q, p, e)
    BY DEF f
  <2>2. p \in 0 .. Len(q)
    BY <1>1
  <2>3. f \in Seq(S)
    BY <2>1, <2>2, InserirSeq
  <2>4. Len(f) = Len(q) + 1
    BY <2>1, <2>2, InserirSeq
  <2>5. /\ \A i \in 1 .. p : f[i] = q[i]
        /\ f[p + 1] = e
        /\ \A i \in p + 2 .. Len(q) + 1 : f[i] = q[i - 1]
    BY <2>1, <2>2 DEF Inserir
  <2> QED
    BY <2>3, <2>4, <2>5
<1> HIDE DEF f
<1>3. \A i, j \in 1 .. Len(q) : q[i].PID = q[j].PID => i = j
  BY DEF UmaPorPID
<1>4. \A i \in 1 .. Len(q) : q[i].PID # e.PID
  BY DEF EstaNaFila
<1>5. ASSUME NEW i \in 1 .. Len(q) + 1, NEW j \in 1 .. Len(q) + 1,
             f[i].PID = f[j].PID
      PROVE  i = j
  <2> DEFINE fonte(k) == IF k <= p THEN k ELSE k - 1
  <2>1. ASSUME NEW k \in 1 .. Len(q) + 1, k # p + 1
        PROVE  fonte(k) \in 1 .. Len(q) /\ f[k] = q[fonte(k)]
    <3>1. CASE k <= p
      BY <1>1, <1>2, <3>1
    <3>2. CASE k > p
      <4>1. k \in p + 2 .. Len(q) + 1
        BY <1>1, <2>1, <3>2
      <4> QED
        BY <1>1, <1>2, <4>1
    <3> QED
      BY <1>1, <3>1, <3>2
  <2>2. CASE i = p + 1 \/ j = p + 1
    <3>1. CASE i = p + 1 /\ j # p + 1
      <4>1. f[j].PID # e.PID
        BY <1>4, <2>1, <3>1
      <4> QED
        BY <1>2, <1>5, <3>1, <4>1
    <3>2. CASE j = p + 1 /\ i # p + 1
      <4>1. f[i].PID # e.PID
        BY <1>4, <2>1, <3>2
      <4> QED
        BY <1>2, <1>5, <3>2, <4>1
    <3> QED
      BY <2>2, <3>1, <3>2
  <2>3. CASE i # p + 1 /\ j # p + 1
    <3>1. fonte(i) = fonte(j)
      BY <1>3, <1>5, <2>1, <2>3
    <3> QED
      BY <1>1, <2>3, <3>1
  <2> QED
    BY <2>2, <2>3
<1>6. UmaPorPID(f)
  BY <1>2, <1>5 DEF UmaPorPID
<1> QED
  BY <1>6 DEF f, p

\* Nor does taking the head off repeat a client.
LEMMA RemoveItemUmaPorPID ==
  ASSUME NEW S, NEW q \in Seq(S), q # << >>, UmaPorPID(q)
  PROVE  UmaPorPID(removeItem(q))
  BY RemoveItemSeq DEF UmaPorPID

\* The queue never holds more than N entries.
LEMMA InsereCapacidade ==
  ASSUME NEW S, \A e \in S : e.tempo \in Int,
         NEW q \in Seq(S), NEW N \in Nat, NEW e \in S, Len(q) <= N
  PROVE  Len(insere(q, N, e)) <= N
<1>1. Posicao(q, e.tempo) \in 0 .. Len(q)
  <2>1. e.tempo \in Int
    OBVIOUS
  <2> QED
    BY <2>1, PosicaoDef
<1> QED
  BY <1>1, InserirSeq DEF insere, CabeNaFila
-----------------------------------------------------------------------------
(***************************************************************************)
(* Entries of one kind, those in a set X: where they are after a step.     *)
(***************************************************************************)
\* The new entry is at place p + 1, and every other one comes from the old
\* queue, each from another place.
LEMMA InserirLugares ==
  ASSUME NEW S, NEW q \in Seq(S), NEW p \in 0 .. Len(q), NEW e \in S
  PROVE  /\ Inserir(q, p, e)[p + 1] = e
         /\ \A i \in 1 .. p : Inserir(q, p, e)[i] = q[i]
         /\ \A i \in p + 2 .. Len(q) + 1 :
              i - 1 \in p + 1 .. Len(q) /\ Inserir(q, p, e)[i] = q[i - 1]
  BY DEF Inserir

\* None of the old entries is lost.
LEMMA InserirGuarda ==
  ASSUME NEW S, NEW q \in Seq(S), NEW p \in 0 .. Len(q), NEW e \in S,
         NEW k \in 1 .. Len(q)
  PROVE  \E i \in 1 .. Len(q) + 1 : Inserir(q, p, e)[i] = q[k]
<1>1. CASE k <= p
  BY <1>1, InserirLugares
<1>2. CASE k > p
  <2>1. PICK i \in p + 2 .. Len(q) + 1 : i - 1 = k
    BY <1>2
  <2>2. Inserir(q, p, e)[i] = q[k]
    BY <2>1, InserirLugares
  <2> QED
    BY <2>2
<1> QED
  BY <1>1, <1>2

\* insere loses no entry, and keeps the new one unless it refuses it.
LEMMA InsereGuarda ==
  ASSUME NEW S, \A e \in S : e.tempo \in Int,
         NEW q \in Seq(S), NEW N, NEW e \in S
  PROVE  /\ \A k \in DOMAIN q :
              \E i \in DOMAIN insere(q, N, e) : insere(q, N, e)[i] = q[k]
         /\ CabeNaFila(q, N, e.PID) =>
              \E i \in DOMAIN insere(q, N, e) : insere(q, N, e)[i] = e
<1> DEFINE p == Posicao(q, e.tempo)
<1>1. e.tempo \in Int
  OBVIOUS
<1>2. p \in 0 .. Len(q)
  BY <1>1, PosicaoDef
<1> HIDE DEF p
<1>3. CASE ~CabeNaFila(q, N, e.PID)
  BY <1>3 DEF insere
<1>4. CASE CabeNaFila(q, N, e.PID)
  <2>1. insere(q, N, e) = Inserir(q, p, e)
    BY <1>4 DEF insere, p
  <2>2. DOMAIN insere(q, N, e) = 1 .. Len(q) + 1
    BY <1>2, <2>1, InserirSeq
  <2>3. insere(q, N, e)[p + 1] = e /\ p + 1 \in 1 .. Len(q) + 1
    BY <1>2, <2>1, InserirLugares
  <2>4. ASSUME NEW k \in 1 .. Len(q)
        PROVE  \E i \in 1 .. Len(q) + 1 : Inserir(q, p, e)[i] = q[k]
    BY <1>2, InserirGuarda
  <2> QED
    BY <2>1, <2>2, <2>3, <2>4
<1> QED
  BY <1>3, <1>4

\* insere makes no entry but the new one.
LEMMA InsereOrigem ==
  ASSUME NEW S, \A e \in S : e.tempo \in Int,
         NEW q \in Seq(S), NEW N, NEW e \in S,
         NEW i \in DOMAIN insere(q, N, e)
  PROVE  \/ insere(q, N, e)[i] = e
         \/ \E k \in DOMAIN q : insere(q, N, e)[i] = q[k]
<1> DEFINE p == Posicao(q, e.tempo)
<1>1. e.tempo \in Int
  OBVIOUS
<1>2. p \in 0 .. Len(q)
  BY <1>1, PosicaoDef
<1> HIDE DEF p
<1>3. CASE ~CabeNaFila(q, N, e.PID)
  BY <1>3 DEF insere
<1>4. CASE CabeNaFila(q, N, e.PID)
  <2>1. insere(q, N, e) = Inserir(q, p, e)
    BY <1>4 DEF insere, p
  <2>2. i \in 1 .. Len(q) + 1
    <3>1. /\ Inserir(q, p, e) \in Seq(S)
          /\ Len(Inserir(q, p, e)) = Len(q) + 1
      BY <1>2, InserirSeq
    <3> QED
      BY <2>1, <3>1
  <2>3. i \in 1 .. p \/ i = p + 1 \/ i \in p + 2 .. Len(q) + 1
    BY <1>2, <2>2
  <2>4. 1 .. p \subseteq DOMAIN q /\ p + 1 .. Len(q) \subseteq DOMAIN q
    BY <1>2
  <2> QED
    BY <1>2, <2>1, <2>3, <2>4, InserirLugares
<1> QED
  BY <1>3, <1>4

\* Of a kind with one entry at most there is still one at most, unless the
\* new entry makes it two.
LEMMA InsereUnico ==
  ASSUME NEW S, \A e \in S : e.tempo \in Int,
         NEW q \in Seq(S), NEW N, NEW e \in S, NEW X,
         \A i, j \in DOMAIN q : q[i] \in X /\ q[j] \in X => i = j,
         e \in X => \A i \in DOMAIN q : q[i] \notin X
  PROVE  \A i, j \in DOMAIN insere(q, N, e) :
           insere(q, N, e)[i] \in X /\ insere(q, N, e)[j] \in X => i = j
<1> DEFINE p == Posicao(q, e.tempo)
<1>1. e.tempo \in Int
  OBVIOUS
<1>2. p \in 0 .. Len(q)
  BY <1>1, PosicaoDef
<1> HIDE DEF p
<1>3. CASE ~CabeNaFila(q, N, e.PID)
  BY <1>3 DEF insere
<1>4. CASE CabeNaFila(q, N, e.PID)
  <2> DEFINE f == Inserir(q, p, e)
             fonte(i) == IF i <= p THEN i ELSE i - 1
  <2>1. insere(q, N, e) = f
    BY <1>4 DEF insere, p
  <2>2. DOMAIN f = 1 .. Len(q) + 1
    BY <1>2, InserirSeq
  <2>3. f[p + 1] = e
    BY <1>2, InserirLugares
  <2>4. ASSUME NEW i \in 1 .. Len(q) + 1, i # p + 1
        PROVE  fonte(i) \in DOMAIN q /\ f[i] = q[fonte(i)]
    <3>1. CASE i \in 1 .. p
      BY <1>2, <3>1, InserirLugares
    <3>2. CASE i \in p + 2 .. Len(q) + 1
      <4>1. f[i] = q[i - 1] /\ ~(i <= p) /\ i - 1 \in DOMAIN q
        BY <1>2, <3>2, InserirLugares
      <4> QED
        BY <4>1
    <3> QED
      BY <1>2, <2>4, <3>1, <3>2
  <2> HIDE DEF f
  <2>5. ASSUME NEW i \in 1 .. Len(q) + 1, NEW j \in 1 .. Len(q) + 1,
               f[i] \in X, f[j] \in X
        PROVE  i = j
    <3>1. CASE e \in X
      BY <2>3, <2>4, <2>5, <3>1
    <3>2. CASE e \notin X
      <4>1. i # p + 1 /\ j # p + 1
        BY <2>3, <2>5, <3>2
      <4>2. fonte(i) = fonte(j)
        BY <2>4, <2>5, <4>1
      <4> QED
        BY <1>2, <4>1, <4>2
    <3> QED
      BY <3>1, <3>2
  <2> QED
    BY <2>1, <2>2, <2>5
<1> QED
  BY <1>3, <1>4

\* The places behind the head are those of removeItem, one further down.
LEMMA RemoveItemLugares ==
  ASSUME NEW S, NEW q \in Seq(S), q # << >>
  PROVE  /\ 1 \in DOMAIN q /\ Head(q) = q[1]
         /\ \A i \in DOMAIN removeItem(q) :
              i + 1 \in DOMAIN q /\ i + 1 # 1 /\ removeItem(q)[i] = q[i + 1]
         /\ \A k \in DOMAIN q : k # 1 =>
              k - 1 \in DOMAIN removeItem(q) /\ removeItem(q)[k - 1] = q[k]
<1>1. /\ removeItem(q) \in Seq(S) /\ Len(removeItem(q)) = Len(q) - 1
      /\ \A i \in 1 .. Len(q) - 1 : removeItem(q)[i] = q[i + 1]
  BY RemoveItemSeq
<1>2. DOMAIN removeItem(q) = 1 .. Len(q) - 1 /\ DOMAIN q = 1 .. Len(q)
  BY <1>1
<1>3. Len(q) \in Nat \ {0} /\ Head(q) = q[1]
  BY HeadTailProperties
<1>4. \A k \in 1 .. Len(q) : k # 1 => k - 1 \in 1 .. Len(q) - 1 /\ k - 1 + 1 = k
  BY <1>3
<1> QED
  BY <1>1, <1>2, <1>3, <1>4
=============================================================================
