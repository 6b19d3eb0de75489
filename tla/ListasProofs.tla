----------------------------- MODULE ListasProofs -----------------------------
(***************************************************************************)
(* Facts about the sequence operators that model the commons lists and the *)
(* squeues (utils/src/utils/squeue.c: squeue_remove_element is             *)
(* RemoveFirst), about how often an element is in a list, and about sums.  *)
(***************************************************************************)
EXTENDS Integers, SequencesExt, TLAPS, SequenceTheorems, FiniteSetTheorems, WellFoundedInduction

\* A set of naturals that is not empty has a least element, which Min yields.
LEMMA MinDeNaturales ==
  ASSUME NEW I \in SUBSET Nat, I # {}
  PROVE  Min(I) \in I /\ \A y \in I : Min(I) <= y
<1> DEFINE T == {1 .. i : i \in I}
<1>1. T \subseteq FiniteSubsetsOf(Nat) /\ T # {}
  <2>1. \A i \in I : IsFiniteSet(1 .. i)
    BY FS_Interval
  <2>2. \A i \in I : 1 .. i \in SUBSET Nat
    OBVIOUS
  <2>3. \A i \in I : 1 .. i \in FiniteSubsetsOf(Nat)
    BY <2>1, <2>2 DEF FiniteSubsetsOf
  <2> QED
    BY <2>3
<1>2. PICK s \in T : \A t \in T : <<t, s>> \notin StrictSubsetOrdering(Nat)
  <2>1. IsWellFoundedOn(StrictSubsetOrdering(Nat), FiniteSubsetsOf(Nat))
    BY FS_StrictSubsetOrderingWellFounded
  <2> HIDE DEF T
  <2> QED
    BY <1>1, <2>1, WFMin
<1>3. PICK x \in I : s = 1 .. x
  OBVIOUS
<1>4. ASSUME NEW y \in I PROVE x <= y
  <2>1. <<1 .. y, 1 .. x>> \notin StrictSubsetOrdering(Nat)
    BY <1>2, <1>3
  <2>2. SUFFICES ASSUME y < x PROVE FALSE
    OBVIOUS
  <2>3. 1 .. y \subseteq 1 .. x /\ x \in 1 .. x /\ x \notin 1 .. y
    BY <2>2
  <2> QED
    BY <2>1, <2>3 DEF StrictSubsetOrdering
<1> QED
  BY <1>4 DEF Min

\* Removing an element leaves a list of the same type and not a longer one.
LEMMA SinPrimero ==
  ASSUME NEW S, NEW s \in Seq(S), NEW e
  PROVE  /\ RemoveFirst(s, e) \in Seq(S)
         /\ Len(RemoveFirst(s, e)) <= Len(s)
<1>1. CASE ~ \E i \in 1 .. Len(s) : s[i] = e
  BY <1>1, LenProperties DEF RemoveFirst
<1>2. CASE \E i \in 1 .. Len(s) : s[i] = e
  <2> DEFINE I == {i \in 1 .. Len(s) : s[i] = e}
             k == Min(I)
  <2>1. k \in 1 .. Len(s)
    <3>1. I \in SUBSET Nat /\ I # {} /\ I \subseteq 1 .. Len(s)
      BY <1>2
    <3> HIDE DEF I
    <3> QED
      BY <3>1, MinDeNaturales
  <2>2. RemoveFirst(s, e) = SubSeq(s, 1, k - 1) \o SubSeq(s, k + 1, Len(s))
    BY <1>2 DEF RemoveFirst, RemoveAt, SelectInSeq
  <2> HIDE DEF k
  <2>3. Len(s) \in Nat /\ \A i \in 1 .. Len(s) : s[i] \in S
    BY LenProperties, ElementOfSeq
  <2>4. /\ SubSeq(s, 1, k - 1) \in Seq(S)
        /\ Len(SubSeq(s, 1, k - 1)) = IF 1 <= k - 1 THEN k - 1 - 1 + 1 ELSE 0
    BY <2>1, <2>3, SubSeqProperties
  <2>5. /\ SubSeq(s, k + 1, Len(s)) \in Seq(S)
        /\ Len(SubSeq(s, k + 1, Len(s))) = IF k + 1 <= Len(s) THEN Len(s) - (k + 1) + 1 ELSE 0
    BY <2>1, <2>3, SubSeqProperties
  <2>6. /\ RemoveFirst(s, e) \in Seq(S)
        /\ Len(RemoveFirst(s, e)) = Len(SubSeq(s, 1, k - 1)) + Len(SubSeq(s, k + 1, Len(s)))
    BY <2>2, <2>4, <2>5, ConcatProperties
  <2>7. Len(SubSeq(s, 1, k - 1)) = k - 1 /\ Len(SubSeq(s, k + 1, Len(s))) = Len(s) - k
    BY <2>1, <2>3, <2>4, <2>5
  <2>8. k - 1 + (Len(s) - k) <= Len(s)
    BY <2>1, <2>3
  <2>9. Len(RemoveFirst(s, e)) <= Len(s)
    BY ONLY <2>6, <2>7, <2>8, Zenon
  <2> QED
    BY <2>6, <2>9
<1> QED
  BY <1>1, <1>2

-----------------------------------------------------------------------------
\* x is in list s, and the elements of X are in it at most once.
En(s, x)       == \E i \in 1 .. Len(s) : s[i] = x
UnaVezEn(s, X) == \A i, j \in 1 .. Len(s) : s[i] = s[j] /\ s[i] \in X => i = j

\* After an append, a removal at the head and in no list.
LEMMA EnAppend ==
  ASSUME NEW S, NEW s \in Seq(S), NEW e \in S, NEW x
  PROVE  En(Append(s, e), x) <=> En(s, x) \/ x = e
<1>1. /\ Len(Append(s, e)) = Len(s) + 1 /\ Append(s, e)[Len(s) + 1] = e
      /\ \A i \in 1 .. Len(s) : Append(s, e)[i] = s[i]
  BY AppendProperties
<1>2. Len(s) \in Nat
  BY LenProperties
<1> QED
  BY <1>1, <1>2 DEF En

LEMMA EnTail ==
  ASSUME NEW S, NEW s \in Seq(S), s # <<>>, NEW x
  PROVE  En(s, x) <=> En(Tail(s), x) \/ x = Head(s)
<1>1. /\ Len(Tail(s)) = Len(s) - 1 /\ Head(s) = s[1]
      /\ \A i \in 1 .. Len(s) - 1 : Tail(s)[i] = s[i + 1]
  BY HeadTailProperties
<1>2. Len(s) \in Nat \ {0}
  BY EmptySeq, LenProperties
<1>3. ASSUME NEW i \in 1 .. Len(s), s[i] = x PROVE En(Tail(s), x) \/ x = Head(s)
  <2>1. CASE i = 1
    BY <1>1, <1>3, <2>1
  <2>2. CASE i # 1
    <3>1. i - 1 \in 1 .. Len(Tail(s)) /\ Tail(s)[i - 1] = s[i]
      BY <1>1, <1>2, <2>2
    <3> QED
      BY <1>3, <3>1 DEF En
  <2> QED
    BY <2>1, <2>2
<1>4. ASSUME NEW i \in 1 .. Len(Tail(s)), Tail(s)[i] = x PROVE En(s, x)
  <2>1. i + 1 \in 1 .. Len(s) /\ s[i + 1] = x
    BY <1>1, <1>2, <1>4
  <2> QED
    BY <2>1 DEF En
<1>5. x = Head(s) => En(s, x)
  BY <1>1, <1>2 DEF En
<1> QED
  BY <1>3, <1>4, <1>5 DEF En

LEMMA UnaVezAppend ==
  ASSUME NEW S, NEW X, NEW s \in Seq(S), NEW e \in S,
         UnaVezEn(s, X), e \in X => ~En(s, e)
  PROVE  UnaVezEn(Append(s, e), X)
<1>1. /\ Len(Append(s, e)) = Len(s) + 1 /\ Append(s, e)[Len(s) + 1] = e
      /\ \A i \in 1 .. Len(s) : Append(s, e)[i] = s[i]
  BY AppendProperties
<1>2. Len(s) \in Nat
  BY LenProperties
<1> QED
  BY <1>1, <1>2 DEF UnaVezEn, En

LEMMA UnaVezTail ==
  ASSUME NEW S, NEW X, NEW s \in Seq(S), s # <<>>, UnaVezEn(s, X)
  PROVE  /\ UnaVezEn(Tail(s), X)
         /\ Head(s) \in X => ~En(Tail(s), Head(s))
<1>1. /\ Len(Tail(s)) = Len(s) - 1 /\ Head(s) = s[1]
      /\ \A i \in 1 .. Len(s) - 1 : Tail(s)[i] = s[i + 1]
  BY HeadTailProperties
<1>2. Len(s) \in Nat \ {0}
  BY EmptySeq, LenProperties
<1>3. \A i \in 1 .. Len(Tail(s)) : i + 1 \in 1 .. Len(s) /\ Tail(s)[i] = s[i + 1]
  BY <1>1, <1>2
<1>4. 1 \in 1 .. Len(s)
  BY <1>2
<1> QED
  BY <1>1, <1>3, <1>4, <1>2 DEF UnaVezEn, En

LEMMA Vacia ==
  ASSUME NEW x, NEW X
  PROVE  ~En(<<>>, x) /\ UnaVezEn(<<>>, X)
  BY DEF En, UnaVezEn

\* An element leaves a list from place k: those behind it move one place.
LEMMA SinLugar ==
  ASSUME NEW S, NEW s \in Seq(S), NEW k \in 1 .. Len(s),
         NEW r, r = SubSeq(s, 1, k - 1) \o SubSeq(s, k + 1, Len(s))
  PROVE  /\ r \in Seq(S) /\ Len(r) = Len(s) - 1
         /\ \A i \in 1 .. Len(s) - 1 : r[i] = IF i < k THEN s[i] ELSE s[i + 1]
<1> DEFINE a == SubSeq(s, 1, k - 1)
           b == SubSeq(s, k + 1, Len(s))
<1>1. Len(s) \in Nat /\ \A i \in 1 .. Len(s) : s[i] \in S
  BY LenProperties, ElementOfSeq
<1>2. a \in Seq(S) /\ Len(a) = k - 1 /\ \A i \in 1 .. k - 1 : a[i] = s[i]
  BY <1>1, SubSeqProperties
<1>3. b \in Seq(S) /\ Len(b) = Len(s) - k /\ \A i \in 1 .. Len(s) - k : b[i] = s[k + i]
  BY <1>1, SubSeqProperties
<1> HIDE DEF a, b
<1>4. /\ a \o b \in Seq(S) /\ Len(a \o b) = Len(a) + Len(b)
      /\ \A i \in 1 .. Len(a) + Len(b) : (a \o b)[i] = IF i <= Len(a) THEN a[i] ELSE b[i - Len(a)]
  BY <1>2, <1>3, ConcatProperties
<1>5. \A i \in 1 .. Len(s) - 1 : (a \o b)[i] = IF i < k THEN s[i] ELSE s[i + 1]
  <2> SUFFICES ASSUME NEW i \in 1 .. Len(s) - 1
               PROVE  (a \o b)[i] = IF i < k THEN s[i] ELSE s[i + 1]
    OBVIOUS
  <2>1. CASE i < k
    BY <1>1, <1>2, <1>3, <1>4, <2>1
  <2>2. CASE ~(i < k)
    <3>1. (a \o b)[i] = b[i - (k - 1)] /\ i - (k - 1) \in 1 .. Len(s) - k
      BY SMTT(30), <1>1, <1>2, <1>3, <1>4, <2>2
    <3>2. b[i - (k - 1)] = s[k + (i - (k - 1))] /\ k + (i - (k - 1)) = i + 1
      BY <1>3, <3>1
    <3> QED
      BY <2>2, <3>1, <3>2
  <2> QED
    BY <2>1, <2>2
<1>6. a \o b \in Seq(S) /\ Len(a \o b) = Len(s) - 1
  BY <1>1, <1>2, <1>3, <1>4
<1>7. r = a \o b
  BY DEF a, b
<1> QED
  BY <1>5, <1>6, <1>7

\* A list without repetitions loses the element removed and no other.
LEMMA SinLugarQuita ==
  ASSUME NEW S, NEW s \in Seq(S), UnaVezEn(s, S), NEW k \in 1 .. Len(s)
  PROVE  /\ RemoveAt(s, k) \in Seq(S) /\ UnaVezEn(RemoveAt(s, k), S)
         /\ \A x : En(RemoveAt(s, k), x) <=> En(s, x) /\ x # s[k]
<1> DEFINE r == RemoveAt(s, k)
<1>1. /\ r \in Seq(S) /\ Len(r) = Len(s) - 1
      /\ \A i \in 1 .. Len(s) - 1 : r[i] = IF i < k THEN s[i] ELSE s[i + 1]
  BY SinLugar DEF RemoveAt
<1> HIDE DEF r
<1>2. Len(s) \in Nat /\ \A i \in 1 .. Len(s) : s[i] \in S
  BY LenProperties, ElementOfSeq
<1>3. \A i, j \in 1 .. Len(s) : s[i] = s[j] => i = j
  BY <1>2 DEF UnaVezEn
<1>4. UnaVezEn(r, S)
  BY SMTT(30), <1>1, <1>2, <1>3 DEF UnaVezEn
<1>5. ASSUME NEW i \in 1 .. Len(s), s[i] # s[k] PROVE En(r, s[i])
  <2>1. CASE i < k
    BY <1>1, <1>2, <2>1 DEF En
  <2>2. CASE i > k
    <3>1. i - 1 \in 1 .. Len(r) /\ r[i - 1] = s[(i - 1) + 1]
      BY <1>1, <1>2, <2>2
    <3> QED
      BY <3>1 DEF En
  <2> QED
    BY <1>5, <2>1, <2>2
<1>6. ASSUME NEW i \in 1 .. Len(r) PROVE r[i] # s[k] /\ En(s, r[i])
  <2>1. PICK j \in 1 .. Len(s) : r[i] = s[j] /\ j # k
    <3>1. CASE i < k
      BY <1>1, <1>2, <3>1
    <3>2. CASE i >= k
      <4>1. i + 1 \in 1 .. Len(s) /\ i + 1 # k /\ r[i] = s[i + 1]
        BY <1>1, <1>2, <3>2
      <4> QED
        BY <4>1
    <3> QED
      BY <3>1, <3>2
  <2> QED
    BY <1>3, <2>1 DEF En
<1> QED
  BY <1>1, <1>4, <1>5, <1>6 DEF En, r

\* Nor with squeue_remove_element.
LEMMA SinPrimeroQuita ==
  ASSUME NEW S, NEW s \in Seq(S), UnaVezEn(s, S), NEW e
  PROVE  /\ UnaVezEn(RemoveFirst(s, e), S)
         /\ \A x : En(RemoveFirst(s, e), x) <=> En(s, x) /\ x # e
<1>1. CASE ~ \E i \in 1 .. Len(s) : s[i] = e
  BY <1>1 DEF RemoveFirst, En
<1>2. CASE \E i \in 1 .. Len(s) : s[i] = e
  <2> DEFINE I == {i \in 1 .. Len(s) : s[i] = e}
             k == Min(I)
  <2>1. k \in I
    <3>1. I \in SUBSET Nat /\ I # {}
      BY <1>2
    <3> HIDE DEF I
    <3> QED
      BY <3>1, MinDeNaturales
  <2>2. k \in 1 .. Len(s) /\ s[k] = e
    BY <2>1
  <2>3. RemoveFirst(s, e) = RemoveAt(s, k)
    BY <1>2 DEF RemoveFirst, SelectInSeq
  <2> HIDE DEF k
  <2> QED
    BY <2>2, <2>3, SinLugarQuita
<1> QED
  BY <1>1, <1>2

\* A function on 1 .. n is a list of n elements.
LEMMA ListaDeFuncion ==
  ASSUME NEW S, NEW n \in Nat, NEW f \in [1 .. n -> S]
  PROVE  f \in Seq(S) /\ Len(f) = n
  OBVIOUS

-----------------------------------------------------------------------------
(* Sums over a finite set.  SumFunction is a recursive function over the    *)
(* subsets of its domain: that there is one, and what it is worth after one *)
(* term has changed, follow from the least cardinal that would have it      *)
(* otherwise.                                                               *)

\* SumFunction(f) by its definition, an iteration over the subsets of its domain.
Iteracion(S, f) ==
  CHOOSE iter : iter = [s \in SUBSET S |-> IF s = {} THEN 0
                          ELSE f[CHOOSE x \in s : TRUE] + iter[s \ {CHOOSE x \in s : TRUE}]]
Elegido(s) == CHOOSE x \in s : TRUE
EsSuma(I, C, f) ==
  I = [s \in C |-> IF s = {} THEN 0 ELSE f[Elegido(s)] + I[s \ {Elegido(s)}]]
Chicos(S, n) == {s \in SUBSET S : Cardinality(s) <= n}

\* What the iteration yields for every subset.
Acumula(K, S, f) ==
  /\ K \in [SUBSET S -> Nat] /\ K[{}] = 0
  /\ \A s \in SUBSET S : s # {} => K[s] = f[Elegido(s)] + K[s \ {Elegido(s)}]

LEMMA FoldEsIteracion ==
  ASSUME NEW S, NEW f, DOMAIN f = S
  PROVE  SumFunction(f) = Iteracion(S, f)[S]
BY DEF SumFunction, SumFunctionOnSet, FoldFunctionOnSet, MapThenFoldSet, Iteracion

LEMMA ElegidoEsta ==
  ASSUME NEW S, IsFiniteSet(S), NEW s \in SUBSET S, s # {}
  PROVE  /\ Elegido(s) \in s /\ s \ {Elegido(s)} \in SUBSET S
         /\ Cardinality(s) \in Nat \ {0}
         /\ Cardinality(s \ {Elegido(s)}) = Cardinality(s) - 1
<1>1. IsFiniteSet(s)
  BY FS_Subset
<1>2. Elegido(s) \in s
  BY DEF Elegido
<1>3. Cardinality(s) \in Nat /\ Cardinality(s) # 0
  BY <1>1, FS_CardinalityType, FS_EmptySet
<1> QED
  BY <1>1, <1>2, <1>3, FS_RemoveElement

\* The iteration exists, over sets of at most n elements, for every n: otherwise take
\* the least n for which it does not.
LEMMA HayIteracion ==
  ASSUME NEW S, IsFiniteSet(S), NEW f \in [S -> Nat]
  PROVE  \A n \in Nat : \E I \in [Chicos(S, n) -> Nat] : EsSuma(I, Chicos(S, n), f)
<1> DEFINE Falta == {n \in Nat : ~ \E I \in [Chicos(S, n) -> Nat] : EsSuma(I, Chicos(S, n), f)}
<1> SUFFICES ASSUME Falta # {} PROVE FALSE
  OBVIOUS
<1> DEFINE n == Min(Falta)
<1>1. n \in Falta /\ \A m \in Falta : n <= m
  <2>1. Falta \in SUBSET Nat
    OBVIOUS
  <2> HIDE DEF Falta
  <2> QED
    BY <2>1, MinDeNaturales
<1>2. n \in Nat
  BY <1>1
<1> HIDE DEF n
<1>3. CASE n = 0
  <2>1. \A s \in Chicos(S, 0) : s = {}
    <3> TAKE s \in Chicos(S, 0)
    <3>1. s \in SUBSET S /\ Cardinality(s) <= 0
      BY DEF Chicos
    <3>2. s # {} => Cardinality(s) \in Nat \ {0}
      BY <3>1, ElegidoEsta
    <3> QED
      BY <3>1, <3>2
  <2>2. [s \in Chicos(S, 0) |-> 0] \in [Chicos(S, 0) -> Nat]
    OBVIOUS
  <2>3. EsSuma([s \in Chicos(S, 0) |-> 0], Chicos(S, 0), f)
    BY <2>1 DEF EsSuma
  <2> QED
    BY <1>1, <1>3, <2>2, <2>3
<1>4. CASE n # 0
  <2>1. n - 1 \in Nat /\ n - 1 \notin Falta
    BY <1>1, <1>2, <1>4
  <2>2. PICK J \in [Chicos(S, n - 1) -> Nat] : EsSuma(J, Chicos(S, n - 1), f)
    BY <2>1
  <2> DEFINE R(s) == IF s = {} THEN 0 ELSE f[Elegido(s)] + J[s \ {Elegido(s)}]
             K == [s \in Chicos(S, n) |-> R(s)]
  <2>3. \A s \in Chicos(S, n) : s # {} => /\ Elegido(s) \in S
                                          /\ s \ {Elegido(s)} \in Chicos(S, n - 1)
                                          /\ s \ {Elegido(s)} \in Chicos(S, n)
    <3> TAKE s \in Chicos(S, n)
    <3> HAVE s # {}
    <3>1. s \in SUBSET S /\ Cardinality(s) <= n
      BY DEF Chicos
    <3>2. /\ Elegido(s) \in s /\ s \ {Elegido(s)} \in SUBSET S
          /\ Cardinality(s) \in Nat
          /\ Cardinality(s \ {Elegido(s)}) = Cardinality(s) - 1
      BY <3>1, ElegidoEsta
    <3> QED
      BY <1>2, <3>1, <3>2 DEF Chicos
  <2>4. \A s \in Chicos(S, n) : R(s) \in Nat
    BY <2>2, <2>3
  <2>5. \A s \in Chicos(S, n - 1) : s \in Chicos(S, n) /\ J[s] = R(s)
    <3>1. \A s \in Chicos(S, n - 1) : J[s] = R(s)
      BY <2>2 DEF EsSuma
    <3>2. \A s \in Chicos(S, n - 1) : s \in Chicos(S, n)
      <4> TAKE s \in Chicos(S, n - 1)
      <4>1. s \in SUBSET S /\ Cardinality(s) <= n - 1
        BY DEF Chicos
      <4>2. Cardinality(s) \in Nat
        BY <4>1, FS_Subset, FS_CardinalityType
      <4> QED
        BY <1>2, <4>1, <4>2 DEF Chicos
    <3> QED
      BY <3>1, <3>2
  <2>6. K \in [Chicos(S, n) -> Nat]
    BY <2>4
  <2>7. \A s \in Chicos(S, n - 1) : K[s] = J[s]
    BY <2>5
  <2>8. \A s \in Chicos(S, n) :
          K[s] = IF s = {} THEN 0 ELSE f[Elegido(s)] + K[s \ {Elegido(s)}]
    BY <2>3, <2>7
  <2>9. EsSuma(K, Chicos(S, n), f)
    <3> DEFINE L == [s \in Chicos(S, n) |-> IF s = {} THEN 0 ELSE f[Elegido(s)] + K[s \ {Elegido(s)}]]
    <3>1. DOMAIN K = Chicos(S, n)
      OBVIOUS
    <3>2. K = [s \in Chicos(S, n) |-> K[s]]
      OBVIOUS
    <3> HIDE DEF K
    <3> QED
      BY <2>8, <3>2 DEF EsSuma
  <2> QED
    BY <1>1, <2>6, <2>9
<1> QED
  BY <1>3, <1>4

LEMMA IteracionEsSuma ==
  ASSUME NEW S, IsFiniteSet(S), NEW f \in [S -> Nat]
  PROVE  Acumula(Iteracion(S, f), S, f)
<1>1. Cardinality(S) \in Nat
  BY FS_CardinalityType
<1>2. Chicos(S, Cardinality(S)) = SUBSET S
  BY FS_Subset DEF Chicos
<1>3. PICK I \in [SUBSET S -> Nat] : EsSuma(I, SUBSET S, f)
  <2>1. \E I \in [Chicos(S, Cardinality(S)) -> Nat] : EsSuma(I, Chicos(S, Cardinality(S)), f)
    BY <1>1, HayIteracion
  <2> QED
    BY <1>2, <2>1
<1>4. EsSuma(Iteracion(S, f), SUBSET S, f)
  BY <1>3 DEF Iteracion, EsSuma, Elegido
<1> DEFINE K == Iteracion(S, f)
<1> HIDE DEF K
<1>5. /\ K = [s \in SUBSET S |-> IF s = {} THEN 0 ELSE f[Elegido(s)] + K[s \ {Elegido(s)}]]
  BY <1>4 DEF EsSuma, K
<1>6. /\ K[{}] = 0 /\ DOMAIN K = SUBSET S
      /\ \A s \in SUBSET S : s # {} => K[s] = f[Elegido(s)] + K[s \ {Elegido(s)}]
  BY <1>5
<1>7. K \in [SUBSET S -> Nat]
  <2> DEFINE Mal == {n \in Nat : \E s \in SUBSET S : Cardinality(s) = n /\ K[s] \notin Nat}
  <2>1. ASSUME Mal # {} PROVE FALSE
    <3>1. Mal \in SUBSET Nat
      OBVIOUS
    <3>2. Min(Mal) \in Mal /\ \A m \in Mal : Min(Mal) <= m
      <4> HIDE DEF Mal
      <4> QED
        BY <2>1, <3>1, MinDeNaturales
    <3>3. PICK s \in SUBSET S : Cardinality(s) = Min(Mal) /\ K[s] \notin Nat
      BY <3>2
    <3>4. s # {}
      <4>1. s = {} => K[s] = 0
        BY <1>6
      <4> QED
        BY <3>3, <4>1
    <3>5. /\ Elegido(s) \in s /\ s \ {Elegido(s)} \in SUBSET S
          /\ Cardinality(s) \in Nat \ {0}
          /\ Cardinality(s \ {Elegido(s)}) = Cardinality(s) - 1
      BY <3>4, ElegidoEsta
    <3>6. Cardinality(s) - 1 \notin Mal
      <4>1. Cardinality(s) - 1 \in Mal => Cardinality(s) <= Cardinality(s) - 1
        BY <3>2, <3>3
      <4> QED
        BY <3>5, <4>1
    <3>7. K[s \ {Elegido(s)}] \in Nat
      BY <3>5, <3>6
    <3>8. K[s] = f[Elegido(s)] + K[s \ {Elegido(s)}]
      BY <1>6, <3>4
    <3>9. f[Elegido(s)] \in Nat
      BY <3>5
    <3> QED
      BY <3>3, <3>7, <3>8, <3>9
  <2>2. \A s \in SUBSET S : Cardinality(s) \in Nat
    BY FS_Subset, FS_CardinalityType
  <2>3. \A s \in SUBSET S : K[s] \in Nat
    BY <2>1, <2>2
  <2> QED
    BY <1>6, <2>3, <1>5
<1> QED
  <2>1. Acumula(K, S, f)
    BY <1>6, <1>7 DEF Acumula
  <2> QED
    BY <2>1 DEF K

\* A sum whose terms differ in one place differs by what that term does.
LEMMA SumaCambia ==
  ASSUME NEW S, IsFiniteSet(S), NEW f \in [S -> Nat], NEW g \in [S -> Nat],
         NEW x \in S, \A y \in S \ {x} : g[y] = f[y]
  PROVE  /\ SumFunction(f) \in Nat /\ SumFunction(g) \in Nat
         /\ SumFunction(g) + f[x] = SumFunction(f) + g[x]
<1> DEFINE F == Iteracion(S, f)
           G == Iteracion(S, g)
<1> HIDE DEF F, G
<1>1. /\ F \in [SUBSET S -> Nat] /\ F[{}] = 0
      /\ \A s \in SUBSET S : s # {} => F[s] = f[Elegido(s)] + F[s \ {Elegido(s)}]
  <2>1. Acumula(F, S, f)
    BY IteracionEsSuma DEF F
  <2> QED
    BY <2>1 DEF Acumula
<1>2. /\ G \in [SUBSET S -> Nat] /\ G[{}] = 0
      /\ \A s \in SUBSET S : s # {} => G[s] = g[Elegido(s)] + G[s \ {Elegido(s)}]
  <2>1. Acumula(G, S, g)
    BY IteracionEsSuma DEF G
  <2> QED
    BY <2>1 DEF Acumula
<1> DEFINE Bien(s) == IF x \in s THEN G[s] + f[x] = F[s] + g[x] ELSE G[s] = F[s]
           Mal == {n \in Nat : \E s \in SUBSET S : Cardinality(s) = n /\ ~Bien(s)}
<1>3. ASSUME Mal # {} PROVE FALSE
  <2>1. Mal \in SUBSET Nat
    OBVIOUS
  <2>2. Min(Mal) \in Mal /\ \A m \in Mal : Min(Mal) <= m
    <3> HIDE DEF Mal
    <3> QED
      BY <1>3, <2>1, MinDeNaturales
  <2>3. PICK s \in SUBSET S : Cardinality(s) = Min(Mal) /\ ~Bien(s)
    BY <2>2
  <2>4. s # {}
    BY <1>1, <1>2, <2>3
  <2> DEFINE e == Elegido(s)
             r == s \ {e}
  <2>5. /\ e \in s /\ r \in SUBSET S
        /\ Cardinality(s) \in Nat \ {0}
        /\ Cardinality(r) = Cardinality(s) - 1
    BY <2>4, ElegidoEsta
  <2>6. Bien(r)
    <3>1. Cardinality(s) - 1 \in Mal => Cardinality(s) <= Cardinality(s) - 1
      BY <2>2, <2>3
    <3>2. Cardinality(s) - 1 \notin Mal
      BY <2>5, <3>1
    <3> HIDE DEF Bien
    <3> QED
      BY <2>5, <3>2
  <2>7. F[s] = f[e] + F[r] /\ G[s] = g[e] + G[r]
    BY <1>1, <1>2, <2>4
  <2>8. /\ f[e] \in Nat /\ g[e] \in Nat /\ f[x] \in Nat /\ g[x] \in Nat
        /\ F[r] \in Nat /\ G[r] \in Nat
    BY <1>1, <1>2, <2>5
  <2>9. e \in S /\ (e # x => g[e] = f[e]) /\ x \in r <=> x \in s /\ e # x
    BY <2>5
  <2> HIDE DEF e, r
  <2>10. CASE e = x
    BY <2>3, <2>6, <2>7, <2>8, <2>9, <2>10, <2>5
  <2>11. CASE e # x
    BY <2>3, <2>6, <2>7, <2>8, <2>9, <2>11, <2>5
  <2> QED
    BY <2>10, <2>11
<1>4. Cardinality(S) \in Nat
  BY FS_CardinalityType
<1>5. G[S] + f[x] = F[S] + g[x]
  <2>1. Bien(S)
    <3> HIDE DEF Bien
    <3> QED
      BY <1>3, <1>4
  <2> QED
    BY <2>1
<1>6. SumFunction(f) = F[S] /\ SumFunction(g) = G[S]
  BY FoldEsIteracion DEF F, G
<1> QED
  BY <1>1, <1>2, <1>5, <1>6

\* Every term is part of the sum.
LEMMA SumaCubre ==
  ASSUME NEW S, IsFiniteSet(S), NEW f \in [S -> Nat], NEW x \in S
  PROVE  SumFunction(f) \in Nat /\ f[x] <= SumFunction(f)
<1> DEFINE g == [f EXCEPT ![x] = 0]
<1>1. g \in [S -> Nat] /\ g[x] = 0 /\ \A y \in S \ {x} : g[y] = f[y]
  OBVIOUS
<1> HIDE DEF g
<1>2. /\ SumFunction(f) \in Nat /\ SumFunction(g) \in Nat
      /\ SumFunction(g) + f[x] = SumFunction(f) + g[x]
  BY <1>1, SumaCambia
<1>3. f[x] \in Nat
  OBVIOUS
<1> QED
  BY <1>1, <1>2, <1>3

LEMMA SumaNatural ==
  ASSUME NEW S, IsFiniteSet(S), NEW f \in [S -> Nat]
  PROVE  SumFunction(f) \in Nat
<1>1. Acumula(Iteracion(S, f), S, f)
  BY IteracionEsSuma
<1>2. SumFunction(f) = Iteracion(S, f)[S]
  BY FoldEsIteracion
<1> QED
  BY <1>1, <1>2 DEF Acumula

LEMMA SumaDeCeros ==
  ASSUME NEW S, IsFiniteSet(S), NEW f \in [S -> Nat], \A x \in S : f[x] = 0
  PROVE  SumFunction(f) = 0
<1> DEFINE F == Iteracion(S, f)
<1> HIDE DEF F
<1>1. Acumula(F, S, f)
  BY IteracionEsSuma DEF F
<1> DEFINE Mal == {n \in Nat : \E s \in SUBSET S : Cardinality(s) = n /\ F[s] # 0}
<1>2. ASSUME Mal # {} PROVE FALSE
  <2>1. Mal \in SUBSET Nat
    OBVIOUS
  <2>2. Min(Mal) \in Mal /\ \A m \in Mal : Min(Mal) <= m
    <3> HIDE DEF Mal
    <3> QED
      BY <1>2, <2>1, MinDeNaturales
  <2>3. PICK s \in SUBSET S : Cardinality(s) = Min(Mal) /\ F[s] # 0
    BY <2>2
  <2>4. s # {}
    <3>1. s = {} => F[s] = 0
      BY <1>1 DEF Acumula
    <3> QED
      BY <2>3, <3>1
  <2>5. /\ Elegido(s) \in s /\ s \ {Elegido(s)} \in SUBSET S
        /\ Cardinality(s) \in Nat \ {0}
        /\ Cardinality(s \ {Elegido(s)}) = Cardinality(s) - 1
    BY <2>4, ElegidoEsta
  <2>6. Cardinality(s) - 1 \notin Mal
    <3>1. Cardinality(s) - 1 \in Mal => Cardinality(s) <= Cardinality(s) - 1
      BY <2>2, <2>3
    <3> QED
      BY <2>5, <3>1
  <2>7. F[s \ {Elegido(s)}] = 0
    BY <2>5, <2>6
  <2>8. F[s] = f[Elegido(s)] + F[s \ {Elegido(s)}] /\ f[Elegido(s)] = 0
    BY <1>1, <2>4, <2>5 DEF Acumula
  <2> QED
    BY <2>3, <2>7, <2>8
<1>3. Cardinality(S) \in Nat
  BY FS_CardinalityType
<1>4. F[S] = 0
  BY <1>2, <1>3
<1> QED
  BY <1>4, FoldEsIteracion DEF F

\* A sum with no smaller term is no smaller.
LEMMA SumaCrece ==
  ASSUME NEW S, IsFiniteSet(S), NEW f \in [S -> Nat], NEW g \in [S -> Nat],
         \A x \in S : f[x] <= g[x]
  PROVE  SumFunction(f) <= SumFunction(g)
<1> DEFINE F == Iteracion(S, f)
           G == Iteracion(S, g)
<1> HIDE DEF F, G
<1>1. Acumula(F, S, f) /\ Acumula(G, S, g)
  BY IteracionEsSuma DEF F, G
<1> DEFINE Mal == {n \in Nat : \E s \in SUBSET S : Cardinality(s) = n /\ ~(F[s] <= G[s])}
<1>2. ASSUME Mal # {} PROVE FALSE
  <2>1. Mal \in SUBSET Nat
    OBVIOUS
  <2>2. Min(Mal) \in Mal /\ \A m \in Mal : Min(Mal) <= m
    <3> HIDE DEF Mal
    <3> QED
      BY <1>2, <2>1, MinDeNaturales
  <2>3. PICK s \in SUBSET S : Cardinality(s) = Min(Mal) /\ ~(F[s] <= G[s])
    BY <2>2
  <2>4. s # {}
    <3>1. s = {} => F[s] = 0 /\ G[s] = 0
      BY <1>1 DEF Acumula
    <3> QED
      BY <2>3, <3>1
  <2> DEFINE e == Elegido(s)
             r == s \ {e}
  <2>5. /\ e \in s /\ r \in SUBSET S
        /\ Cardinality(s) \in Nat \ {0}
        /\ Cardinality(r) = Cardinality(s) - 1
    BY <2>4, ElegidoEsta
  <2>6. F[r] <= G[r]
    <3>1. Cardinality(s) - 1 \in Mal => Cardinality(s) <= Cardinality(s) - 1
      BY <2>2, <2>3
    <3>2. Cardinality(s) - 1 \notin Mal
      BY <2>5, <3>1
    <3> HIDE DEF e, r
    <3> QED
      BY <2>5, <3>2
  <2>7. F[s] = f[e] + F[r] /\ G[s] = g[e] + G[r]
    BY <1>1, <2>4 DEF Acumula
  <2>8. f[e] \in Nat /\ g[e] \in Nat /\ f[e] <= g[e] /\ F[r] \in Nat /\ G[r] \in Nat
    BY <1>1, <2>5 DEF Acumula
  <2> HIDE DEF e, r
  <2> QED
    BY <2>3, <2>6, <2>7, <2>8
<1>3. Cardinality(S) \in Nat
  BY FS_CardinalityType
<1>4. F[S] <= G[S]
  BY <1>2, <1>3
<1> QED
  BY <1>4, FoldEsIteracion DEF F, G

\* Two sums that differ at one place by less than the other counter makes up for.
LEMMA SumaCompensa ==
  ASSUME NEW S, IsFiniteSet(S), NEW f \in [S -> Nat], NEW g \in [S -> Nat], NEW c \in S,
         NEW a \in Nat, NEW b \in Nat,
         \A x \in S \ {c} : g[x] >= f[x], b + g[c] >= a + f[c]
  PROVE  b + SumFunction(g) >= a + SumFunction(f)
<1> DEFINE h == [f EXCEPT ![c] = g[c]]
<1>1. h \in [S -> Nat] /\ h[c] = g[c] /\ (\A x \in S \ {c} : h[x] = f[x])
  OBVIOUS
<1>2. \A x \in S : h[x] <= g[x]
  BY <1>1
<1> HIDE DEF h
<1>3. /\ SumFunction(f) \in Nat /\ SumFunction(h) \in Nat
      /\ SumFunction(h) + f[c] = SumFunction(f) + h[c]
  BY <1>1, SumaCambia
<1>4. SumFunction(h) <= SumFunction(g) /\ SumFunction(g) \in Nat
  BY <1>1, <1>2, SumaCrece, SumaNatural
<1>5. f[c] \in Nat /\ g[c] \in Nat
  OBVIOUS
<1> QED
  BY <1>1, <1>3, <1>4, <1>5

\* The sum over a set, by any of its elements and what is left without it.
SinCualquiera(K, S, f) == \A s \in SUBSET S : \A x \in s : K[s] = f[x] + K[s \ {x}]

LEMMA AcumulaSinUno ==
  ASSUME NEW S, IsFiniteSet(S), NEW f \in [S -> Nat]
  PROVE  SinCualquiera(Iteracion(S, f), S, f)
<1> DEFINE F == Iteracion(S, f)
<1>0. Acumula(F, S, f)
  BY IteracionEsSuma
<1> HIDE DEF F
<1>1. /\ F \in [SUBSET S -> Nat] /\ F[{}] = 0
      /\ \A s \in SUBSET S : s # {} => F[s] = f[Elegido(s)] + F[s \ {Elegido(s)}]
  BY <1>0 DEF Acumula
<1> DEFINE Bien(s) == \A x \in s : F[s] = f[x] + F[s \ {x}]
           Mal == {n \in Nat : \E s \in SUBSET S : Cardinality(s) = n /\ ~Bien(s)}
<1>2. ASSUME Mal # {} PROVE FALSE
  <2>1. Mal \in SUBSET Nat
    OBVIOUS
  <2>2. Min(Mal) \in Mal /\ \A m \in Mal : Min(Mal) <= m
    <3> HIDE DEF Mal
    <3> QED
      BY <1>2, <2>1, MinDeNaturales
  <2>3. PICK s \in SUBSET S : Cardinality(s) = Min(Mal) /\ ~Bien(s)
    BY <2>2
  <2>4. \A r \in SUBSET s : r # s => Bien(r)
    <3> SUFFICES ASSUME NEW r \in SUBSET s, r # s PROVE Bien(r)
      OBVIOUS
    <3>1. /\ IsFiniteSet(s) /\ IsFiniteSet(r) /\ Cardinality(r) \in Nat /\ Cardinality(s) \in Nat
          /\ Cardinality(r) <= Cardinality(s) /\ Cardinality(r) # Cardinality(s)
      <4>1. IsFiniteSet(s)
        BY FS_Subset
      <4> QED
        BY <4>1, FS_Subset, FS_CardinalityType
    <3>2. Cardinality(r) \notin Mal
      <4>1. Cardinality(r) \in Mal => Cardinality(s) <= Cardinality(r)
        BY <2>2, <2>3
      <4> QED
        BY <3>1, <4>1
    <3>3. r \in SUBSET S
      OBVIOUS
    <3> HIDE DEF Bien
    <3> QED
      BY <3>1, <3>2, <3>3
  <2>5. PICK x \in s : F[s] # f[x] + F[s \ {x}]
    BY <2>3
  <2> DEFINE e == Elegido(s)
             r == s \ {x, e}
  <2>6. e \in s /\ F[s] = f[e] + F[s \ {e}]
    BY <1>1, <2>5 DEF Elegido
  <2>7. e # x
    BY <2>5, <2>6
  <2> HIDE DEF e
  <2>8. F[s \ {e}] = f[x] + F[r]
    <3>1. s \ {e} \in SUBSET s /\ s \ {e} # s /\ x \in s \ {e} /\ (s \ {e}) \ {x} = r
      BY <2>6, <2>7
    <3> QED
      BY <2>4, <3>1
  <2>9. F[s \ {x}] = f[e] + F[r]
    <3>1. s \ {x} \in SUBSET s /\ s \ {x} # s /\ e \in s \ {x} /\ (s \ {x}) \ {e} = r
      BY <2>6, <2>7
    <3> QED
      BY <2>4, <3>1
  <2>10. f[x] \in Nat /\ f[e] \in Nat /\ F[r] \in Nat
    BY <1>1, <2>6
  <2> QED
    BY <2>5, <2>6, <2>8, <2>9, <2>10
<1>3. \A s \in SUBSET S : Cardinality(s) \in Nat
  BY FS_Subset, FS_CardinalityType
<1>4. \A s \in SUBSET S : Bien(s)
  <2> HIDE DEF Bien
  <2> QED
    BY <1>2, <1>3
<1> QED
  <2>1. SinCualquiera(F, S, f)
    BY <1>4 DEF SinCualquiera
  <2> QED
    BY <2>1 DEF F

\* A sum over part of a set does not depend on the rest of it.
LEMMA AcumulaParte ==
  ASSUME NEW S, IsFiniteSet(S), NEW f \in [S -> Nat], NEW F, Acumula(F, S, f),
         NEW T \in SUBSET S, NEW g \in [T -> Nat], NEW G, Acumula(G, T, g),
         \A y \in T : g[y] = f[y]
  PROVE  \A s \in SUBSET T : F[s] = G[s]
<1>1. IsFiniteSet(T)
  BY FS_Subset
<1> DEFINE Mal == {n \in Nat : \E s \in SUBSET T : Cardinality(s) = n /\ F[s] # G[s]}
<1>2. ASSUME Mal # {} PROVE FALSE
  <2>1. Mal \in SUBSET Nat
    OBVIOUS
  <2>2. Min(Mal) \in Mal /\ \A m \in Mal : Min(Mal) <= m
    <3> HIDE DEF Mal
    <3> QED
      BY <1>2, <2>1, MinDeNaturales
  <2>3. PICK s \in SUBSET T : Cardinality(s) = Min(Mal) /\ F[s] # G[s]
    BY <2>2
  <2>4. s # {}
    <3>1. s = {} => F[s] = 0 /\ G[s] = 0
      BY DEF Acumula
    <3> QED
      BY <2>3, <3>1
  <2>5. /\ Elegido(s) \in s /\ s \ {Elegido(s)} \in SUBSET T
        /\ Cardinality(s) \in Nat \ {0}
        /\ Cardinality(s \ {Elegido(s)}) = Cardinality(s) - 1
    BY <1>1, <2>4, ElegidoEsta
  <2>6. Cardinality(s) - 1 \notin Mal
    <3>1. Cardinality(s) - 1 \in Mal => Cardinality(s) <= Cardinality(s) - 1
      BY <2>2, <2>3
    <3> QED
      BY <2>5, <3>1
  <2>7. F[s \ {Elegido(s)}] = G[s \ {Elegido(s)}]
    BY <2>5, <2>6
  <2>8. F[s] = f[Elegido(s)] + F[s \ {Elegido(s)}] /\ G[s] = g[Elegido(s)] + G[s \ {Elegido(s)}]
    BY <2>4, s \in SUBSET S DEF Acumula
  <2> QED
    BY <2>3, <2>5, <2>7, <2>8
<1>3. \A s \in SUBSET T : Cardinality(s) \in Nat
  BY <1>1, FS_Subset, FS_CardinalityType
<1> QED
  BY <1>2, <1>3

\* The sum of f is that of g and the term of x.
TerminoMas(f, g, x) ==
  SumFunction(f) \in Nat /\ SumFunction(g) \in Nat /\ SumFunction(f) = f[x] + SumFunction(g)

LEMMA SumaSinUno ==
  ASSUME NEW S, IsFiniteSet(S), NEW f \in [S -> Nat], NEW x \in S,
         NEW T, T = S \ {x}, NEW g \in [T -> Nat], \A y \in T : g[y] = f[y]
  PROVE  TerminoMas(f, g, x)
<1> DEFINE F == Iteracion(S, f)
           G == Iteracion(T, g)
<1>1. IsFiniteSet(T) /\ T \in SUBSET S
  BY FS_Subset
<1>2. Acumula(F, S, f)
  BY IteracionEsSuma
<1>3. Acumula(G, T, g)
  BY <1>1, IteracionEsSuma
<1>4. SumFunction(f) = F[S] /\ SumFunction(g) = G[T]
  BY FoldEsIteracion
<1>5. F[S] = f[x] + F[T]
  <2>1. SinCualquiera(F, S, f)
    BY AcumulaSinUno
  <2> HIDE DEF F
  <2> QED
    BY <2>1 DEF SinCualquiera
<1> HIDE DEF F, G
<1>6. F[T] = G[T]
  BY <1>1, <1>2, <1>3, AcumulaParte
<1>7. F[S] \in Nat /\ G[T] \in Nat
  BY <1>2, <1>3 DEF Acumula
<1> QED
  BY <1>4, <1>5, <1>6, <1>7 DEF TerminoMas

LEMMA SumaHasta ==
  ASSUME NEW k \in Nat \ {0}, NEW f \in [1 .. k -> Nat], NEW g \in [1 .. k - 1 -> Nat],
         \A j \in 1 .. k - 1 : g[j] = f[j]
  PROVE  TerminoMas(f, g, k)
<1> DEFINE I == 1 .. k
           J == 1 .. k - 1
<1>1. IsFiniteSet(I)
  BY FS_Interval
<1>2. J = I \ {k} /\ k \in I
  OBVIOUS
<1>3. f \in [I -> Nat] /\ g \in [J -> Nat] /\ \A j \in J : g[j] = f[j]
  OBVIOUS
<1> HIDE DEF I, J
<1> QED
  BY ONLY <1>1, <1>2, <1>3, SumaSinUno, f \in [I -> Nat], g \in [J -> Nat]

LEMMA SumaVacia == ASSUME NEW f \in [{} -> Nat] PROVE SumFunction(f) = 0
  BY FS_EmptySet, SumaDeCeros

-----------------------------------------------------------------------------
(* How many times an element is in a list.                                  *)

Donde(s, e)   == {k \in DOMAIN s : s[k] = e}
Cuantas(s, e) == Cardinality(Donde(s, e))
SiNo(b)       == IF b THEN 1 ELSE 0

LEMMA DondeFinito ==
  ASSUME NEW S, NEW s \in Seq(S), NEW e
  PROVE  IsFiniteSet(Donde(s, e)) /\ Cuantas(s, e) \in Nat
<1>1. Len(s) \in Nat /\ DOMAIN s = 1 .. Len(s)
  BY LenProperties
<1>2. IsFiniteSet(1 .. Len(s))
  BY <1>1, FS_Interval
<1>3. Donde(s, e) \in SUBSET (1 .. Len(s))
  BY <1>1 DEF Donde
<1> QED
  BY <1>2, <1>3, FS_Subset, FS_CardinalityType DEF Cuantas

LEMMA CuantasVacia == ASSUME NEW e PROVE Cuantas(<<>>, e) = 0
<1>1. Donde(<<>>, e) = {}
  BY DEF Donde
<1> QED
  BY <1>1, FS_EmptySet DEF Cuantas

LEMMA CuantasEn ==
  ASSUME NEW S, NEW s \in Seq(S), NEW e
  PROVE  Cuantas(s, e) > 0 <=> En(s, e)
<1>1. IsFiniteSet(Donde(s, e)) /\ Cuantas(s, e) \in Nat
  BY DondeFinito
<1>2. Cuantas(s, e) = 0 <=> Donde(s, e) = {}
  BY <1>1, FS_EmptySet DEF Cuantas
<1>3. Donde(s, e) = {} <=> ~En(s, e)
  BY LenProperties DEF Donde, En
<1> QED
  BY <1>1, <1>2, <1>3

LEMMA CuantasAppend ==
  ASSUME NEW S, NEW s \in Seq(S), NEW x \in S, NEW e
  PROVE  Cuantas(Append(s, x), e) = Cuantas(s, e) + SiNo(x = e)
<1> DEFINE t == Append(s, x)
           n == Len(s) + 1
<1>1. /\ Len(s) \in Nat /\ DOMAIN s = 1 .. Len(s) /\ DOMAIN t = 1 .. n
      /\ t[n] = x /\ \A i \in 1 .. Len(s) : t[i] = s[i]
  BY AppendProperties, LenProperties
<1>2. n \notin Donde(s, e)
  BY <1>1 DEF Donde
<1>3. IsFiniteSet(Donde(s, e)) /\ Cuantas(s, e) \in Nat
  BY DondeFinito
<1> HIDE DEF t
<1>4. CASE x = e
  <2>1. Donde(t, e) = Donde(s, e) \cup {n}
    BY <1>1, <1>4 DEF Donde
  <2> QED
    BY <1>2, <1>3, <1>4, <2>1, FS_AddElement DEF Cuantas, SiNo, t
<1>5. CASE x # e
  <2>1. Donde(t, e) = Donde(s, e)
    BY <1>1, <1>5 DEF Donde
  <2> QED
    BY <1>3, <1>5, <2>1 DEF Cuantas, SiNo, t
<1> QED
  BY <1>4, <1>5

\* The element at place k leaves: it is there once less.
LEMMA CuantasSinLugar ==
  ASSUME NEW S, NEW s \in Seq(S), NEW k \in 1 .. Len(s), NEW r \in Seq(S),
         Len(r) = Len(s) - 1,
         \A i \in 1 .. Len(s) - 1 : r[i] = IF i < k THEN s[i] ELSE s[i + 1],
         NEW e
  PROVE  Cuantas(s, e) = Cuantas(r, e) + SiNo(s[k] = e)
<1>1. Len(s) \in Nat /\ DOMAIN s = 1 .. Len(s) /\ DOMAIN r = 1 .. Len(s) - 1
  BY LenProperties
<1>2. IsFiniteSet(Donde(s, e)) /\ Cuantas(s, e) \in Nat /\ IsFiniteSet(Donde(r, e)) /\ Cuantas(r, e) \in Nat
  BY DondeFinito
<1> DEFINE A == Donde(r, e)
           B == Donde(s, e) \ {k}
           f == [i \in A |-> IF i < k THEN i ELSE i + 1]
<1>3. ExistsBijection(A, B)
  <2>1. \A i \in A : f[i] \in B
    BY <1>1 DEF Donde
  <2>2. \A i, j \in A : f[i] = f[j] => i = j
    BY <1>1 DEF Donde
  <2>3. \A y \in B : \E i \in A : f[i] = y
    <3> TAKE y \in B
    <3>1. y \in 1 .. Len(s) /\ s[y] = e /\ y # k
      BY <1>1 DEF Donde
    <3>2. CASE y < k
      <4>1. y \in A
        BY <1>1, <3>1, <3>2 DEF Donde
      <4> QED
        BY <3>2, <4>1
    <3>3. CASE y > k
      <4>1. y - 1 \in A
        BY <1>1, <3>1, <3>3 DEF Donde
      <4>2. f[y - 1] = y
        BY <1>1, <3>1, <3>3, <4>1
      <4> QED
        BY <4>1, <4>2
    <3> QED
      BY <1>1, <3>1, <3>2, <3>3
  <2> HIDE DEF A, B
  <2>4. f \in [A -> B]
    BY <2>1
  <2> HIDE DEF f
  <2>5. f \in Injection(A, B)
    BY <2>2, <2>4 DEF Injection, IsInjective
  <2>6. f \in Surjection(A, B)
    BY <2>3, <2>4 DEF Surjection
  <2>7. f \in Bijection(A, B)
    BY <2>5, <2>6 DEF Bijection
  <2> QED
    BY <2>7 DEF ExistsBijection
<1>4. Cardinality(B) = Cardinality(A)
  BY <1>2, <1>3, FS_Bijection
<1>5. Cardinality(B) = Cardinality(Donde(s, e)) - SiNo(s[k] = e)
  <2>1. k \in Donde(s, e) <=> s[k] = e
    BY <1>1 DEF Donde
  <2>2. Cardinality(B) = IF k \in Donde(s, e) THEN Cardinality(Donde(s, e)) - 1
                         ELSE Cardinality(Donde(s, e))
    BY <1>2, FS_RemoveElement
  <2> QED
    BY <1>2, <2>1, <2>2 DEF SiNo, Cuantas
<1> QED
  BY <1>2, <1>4, <1>5 DEF Cuantas, SiNo

LEMMA CuantasTail ==
  ASSUME NEW S, NEW s \in Seq(S), s # <<>>, NEW e
  PROVE  Cuantas(s, e) = Cuantas(Tail(s), e) + SiNo(Head(s) = e)
<1>1. /\ Tail(s) \in Seq(S) /\ Len(Tail(s)) = Len(s) - 1 /\ Head(s) = s[1]
      /\ \A i \in 1 .. Len(s) - 1 : Tail(s)[i] = s[i + 1]
  BY HeadTailProperties
<1>2. Len(s) \in Nat \ {0}
  BY EmptySeq, LenProperties
<1>3. 1 \in 1 .. Len(s) /\ \A i \in 1 .. Len(s) - 1 : ~(i < 1)
  BY <1>2
<1>4. \A i \in 1 .. Len(s) - 1 : Tail(s)[i] = IF i < 1 THEN s[i] ELSE s[i + 1]
  BY <1>1, <1>3
<1> DEFINE r == Tail(s)
<1>5. r \in Seq(S) /\ Len(r) = Len(s) - 1
  BY <1>1
<1>6. \A i \in 1 .. Len(s) - 1 : r[i] = IF i < 1 THEN s[i] ELSE s[i + 1]
  BY <1>4
<1> HIDE DEF r
<1>7. Cuantas(s, e) = Cuantas(r, e) + SiNo(s[1] = e)
  BY <1>3, <1>5, <1>6, CuantasSinLugar
<1> QED
  BY <1>1, <1>7 DEF r


LEMMA CuantasSinPrimero ==
  ASSUME NEW S, NEW s \in Seq(S), NEW x, NEW e
  PROVE  Cuantas(s, e) = Cuantas(RemoveFirst(s, x), e) + SiNo(x = e /\ En(s, x))
<1>0. Cuantas(s, e) \in Nat
  BY DondeFinito
<1>1. CASE ~ En(s, x)
  <2>1. RemoveFirst(s, x) = s
    BY <1>1 DEF RemoveFirst, En
  <2> QED
    BY <1>0, <1>1, <2>1 DEF SiNo
<1>2. CASE En(s, x)
  <2> DEFINE I == {i \in 1 .. Len(s) : s[i] = x}
             k == Min(I)
             r == SubSeq(s, 1, k - 1) \o SubSeq(s, k + 1, Len(s))
  <2>1. k \in I
    <3>1. I \in SUBSET Nat /\ I # {}
      BY <1>2 DEF En
    <3> HIDE DEF I
    <3> QED
      BY <3>1, MinDeNaturales
  <2>2. k \in 1 .. Len(s) /\ s[k] = x
    BY <2>1
  <2>3. RemoveFirst(s, x) = r
    BY <1>2 DEF RemoveFirst, RemoveAt, SelectInSeq, En
  <2> HIDE DEF k
  <2>4. /\ r \in Seq(S) /\ Len(r) = Len(s) - 1
        /\ \A i \in 1 .. Len(s) - 1 : r[i] = IF i < k THEN s[i] ELSE s[i + 1]
    BY <2>2, SinLugar
  <2> HIDE DEF r
  <2>5. Cuantas(s, e) = Cuantas(r, e) + SiNo(s[k] = e)
    BY <2>2, <2>4, CuantasSinLugar
  <2> QED
    BY <1>2, <2>2, <2>3, <2>5 DEF SiNo
<1> QED
  BY <1>1, <1>2

-----------------------------------------------------------------------------
(* Two lists one behind the other.                                          *)

LEMMA EnConcat ==
  ASSUME NEW S, NEW s \in Seq(S), NEW t \in Seq(S), NEW x
  PROVE  En(s \o t, x) <=> En(s, x) \/ En(t, x)
<1>1. /\ Len(s) \in Nat /\ Len(t) \in Nat /\ Len(s \o t) = Len(s) + Len(t)
      /\ \A i \in 1 .. Len(s) + Len(t) : (s \o t)[i] = IF i <= Len(s) THEN s[i] ELSE t[i - Len(s)]
  BY ConcatProperties, LenProperties
<1>2. ASSUME NEW i \in 1 .. Len(s), s[i] = x PROVE En(s \o t, x)
  BY <1>1, <1>2 DEF En
<1>3. ASSUME NEW i \in 1 .. Len(t), t[i] = x PROVE En(s \o t, x)
  <2>1. i + Len(s) \in 1 .. Len(s) + Len(t) /\ ~(i + Len(s) <= Len(s)) /\ (i + Len(s)) - Len(s) = i
    BY <1>1
  <2>2. (s \o t)[i + Len(s)] = x
    BY <1>1, <1>3, <2>1
  <2> QED
    BY <1>1, <2>1, <2>2 DEF En
<1>4. ASSUME NEW i \in 1 .. Len(s) + Len(t), (s \o t)[i] = x PROVE En(s, x) \/ En(t, x)
  <2>1. CASE i <= Len(s)
    BY <1>1, <1>4, <2>1 DEF En
  <2>2. CASE ~(i <= Len(s))
    <3>1. i - Len(s) \in 1 .. Len(t) /\ t[i - Len(s)] = x
      BY <1>1, <1>4, <2>2
    <3> QED
      BY <3>1 DEF En
  <2> QED
    BY <2>1, <2>2
<1> QED
  BY <1>1, <1>2, <1>3, <1>4 DEF En

LEMMA UnaVezConcat ==
  ASSUME NEW S, NEW s \in Seq(S), NEW t \in Seq(S), NEW X,
         UnaVezEn(s, X), UnaVezEn(t, X), \A x \in X : ~(En(s, x) /\ En(t, x))
  PROVE  UnaVezEn(s \o t, X)
<1> DEFINE r == s \o t
<1>1. /\ Len(s) \in Nat /\ Len(t) \in Nat /\ Len(r) = Len(s) + Len(t)
      /\ \A i \in 1 .. Len(s) + Len(t) : r[i] = IF i <= Len(s) THEN s[i] ELSE t[i - Len(s)]
  BY ConcatProperties, LenProperties
<1> HIDE DEF r
<1>2. ASSUME NEW i \in 1 .. Len(s) + Len(t)
      PROVE  \/ i \in 1 .. Len(s) /\ r[i] = s[i]
             \/ i - Len(s) \in 1 .. Len(t) /\ r[i] = t[i - Len(s)]
  BY <1>1, <1>2
<1>3. SUFFICES ASSUME NEW i \in 1 .. Len(s) + Len(t), NEW j \in 1 .. Len(s) + Len(t),
                      r[i] = r[j], r[i] \in X
               PROVE  i = j
  BY <1>1 DEF UnaVezEn, r
<1>4. CASE i \in 1 .. Len(s) /\ r[i] = s[i] /\ j \in 1 .. Len(s) /\ r[j] = s[j]
  BY <1>3, <1>4 DEF UnaVezEn
<1>5. CASE /\ i - Len(s) \in 1 .. Len(t) /\ r[i] = t[i - Len(s)]
           /\ j - Len(s) \in 1 .. Len(t) /\ r[j] = t[j - Len(s)]
  <2>1. i - Len(s) = j - Len(s)
    BY <1>3, <1>5 DEF UnaVezEn
  <2> QED
    BY <1>1, <2>1
<1>6. ASSUME NEW a \in 1 .. Len(s), NEW b \in 1 .. Len(t), s[a] = t[b], s[a] \in X PROVE FALSE
  BY <1>6 DEF En
<1> QED
  BY <1>2, <1>3, <1>4, <1>5, <1>6

\* What is there, and only once, has one place.
LEMMA CuentaUna ==
  ASSUME NEW S, NEW s \in Seq(S), NEW X, NEW x \in X, UnaVezEn(s, X), En(s, x)
  PROVE  Cuantas(s, x) = 1
<1>1. DOMAIN s = 1 .. Len(s)
  BY LenProperties
<1>2. PICK i \in 1 .. Len(s) : s[i] = x
  BY DEF En
<1>3. Donde(s, x) = {i}
  BY <1>1, <1>2 DEF Donde, UnaVezEn
<1> QED
  BY <1>3, FS_Singleton DEF Cuantas
=============================================================================
