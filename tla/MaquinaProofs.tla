---------------------------- MODULE MaquinaProofs ----------------------------
(***************************************************************************)
(* The path of an instruction implements the machine of each process, for  *)
(* any programs, interfaces, page tables and number of processes: what a   *)
(* process would find on a machine of its own is what is in the registers  *)
(* the CPU or its PCB holds, and in memory once the writes on their way    *)
(* arrive, and each step of the system is one instruction of one process,  *)
(* one input it asked for, or nothing.                                     *)
(***************************************************************************)
EXTENDS CicloProofs

-----------------------------------------------------------------------------
(* The fragments of an access                                               *)

\* traducir_direccion gives C fragments: the k-th goes from logical address H[k - 1] to
\* H[k], in page P[k], and begins at physical address F[k].
Fragmentado(p, dl, tam, C, H, P, F) ==
  /\ C \in Nat /\ H \in [0 .. C -> Nat] /\ P \in [1 .. C -> Nat] /\ F \in [1 .. C -> Nat]
  /\ H[0] = dl /\ H[C] = dl + tam
  /\ traducir_direccion(p, dl, tam)
       = [k \in 1 .. C |-> [direccion_fisica |-> F[k], tamanio |-> H[k] - H[k - 1]]]
  /\ \A k \in 1 .. C :
       /\ P[k] < Len(Marcos[p]) /\ H[k - 1] <= H[k]
       /\ P[k] * TAM_PAGINA <= H[k - 1] /\ H[k - 1] < (P[k] + 1) * TAM_PAGINA
       /\ H[k] <= (P[k] + 1) * TAM_PAGINA
       /\ F[k] = (Marcos[p][P[k] + 1] * TAM_PAGINA) + (H[k - 1] % TAM_PAGINA)

\* Every access within the process's pages is cut so.
LEMMA Fragmentos ==
  ASSUME NEW p \in Pids, NEW e, e = Len(Marcos[p]) * TAM_PAGINA,
         NEW dl \in 0 .. e - 1, NEW tam \in Nat, dl + tam <= e
  PROVE  \E C, H, P, F : Fragmentado(p, dl, tam, C, H, P, F)
<1> DEFINE T == TAM_PAGINA
           n == dl \div T
           fin == dl + tam
           Pagina(k) == n + k - 1
           Desde(k) == IF k = 1 THEN dl ELSE Pagina(k) * T
           Hasta(k) == IF fin < (Pagina(k) + 1) * T THEN fin ELSE (Pagina(k) + 1) * T
           u == (fin - 1) \div T
           C == IF tam = 0 THEN 1 ELSE u - n + 1
           Fis(k) == (Marcos[p][Pagina(k) + 1] * T) + (Desde(k) % T)
           H == [k \in 0 .. C |-> IF k = 0 THEN dl ELSE Hasta(k)]
           P == [k \in 1 .. C |-> Pagina(k)]
           F == [k \in 1 .. C |-> Fis(k)]
<1>1. traducir_direccion(p, dl, tam)
        = [k \in 1 .. C |-> [direccion_fisica |-> Fis(k), tamanio |-> Hasta(k) - Desde(k)]]
  BY DEF traducir_direccion
<1>2. T \in Nat /\ T > 0 /\ Len(Marcos[p]) \in Nat /\ e \in Nat
  BY ConstantesCiclo
<1>3. dl \in Nat /\ fin \in Nat /\ fin <= e /\ dl <= fin
  BY <1>2
<1>4. n \in Nat /\ n * T <= dl /\ dl < (n + 1) * T /\ dl = n * T + (dl % T)
  <2>1. dl = n * T + (dl % T) /\ n \in Nat /\ (dl % T) \in 0 .. T - 1
    BY <1>3, CocienteYResto
  <2>2. n * T \in Nat /\ (n + 1) * T = n * T + T
    BY <1>2, <2>1
  <2> QED
    BY <1>2, <1>3, <2>1, <2>2
<1>5. tam > 0 => u \in Nat /\ u * T <= fin - 1 /\ n <= u /\ fin <= (u + 1) * T
  <2> SUFFICES ASSUME tam > 0 PROVE u \in Nat /\ u * T <= fin - 1 /\ n <= u /\ fin <= (u + 1) * T
    OBVIOUS
  <2>1. fin - 1 \in Nat /\ dl <= fin - 1
    BY <1>3
  <2>2. u \in Nat /\ fin - 1 = u * T + ((fin - 1) % T) /\ ((fin - 1) % T) \in 0 .. T - 1
    BY <2>1, CocienteYResto
  <2>3. u * T \in Nat /\ (u + 1) * T = u * T + T
    BY <1>2, <2>2
  <2>4. u * T <= fin - 1 /\ n * T < (u + 1) * T /\ fin <= (u + 1) * T
    BY <1>2, <1>4, <2>1, <2>2, <2>3
  <2>5. n < u + 1
    BY <1>4, <2>2, <2>4, PaginaDentro
  <2> QED
    BY <1>4, <2>2, <2>4, <2>5
<1>6. C \in Nat /\ C >= 1
  BY <1>4, <1>5
<1> HIDE DEF T, n, fin, u, C
<1>7. ASSUME NEW k \in 1 .. C
      PROVE  /\ Pagina(k) \in Nat /\ Pagina(k) * T \in Nat
             /\ Pagina(k) * T <= fin /\ Pagina(k) * T < e /\ (k > 1 => Pagina(k) * T < fin)
  <2>1. CASE tam = 0
    <3>1. k = 1 /\ Pagina(k) = n
      BY <1>4, <2>1 DEF C
    <3> QED
      BY <1>2, <1>3, <1>4, <3>1
  <2>2. CASE tam > 0
    <3>1. Pagina(k) \in Nat /\ Pagina(k) <= u /\ u \in Nat /\ u * T <= fin - 1
      BY <1>4, <1>5, <2>2 DEF C
    <3> DEFINE Q == Pagina(k)
    <3> HIDE DEF Q
    <3>2. Q \in Nat /\ Q <= u /\ u \in Nat
      BY <3>1 DEF Q
    <3>3. Q * T <= u * T /\ Q * T \in Nat /\ u * T \in Nat
      BY <1>2, <3>2
    <3> QED
      BY SMTT(30), <1>3, <3>1, <3>3 DEF Q
  <2> QED
    BY <2>1, <2>2
<1>8. ASSUME NEW k \in 1 .. C
      PROVE  /\ Pagina(k) \in Nat /\ Pagina(k) < Len(Marcos[p])
             /\ Desde(k) \in Nat /\ Hasta(k) \in Nat /\ Desde(k) <= Hasta(k)
             /\ Pagina(k) * T <= Desde(k) /\ Desde(k) < (Pagina(k) + 1) * T
             /\ Hasta(k) <= (Pagina(k) + 1) * T /\ Desde(k) = H[k - 1] /\ Fis(k) \in Nat
  <2> DEFINE Q == Pagina(k)
             z == (Q + 1) * T
             d == Desde(k)
             h == Hasta(k)
  <2>1. Q \in Nat /\ Q < Len(Marcos[p])
    BY <1>2, <1>7, PaginaDentro DEF T
  <2>2. z = Q * T + T /\ Q * T \in Nat /\ Q * T <= fin
    BY <1>2, <1>7, <2>1
  <2>3. d \in Nat /\ Q * T <= d /\ d < z /\ d <= fin
    <3>1. CASE k = 1
      <4>1. Q = n /\ d = dl
        BY <1>4, <3>1
      <4> QED
        BY <1>3, <1>4, <4>1
    <3>2. CASE k > 1
      <4>1. d = Q * T
        BY <3>2
      <4> HIDE DEF d, Q, z
      <4> QED
        BY SMTT(30), <1>2, <2>2, <4>1
    <3> QED
      BY <1>6, <3>1, <3>2
  <2>4. h \in Nat /\ d <= h /\ h <= z
    <3>1. z \in Nat /\ h = IF fin < z THEN fin ELSE z
      BY SMTT(30), <1>2, <2>2
    <3> HIDE DEF z, h, d
    <3> QED
      BY <1>3, <2>3, <3>1
  <2>5. d = H[k - 1]
    <3>1. CASE k = 1
      BY <1>6, <3>1
    <3>2. CASE k > 1
      <4>1. k - 1 \in 0 .. C /\ k - 1 # 0 /\ Pagina(k - 1) + 1 = Q
        BY <1>4, <1>6, <3>2
      <4>2. H[k - 1] = Hasta(k - 1)
        BY <4>1
      <4>3. Q * T < fin
        BY <1>7, <3>2
      <4>4. Hasta(k - 1) = IF fin < Q * T THEN fin ELSE Q * T
        BY <4>1
      <4>5. d = Q * T
        BY <3>2
      <4> HIDE DEF d, Q, H, Hasta
      <4> QED
        BY <1>3, <2>2, <4>2, <4>3, <4>4, <4>5
    <3> QED
      BY <1>6, <3>1, <3>2
  <2>6. Fis(k) \in Nat
    <3>1. Marcos[p] \in Seq(Nat)
      BY ConstantesCiclo
    <3>2. Marcos[p][Q + 1] \in Nat
      <4> HIDE DEF Q
      <4> QED
        BY SMTT(30), <2>1, <3>1
    <3>3. (d % T) \in Nat
      <4> HIDE DEF d
      <4> QED
        BY <2>3, CocienteYResto DEF T
    <3>4. Marcos[p][Q + 1] * T \in Nat
      <4> HIDE DEF Q
      <4> QED
        BY <3>2, Producto DEF T
    <3> DEFINE x == Marcos[p][Q + 1] * T
               y == (d % T)
    <3>5. Fis(k) = x + y
      OBVIOUS
    <3> HIDE DEF x, y
    <3>6. x \in Nat /\ y \in Nat
      BY <3>3, <3>4 DEF x, y
    <3> QED
      BY <3>5, <3>6
  <2> QED
    BY <2>1, <2>3, <2>4, <2>5, <2>6
<1> HIDE DEF Pagina, Hasta, Desde, Fis
<1>9. H \in [0 .. C -> Nat] /\ P \in [1 .. C -> Nat] /\ F \in [1 .. C -> Nat] /\ H[0] = dl
  <2>1. \A k \in 1 .. C : Pagina(k) \in Nat /\ Hasta(k) \in Nat /\ Fis(k) \in Nat
    BY <1>8
  <2>2. \A k \in 0 .. C : k # 0 => k \in 1 .. C
    BY <1>6
  <2> QED
    BY <1>3, <1>6, <2>1, <2>2
<1>10. H[C] = dl + tam
  <2>1. H[C] = Hasta(C)
    BY <1>6
  <2> USE DEF Pagina, Hasta
  <2>2. CASE tam = 0
    <3>1. Pagina(C) = n /\ fin = dl
      BY <1>3, <1>4, <2>2 DEF C, fin
    <3>2. Hasta(C) = fin
      BY <1>4, <3>1
    <3> QED
      BY <2>1, <3>2 DEF fin
  <2>3. CASE tam > 0
    <3>1. Pagina(C) = u
      BY <1>4, <1>5, <2>3 DEF C
    <3>2. fin <= (u + 1) * T /\ (u + 1) * T \in Nat
      BY <1>2, <1>5, <2>3
    <3>3. Hasta(C) = IF fin < (u + 1) * T THEN fin ELSE (u + 1) * T
      BY <3>1
    <3> HIDE DEF Hasta, H
    <3>4. Hasta(C) = fin
      BY <1>3, <3>2, <3>3
    <3> QED
      BY <2>1, <3>4 DEF fin
  <2> QED
    BY <2>2, <2>3
<1>11. \A k \in 1 .. C : H[k] = Hasta(k) /\ P[k] = Pagina(k) /\ F[k] = Fis(k) /\ Desde(k) = H[k - 1]
  BY <1>6, <1>8
<1> HIDE DEF H, P, F
<1>12. traducir_direccion(p, dl, tam)
         = [k \in 1 .. C |-> [direccion_fisica |-> F[k], tamanio |-> H[k] - H[k - 1]]]
  BY <1>1, <1>11
<1>13. \A k \in 1 .. C :
         /\ P[k] < Len(Marcos[p]) /\ H[k - 1] <= H[k]
         /\ P[k] * T <= H[k - 1] /\ H[k - 1] < (P[k] + 1) * T
         /\ H[k] <= (P[k] + 1) * T
         /\ F[k] = (Marcos[p][P[k] + 1] * T) + (H[k - 1] % T)
  <2> TAKE k \in 1 .. C
  <2>1. Fis(k) = (Marcos[p][Pagina(k) + 1] * T) + (Desde(k) % T)
    BY DEF Fis
  <2> QED
    BY <1>8, <1>11, <2>1
<1>14. Fragmentado(p, dl, tam, C, H, P, F)
  BY <1>6, <1>9, <1>10, <1>12, <1>13 DEF Fragmentado, T
<1> QED
  BY <1>14

\* The bytes of a list, fragment after fragment.
LEMMA SumaDe ==
  ASSUME NEW lista, NEW L \in Nat, L = Len(lista)
  PROVE  \E f : /\ Fisicas(lista) = f[L] /\ f[0] = <<>>
                /\ \A n \in 1 .. L : f[n] = f[n - 1] \o Tramo(lista, n)
<1> DEFINE f == CHOOSE h : Suma(lista, h, L)
<1>2. Fisicas(lista) = f[L]
  BY DEF Fisicas, Suma, Tramo
<1> DEFINE A == {n \in 0 .. L : \E h : Suma(lista, h, n)}
<1>4. \A n \in 0 .. L : n \in A
  <2>1. 0 \in A
    <3> DEFINE h == [i \in 0 .. 0 |-> <<>>]
    <3>1. Suma(lista, h, 0)
      BY DEF Suma
    <3> HIDE DEF h
    <3> QED
      BY <3>1
  <2>2. ASSUME NEW n \in 0 .. L - 1, n \in A PROVE n + 1 \in A
    <3>1. PICK h : Suma(lista, h, n)
      BY <2>2
    <3>3. PICK k : Suma(lista, k, n + 1)
      BY <3>1, SumaUnoMas
    <3> QED
      BY <3>3
  <2> HIDE DEF A
  <2> QED
    BY <2>1, <2>2, Induccion
<1>5. Suma(lista, f, L)
  <2>1. \E h : Suma(lista, h, L)
    BY <1>4
  <2> QED
    BY <2>1
<1> HIDE DEF f
<1> DEFINE G(x, i) == x \o Tramo(lista, i)
<1>6. f = [i \in 0 .. L |-> IF i = 0 THEN <<>> ELSE G(f[i - 1], i)]
  BY <1>5 DEF Suma
<1> HIDE DEF G
<1>7. f[0] = <<>> /\ \A n \in 1 .. L : f[n] = G(f[n - 1], n)
  BY <1>6
<1> QED
  BY <1>2, <1>7 DEF G

\* The first a of w, and the b that follow.
LEMMA Prefijo ==
  ASSUME NEW w, NEW a \in Nat, NEW b \in Nat
  PROVE  [k \in 1 .. a |-> w[k]] \o [k \in 1 .. b |-> w[a + k]] = [k \in 1 .. a + b |-> w[k]]
<1> DEFINE S == {w[k] : k \in 1 .. a + b}
           x == [k \in 1 .. a |-> w[k]]
           y == [k \in 1 .. b |-> w[a + k]]
           z == [k \in 1 .. a + b |-> w[k]]
<1>1. x \in Seq(S) /\ Len(x) = a
  <2>1. x \in [1 .. a -> S]
    OBVIOUS
  <2> HIDE DEF x, S
  <2> QED
    BY <2>1, ListaDeFuncion
<1>2. y \in Seq(S) /\ Len(y) = b
  <2>1. y \in [1 .. b -> S]
    OBVIOUS
  <2> HIDE DEF y, S
  <2> QED
    BY <2>1, ListaDeFuncion
<1>3. z \in Seq(S) /\ Len(z) = a + b
  <2>1. z \in [1 .. a + b -> S]
    OBVIOUS
  <2> HIDE DEF z, S
  <2> QED
    BY <2>1, ListaDeFuncion
<1>4. \A k \in 1 .. a : x[k] = w[k]
  OBVIOUS
<1>5. \A k \in 1 .. b : y[k] = w[a + k]
  OBVIOUS
<1>6. \A k \in 1 .. a + b : z[k] = w[k]
  OBVIOUS
<1> HIDE DEF S, x, y, z
<1>7. x \o y \in Seq(S) /\ Len(x \o y) = a + b
  BY <1>1, <1>2
<1>8. ASSUME NEW k \in 1 .. a + b PROVE (x \o y)[k] = z[k]
  <2>1. ASSUME k <= a PROVE (x \o y)[k] = z[k]
    BY <1>1, <1>2, <1>4, <1>6, <2>1
  <2>2. ASSUME k > a PROVE (x \o y)[k] = z[k]
    <3>1. k - a \in 1 .. b /\ a + (k - a) = k
      BY <2>2
    <3>2. (x \o y)[k] = y[k - a]
      BY SMTT(30), <1>1, <1>2, <2>2
    <3> QED
      BY <1>5, <1>6, <3>1, <3>2
  <2>3. k <= a \/ k > a
    OBVIOUS
  <2> QED
    BY <2>1, <2>2, <2>3
<1>9. x \o y = z
  <2> DEFINE c == x \o y
  <2>1. c \in Seq(S) /\ Len(c) = a + b /\ \A k \in 1 .. a + b : c[k] = z[k]
    BY <1>7, <1>8
  <2> HIDE DEF c
  <2>2. c = z
    BY <1>3, <2>1
  <2> QED
    BY <2>2 DEF c
<1> QED
  BY <1>9 DEF x, y, z

\* Where a process's byte d is.
Fisica(p, d) == (Marcos[p][(d \div TAM_PAGINA) + 1] * TAM_PAGINA) + (d % TAM_PAGINA)
EspacioDe(p) == Len(Marcos[p]) * TAM_PAGINA

\* The page of an address and its place in it.
LEMMA EnSuPagina ==
  ASSUME NEW x \in Nat, NEW P \in Nat, P * TAM_PAGINA <= x, x < (P + 1) * TAM_PAGINA
  PROVE  x \div TAM_PAGINA = P /\ (x % TAM_PAGINA) = x - P * TAM_PAGINA
<1> DEFINE T == TAM_PAGINA
           q == x \div T
           r == (x % T)
<1>1. q \in Nat /\ r \in 0 .. T - 1 /\ x = q * T + r /\ T \in Nat
  BY CocienteYResto, ConstantesCiclo
<1> HIDE DEF q, r
<1>2. (q + 1) * T = q * T + T /\ q * T \in Nat /\ P * T \in Nat /\ (P + 1) * T \in Nat
  BY <1>1, Producto
<1>3. q * T < (P + 1) * T /\ P * T < (q + 1) * T
  <2> DEFINE a == q * T
             b == P * T
             c == (P + 1) * T
             d == (q + 1) * T
  <2>1. a \in Nat /\ b \in Nat /\ c \in Nat /\ d = a + T /\ x = a + r /\ b <= x /\ x < c
    BY <1>1, <1>2
  <2> HIDE DEF a, b, c, d
  <2>2. a < c /\ b < d
    BY <1>1, <2>1
  <2> QED
    BY <2>2 DEF a, b, c, d
<1>4. q < P + 1 /\ P < q + 1
  BY <1>1, <1>3, PaginaDentro
<1>5. q = P
  BY <1>1, <1>4
<1>6. r = x - P * T
  <2> DEFINE a == P * T
  <2>1. a \in Nat /\ x = a + r
    BY <1>1, <1>2, <1>5
  <2> HIDE DEF a
  <2>2. r = x - a
    BY <1>1, <2>1
  <2> QED
    BY <2>2 DEF a
<1> QED
  BY <1>5, <1>6 DEF q, r

\* The bytes of an access, in order.
LEMMA FisicasDe ==
  ASSUME NEW p \in Pids, NEW dl \in 0 .. EspacioDe(p) - 1, NEW tam \in Nat, dl + tam <= EspacioDe(p)
  PROVE  Fisicas(traducir_direccion(p, dl, tam)) = [k \in 1 .. tam |-> Fisica(p, dl + k - 1)]
<1> DEFINE T == TAM_PAGINA
<1>1. PICK C, H, P, F : Fragmentado(p, dl, tam, C, H, P, F)
  <2> DEFINE e == EspacioDe(p)
  <2>1. dl \in 0 .. e - 1 /\ dl + tam <= e
    OBVIOUS
  <2>2. e = Len(Marcos[p]) * TAM_PAGINA
    BY DEF EspacioDe
  <2> HIDE DEF e
  <2> QED
    BY <2>1, <2>2, Fragmentos
<1>2. /\ C \in Nat /\ H \in [0 .. C -> Nat] /\ P \in [1 .. C -> Nat] /\ F \in [1 .. C -> Nat]
      /\ H[0] = dl /\ H[C] = dl + tam
      /\ traducir_direccion(p, dl, tam)
           = [k \in 1 .. C |-> [direccion_fisica |-> F[k], tamanio |-> H[k] - H[k - 1]]]
      /\ \A k \in 1 .. C :
           /\ P[k] < Len(Marcos[p]) /\ H[k - 1] <= H[k]
           /\ P[k] * T <= H[k - 1] /\ H[k - 1] < (P[k] + 1) * T
           /\ H[k] <= (P[k] + 1) * T
           /\ F[k] = (Marcos[p][P[k] + 1] * T) + (H[k - 1] % T)
  BY <1>1 DEF Fragmentado
<1> C \in Nat /\ H \in [0 .. C -> Nat] /\ P \in [1 .. C -> Nat] /\ F \in [1 .. C -> Nat]
  BY <1>2
<1> DEFINE lista == traducir_direccion(p, dl, tam)
           w == [k \in 1 .. tam |-> Fisica(p, dl + k - 1)]
<1>3. Len(lista) = C /\ \A k \in 1 .. C : lista[k].direccion_fisica = F[k] /\ lista[k].tamanio = H[k] - H[k - 1]
  BY <1>2
<1>4. dl \in Nat /\ T \in Nat /\ T > 0
  BY ConstantesCiclo DEF EspacioDe
<1>5. PICK f : /\ Fisicas(lista) = f[C] /\ f[0] = <<>>
               /\ \A n \in 1 .. C : f[n] = f[n - 1] \o Tramo(lista, n)
  <2> HIDE DEF lista
  <2> QED
    BY <1>3, SumaDe
<1> HIDE DEF lista
\* The ends go up.
<1>6. \A n \in 0 .. C : H[n] \in dl .. dl + tam
  <2> DEFINE A == {n \in 0 .. C : dl <= H[n]}
             B == {n \in 0 .. C : H[C - n] <= H[C]}
  <2>1. \A n \in 0 .. C : n \in A
    <3>1. 0 \in A
      BY <1>2, <1>4
    <3>2. ASSUME NEW n \in 0 .. C - 1, n \in A PROVE n + 1 \in A
      <4>1. n + 1 \in 1 .. C /\ n + 1 - 1 = n /\ n \in 0 .. C /\ n + 1 \in 0 .. C
        OBVIOUS
      <4>2. H[n] <= H[n + 1] /\ H[n] \in Nat /\ H[n + 1] \in Nat /\ dl <= H[n]
        BY <1>2, <3>2, <4>1
      <4> QED
        BY <1>4, <4>1, <4>2
    <3> HIDE DEF A
    <3> QED
      BY <3>1, <3>2, Induccion
  <2>2. \A n \in 0 .. C : n \in B
    <3>1. 0 \in B
      BY <1>2
    <3>2. ASSUME NEW n \in 0 .. C - 1, n \in B PROVE n + 1 \in B
      <4>1. /\ C - n \in 1 .. C /\ C - n - 1 = C - (n + 1) /\ C - n \in 0 .. C
            /\ C - (n + 1) \in 0 .. C /\ n + 1 \in 0 .. C /\ C \in 0 .. C
        OBVIOUS
      <4>2. H[C - (n + 1)] <= H[C - n]
        BY <1>2, <4>1
      <4>3. H[C - (n + 1)] \in Nat /\ H[C - n] \in Nat /\ H[C] \in Nat /\ H[C - n] <= H[C]
        BY <3>2, <4>1
      <4>4. H[C - (n + 1)] <= H[C]
        BY <4>2, <4>3
      <4> QED
        BY <4>1, <4>4
    <3> HIDE DEF B
    <3> QED
      BY <3>1, <3>2, Induccion
  <2> TAKE n \in 0 .. C
  <2>3. dl <= H[n]
    BY <2>1
  <2>4. C - n \in 0 .. C /\ C - (C - n) = n
    OBVIOUS
  <2>5. H[n] <= H[C]
    BY <2>2, <2>4
  <2> QED
    BY <1>2, <1>4, <2>3, <2>5
\* Each fragment is a piece of w.
<1>7. ASSUME NEW n \in 1 .. C
      PROVE  /\ H[n - 1] - dl \in Nat /\ H[n] - H[n - 1] \in Nat
             /\ (H[n - 1] - dl) + (H[n] - H[n - 1]) = H[n] - dl
             /\ Tramo(lista, n) = [k \in 1 .. H[n] - H[n - 1] |-> w[(H[n - 1] - dl) + k]]
  <2> DEFINE d == H[n - 1]
             h == H[n]
             Q == P[n]
             m == Marcos[p][Q + 1]
  <2>1. n - 1 \in 0 .. C /\ n \in 0 .. C
    OBVIOUS
  <2>2. d \in dl .. dl + tam /\ h \in dl .. dl + tam /\ d <= h /\ Q \in Nat /\ d \in Nat /\ h \in Nat
    BY <1>2, <1>4, <1>6, <2>1
  <2>3. Q < Len(Marcos[p]) /\ Q * T <= d /\ d < (Q + 1) * T /\ h <= (Q + 1) * T
        /\ F[n] = (m * T) + (d % T) /\ F[n] \in Nat
    BY <1>2
  <2>4. Tramo(lista, n) = [k \in 1 .. h - d |-> F[n] + k - 1]
    <3>1. lista[n].direccion_fisica = F[n] /\ lista[n].tamanio = h - d
      BY <1>3
    <3> HIDE DEF h, d
    <3> QED
      BY <3>1 DEF Tramo
  <2> HIDE DEF d, h, Q, w
  <2>5. ASSUME NEW k \in 1 .. h - d PROVE F[n] + k - 1 = w[(d - dl) + k]
    <3> DEFINE x == d + k - 1
               y == Q * T
               z == (Q + 1) * T
               mT == m * T
    <3>1. y \in Nat /\ z \in Nat /\ mT \in Nat
      <4>1. Marcos[p] \in Seq(Nat)
        BY ConstantesCiclo
      <4>2. Q \in Nat /\ Q < Len(Marcos[p])
        BY <2>2, <2>3
      <4>3. m \in Nat
        BY SMTT(30), <4>1, <4>2
      <4> HIDE DEF m
      <4>4. y \in Nat /\ mT \in Nat
        BY <4>2, <4>3, Producto
      <4>5. Q + 1 \in Nat
        BY <4>2
      <4>6. z \in Nat
        BY <4>5, Producto
      <4> QED
        BY <4>4, <4>6
    <3>2. (d % T) = d - y
      BY <2>2, <2>3, EnSuPagina
    <3>3. x \in Nat /\ y <= x /\ x < z
      <4>1. y <= d /\ h <= z
        BY <2>3
      <4> HIDE DEF y, z
      <4> QED
        BY SMTT(30), <2>2, <3>1, <4>1
    <3>4. x \div T = Q /\ (x % T) = x - y
      <4> HIDE DEF x
      <4> QED
        BY <2>2, <3>3, EnSuPagina DEF y, z
    <3>5. Fisica(p, x) = mT + (x - y)
      BY <3>4 DEF Fisica
    <3>6. F[n] = mT + (d - y)
      BY <2>3, <3>2
    <3>7. (d - dl) + k \in 1 .. tam /\ dl + ((d - dl) + k) - 1 = x
      BY <1>4, <2>2
    <3>8. w[(d - dl) + k] = Fisica(p, x)
      BY <3>7 DEF w
    <3> HIDE DEF mT, y, z
    <3>9. F[n] + k - 1 = mT + (x - y)
      BY <2>2, <2>3, <3>1, <3>6
    <3> QED
      BY <3>5, <3>8, <3>9
  <2>6. d - dl \in Nat /\ h - d \in Nat /\ (d - dl) + (h - d) = h - dl
    BY <1>4, <2>2
  <2> HIDE DEF m
  <2>7. Tramo(lista, n) = [k \in 1 .. h - d |-> w[(d - dl) + k]]
    BY <2>4, <2>5
  <2> QED
    BY <2>6, <2>7 DEF d, h
<1>8. \A n \in 0 .. C : f[n] = [k \in 1 .. H[n] - dl |-> w[k]]
  <2> HIDE DEF w
  <2> DEFINE A == {n \in 0 .. C : f[n] = [k \in 1 .. H[n] - dl |-> w[k]]}
  <2>1. 0 \in A
    <3>1. H[0] - dl = 0
      BY <1>2, <1>4
    <3>2. [k \in 1 .. 0 |-> w[k]] = <<>>
      OBVIOUS
    <3>3. f[0] = [k \in 1 .. H[0] - dl |-> w[k]]
      BY <1>5, <3>1, <3>2
    <3> QED
      BY <3>3
  <2>2. ASSUME NEW n \in 0 .. C - 1, n \in A PROVE n + 1 \in A
    <3> DEFINE N == n + 1
               a == H[n] - dl
               b == H[N] - H[n]
    <3>1. N \in 1 .. C /\ N - 1 = n /\ N \in 0 .. C
      OBVIOUS
    <3>6. f[n] = [k \in 1 .. a |-> w[k]]
      BY <2>2
    <3> HIDE DEF N, A
    <3>2. a \in Nat /\ b \in Nat /\ a + b = H[N] - dl
          /\ Tramo(lista, N) = [k \in 1 .. b |-> w[a + k]]
      BY <1>7, <3>1
    <3>3. f[N] = f[n] \o Tramo(lista, N)
      BY <1>5, <3>1
    <3> HIDE DEF a, b
    <3>4. [k \in 1 .. a |-> w[k]] \o [k \in 1 .. b |-> w[a + k]] = [k \in 1 .. a + b |-> w[k]]
      BY <3>2, Prefijo
    <3>5. f[N] = [k \in 1 .. H[N] - dl |-> w[k]]
      BY <3>2, <3>3, <3>4, <3>6
    <3> QED
      BY <3>1, <3>5 DEF N, A
  <2>3. \A n \in 0 .. C : n \in A
    <3> HIDE DEF A
    <3> QED
      BY <2>1, <2>2, Induccion
  <2> QED
    BY <2>3
<1>9. H[C] - dl = tam
  BY <1>2, <1>4
<1>10. f[C] = [k \in 1 .. tam |-> w[k]]
  BY <1>8, <1>9
<1>11. [k \in 1 .. tam |-> w[k]] = w
  OBVIOUS
<1> QED
  BY <1>5, <1>10, <1>11 DEF lista

\* An address of the process is in a frame of its own.
LEMMA FisicaPropia ==
  ASSUME NEW p \in Pids, NEW d \in 0 .. EspacioDe(p) - 1
  PROVE  Fisica(p, d) \in Propias(p) /\ (d \div TAM_PAGINA) + 1 \in DOMAIN Marcos[p] /\ d \in Nat
<1> DEFINE T == TAM_PAGINA
           q == d \div T
           r == (d % T)
           L == Len(Marcos[p])
<1>1. Marcos[p] \in Seq(Nat) /\ L \in Nat /\ DOMAIN Marcos[p] = 1 .. L
  BY ConstantesCiclo
<1>2. L * T \in Nat /\ EspacioDe(p) = L * T
  BY <1>1, Producto DEF EspacioDe
<1>3. d \in Nat /\ d < L * T
  <2> DEFINE z == L * T
  <2>1. z \in Nat /\ d \in 0 .. z - 1
    BY <1>2
  <2> HIDE DEF z
  <2>2. d \in Nat /\ d < z
    BY <2>1
  <2> QED
    BY <2>2 DEF z
<1>4. q \in Nat /\ r \in 0 .. T - 1 /\ d = q * T + r /\ T \in Nat /\ q * T \in Nat
  BY <1>3, CocienteYResto, Producto, ConstantesCiclo
<1>5. q * T < L * T
  <2> DEFINE y == q * T
             z == L * T
  <2>1. y \in Nat /\ z \in Nat /\ d = y + r /\ d < z
    BY <1>2, <1>3, <1>4
  <2> HIDE DEF y, z, q, r
  <2>2. y < z
    BY <1>4, <2>1
  <2> QED
    BY <2>2 DEF y, z
<1>6. q < L
  BY <1>1, <1>4, <1>5, PaginaDentro
<1>7. q + 1 \in DOMAIN Marcos[p]
  BY <1>1, <1>4, <1>6
<1>8. Marcos[p][q + 1] \in Range(Marcos[p])
  BY <1>7 DEF Range
<1>9. Fisica(p, d) = (Marcos[p][q + 1] * T) + r
  BY DEF Fisica
<1> HIDE DEF q, r
<1>10. Fisica(p, d) \in Propias(p)
  BY <1>4, <1>8, <1>9 DEF Propias
<1> QED
  BY <1>3, <1>7, <1>10 DEF q

\* A process's bytes are in different places.
LEMMA FisicaInyectiva ==
  ASSUME NEW p \in Pids, NEW c \in 0 .. EspacioDe(p) - 1, NEW d \in 0 .. EspacioDe(p) - 1,
         Fisica(p, c) = Fisica(p, d)
  PROVE  c = d
<1> DEFINE T == TAM_PAGINA
           Q(x) == x \div T
           R(x) == (x % T)
           M(x) == Marcos[p][Q(x) + 1]
<1>1. ASSUME NEW x \in 0 .. EspacioDe(p) - 1
      PROVE  /\ x \in Nat /\ Q(x) \in Nat /\ R(x) \in 0 .. T - 1 /\ x = Q(x) * T + R(x)
             /\ Q(x) + 1 \in DOMAIN Marcos[p] /\ M(x) \in Nat
             /\ Fisica(p, x) \div T = M(x) /\ (Fisica(p, x) % T) = R(x)
  <2>1. x \in Nat /\ Q(x) + 1 \in DOMAIN Marcos[p]
    BY FisicaPropia
  <2>2. Q(x) \in Nat /\ R(x) \in 0 .. T - 1 /\ x = Q(x) * T + R(x)
    BY <2>1, CocienteYResto
  <2>3. M(x) \in Nat
    BY <2>1, ConstantesCiclo
  <2>4. Fisica(p, x) = M(x) * T + R(x)
    BY DEF Fisica
  <2> DEFINE m == M(x)
             r == R(x)
             F == Fisica(p, x)
             y == m * T
             z == (m + 1) * T
  <2> HIDE DEF m, r, F
  <2>5. y \in Nat /\ z = y + T
    BY <2>3, Producto DEF m
  <2>6. F \in Nat /\ y <= F /\ F < z /\ F - y = r
    <3>1. F = y + r /\ r \in 0 .. T - 1 /\ T \in Nat
      BY <2>2, <2>4, ConstantesCiclo DEF F, m, r
    <3> HIDE DEF y, z
    <3> QED
      BY <2>5, <3>1
  <2>7. F \div T = m /\ (F % T) = F - y
    BY <2>3, <2>6, EnSuPagina DEF m
  <2> QED
    BY <2>1, <2>2, <2>3, <2>6, <2>7 DEF F, m, r
<1>2. M(c) = M(d) /\ R(c) = R(d)
  BY <1>1
<1>3. Q(c) + 1 = Q(d) + 1
  BY <1>1, <1>2, ConstantesMaquina
<1>4. Q(c) = Q(d)
  BY <1>1, <1>3
<1>5. c = Q(c) * T + R(c) /\ d = Q(d) * T + R(d)
  BY <1>1
<1> HIDE DEF Q, R
<1> QED
  BY <1>2, <1>4, <1>5

\* A list of numbered values.
LEMMA ListaDeNumeros ==
  ASSUME NEW n \in Nat, NEW w, NEW s, s = [k \in 1 .. n |-> w[k]]
  PROVE  Len(s) = n /\ DOMAIN s = 1 .. n /\ \A S : (\A k \in 1 .. n : w[k] \in S) => s \in Seq(S)
<1> DEFINE V == {w[k] : k \in 1 .. n}
<1>1. s \in [1 .. n -> V]
  OBVIOUS
<1>2. Len(s) = n /\ s \in Seq(V)
  <2> HIDE DEF V
  <2> QED
    BY <1>1, ListaDeFuncion
<1>3. ASSUME NEW S, \A k \in 1 .. n : w[k] \in S PROVE s \in Seq(S)
  <2>1. s \in [1 .. n -> S]
    BY <1>3
  <2> QED
    BY <2>1, ListaDeFuncion
<1> QED
  BY <1>2, <1>3

\* What is read at logical address dl...
LEMMA LeeTramo ==
  ASSUME NEW p \in Pids, NEW dl \in 0 .. EspacioDe(p) - 1, NEW tam \in Nat, dl + tam <= EspacioDe(p),
         NEW mem
  PROVE  leer_memoria(mem, traducir_direccion(p, dl, tam)) = [k \in 1 .. tam |-> mem[Fisica(p, dl + k - 1)]]
<1> DEFINE f == Fisicas(traducir_direccion(p, dl, tam))
<1>1. f = [k \in 1 .. tam |-> Fisica(p, dl + k - 1)]
  BY FisicasDe
<1>2. leer_memoria(mem, traducir_direccion(p, dl, tam)) = [k \in DOMAIN f |-> mem[f[k]]]
  BY DEF leer_memoria
<1> HIDE DEF f
<1>3. DOMAIN f = 1 .. tam /\ \A k \in 1 .. tam : f[k] = Fisica(p, dl + k - 1)
  BY <1>1
<1> QED
  BY <1>2, <1>3

\* ... and what a write of tam bytes there leaves.
LEMMA EscribeTramo ==
  ASSUME NEW p \in Pids, NEW dl \in 0 .. EspacioDe(p) - 1, NEW tam \in Nat, dl + tam <= EspacioDe(p),
         NEW mem, NEW dato, Len(dato) = tam, NEW d \in 0 .. EspacioDe(p) - 1, Fisica(p, d) \in DOMAIN mem
  PROVE  escribir_memoria(mem, traducir_direccion(p, dl, tam), dato)[Fisica(p, d)]
           = IF d \in dl .. dl + tam - 1 THEN dato[d - dl + 1] ELSE mem[Fisica(p, d)]
<1> DEFINE f == Fisicas(traducir_direccion(p, dl, tam))
           n == IF Len(dato) < Len(f) THEN Len(dato) ELSE Len(f)
           Van(b) == {k \in 1 .. n : f[k] = b}
           Valor1(b) == dato[CHOOSE k \in Van(b) : \A j \in Van(b) : j <= k]
           b == Fisica(p, d)
<1>1. escribir_memoria(mem, traducir_direccion(p, dl, tam), dato)[b]
        = IF Van(b) = {} THEN mem[b] ELSE Valor1(b)
  BY DEF escribir_memoria
<1>2. f = [k \in 1 .. tam |-> Fisica(p, dl + k - 1)]
  BY FisicasDe
<1> HIDE DEF f
<1>3. Len(f) = tam /\ \A k \in 1 .. tam : f[k] = Fisica(p, dl + k - 1)
  <2> DEFINE w == [k \in 1 .. tam |-> Fisica(p, dl + k - 1)]
  <2>1. f = [k \in 1 .. tam |-> w[k]]
    BY <1>2
  <2> HIDE DEF w
  <2>2. Len(f) = tam
    BY <2>1, ListaDeNumeros
  <2> QED
    BY <1>2, <2>2
<1>4. n = tam
  BY <1>3
<1> HIDE DEF n
<1>5. \A k \in 1 .. tam : dl + k - 1 \in 0 .. EspacioDe(p) - 1
  <2>1. EspacioDe(p) \in Nat
    BY ConstantesCiclo, Producto DEF EspacioDe
  <2> QED
    BY <2>1
<1>6. \A k \in 1 .. tam : f[k] = b => k = d - dl + 1 /\ d \in dl .. dl + tam - 1
  <2> TAKE k \in 1 .. tam
  <2>1. f[k] = b => dl + k - 1 = d
    BY <1>3, <1>5, FisicaInyectiva
  <2> QED
    BY <2>1
<1>7. CASE d \in dl .. dl + tam - 1
  <2> DEFINE k0 == d - dl + 1
  <2>1. k0 \in 1 .. tam /\ dl + k0 - 1 = d /\ k0 \in Nat
    BY <1>7
  <2>2. f[k0] = b
    BY <1>3, <2>1
  <2>3. Van(b) = {k0}
    BY <1>4, <1>6, <2>1, <2>2
  <2> HIDE DEF k0, Van
  <2>4. (CHOOSE k \in {k0} : \A j \in {k0} : j <= k) = k0
    BY <2>1
  <2>5. Van(b) # {} /\ Valor1(b) = dato[k0]
    BY <2>3, <2>4
  <2> HIDE DEF Valor1
  <2> QED
    BY <1>1, <1>7, <2>5 DEF k0
<1>8. CASE d \notin dl .. dl + tam - 1
  <2>1. Van(b) = {}
    BY <1>4, <1>6, <1>8
  <2> HIDE DEF Van
  <2> QED
    BY <1>1, <1>8, <2>1
<1> QED
  BY <1>7, <1>8

-----------------------------------------------------------------------------
(* Memory after what is on its way to it                                    *)

\* The memory after requests q, from base.
Tras(base, q) ==
  LET m[n \in 0 .. Len(q)] == IF n = 0 THEN base ELSE Aplicar(m[n - 1], q[n])
  IN  m[Len(q)]
\* A COPY_STRING that has read and not written goes first.
Base == escribir_memoria(memoriaUsuario, copia.escritura, copia.dato)

LEMMA FuturaTras == MemoriaFutura = Tras(Base, aMemoria["CPU"])
  BY DEF MemoriaFutura, Tras, Base

\* m[n] is memory after the first n.
Pasos(base, q, m, L) == m[0] = base /\ \A n \in 1 .. L : m[n] = Aplicar(m[n - 1], q[n])

\* The recursion, unfolded...
LEMMA TrasDe ==
  ASSUME NEW base, NEW q, EsSeq(q), NEW L, L = Len(q)
  PROVE  \E m : Tras(base, q) = m[L] /\ Pasos(base, q, m, L)
<1> DEFINE m == CHOOSE h : Avance(base, q, h, L)
<1>1. Tras(base, q) = m[L]
  BY DEF Tras, Avance
<1> L \in Nat
  BY AlFinal
<1> DEFINE A == {n \in 0 .. L : \E h : Avance(base, q, h, n)}
<1>6. \A n \in 0 .. L : n \in A
  <2>1. 0 \in A
    <3>1. Avance(base, q, [i \in 0 .. 0 |-> base], 0)
      BY DEF Avance
    <3> QED
      BY <3>1
  <2>2. ASSUME NEW n \in 0 .. L - 1, n \in A PROVE n + 1 \in A
    <3>1. PICK h : Avance(base, q, h, n)
      BY <2>2
    <3>3. PICK k : Avance(base, q, k, n + 1)
      BY <3>1, AvanceUnoMas
    <3> QED
      BY <3>3
  <2> HIDE DEF A
  <2> QED
    BY <2>1, <2>2, Induccion
<1>7. Avance(base, q, m, L)
  <2>1. \E h : Avance(base, q, h, L)
    BY <1>6
  <2> QED
    BY <2>1
<1> HIDE DEF m
<1> DEFINE G(x, i) == Aplicar(x, q[i])
<1>8. m = [i \in 0 .. L |-> IF i = 0 THEN base ELSE G(m[i - 1], i)]
  BY <1>7 DEF Avance
<1> HIDE DEF G
<1>9. m[0] = base /\ \A n \in 1 .. L : m[n] = G(m[n - 1], n)
  BY <1>8
<1>10. Pasos(base, q, m, L)
  BY <1>9 DEF G, Pasos
<1> QED
  BY <1>1, <1>10

\* ... and it is the only one.
LEMMA TrasUnico ==
  ASSUME NEW base, NEW q, EsSeq(q), NEW L, L = Len(q), NEW h, Pasos(base, q, h, L)
  PROVE  Tras(base, q) = h[L]
<1>1. PICK m : Tras(base, q) = m[L] /\ Pasos(base, q, m, L)
  BY TrasDe
<1> L \in Nat
  BY AlFinal
<1> DEFINE A == {n \in 0 .. L : m[n] = h[n]}
<1>2. 0 \in A
  BY <1>1 DEF Pasos
<1>3. ASSUME NEW n \in 0 .. L - 1, n \in A PROVE n + 1 \in A
  <2> DEFINE N == n + 1
  <2>1. N \in 1 .. L /\ N - 1 = n /\ N \in 0 .. L /\ m[n] = h[n]
    BY <1>3
  <2> HIDE DEF N, A
  <2>2. m[N] = Aplicar(m[N - 1], q[N]) /\ h[N] = Aplicar(h[N - 1], q[N])
    BY <1>1, <2>1 DEF Pasos
  <2>3. m[N] = h[N]
    BY <2>1, <2>2
  <2> QED
    BY <2>1, <2>3 DEF A, N
<1>4. \A n \in 0 .. L : n \in A
  <2> HIDE DEF A
  <2> QED
    BY <1>2, <1>3, Induccion
<1> QED
  BY <1>1, <1>4

\* One request more, at the end...
LEMMA TrasMas ==
  ASSUME NEW base, NEW q, EsSeq(q), NEW x
  PROVE  Tras(base, Append(q, x)) = Aplicar(Tras(base, q), x)
<1> DEFINE L == Len(q)
           r == Append(q, x)
           M == L + 1
<1>1. EsSeq(r) /\ L \in Nat /\ Len(r) = M /\ r[M] = x /\ \A k \in 1 .. L : r[k] = q[k]
  BY AlFinal
<1> HIDE DEF r, L
<1>2. PICK m : Tras(base, r) = m[M] /\ Pasos(base, r, m, M)
  BY <1>1, TrasDe
<1>3. m[0] = base /\ \A n \in 1 .. M : m[n] = Aplicar(m[n - 1], r[n])
  BY <1>2 DEF Pasos
<1>4. \A n \in 1 .. L : m[n] = Aplicar(m[n - 1], q[n])
  <2> TAKE n \in 1 .. L
  <2>1. n \in 1 .. M /\ r[n] = q[n]
    BY <1>1
  <2> QED
    BY <1>3, <2>1
<1>5. Tras(base, q) = m[L]
  BY <1>3, <1>4, TrasUnico DEF Pasos, L
<1>6. M \in 1 .. M /\ M - 1 = L
  BY <1>1
<1>7. m[M] = Aplicar(m[L], x)
  <2> HIDE DEF M
  <2> QED
    BY <1>1, <1>3, <1>6
<1> QED
  BY <1>2, <1>5, <1>7 DEF r

\* ... or served, from the front.
LEMMA TrasMenos ==
  ASSUME NEW base, NEW q, EsSeq(q), q # <<>>
  PROVE  Tras(base, q) = Tras(Aplicar(base, Head(q)), Tail(q))
<1> DEFINE L == Len(q)
           M == L - 1
           r == Tail(q)
<1>1. EsSeq(r) /\ L \in Nat /\ M \in Nat /\ Len(r) = M /\ Head(q) = q[1] /\ \A k \in 1 .. M : r[k] = q[k + 1]
  BY SinLaCabeza
<1> HIDE DEF r, L
<1>2. PICK m : Tras(base, q) = m[L] /\ Pasos(base, q, m, L)
  BY TrasDe DEF L
<1>3. m[0] = base /\ \A n \in 1 .. L : m[n] = Aplicar(m[n - 1], q[n])
  BY <1>2 DEF Pasos
<1> DEFINE h == [n \in 0 .. M |-> m[n + 1]]
<1>4. \A n \in 0 .. M : h[n] = m[n + 1]
  OBVIOUS
<1> HIDE DEF h
<1>5. h[0] = Aplicar(base, Head(q))
  <2>1. 1 \in 1 .. L /\ 0 \in 0 .. M /\ 1 - 1 = 0
    BY <1>1
  <2>2. m[1] = Aplicar(m[1 - 1], q[1])
    BY <1>3, <2>1
  <2>3. h[0] = m[0 + 1]
    BY <1>4, <2>1
  <2> QED
    BY <1>1, <1>3, <2>1, <2>2, <2>3
<1>6. \A n \in 1 .. M : h[n] = Aplicar(h[n - 1], r[n])
  <2> TAKE n \in 1 .. M
  <2> DEFINE N == n + 1
  <2>1. N \in 1 .. L /\ N - 1 = n /\ n \in 0 .. M /\ n - 1 \in 0 .. M /\ (n - 1) + 1 = n
    BY <1>1
  <2>2. h[n] = m[N] /\ h[n - 1] = m[(n - 1) + 1] /\ r[n] = q[N]
    BY <1>1, <1>4, <2>1
  <2> HIDE DEF N
  <2> QED
    BY <1>3, <2>1, <2>2
<1>7. Tras(Aplicar(base, Head(q)), r) = h[M]
  <2> DEFINE b == Aplicar(base, Head(q))
  <2>1. Pasos(b, r, h, M)
    BY <1>5, <1>6 DEF Pasos
  <2> HIDE DEF M, b
  <2>2. Tras(b, r) = h[M]
    BY <1>1, <2>1, TrasUnico
  <2> QED
    BY <2>2 DEF b
<1>8. h[M] = m[L]
  <2>1. M \in 0 .. M /\ M + 1 = L
    BY <1>1
  <2> HIDE DEF M
  <2> QED
    BY <1>4, <2>1
<1> QED
  BY <1>2, <1>7, <1>8 DEF r

LEMMA TrasNada == ASSUME NEW base PROVE Tras(base, <<>>) = base
<1>1. EsSeq(<<>>) /\ Len(<<>>) = 0
  BY EsSeqUna
<1>2. PICK m : Tras(base, <<>>) = m[0] /\ Pasos(base, <<>>, m, 0)
  BY <1>1, TrasDe
<1> QED
  BY <1>2 DEF Pasos

\* What the CPU sends to be written is of one process, what it reads included.
DeUno(q) ==
  /\ q.cop = "PEDIDO_MOV_OUT" =>
       LET m == deserializar_datos_mov_out(q)
       IN  (\E p \in Pids : De(p, m.direcciones)) /\ m.valor \in Seq(Nat)
  /\ q.cop = "PEDIDO_COPY_STRING" =>
       LET m == deserializar_datos_copystring(q.stream)
       IN  \E p \in Pids : De(p, m.escritura) /\ De(p, m.lectura)

\* Two memories with the same bytes of process p.
Iguales(x, y, p) ==
  DOMAIN x = DOMAIN y /\ Propias(p) \subseteq DOMAIN x /\ \A b \in Propias(p) : x[b] = y[b]

\* A write leaves them with the same bytes of p...
LEMMA EscribeIguales ==
  ASSUME NEW p, NEW x, NEW y, Iguales(x, y, p), NEW lista, NEW dato
  PROVE  Iguales(escribir_memoria(x, lista, dato), escribir_memoria(y, lista, dato), p)
<1> DEFINE f == Fisicas(lista)
           n == IF Len(dato) < Len(f) THEN Len(dato) ELSE Len(f)
           Van(b) == {k \in 1 .. n : f[k] = b}
           Valor1(b) == dato[CHOOSE k \in Van(b) : \A j \in Van(b) : j <= k]
<1>1. /\ escribir_memoria(x, lista, dato) = [b \in DOMAIN x |-> IF Van(b) = {} THEN x[b] ELSE Valor1(b)]
      /\ escribir_memoria(y, lista, dato) = [b \in DOMAIN y |-> IF Van(b) = {} THEN y[b] ELSE Valor1(b)]
  BY DEF escribir_memoria
<1> HIDE DEF Van, Valor1
<1> QED
  BY <1>1 DEF Iguales

\* ... and so do the CPU's requests.
LEMMA AplicaIguales ==
  ASSUME NEW p \in Pids, NEW x, NEW y, Iguales(x, y, p), NEW q, DeUno(q)
  PROVE  Iguales(Aplicar(x, q), Aplicar(y, q), p)
<1>1. CASE q.cop = "PEDIDO_MOV_OUT"
  <2> DEFINE m == deserializar_datos_mov_out(q)
  <2>1. \A z : Aplicar(z, q) = escribir_memoria(z, m.direcciones, m.valor)
    BY <1>1 DEF Aplicar
  <2> HIDE DEF m
  <2> QED
    BY <2>1, EscribeIguales
<1>2. CASE q.cop = "PEDIDO_COPY_STRING"
  <2> DEFINE m == deserializar_datos_copystring(q.stream)
             Dato(z) == leer_memoria(z, m.lectura)
  <2>1. \A z : Aplicar(z, q) = escribir_memoria(z, m.escritura, Dato(z))
    BY <1>2 DEF Aplicar
  <2>2. PICK r \in Pids : De(r, m.escritura) /\ De(r, m.lectura)
    BY <1>2 DEF DeUno
  <2>3. CASE r = p
    <3> DEFINE f == Fisicas(m.lectura)
    <3>1. f \in Seq(Propias(p))
      BY <2>2, <2>3, SonPropias
    <3>2. \A z : Dato(z) = [k \in DOMAIN f |-> z[f[k]]]
      BY DEF leer_memoria
    <3> HIDE DEF f
    <3>3. \A k \in DOMAIN f : f[k] \in Propias(p)
      BY <3>1
    <3> HIDE DEF m, Dato
    <3>4. \A k \in DOMAIN f : x[f[k]] = y[f[k]]
      BY <3>3 DEF Iguales
    <3>5. Dato(x) = Dato(y)
      BY <3>2, <3>4
    <3> QED
      BY <2>1, <3>5, EscribeIguales
  <2>4. CASE r # p
    <3>1. Fisicas(m.escritura) \in Seq(Propias(r))
      BY <2>2, SonPropias
    <3>2. \A b \in Propias(p) : b \notin Propias(r)
      BY <2>4, NadaEnComun
    <3>3. \A z : Len(Dato(z)) \in Nat
      BY <2>2, LargoLeido
    <3> HIDE DEF m, Dato
    <3>4. \A z : /\ DOMAIN Aplicar(z, q) = DOMAIN z
                 /\ \A b \in DOMAIN z \ Propias(r) : Aplicar(z, q)[b] = z[b]
      BY <2>1, <3>1, <3>3, EscribeLejos
    <3> QED
      BY <3>2, <3>4 DEF Iguales
  <2> QED
    BY <2>3, <2>4
<1>3. CASE q.cop \notin {"PEDIDO_MOV_OUT", "PEDIDO_COPY_STRING"}
  <2>1. \A z : Aplicar(z, q) = z
    BY <1>3 DEF Aplicar
  <2> QED
    BY <2>1
<1> QED
  BY <1>1, <1>2, <1>3

\* What arrives keeps two memories equal on p's pages if they were.
LEMMA TrasIguales ==
  ASSUME NEW p \in Pids, NEW x, NEW y, Iguales(x, y, p), NEW q, EsSeq(q), \A k \in DOMAIN q : DeUno(q[k])
  PROVE  Iguales(Tras(x, q), Tras(y, q), p)
<1> DEFINE L == Len(q)
<1>1. PICK m : Tras(x, q) = m[L] /\ Pasos(x, q, m, L)
  BY TrasDe
<1>2. PICK h : Tras(y, q) = h[L] /\ Pasos(y, q, h, L)
  BY TrasDe
<1>3. L \in Nat /\ DOMAIN q = 1 .. L
  BY AlFinal
<1> HIDE DEF L
<1> DEFINE A == {n \in 0 .. L : Iguales(m[n], h[n], p)}
<1>4. 0 \in A
  BY <1>1, <1>2, <1>3 DEF Pasos
<1>5. ASSUME NEW n \in 0 .. L - 1, n \in A PROVE n + 1 \in A
  <2> DEFINE N == n + 1
  <2>1. N \in 1 .. L /\ N - 1 = n /\ N \in 0 .. L /\ Iguales(m[n], h[n], p)
    BY <1>3, <1>5
  <2> HIDE DEF N, A
  <2>2. m[N] = Aplicar(m[n], q[N]) /\ h[N] = Aplicar(h[n], q[N])
    BY <1>1, <1>2, <2>1 DEF Pasos
  <2>3. DeUno(q[N])
    BY <1>3, <2>1
  <2>4. Iguales(m[N], h[N], p)
    BY <2>1, <2>2, <2>3, AplicaIguales
  <2> QED
    BY <2>1, <2>4 DEF A, N
<1>6. \A n \in 0 .. L : n \in A
  <2> HIDE DEF A
  <2> QED
    BY <1>3, <1>4, <1>5, Induccion
<1> QED
  BY <1>1, <1>2, <1>3, <1>6

\* Requests leave the domain.
LEMMA AplicaDominio ==
  ASSUME NEW x, NEW q
  PROVE  DOMAIN Aplicar(x, q) = DOMAIN x
<1>1. CASE q.cop = "PEDIDO_MOV_OUT"
  BY <1>1, MismoDominio DEF Aplicar
<1>2. CASE q.cop = "PEDIDO_COPY_STRING"
  BY <1>2, MismoDominio DEF Aplicar
<1>3. CASE q.cop \notin {"PEDIDO_MOV_OUT", "PEDIDO_COPY_STRING"}
  BY <1>3 DEF Aplicar
<1> QED
  BY <1>1, <1>2, <1>3

\* No request makes memory larger or smaller.
LEMMA TrasDominio ==
  ASSUME NEW x, NEW q, EsSeq(q)
  PROVE  DOMAIN Tras(x, q) = DOMAIN x
<1> DEFINE L == Len(q)
<1>1. PICK m : Tras(x, q) = m[L] /\ Pasos(x, q, m, L)
  BY TrasDe
<1>2. L \in Nat
  BY AlFinal
<1> HIDE DEF L
<1> DEFINE A == {n \in 0 .. L : DOMAIN m[n] = DOMAIN x}
<1>3. 0 \in A
  BY <1>1, <1>2 DEF Pasos
<1>4. ASSUME NEW n \in 0 .. L - 1, n \in A PROVE n + 1 \in A
  <2> DEFINE N == n + 1
  <2>1. N \in 1 .. L /\ N - 1 = n /\ N \in 0 .. L /\ DOMAIN m[n] = DOMAIN x
    BY <1>2, <1>4
  <2> HIDE DEF N, A
  <2>2. m[N] = Aplicar(m[n], q[N])
    BY <1>1, <2>1 DEF Pasos
  <2>3. DOMAIN m[N] = DOMAIN x
    BY <2>1, <2>2, AplicaDominio
  <2> QED
    BY <2>1, <2>3 DEF A, N
<1>5. \A n \in 0 .. L : n \in A
  <2> HIDE DEF A
  <2> QED
    BY <1>2, <1>3, <1>4, Induccion
<1> QED
  BY <1>1, <1>2, <1>5

-----------------------------------------------------------------------------
(* The space of a process in a memory                                       *)

\* The space of process p in a memory.
EspacioEn(mem, p) == [d \in 1 .. EspacioDe(p) |-> mem[Fisica(p, d - 1)]]

LEMMA EspacioFuturo == \A p : Espacio(p) = EspacioEn(MemoriaFutura, p)
  BY DEF Espacio, EspacioEn, EspacioDe, Fisica

\* Two memories that agree on p's pages give it the same space.
LEMMA EspaciosIguales ==
  ASSUME NEW p \in Pids, NEW x, NEW y, Iguales(x, y, p)
  PROVE  EspacioEn(x, p) = EspacioEn(y, p)
<1>1. ASSUME NEW d \in 1 .. EspacioDe(p) PROVE x[Fisica(p, d - 1)] = y[Fisica(p, d - 1)]
  <2>1. EspacioDe(p) \in Nat
    BY ConstantesCiclo, Producto DEF EspacioDe
  <2>2. d - 1 \in 0 .. EspacioDe(p) - 1
    BY <2>1
  <2>3. Fisica(p, d - 1) \in Propias(p)
    BY <2>2, FisicaPropia
  <2> QED
    BY <2>3 DEF Iguales
<1> QED
  BY <1>1 DEF EspacioEn

\* A read and a write, seen from the space.
LEMMA LeeEspacio ==
  ASSUME NEW p \in Pids, NEW dl \in 0 .. EspacioDe(p) - 1, NEW tam \in Nat, dl + tam <= EspacioDe(p),
         NEW mem
  PROVE  leer_memoria(mem, traducir_direccion(p, dl, tam)) = SubSeq(EspacioEn(mem, p), dl + 1, dl + tam)
<1> DEFINE s == EspacioEn(mem, p)
           t == SubSeq(s, dl + 1, dl + tam)
           u == [k \in 1 .. tam |-> mem[Fisica(p, dl + k - 1)]]
<1>1. leer_memoria(mem, traducir_direccion(p, dl, tam)) = u
  BY LeeTramo
<1>2. EspacioDe(p) \in Nat /\ dl \in Nat
  <2>1. EspacioDe(p) \in Nat
    BY ConstantesCiclo, Producto DEF EspacioDe
  <2> QED
    BY <2>1
<1>3. \A k \in 1 .. tam : u[k] = s[dl + k]
  <2> TAKE k \in 1 .. tam
  <2>1. dl + k \in 1 .. EspacioDe(p) /\ (dl + k) - 1 = dl + k - 1
    BY <1>2
  <2>2. s[dl + k] = mem[Fisica(p, (dl + k) - 1)]
    BY <2>1 DEF EspacioEn
  <2> QED
    BY <2>1, <2>2
<1> DEFINE S == {s[i] : i \in dl + 1 .. dl + tam}
<1>4. t \in Seq(S) /\ Len(t) = tam /\ \A i \in 1 .. tam : t[i] = s[dl + i]
  <2>1. \A i \in dl + 1 .. dl + tam : s[i] \in S
    OBVIOUS
  <2> DEFINE m == dl + 1
             n == dl + tam
  <2>2. m \in Int /\ n \in Int /\ n - m + 1 = tam /\ (m <= n \/ tam = 0) /\ \A i : i \in Int => m + i - 1 = dl + i
    BY <1>2
  <2> HIDE DEF m, n, s, S, t
  <2>3. /\ SubSeq(s, m, n) \in Seq(S) /\ Len(SubSeq(s, m, n)) = IF m <= n THEN n - m + 1 ELSE 0
        /\ \A i \in 1 .. n - m + 1 : SubSeq(s, m, n)[i] = s[m + i - 1]
    BY <2>1, <2>2, SubSeqProperties DEF m, n
  <2>4. t = SubSeq(s, m, n)
    BY DEF t, m, n
  <2>5. Len(t) = tam
    BY <2>2, <2>3, <2>4
  <2>6. \A i \in 1 .. tam : t[i] = s[dl + i]
    BY SMTT(30), <2>2, <2>3, <2>4
  <2> QED
    BY <2>3, <2>4, <2>5, <2>6
<1> HIDE DEF u
<1>5. Len(u) = tam /\ u \in Seq(S)
  <2> DEFINE w == [k \in 1 .. tam |-> mem[Fisica(p, dl + k - 1)]]
  <2>1. u = [k \in 1 .. tam |-> w[k]]
    BY DEF u
  <2>2. \A k \in 1 .. tam : w[k] \in S
    <3>1. \A k \in 1 .. tam : w[k] = s[dl + k]
      BY <1>3 DEF u
    <3>2. \A k \in 1 .. tam : dl + k \in dl + 1 .. dl + tam
      BY <1>2
    <3> HIDE DEF w, s
    <3> QED
      BY <3>1, <3>2
  <2> HIDE DEF w, S
  <2> QED
    BY <2>1, <2>2, ListaDeNumeros
<1> HIDE DEF s, S, t
<1>6. u = t
  <2>1. \A k \in 1 .. tam : u[k] = t[k]
    BY <1>3, <1>4
  <2>2. u \in Seq(S) /\ t \in Seq(S) /\ Len(u) = Len(t) /\ Len(u) = tam
    BY <1>4, <1>5
  <2> HIDE DEF u, t
  <2> QED
    BY <2>1, <2>2, SeqEqual
<1> QED
  BY <1>1, <1>6 DEF s, t

Puesto(s, d, b) == [j \in DOMAIN s |-> IF j \in d + 1 .. d + Len(b) THEN b[j - d] ELSE s[j]]

\* Writing to the fragments of an access is writing to the space at its address.
LEMMA EscribeEspacio ==
  ASSUME NEW p \in Pids, NEW dl \in 0 .. EspacioDe(p) - 1, NEW tam \in Nat, dl + tam <= EspacioDe(p),
         NEW mem, Propias(p) \subseteq DOMAIN mem, NEW dato, Len(dato) = tam
  PROVE  EspacioEn(escribir_memoria(mem, traducir_direccion(p, dl, tam), dato), p)
           = Puesto(EspacioEn(mem, p), dl, dato)
<1> DEFINE x == escribir_memoria(mem, traducir_direccion(p, dl, tam), dato)
           s == EspacioEn(mem, p)
<1>1. EspacioDe(p) \in Nat /\ dl \in Nat
  <2>1. EspacioDe(p) \in Nat
    BY ConstantesCiclo, Producto DEF EspacioDe
  <2> QED
    BY <2>1
<1>2. ASSUME NEW j \in 1 .. EspacioDe(p)
      PROVE  x[Fisica(p, j - 1)] = IF j \in dl + 1 .. dl + tam THEN dato[j - dl] ELSE s[j]
  <2> DEFINE d == j - 1
  <2>1. d \in 0 .. EspacioDe(p) - 1 /\ d - dl + 1 = j - dl
        /\ (d \in dl .. dl + tam - 1 <=> j \in dl + 1 .. dl + tam)
    BY <1>1
  <2>2. s[j] = mem[Fisica(p, d)]
    BY DEF EspacioEn
  <2> HIDE DEF d, s
  <2>3. Fisica(p, d) \in DOMAIN mem
    BY <2>1, FisicaPropia
  <2>4. x[Fisica(p, d)] = IF d \in dl .. dl + tam - 1 THEN dato[d - dl + 1] ELSE mem[Fisica(p, d)]
    BY <2>1, <2>3, EscribeTramo
  <2> HIDE DEF x
  <2>5. x[Fisica(p, d)] = IF j \in dl + 1 .. dl + tam THEN dato[j - dl] ELSE s[j]
    BY <2>1, <2>2, <2>4
  <2> QED
    BY <2>5 DEF d
<1> HIDE DEF x, s
<1>3. EspacioEn(x, p) = [j \in 1 .. EspacioDe(p) |-> IF j \in dl + 1 .. dl + tam THEN dato[j - dl] ELSE s[j]]
  BY <1>2 DEF EspacioEn
<1>4. DOMAIN s = 1 .. EspacioDe(p)
  BY DEF s, EspacioEn
<1>5. EspacioEn(x, p) = Puesto(s, dl, dato)
  BY <1>3, <1>4 DEF Puesto
<1> QED
  BY <1>5 DEF x, s

-----------------------------------------------------------------------------
(* The invariant                                                            *)

\* Registers that hold numbers, the PC of the process on the CPU and its program.
Numerados == [Registros -> Nat]
PC == pcb_actual.registros["PC"]
Suyo == programa[pcb_actual.pid]

\* The request for an instruction is for the one the PC says, and so is the answer; the
\* instruction that is being executed is the one before it.
PideElPC == \A k \in DOMAIN aMemoria["CPU"] : aMemoria["CPU"][k].cop = "PEDIDO_INSTRUCCION" =>
              aMemoria["CPU"][k].stream = <<pcb_actual.pid, PC>>
LlegaElPC == cpu.pc = "fetch" /\ deMemoria["CPU"] # <<>> =>
               PC + 1 \in DOMAIN Suyo /\ Instruccion = Suyo[PC + 1]
\* The fragments in a MOV_IN's request are those of its access, and the bytes of its answer fit
\* a register.
Lee(i, l) ==
  LET dl == pcb_actual.registros[i[3]]
      w  == obtener_tamanio_registro(i[2])
  IN  /\ dl \in 0 .. EspacioDe(pcb_actual.pid) - 1 /\ dl + w <= EspacioDe(pcb_actual.pid)
      /\ l = traducir_direccion(pcb_actual.pid, dl, w)
EnMovIn ==
  cpu.pc = "mov_in" =>
    /\ PC \in DOMAIN Suyo /\ cpu.instr = Suyo[PC] /\ Suyo[PC][1] = "MOV_IN"
    /\ \A k \in DOMAIN aMemoria["CPU"] : aMemoria["CPU"][k].cop = "PEDIDO_MOV_IN" =>
         Lee(cpu.instr, deserializar_datos_mov_in(aMemoria["CPU"][k]).direcciones)
    /\ deMemoria["CPU"] # <<>> =>
         LET b == deserializar_dato_movIN(Head(deMemoria["CPU"]).stream)
         IN  b \in Seq(Nat) /\ Len(b) <= ANCHO
\* Who comes back to wait for an interface has executed an I/O instruction; who comes back to
\* end has an EXIT in front.
EnLlamada == (cpu.pc = "llamar" \/ respuesta # <<>>) /\ pcb_actual.motivo_desalojo = "INTERRUPCION_BLOQUEO" =>
               PC \in DOMAIN Suyo /\ Suyo[PC][1] \in InstruccionesIO
EnExit == (cpu.pc = "devolver" \/ respuesta # <<>>) /\ pcb_actual.motivo_desalojo = "FINALIZACION" =>
            Suyo[PC + 1][1] = "EXIT"
Rumbo == PideElPC /\ LlegaElPC /\ EnMovIn /\ EnLlamada /\ EnExit

\* Who has ended is nowhere else.
Vivos ==
  /\ terminados \subseteq Pids /\ ejecutando \notin terminados /\ terminados \cap bloqueados = {}
  /\ \A k \in DOMAIN listo : listo[k] \notin terminados

\* Registers and bytes are numbers, and what is written is of one process.
Registran == /\ \A p \in Pids : pcb[p].registros \in Numerados
             /\ pcb_actual.registros \in Numerados
BytesEnMemoria == (\A b \in DOMAIN memoriaUsuario : memoriaUsuario[b] \in Nat) /\ copia.dato \in Seq(Nat)
EnviosDeUno == \A k \in DOMAIN aMemoria["CPU"] : DeUno(aMemoria["CPU"][k])

\* The data that interfaces and memory exchange are numbers, and an input goes to pages of the
\* process it says.
EsEscritura(q) == q.cop = "PEDIDO_ESCRIBIR_DATO_STDIN"
Escrito(q) == deserializar_dato_interfaz_STDIN(q.stream)
Entra(q) == EsEscritura(q) =>
              LET m == Escrito(q) IN m.pid \in Pids /\ De(m.pid, m.direcciones) /\ m.dato \in Seq(Nat)
Sale(r) == deserializar_dato_interfaz_STDOUT(r.stream) \in Seq(Nat)
ConCampos(z) ==
  z.pc # "recv" => /\ "pid" \in DOMAIN z.m /\ "dato" \notin DOMAIN z.m
                   /\ z.cop = "PEDIDO_IO_FS_READ" => "tamanio" \in DOMAIN z.m
Llevan(z, a, d) == /\ ConCampos(z)
                   /\ \A k \in DOMAIN a : Entra(a[k])
                   /\ \A k \in DOMAIN d : Sale(d[k])
EnInterfaces == \A i \in Interfaces : Llevan(interfaz[i], aMemoria[i], deMemoria[i])
\* Process p has asked for I/O that has not ended.
EnPedido(p) ==
  \/ p \in bloqueados
  \/ /\ p = ejecutando /\ pcb_actual.motivo_desalojo = "INTERRUPCION_BLOQUEO"
     /\ cpu.pc = "llamar" \/ respuesta # <<>>
AlArchivo(q) == q.instruccion = "IO_FS_READ" => q.tamanio \in 0 .. TAM_ARCHIVO
EnArchivo == /\ archivo \in [1 .. TAM_ARCHIVO -> Nat]
             /\ \A p \in Pids : EnPedido(p) => AlArchivo(pedido[p])
Numeros == Registran /\ BytesEnMemoria /\ EnviosDeUno /\ EnInterfaces /\ EnArchivo

\* Process p's inputs on their way: the one it has asked for and no interface has sent, and
\* those that memory has to write.
Contestado(p) == \E i \in Interfaces : \E k \in DOMAIN deInterfaz[i] : PidDe(deInterfaz[i][k]) = p
Debe(p) == EnPedido(p) /\ EsEntrada(pedido[p].instruccion) /\ ~Contestado(p)
Fichas(p) ==
  {t \in {<<"CPU", 0>>} : Debe(p)} \cup
  UNION {{<<i, k>> : k \in {j \in DOMAIN aMemoria[i] :
                              EsEscritura(aMemoria[i][j]) /\ Escrito(aMemoria[i][j]).pid = p}} : i \in Interfaces}
\* They are no more than the inputs the history counts.
Caben(S, n) == n \in Nat /\ \E f \in [S -> 1 .. n] : \A x, y \in S : f[x] = f[y] => x = y
Pendientes == DOMAIN entradas = Pids /\ \A p \in Pids : Caben(Fichas(p), entradas[p])

InvMaquina == InvSalida /\ Rumbo /\ Vivos /\ Numeros /\ Pendientes

-----------------------------------------------------------------------------
(* Registers                                                                *)

\* Widths of registers.
LEMMA Anchos ==
  ASSUME NEW r
  PROVE  /\ obtener_tamanio_registro(r) \in Nat /\ Modulo(r) \in Nat \ {0}
         /\ r \in DeDatos => obtener_tamanio_registro(r) \in 1 .. ANCHO
<1>1. 1 \in 0 .. ANCHO /\ ANCHO \in 0 .. ANCHO
  BY ConstantesRegistros
<1>2. BYTE ^ ANCHO \in Nat \ {0} /\ BYTE ^ 1 \in Nat \ {0}
  BY <1>1, PotenciasDeByte
<1>3. BYTE ^ ANCHO - 1 \in Nat
  BY <1>2
<1>4. obtener_tamanio_registro(r) \in Nat /\ (r \in DeDatos => obtener_tamanio_registro(r) \in 1 .. ANCHO)
  BY <1>3, ConstantesRegistros DEF obtener_tamanio_registro, DeDatos
<1> QED
  BY <1>2, <1>4 DEF Modulo

\* What an instruction leaves in its register.
LEMMA UnRegistro ==
  ASSUME NEW reg \in Numerados, NEW r, NEW v \in Nat
  PROVE  [reg EXCEPT ![r] = v] \in Numerados
BY DEF Numerados

\* A value cut to the width of a register.
LEMMA RestoNatural ==
  ASSUME NEW x \in Int, NEW r
  PROVE  (x % Modulo(r)) \in Nat
<1> DEFINE m == Modulo(r)
<1>1. m \in Nat \ {0}
  BY Anchos
<1> HIDE DEF m
<1>2. (x % m) \in Nat
  BY <1>1
<1> QED
  BY <1>2 DEF m

\* The registers stay numbers when the PC advances...
LEMMA SumaElPC ==
  ASSUME NEW reg \in Numerados
  PROVE  sumar_pc(reg) \in Numerados
<1> DEFINE x == reg["PC"] + 1
           v == x % Modulo("PC")
<1>1. x \in Int
  BY DEF Numerados, Registros, Registros32
<1>2. v \in Nat
  <2> HIDE DEF x
  <2> QED
    BY <1>1, RestoNatural
<1>3. sumar_pc(reg) = [reg EXCEPT !["PC"] = v]
  BY DEF sumar_pc
<1> HIDE DEF v, x
<1>4. [reg EXCEPT !["PC"] = v] \in Numerados
  BY <1>2, UnRegistro
<1> QED
  BY <1>3, <1>4

\* ... and after an instruction on registers.
LEMMA OperaNumeros ==
  ASSUME NEW reg \in Numerados, NEW i, i[1] \in Aritmeticas,
         i[1] \in {"SET", "JNZ"} => i[3] \in Nat, i[1] \in {"SUM", "SUB"} => i[3] \in Registros
  PROVE  Operar(reg, i) \in Numerados
<1> DEFINE d == i[2]
           o == i[3]
<1>1. CASE i[1] = "SET"
  <2> DEFINE v == o % Modulo(d)
  <2>1. v \in Nat
    BY <1>1, RestoNatural
  <2>2. Operar(reg, i) = [reg EXCEPT ![d] = v]
    BY <1>1 DEF Operar, set
  <2> HIDE DEF v, d, o
  <2>3. [reg EXCEPT ![d] = v] \in Numerados
    BY <2>1, UnRegistro
  <2> QED
    BY <2>2, <2>3
<1>2. CASE i[1] = "JNZ"
  <2>1. Operar(reg, i) = jnz(reg, d, o)
    BY <1>2 DEF Operar
  <2>2. [reg EXCEPT !["PC"] = o] \in Numerados
    BY <1>2, UnRegistro
  <2> QED
    BY <2>1, <2>2 DEF jnz
<1>3. CASE i[1] = "SUM"
  <2>1. Operar(reg, i) = sum(reg, d, o)
    BY <1>3 DEF Operar
  <2>2. CASE d \in Registros
    <3> DEFINE x == reg[d] + reg[o]
    <3>1. x \in Int
      BY <1>3, <2>2 DEF Numerados
    <3>2. (x % Modulo(d)) \in Nat
      <4> HIDE DEF x, d
      <4> QED
        BY <3>1, RestoNatural
    <3>3. sum(reg, d, o) = reg \/ sum(reg, d, o) = [reg EXCEPT ![d] = x % Modulo(d)]
      BY DEF sum
    <3> HIDE DEF x, d, o
    <3> QED
      BY <2>1, <3>2, <3>3, UnRegistro
  <2>3. CASE d \notin Registros
    <3>1. sum(reg, d, o) = reg
      BY <2>3 DEF sum, Numerados
    <3> QED
      BY <2>1, <3>1
  <2> QED
    BY <2>2, <2>3
<1>4. CASE i[1] = "SUB"
  <2>1. Operar(reg, i) = sub(reg, d, o)
    BY <1>4 DEF Operar
  <2>2. CASE d \in Registros
    <3> DEFINE x == reg[d] - reg[o]
    <3>1. x \in Int
      BY <1>4, <2>2 DEF Numerados
    <3>2. (x % Modulo(d)) \in Nat
      <4> HIDE DEF x, d
      <4> QED
        BY <3>1, RestoNatural
    <3>3. sub(reg, d, o) = reg \/ sub(reg, d, o) = [reg EXCEPT ![d] = x % Modulo(d)]
      BY DEF sub
    <3> HIDE DEF x, d, o
    <3> QED
      BY <2>1, <3>2, <3>3, UnRegistro
  <2>3. CASE d \notin Registros
    <3>1. sub(reg, d, o) = reg
      BY <2>3 DEF sub, Numerados
    <3> QED
      BY <2>1, <3>1
  <2> QED
    BY <2>2, <2>3
<1> QED
  BY <1>1, <1>2, <1>3, <1>4 DEF Aritmeticas

\* The PC, one instruction on and back.
LEMMA SubeElPC ==
  ASSUME NEW reg \in Numerados, reg["PC"] + 1 \in 1 .. Modulo("PC") - 1
  PROVE  /\ sumar_pc(reg)["PC"] = reg["PC"] + 1
         /\ [sumar_pc(reg) EXCEPT !["PC"] = (@ - 1) % Modulo("PC")] = reg
<1> DEFINE m == Modulo("PC")
           x == reg["PC"]
           s == sumar_pc(reg)
<1>1. m \in Nat \ {0} /\ x \in Nat /\ "PC" \in Registros
  BY Anchos DEF Numerados, Registros, Registros32
<1>2. s = [reg EXCEPT !["PC"] = (x + 1) % m] /\ DOMAIN reg = Registros
  BY DEF sumar_pc, Numerados
<1> HIDE DEF m, x, s
<1>3. ((x + 1) % m) = x + 1 /\ (((x + 1) - 1) % m) = x /\ x + 1 \in 1 .. m - 1
  BY <1>1 DEF m, x
<1>4. s["PC"] = x + 1 /\ DOMAIN s = DOMAIN reg /\ \A r \in DOMAIN reg : r # "PC" => s[r] = reg[r]
  BY <1>1, <1>2, <1>3
<1>5. [s EXCEPT !["PC"] = (@ - 1) % m] = [s EXCEPT !["PC"] = x]
  BY <1>3, <1>4
<1>6. [s EXCEPT !["PC"] = x] = [reg EXCEPT !["PC"] = x]
  BY <1>2, <1>4
<1>7. [reg EXCEPT !["PC"] = x] = reg
  BY DEF Numerados, x
<1> QED
  BY <1>4, <1>5, <1>6, <1>7 DEF m, x, s

\* One back from the PC, and forward again.
LEMMA BajaElPC ==
  ASSUME NEW reg \in Numerados, reg["PC"] \in 1 .. Modulo("PC") - 1,
         NEW ant, ant = [reg EXCEPT !["PC"] = (@ - 1) % Modulo("PC")]
  PROVE  ant["PC"] = reg["PC"] - 1 /\ sumar_pc(ant) = reg
<1> DEFINE m == Modulo("PC")
           x == reg["PC"]
<1>1. m \in Nat \ {0} /\ x \in 1 .. m - 1 /\ "PC" \in Registros
  BY Anchos DEF Registros, Registros32
<1>2. ant = [reg EXCEPT !["PC"] = (x - 1) % m] /\ DOMAIN reg = Registros
  BY DEF Numerados
<1> HIDE DEF m, x
<1>3. ((x - 1) % m) = x - 1 /\ ((x - 1 + 1) % m) = x
  BY <1>1
<1>4. ant["PC"] = x - 1 /\ DOMAIN ant = DOMAIN reg /\ \A r \in DOMAIN reg : r # "PC" => ant[r] = reg[r]
  BY <1>1, <1>2, <1>3
<1>5. sumar_pc(ant) = [ant EXCEPT !["PC"] = x]
  BY <1>3, <1>4 DEF sumar_pc, m
<1>6. [ant EXCEPT !["PC"] = x] = [reg EXCEPT !["PC"] = x]
  BY <1>2, <1>4
<1>7. [reg EXCEPT !["PC"] = x] = reg
  BY DEF Numerados, x
<1> QED
  BY <1>4, <1>5, <1>6, <1>7 DEF x

-----------------------------------------------------------------------------
(* Values                                                                   *)

\* The bytes of a number.
LEMMA BytesDeNumero ==
  ASSUME NEW v \in Nat, NEW n \in 0 .. ANCHO
  PROVE  Bytes(v, n) \in Seq(Nat) /\ Len(Bytes(v, n)) = n
<1> DEFINE w == [i \in 1 .. n |-> (v \div BYTE ^ (i - 1)) % BYTE]
<1> n \in Nat
  BY ConstantesRegistros
<1>1. \A i \in 1 .. n : w[i] \in Nat
  <2> TAKE i \in 1 .. n
  <2> DEFINE z == BYTE ^ (i - 1)
  <2>1. z \in Nat \ {0}
    BY PotenciasDeByte, ConstantesRegistros
  <2> HIDE DEF z
  <2>2. v \div z \in Nat
    BY <2>1
  <2> DEFINE y == v \div z
  <2> HIDE DEF y
  <2>3. (y % BYTE) \in Nat
    BY <2>2, ConstantesRegistros DEF y
  <2> QED
    BY <2>3 DEF y, z
<1>2. Bytes(v, n) = [i \in 1 .. n |-> w[i]]
  BY DEF Bytes
<1> HIDE DEF w
<1> QED
  BY <1>1, <1>2, ListaDeNumeros

Peso(b, h, n) == h = [i \in 0 .. n |-> IF i = 0 THEN 0 ELSE h[i - 1] + b[i] * BYTE ^ (i - 1)]

\* The value of the first n bytes can be extended by one more.
LEMMA PesoUnoMas ==
  ASSUME NEW b, NEW n \in Nat, NEW h, Peso(b, h, n)
  PROVE  \E k : Peso(b, k, n + 1)
<1> DEFINE G(x, i) == x + b[i] * BYTE ^ (i - 1)
<1>1. h = [i \in 0 .. n |-> IF i = 0 THEN 0 ELSE G(h[i - 1], i)]
  BY DEF Peso
<1> SUFFICES \E k : k = [i \in 0 .. n + 1 |-> IF i = 0 THEN 0 ELSE G(k[i - 1], i)]
  BY DEF Peso
<1> HIDE DEF G
<1> DEFINE k == [i \in 0 .. n + 1 |-> IF i = 0 THEN 0 ELSE G(h[i - 1], i)]
<1>2. \A i \in 0 .. n : k[i] = h[i]
  <2>1. \A i \in 0 .. n : h[i] = IF i = 0 THEN 0 ELSE G(h[i - 1], i)
    BY <1>1
  <2>2. \A i \in 0 .. n : k[i] = IF i = 0 THEN 0 ELSE G(h[i - 1], i)
    OBVIOUS
  <2> HIDE DEF k
  <2> QED
    BY <2>1, <2>2
<1>3. \A i \in 0 .. n + 1 : i # 0 => k[i - 1] = h[i - 1]
  <2> HIDE DEF k
  <2> QED
    BY <1>2
<1>4. k = [i \in 0 .. n + 1 |-> IF i = 0 THEN 0 ELSE G(k[i - 1], i)]
  BY <1>3
<1> QED
  BY <1>4

\* Cited where a leaf needs no other arithmetic.
LEMMA ProductoNatural ==
  ASSUME NEW a \in Nat, NEW b \in Nat
  PROVE  a * b \in Nat
OBVIOUS

\* The value of bytes is a number.
LEMMA ValorDeBytes ==
  ASSUME NEW b \in Seq(Nat), Len(b) <= ANCHO
  PROVE  Valor(b) \in Nat
<1> DEFINE L == Len(b)
           v == CHOOSE h : Peso(b, h, L)
<1>1. Valor(b) = v[L]
  BY DEF Valor, Peso
<1>2. L \in Nat /\ L <= ANCHO /\ \A i \in 1 .. L : b[i] \in Nat
  BY ElementOfSeq
<1> HIDE DEF L
<1> DEFINE A == {n \in 0 .. L : \E h : Peso(b, h, n)}
<1>3. \A n \in 0 .. L : n \in A
  <2>1. 0 \in A
    <3>1. Peso(b, [i \in 0 .. 0 |-> 0], 0)
      BY DEF Peso
    <3> QED
      BY <1>2, <3>1
  <2>2. ASSUME NEW n \in 0 .. L - 1, n \in A PROVE n + 1 \in A
    <3>1. PICK h : Peso(b, h, n)
      BY <2>2
    <3>3. PICK k : Peso(b, k, n + 1)
      BY <1>2, <3>1, PesoUnoMas
    <3> QED
      BY <1>2, <3>3
  <2> HIDE DEF A
  <2> QED
    BY <1>2, <2>1, <2>2, Induccion
<1>4. Peso(b, v, L)
  <2>1. \E h : Peso(b, h, L)
    BY <1>2, <1>3
  <2> QED
    BY <2>1
<1> HIDE DEF v
<1> DEFINE G(x, i) == x + b[i] * BYTE ^ (i - 1)
<1>5. v = [i \in 0 .. L |-> IF i = 0 THEN 0 ELSE G(v[i - 1], i)]
  BY <1>4 DEF Peso
<1>6. ASSUME NEW x \in Nat, NEW i \in 1 .. L PROVE G(x, i) \in Nat
  <2> DEFINE y == b[i]
             z == BYTE ^ (i - 1)
  <2>1. y \in Nat /\ z \in Nat
    BY <1>2, PotenciasDeByte, ConstantesRegistros
  <2> HIDE DEF y, z
  <2>2. y * z \in Nat
    BY <2>1, ProductoNatural
  <2> DEFINE u == y * z
  <2> HIDE DEF u
  <2>3. x + u \in Nat
    BY <2>2 DEF u
  <2> QED
    BY <2>3 DEF u, y, z
<1> HIDE DEF G
<1>7. v[0] = 0 /\ \A n \in 1 .. L : v[n] = G(v[n - 1], n)
  BY <1>2, <1>5
<1> DEFINE B == {n \in 0 .. L : v[n] \in Nat}
<1>8. 0 \in B
  BY <1>2, <1>7
<1>9. ASSUME NEW n \in 0 .. L - 1, n \in B PROVE n + 1 \in B
  <2> DEFINE N == n + 1
  <2>1. N \in 1 .. L /\ N - 1 = n /\ N \in 0 .. L /\ v[n] \in Nat
    BY <1>2, <1>9
  <2> HIDE DEF N, B
  <2>2. v[N] = G(v[N - 1], N)
    BY <1>7, <2>1
  <2>3. v[N] \in Nat
    BY <1>6, <2>1, <2>2
  <2> QED
    BY <2>1, <2>3 DEF B, N
<1>10. \A n \in 0 .. L : n \in B
  <2> HIDE DEF B
  <2> QED
    BY <1>2, <1>8, <1>9, Induccion
<1> QED
  BY <1>1, <1>2, <1>10

-----------------------------------------------------------------------------
(* The machine of each process                                              *)

Reg(p) == IF ejecutando = p /\ dispatch = <<>> THEN EnCPU ELSE pcb[p].registros
RegistrosDe == [p \in Pids |-> Reg(p)]
EspaciosDe  == [p \in Pids |-> Espacio(p)]
EsperanDe   == [p \in Pids |-> entradas[p] > 0]
FinDe       == [p \in Pids |-> p \in terminados]
Ahora(p)    == programa[p][Reg(p)["PC"] + 1]

\* Both modules have the same registers.
LEMMA MismasOperaciones ==
  /\ \A r : Ideal!obtener_tamanio_registro(r) = obtener_tamanio_registro(r)
  /\ \A r : Ideal!Modulo(r) = Modulo(r)
  /\ Ideal!RegistrosNulos = RegistrosNulos
  /\ Ideal!Aritmeticas = Aritmeticas
<1>1. \A r : Ideal!obtener_tamanio_registro(r) = obtener_tamanio_registro(r)
  BY DEF Ideal!obtener_tamanio_registro, obtener_tamanio_registro, Ideal!Registros8, Registros8,
         Ideal!Datos32, Datos32
<1>2. \A r : Ideal!Modulo(r) = Modulo(r)
  BY DEF Ideal!Modulo, Modulo, Ideal!revisar_registro, revisar_registro, Ideal!Registros8, Registros8
<1>3. Ideal!RegistrosNulos = RegistrosNulos
  BY DEF Ideal!RegistrosNulos, RegistrosNulos, Ideal!Registros, Registros, Ideal!Registros8, Registros8,
         Ideal!Registros32, Registros32, Ideal!Datos32, Datos32
<1>4. Ideal!Aritmeticas = Aritmeticas
  BY DEF Ideal!Aritmeticas, Aritmeticas
<1> QED
  BY <1>1, <1>2, <1>3, <1>4

\* Maquina's copies of the operators of Registros are the same operators.
LEMMA MismosBytes ==
  /\ \A v, n : Ideal!Bytes(v, n) = Bytes(v, n)
  /\ \A b : Ideal!Valor(b) = Valor(b)
  BY DEF Ideal!Bytes, Bytes, Ideal!Valor, Valor

\* So are its instructions on registers.
LEMMA MismaAritmetica ==
  /\ \A reg : Ideal!sumar_pc(reg) = sumar_pc(reg)
  /\ \A reg, i : i[1] \in Aritmeticas => Ideal!Operar(reg, i) = Operar(reg, i)
<1>1. \A reg : Ideal!sumar_pc(reg) = sumar_pc(reg)
  BY MismasOperaciones DEF Ideal!sumar_pc, sumar_pc
<1>2. \A reg, r, v : Ideal!set(reg, r, v) = set(reg, r, v)
  BY MismasOperaciones DEF Ideal!set, set
<1>3. \A r : Ideal!revisar_registro(r) <=> revisar_registro(r)
  BY DEF Ideal!revisar_registro, revisar_registro, Ideal!Registros8, Registros8
<1>4. \A reg, d, o : Ideal!sum(reg, d, o) = sum(reg, d, o)
  BY MismasOperaciones DEF Ideal!sum, sum, revisar_registro, Ideal!revisar_registro, Ideal!Registros8, Registros8
<1>5. \A reg, d, o : Ideal!sub(reg, d, o) = sub(reg, d, o)
  BY MismasOperaciones DEF Ideal!sub, sub, revisar_registro, Ideal!revisar_registro, Ideal!Registros8, Registros8
<1>6. \A reg, r, n : Ideal!jnz(reg, r, n) = jnz(reg, r, n)
  BY DEF Ideal!jnz, jnz
<1>7. \A reg, i : i[1] \in Aritmeticas => Ideal!Operar(reg, i) = Operar(reg, i)
  BY <1>2, <1>4, <1>5, <1>6 DEF Ideal!Operar, Operar, Aritmeticas
<1> QED
  BY <1>1, <1>7

\* A step of it, in each case.
LEMMA PasoAritmetica ==
  ASSUME NEW p \in Pids, p \notin terminados, UNCHANGED <<programa, FinDe, EspaciosDe, EsperanDe>>,
         Ahora(p)[1] \in Aritmeticas,
         RegistrosDe' = [RegistrosDe EXCEPT ![p] = Operar(sumar_pc(Reg(p)), Ahora(p))]
  PROVE  Ideal!Paso(p)
<1>1. Ideal!Actual(p) = Ahora(p)
  BY DEF Ideal!Actual, Ahora, Reg
<1>2. Ideal!sumar_pc(RegistrosDe[p]) = sumar_pc(Reg(p))
  BY MismaAritmetica DEF RegistrosDe
<1>3. ~FinDe[p]
  BY DEF FinDe
<1>4. Ideal!Cambia(p, Ideal!Operar(Ideal!sumar_pc(RegistrosDe[p]), Ideal!Actual(p)))
  <2>1. RegistrosDe' = [RegistrosDe EXCEPT ![p] = Ideal!Operar(Ideal!sumar_pc(RegistrosDe[p]), Ideal!Actual(p))]
    BY <1>1, <1>2, MismaAritmetica
  <2> QED
    BY <2>1 DEF Ideal!Cambia, RegistrosDe, Reg
<1>5. Ideal!Actual(p)[1] \in Ideal!Aritmeticas
  BY <1>1, MismasOperaciones
<1> QED
  BY <1>3, <1>4, <1>5
  DEF Ideal!Paso, Ideal!Cambia, RegistrosDe, Reg, FinDe, EspaciosDe, EsperanDe

\* What is common to the others.
LEMMA PasoComun ==
  ASSUME NEW p \in Pids, p \notin terminados
  PROVE  /\ Ideal!Actual(p) = Ahora(p)
         /\ Ideal!sumar_pc(RegistrosDe[p]) = sumar_pc(Reg(p))
         /\ ~FinDe[p]
         /\ \A d, n : Ideal!Tramo(p, d, n) = SubSeq(Espacio(p), d + 1, d + n)
<1>1. Ideal!Actual(p) = Ahora(p)
  BY DEF Ideal!Actual, Ahora, Reg
<1>2. Ideal!sumar_pc(RegistrosDe[p]) = sumar_pc(Reg(p))
  BY MismaAritmetica DEF RegistrosDe
<1>3. ~FinDe[p]
  BY DEF FinDe
<1>5. \A d, n : Ideal!Tramo(p, d, n) = SubSeq(Espacio(p), d + 1, d + n)
  BY DEF Ideal!Tramo
<1> QED
  BY <1>1, <1>2, <1>3, <1>5

\* MOV_IN is a step of the machine when the register gets the value of the bytes of the
\* space.
LEMMA PasoMovIn ==
  ASSUME NEW p \in Pids, p \notin terminados, UNCHANGED <<programa, FinDe, EspaciosDe, EsperanDe>>,
         NEW i, i = Ahora(p), i[1] = "MOV_IN", NEW reg, reg = sumar_pc(Reg(p)), NEW b,
         b = SubSeq(Espacio(p), reg[i[3]] + 1, reg[i[3]] + obtener_tamanio_registro(i[2])),
         RegistrosDe' = [RegistrosDe EXCEPT ![p] = [reg EXCEPT ![i[2]] = Valor(b)]]
  PROVE  Ideal!Paso(p)
<1>1. Ideal!Tramo(p, reg[i[3]], Ideal!obtener_tamanio_registro(i[2])) = b
  BY PasoComun, MismasOperaciones
<1>2. RegistrosDe' = [RegistrosDe EXCEPT ![p] = [reg EXCEPT ![i[2]] = Ideal!Valor(b)]]
  BY MismosBytes
<1> DEFINE I == Ideal!Actual(p)
           R == Ideal!sumar_pc(RegistrosDe[p])
<1>3. I = i /\ R = reg /\ ~FinDe[p]
  BY PasoComun
<1>4. I[1] = "MOV_IN"
      /\ RegistrosDe' = [RegistrosDe EXCEPT ![p] = [R EXCEPT ![I[2]] =
           Ideal!Valor(Ideal!Tramo(p, R[I[3]], Ideal!obtener_tamanio_registro(I[2])))]]
  <2> HIDE DEF I, R
  <2> QED
    BY <1>1, <1>2, <1>3
<1> QED
  BY <1>3, <1>4
  DEF Ideal!Paso, Ideal!Cambia, RegistrosDe, Reg, FinDe, EspaciosDe, EsperanDe

\* The space of p with bytes b at d.
ConBytes(p, d, b) == Puesto(Espacio(p), d, b)

\* So are MOV_OUT and COPY_STRING when the space gets the bytes...
LEMMA PasoEscribe ==
  ASSUME NEW p \in Pids, p \notin terminados, UNCHANGED <<programa, FinDe, EsperanDe>>,
         NEW i, i = Ahora(p), NEW reg, reg = sumar_pc(Reg(p)),
         RegistrosDe' = [RegistrosDe EXCEPT ![p] = reg],
         NEW d, NEW b, EspaciosDe' = [EspaciosDe EXCEPT ![p] = ConBytes(p, d, b)],
         \/ i[1] = "MOV_OUT" /\ d = reg[i[2]] /\ b = Bytes(reg[i[3]], obtener_tamanio_registro(i[3]))
         \/ i[1] = "COPY_STRING" /\ d = reg["DI"] /\ b = SubSeq(Espacio(p), reg["SI"] + 1, reg["SI"] + i[2])
  PROVE  Ideal!Paso(p)
<1>1. RegistrosDe' = [RegistrosDe EXCEPT ![p] = reg]
  BY PasoComun
<1>2. EspaciosDe' = [EspaciosDe EXCEPT ![p] = Ideal!Con(p, d, b)]
  <2>1. Ideal!Con(p, d, b) = ConBytes(p, d, b)
    BY DEF Ideal!Con, ConBytes, Puesto
  <2> QED
    BY <2>1
<1> DEFINE I == Ideal!Actual(p)
           R == Ideal!sumar_pc(RegistrosDe[p])
<1>5. I = i /\ R = reg /\ ~FinDe[p]
  BY PasoComun
<1>3. CASE i[1] = "MOV_OUT"
  <2>1. b = Ideal!Bytes(reg[i[3]], Ideal!obtener_tamanio_registro(i[3])) /\ d = reg[i[2]]
    BY <1>3, MismosBytes, MismasOperaciones
  <2>2. I[1] = "MOV_OUT" /\ RegistrosDe' = [RegistrosDe EXCEPT ![p] = R]
        /\ EspaciosDe' = [EspaciosDe EXCEPT ![p] =
             Ideal!Con(p, R[I[2]], Ideal!Bytes(R[I[3]], Ideal!obtener_tamanio_registro(I[3])))]
    <3> HIDE DEF I, R
    <3> QED
      BY <1>1, <1>2, <1>3, <1>5, <2>1
  <2> QED
    BY <1>5, <2>2
    DEF Ideal!Paso, Ideal!Cambia, RegistrosDe, Reg, FinDe, EspaciosDe, EsperanDe
<1>4. CASE i[1] = "COPY_STRING"
  <2>1. b = Ideal!Tramo(p, reg["SI"], i[2]) /\ d = reg["DI"]
    BY <1>4, PasoComun
  <2>2. I[1] = "COPY_STRING" /\ RegistrosDe' = [RegistrosDe EXCEPT ![p] = R]
        /\ EspaciosDe' = [EspaciosDe EXCEPT ![p] = Ideal!Con(p, R["DI"], Ideal!Tramo(p, R["SI"], I[2]))]
    <3> HIDE DEF I, R
    <3> QED
      BY <1>1, <1>2, <1>4, <1>5, <2>1
  <2> QED
    BY <1>5, <2>2
    DEF Ideal!Paso, Ideal!Cambia, RegistrosDe, Reg, FinDe, EspaciosDe, EsperanDe
<1> QED
  BY <1>3, <1>4

\* The I/O instructions are those of the machine.
LEMMA MismasIO == Ideal!PideIO = InstruccionesIO /\ \A n : EsEntrada(n) <=> n \in Ideal!Entradas
  BY DEF Ideal!PideIO, Ideal!Entradas, Ideal!Salidas, Ideal!OtrasIO, InstruccionesIO, InstruccionesDialFS, EsEntrada

\* ... an I/O instruction when its input, if it is one, becomes pending...
LEMMA PasoIO ==
  ASSUME NEW p \in Pids, p \notin terminados, UNCHANGED <<programa, FinDe, EspaciosDe>>,
         NEW i, i = Ahora(p), i[1] \in InstruccionesIO, NEW reg, reg = sumar_pc(Reg(p)),
         RegistrosDe' = [RegistrosDe EXCEPT ![p] = reg],
         EsperanDe' = [EsperanDe EXCEPT ![p] = EsperanDe[p] \/ EsEntrada(i[1])]
  PROVE  Ideal!Paso(p)
<1>1. RegistrosDe' = [RegistrosDe EXCEPT ![p] = reg] /\ i[1] \in Ideal!PideIO
  BY PasoComun, MismasIO
<1>2. EsperanDe' = [EsperanDe EXCEPT ![p] = EsperanDe[p] \/ i[1] \in Ideal!Entradas]
  BY MismasIO, Zenon
<1> DEFINE I == Ideal!Actual(p)
           R == Ideal!sumar_pc(RegistrosDe[p])
<1>3. I = i /\ R = reg /\ ~FinDe[p]
  BY PasoComun
<1>4. I[1] \in Ideal!PideIO /\ RegistrosDe' = [RegistrosDe EXCEPT ![p] = R]
      /\ EsperanDe' = [EsperanDe EXCEPT ![p] = EsperanDe[p] \/ I[1] \in Ideal!Entradas]
  <2> HIDE DEF I, R
  <2> QED
    BY <1>1, <1>2, <1>3, Zenon
<1> QED
  BY <1>3, <1>4
  DEF Ideal!Paso, Ideal!Cambia, RegistrosDe, Reg, FinDe, EspaciosDe, EsperanDe

\* ... bytes that arrive at a process with a pending input, and only at it...
LEMMA PasoEntrada ==
  ASSUME NEW p \in Pids, entradas[p] > 0, UNCHANGED <<programa, FinDe, RegistrosDe>>,
         DOMAIN Espacio(p)' = DOMAIN Espacio(p),
         \A q \in Pids \ {p} : Espacio(q)' = Espacio(q) /\ entradas'[q] = entradas[q]
  PROVE  Ideal!Entrada(p)
BY DEF Ideal!Entrada, RegistrosDe, Reg, FinDe

\* ... and the end at an EXIT, or after an I/O instruction.
LEMMA PasoSalir ==
  ASSUME NEW p \in Pids, p \notin terminados, terminados' = terminados \cup {p},
         UNCHANGED <<programa, RegistrosDe, EspaciosDe, entradas>>,
         \/ Ahora(p)[1] = "EXIT"
         \/ Reg(p)["PC"] > 0 /\ programa[p][Reg(p)["PC"]][1] \in InstruccionesIO
  PROVE  Ideal!Salir(p)
<1>1. Ideal!Actual(p) = Ahora(p)
  BY PasoComun
<1>2. RegistrosDe[p] = Reg(p) /\ ~FinDe[p]
  BY DEF RegistrosDe, FinDe
<1>3. FinDe' = [FinDe EXCEPT ![p] = TRUE]
  <2>1. \A q \in Pids \ {p} : q \in terminados' <=> q \in terminados
    OBVIOUS
  <2>2. p \in terminados'
    OBVIOUS
  <2>3. [FinDe EXCEPT ![p] = TRUE] = [q \in Pids |-> IF q = p THEN TRUE ELSE q \in terminados]
    BY Zenon DEF FinDe
  <2>4. \A q \in Pids : (IF q = p THEN TRUE ELSE q \in terminados) = (q \in terminados')
    <3> TAKE q \in Pids
    <3>1. CASE q = p
      BY <2>2, <3>1
    <3>2. CASE q # p
      BY <2>1, <3>2
    <3> QED
      BY <3>1, <3>2
  <2>5. FinDe' = [q \in Pids |-> q \in terminados']
    BY DEF FinDe
  <2> QED
    BY <2>3, <2>4, <2>5, Zenon
<1>4. \/ Ideal!Actual(p)[1] = "EXIT"
      \/ RegistrosDe[p]["PC"] > 0 /\ programa[p][RegistrosDe[p]["PC"]][1] \in Ideal!PideIO
  BY <1>1, <1>2, MismasIO
<1> QED
  BY <1>2, <1>3, <1>4
  DEF Ideal!Salir, RegistrosDe, Reg, EspaciosDe, FinDe

\* A step that changes nothing the machine has is a stutter.
LEMMA PasoQuieto ==
  ASSUME UNCHANGED <<programa, RegistrosDe, EspaciosDe, EsperanDe, FinDe>>
  PROVE  UNCHANGED Ideal!vars
BY DEF Ideal!vars, RegistrosDe, Reg, EspaciosDe, EsperanDe, FinDe

-----------------------------------------------------------------------------
(* The space of a process, step by step                                     *)

\* The same bytes.
LEMMA IgualesIda ==
  ASSUME NEW p, NEW x, NEW y, Iguales(x, y, p)
  PROVE  Iguales(y, x, p) /\ \A z : Iguales(y, z, p) => Iguales(x, z, p)
BY DEF Iguales

LEMMA IgualesMismo ==
  ASSUME NEW p, NEW x, Propias(p) \subseteq DOMAIN x
  PROVE  Iguales(x, x, p)
BY DEF Iguales

\* A write to others leaves p's.
LEMMA EscribeAOtro ==
  ASSUME NEW p \in Pids, NEW r \in Pids, r # p, NEW x, Propias(p) \subseteq DOMAIN x,
         NEW lista, De(r, lista), NEW dato, Len(dato) \in Nat
  PROVE  Iguales(x, escribir_memoria(x, lista, dato), p)
<1> DEFINE y == escribir_memoria(x, lista, dato)
<1>1. Fisicas(lista) \in Seq(Propias(r))
  BY SonPropias
<1>2. DOMAIN y = DOMAIN x /\ \A b \in DOMAIN x \ Propias(r) : y[b] = x[b]
  BY <1>1, EscribeLejos
<1>3. \A b \in Propias(p) : b \notin Propias(r)
  BY NadaEnComun
<1> HIDE DEF y
<1>4. Iguales(x, y, p)
  BY <1>2, <1>3 DEF Iguales
<1> QED
  BY <1>4 DEF y

\* Nothing written.
LEMMA EscribeNada ==
  ASSUME NEW p, NEW x, Propias(p) \subseteq DOMAIN x
  PROVE  Iguales(x, escribir_memoria(x, <<>>, <<>>), p)
<1> DEFINE y == escribir_memoria(x, <<>>, <<>>)
<1>1. DOMAIN y = DOMAIN x /\ \A b \in DOMAIN x \ {} : y[b] = x[b]
  BY SinBytes, EscribeLejos
<1> HIDE DEF y
<1>2. Iguales(x, y, p)
  BY <1>1 DEF Iguales
<1> QED
  BY <1>2 DEF y

\* With no COPY_STRING half done nothing is to be written before the queue.
LEMMA SinCopiaBase ==
  ASSUME copia = SinCopia
  PROVE  Base = escribir_memoria(memoriaUsuario, <<>>, <<>>)
BY DEF Base, SinCopia

LEMMA SinCopiaBasePrima ==
  ASSUME copia' = SinCopia
  PROVE  Base' = escribir_memoria(memoriaUsuario', <<>>, <<>>)
BY DEF Base, SinCopia

\* The same facts of the next state.
LEMMA FuturaTrasPrima == MemoriaFutura' = Tras(Base', (aMemoria["CPU"])')
  BY DEF MemoriaFutura, Tras, Base
LEMMA EspacioFuturoPrima == \A p : Espacio(p)' = EspacioEn(MemoriaFutura', p)
  BY DEF Espacio, EspacioEn, Fisica, EspacioDe

\* What is needed of the state.
LEMMA EnElPresente ==
  ASSUME Conexion, Escrituras, NEW p \in Pids
  PROVE  /\ EsSeq(aMemoria["CPU"]) /\ Propias(p) \subseteq DOMAIN memoriaUsuario
         /\ DOMAIN Base = DOMAIN memoriaUsuario /\ DOMAIN MemoriaFutura = DOMAIN memoriaUsuario
         /\ copia = SinCopia => Iguales(memoriaUsuario, Base, p)
<1>1. EsSeq(aMemoria["CPU"]) /\ Propias(p) \subseteq DOMAIN memoriaUsuario
  BY DEF Conexion, Sirve, Escrituras
<1>2. DOMAIN Base = DOMAIN memoriaUsuario
  BY MismoDominio DEF Base
<1>3. DOMAIN MemoriaFutura = DOMAIN memoriaUsuario
  BY <1>1, <1>2, TrasDominio, FuturaTras
<1> QED
  BY <1>1, <1>2, <1>3, EscribeNada, SinCopiaBase

\* Neither memory nor what is on its way changes.
LEMMA NoSeMueve ==
  ASSUME UNCHANGED <<memoriaUsuario, copia>>, aMemoria'["CPU"] = aMemoria["CPU"]
  PROVE  UNCHANGED <<EspaciosDe, MemoriaFutura>>
<1>1. MemoriaFutura' = MemoriaFutura
  BY FuturaTras, FuturaTrasPrima DEF Base
<1> QED
  BY <1>1, EspacioFuturo, EspacioFuturoPrima DEF EspaciosDe

\* A base with the same bytes, and the same requests.
LEMMA MismaBase ==
  ASSUME NEW p \in Pids, NEW x, NEW q, EsSeq(q), \A k \in DOMAIN q : DeUno(q[k]),
         MemoriaFutura = Tras(x, q), aMemoria'["CPU"] = q, Iguales(x, Base', p)
  PROVE  Espacio(p)' = Espacio(p)
<1> DEFINE y == Base'
<1>1. MemoriaFutura' = Tras(y, q)
  BY FuturaTrasPrima
<1> HIDE DEF y
<1>2. Iguales(Tras(x, q), Tras(y, q), p)
  BY TrasIguales DEF y
<1> DEFINE f == Tras(x, q)
           h == Tras(y, q)
<1>3. Iguales(f, h, p)
  BY <1>2
<1> HIDE DEF f, h
<1>4. EspacioEn(f, p) = EspacioEn(h, p)
  BY <1>3, EspaciosIguales
<1> QED
  BY <1>1, <1>4, EspacioFuturo, EspacioFuturoPrima DEF f, h

\* Memory serves the first of the CPU's requests.
LEMMA SirveUno ==
  ASSUME Conexion, Escrituras, EnviosDeUno, NEW cop, Atender("CPU", cop), NEW p \in Pids,
         Iguales(Aplicar(Base, Pedido("CPU")), Base', p)
  PROVE  Espacio(p)' = Espacio(p)
<1> DEFINE a == aMemoria["CPU"]
           q == Tail(a)
           x == Aplicar(Base, Pedido("CPU"))
<1>1. a # <<>> /\ aMemoria'["CPU"] = q /\ EsSeq(a)
  BY EnElPresente DEF Atender, Conexion, Clientes
<1>2. EsSeq(q) /\ \A k \in DOMAIN q : k + 1 \in DOMAIN a /\ q[k] = a[k + 1]
  BY <1>1, SinLaCabeza
<1>3. \A k \in DOMAIN q : DeUno(q[k])
  BY <1>2 DEF EnviosDeUno
<1>4. MemoriaFutura = Tras(x, q)
  BY <1>1, FuturaTras, TrasMenos DEF Pedido
<1> HIDE DEF a, q, x
<1>5. Iguales(x, Base', p)
  BY DEF x
<1> QED
  BY <1>1, <1>2, <1>3, <1>4, <1>5, MismaBase

\* Memory serves the first request of its queue: the space of each process, which counted it
\* already, does not change.
LEMMA EspacioSinEscribir ==
  ASSUME Conexion, Escrituras, EnviosDeUno, AtenderInstruccion \/ AtenderMovIn
  PROVE  UNCHANGED EspaciosDe
<1> SUFFICES ASSUME NEW p \in Pids PROVE Espacio(p)' = Espacio(p)
  BY DEF EspaciosDe
<1>1. PICK cop \in {"PEDIDO_INSTRUCCION", "PEDIDO_MOV_IN"} : Atender("CPU", cop)
  BY DEF AtenderInstruccion, AtenderMovIn
<1>2. UNCHANGED <<memoriaUsuario, copia>>
  BY DEF AtenderInstruccion, AtenderMovIn, memoria
<1>3. Base' = Base
  BY <1>2 DEF Base
<1>4. Pedido("CPU").cop = cop
  BY <1>1 DEF Atender
<1>5. Aplicar(Base, Pedido("CPU")) = Base
  BY <1>4 DEF Aplicar
<1>6. Propias(p) \subseteq DOMAIN Base
  BY EnElPresente
<1>7. Iguales(Aplicar(Base, Pedido("CPU")), Base', p)
  BY <1>3, <1>5, <1>6, IgualesMismo
<1> QED
  BY <1>1, <1>7, SirveUno

LEMMA EspacioMovOut ==
  ASSUME Conexion, Escrituras, EnviosDeUno, AtenderMovOut
  PROVE  UNCHANGED EspaciosDe
<1> SUFFICES ASSUME NEW p \in Pids PROVE Espacio(p)' = Espacio(p)
  BY DEF EspaciosDe
<1> DEFINE m == deserializar_datos_mov_out(Pedido("CPU"))
           x == escribir_memoria(Base, m.direcciones, m.valor)
           y == escribir_memoria(memoriaUsuario, m.direcciones, m.valor)
<1>1. /\ Atender("CPU", "PEDIDO_MOV_OUT") /\ copia' = copia /\ copia = SinCopia
      /\ memoriaUsuario' = y /\ Pedido("CPU").cop = "PEDIDO_MOV_OUT"
  BY DEF AtenderMovOut, Atender
<1>2. Aplicar(Base, Pedido("CPU")) = x
  BY <1>1 DEF Aplicar
<1>3. Iguales(memoriaUsuario, Base, p)
  BY <1>1, EnElPresente
<1>4. Iguales(y, x, p)
  BY <1>3, EscribeIguales
<1>5. Base' = escribir_memoria(y, <<>>, <<>>)
  BY <1>1, SinCopiaBasePrima
<1> HIDE DEF x, y
<1>6. Iguales(y, Base', p)
  <2>1. Propias(p) \subseteq DOMAIN y
    BY <1>4 DEF Iguales
  <2> QED
    BY <1>5, <2>1, EscribeNada
<1>7. Iguales(x, Base', p)
  BY <1>4, <1>6, IgualesIda
<1> QED
  BY <1>1, <1>2, <1>7, SirveUno

LEMMA EspacioCopyLeer ==
  ASSUME Conexion, Escrituras, EnviosDeUno, CopyLeer
  PROVE  UNCHANGED EspaciosDe
<1> SUFFICES ASSUME NEW p \in Pids PROVE Espacio(p)' = Espacio(p)
  BY DEF EspaciosDe
<1> DEFINE m == deserializar_datos_copystring(Pedido("CPU").stream)
           u == leer_memoria(memoriaUsuario, m.lectura)
           v == leer_memoria(Base, m.lectura)
           x == escribir_memoria(Base, m.escritura, v)
<1>1. /\ Atender("CPU", "PEDIDO_COPY_STRING") /\ copia' = [escritura |-> m.escritura, dato |-> u]
      /\ copia = SinCopia /\ memoriaUsuario' = memoriaUsuario /\ Pedido("CPU").cop = "PEDIDO_COPY_STRING"
  BY DEF CopyLeer, Atender
<1>2. Aplicar(Base, Pedido("CPU")) = x
  BY <1>1 DEF Aplicar
<1>3. \A r \in Pids : Iguales(memoriaUsuario, Base, r)
  BY <1>1, EnElPresente
<1>4. u = v
  <2>1. DeUno(Pedido("CPU"))
    <3>1. EsSeq(aMemoria["CPU"]) /\ aMemoria["CPU"] # <<>>
      BY <1>1, EnElPresente DEF Atender
    <3>2. Pedido("CPU") = aMemoria["CPU"][1] /\ 1 \in DOMAIN aMemoria["CPU"]
      BY <3>1, SinLaCabeza DEF Pedido
    <3> QED
      BY <3>2 DEF EnviosDeUno
  <2>2. PICK r \in Pids : De(r, m.lectura)
    BY <1>1, <2>1 DEF DeUno
  <2> HIDE DEF m
  <2>3. \A b \in Propias(r) : Base[b] = memoriaUsuario[b]
    BY <1>3 DEF Iguales
  <2> DEFINE B == Base
  <2> HIDE DEF B
  <2>4. leer_memoria(memoriaUsuario, m.lectura) = leer_memoria(B, m.lectura)
    BY <2>2, <2>3, LeenLoMismo DEF B
  <2> QED
    BY <2>4 DEF B
<1> HIDE DEF u, v
<1>5. Base' = escribir_memoria(memoriaUsuario, m.escritura, v)
  BY <1>1, <1>4 DEF Base
<1> HIDE DEF m
<1>6. Iguales(x, Base', p)
  <2>1. Iguales(Base, memoriaUsuario, p)
    BY <1>3, IgualesIda
  <2> DEFINE B == Base
  <2> HIDE DEF B
  <2>2. Iguales(escribir_memoria(B, m.escritura, v), escribir_memoria(memoriaUsuario, m.escritura, v), p)
    BY <2>1, EscribeIguales DEF B
  <2> QED
    BY <1>5, <2>2 DEF B
<1> QED
  BY <1>1, <1>2, <1>6, SirveUno

LEMMA EspacioCopyEscribir ==
  ASSUME Conexion, Escrituras, EnviosDeUno, CopyEscribir
  PROVE  UNCHANGED EspaciosDe
<1> SUFFICES ASSUME NEW p \in Pids PROVE Espacio(p)' = Espacio(p)
  BY DEF EspaciosDe
<1>1. /\ memoriaUsuario' = Base /\ copia' = SinCopia /\ UNCHANGED aMemoria
  BY DEF CopyEscribir, canalesM, Base
<1>2. Propias(p) \subseteq DOMAIN Base /\ EsSeq(aMemoria["CPU"])
  BY EnElPresente
<1>3. Iguales(Base, Base', p)
  BY <1>1, <1>2, SinCopiaBasePrima, EscribeNada
<1>4. \A k \in DOMAIN aMemoria["CPU"] : DeUno(aMemoria["CPU"][k])
  BY DEF EnviosDeUno
<1> DEFINE x == Base
           q == aMemoria["CPU"]
<1>5. MemoriaFutura = Tras(x, q) /\ aMemoria'["CPU"] = q
  BY <1>1, FuturaTras
<1> HIDE DEF q, x
<1>6. EsSeq(q) /\ (\A k \in DOMAIN q : DeUno(q[k])) /\ Iguales(x, Base', p)
  BY <1>2, <1>3, <1>4 DEF q, x
<1> QED
  BY <1>5, <1>6, MismaBase

LEMMA EspacioDeMemoria ==
  ASSUME Conexion, Escrituras, EnviosDeUno, MemoriaCPU
  PROVE  UNCHANGED EspaciosDe
BY EspacioSinEscribir, EspacioMovOut, EspacioCopyLeer, EspacioCopyEscribir DEF MemoriaCPU

\* An input changes the space of its process, and no other.
LEMMA EspacioEntrada ==
  ASSUME Conexion, Escrituras, EnviosDeUno, EnInterfaces, Lecturas, NEW i \in Interfaces, EscribirStdin(i),
         NEW e, e = Escrito(Pedido(i)).pid
  PROVE  /\ e \in Pids
         /\ \A p \in Pids \ {e} : Espacio(p)' = Espacio(p)
         /\ DOMAIN Espacio(e)' = DOMAIN Espacio(e)
<1> DEFINE m == Escrito(Pedido(i))
           y == escribir_memoria(memoriaUsuario, m.direcciones, m.dato)
<1>1. /\ Atender(i, "PEDIDO_ESCRIBIR_DATO_STDIN") /\ memoriaUsuario' = y /\ copia' = copia
      /\ aMemoria[i] # <<>> /\ EsEscritura(Pedido(i))
  BY DEF EscribirStdin, Atender, Escrito, EsEscritura
<1>2. Entra(Pedido(i))
  <2>1. EsSeq(aMemoria[i])
    BY DEF Lecturas, Consulta
  <2>2. Pedido(i) = aMemoria[i][1] /\ 1 \in DOMAIN aMemoria[i]
    BY <1>1, <2>1, SinLaCabeza DEF Pedido
  <2> QED
    BY <2>2 DEF EnInterfaces, Llevan
<1>3. m.pid \in Pids /\ De(m.pid, m.direcciones) /\ Len(m.dato) \in Nat
  BY <1>1, <1>2 DEF Entra
<1>4. aMemoria'["CPU"] = aMemoria["CPU"]
  BY <1>1, ConstantesCiclo DEF Atender, Conexion, Clientes, Interfaces
<1> HIDE DEF m
<1>5. ASSUME NEW p \in Pids \ {m.pid} PROVE Espacio(p)' = Espacio(p)
  <2>1. Propias(p) \subseteq DOMAIN memoriaUsuario /\ EsSeq(aMemoria["CPU"])
    BY EnElPresente
  <2>2. Iguales(memoriaUsuario, y, p)
    BY <1>3, <2>1, EscribeAOtro
  <2> HIDE DEF y
  <2>3. Iguales(escribir_memoria(memoriaUsuario, copia.escritura, copia.dato),
                escribir_memoria(y, copia.escritura, copia.dato), p)
    BY <2>2, EscribeIguales
  <2>4. Iguales(Base, Base', p)
    BY <1>1, <2>3 DEF Base
  <2> DEFINE x == Base
             q == aMemoria["CPU"]
  <2>5. MemoriaFutura = Tras(x, q) /\ aMemoria'["CPU"] = q
    BY <1>4, FuturaTras
  <2>6. \A k \in DOMAIN q : DeUno(q[k])
    BY DEF EnviosDeUno
  <2>7. EsSeq(q) /\ Iguales(x, Base', p)
    BY <2>1, <2>4
  <2> HIDE DEF q, x
  <2> QED
    BY <2>5, <2>6, <2>7, MismaBase
<1>6. \A p \in Pids : DOMAIN Espacio(p)' = 1 .. EspacioDe(p) /\ DOMAIN Espacio(p) = 1 .. EspacioDe(p)
  BY EspacioFuturo, EspacioFuturoPrima DEF EspacioEn
<1> QED
  BY <1>3, <1>5, <1>6 DEF m

-----------------------------------------------------------------------------
(* The CPU's steps, seen from the machine                                   *)

\* The accesses of the instruction that is executed are within the pages.
LEMMA EnRango ==
  ASSUME Turnos, Prestado, EnSuEspacio, cpu.pc = "fetch", deMemoria["CPU"] # <<>>,
         NEW dl, NEW tam, <<dl, tam>> \in Accesos(Avanzados, Instruccion)
  PROVE  /\ dl \in 0 .. EspacioDe(ejecutando) - 1 /\ tam \in Nat /\ dl + tam <= EspacioDe(ejecutando)
         /\ ejecutando \in Pids /\ pcb_actual.pid = ejecutando
         /\ De(ejecutando, traducir_direccion(ejecutando, dl, tam))
<1> DEFINE e == EspacioDe(ejecutando)
<1>1. ejecutando \in Pids /\ pcb_actual.pid = ejecutando
  BY QuienEscribe
<1>2. \A a \in Accesos(Avanzados, Instruccion) : a[1] \in 0 .. e - 1 /\ a[2] \in Nat /\ a[1] + a[2] <= e
  BY <1>1 DEF EnSuEspacio, EspacioDe
<1> HIDE DEF e
<1>3. dl \in 0 .. e - 1 /\ tam \in Nat /\ dl + tam <= e
  BY <1>2
<1>4. De(ejecutando, traducir_direccion(ejecutando, dl, tam))
  BY <1>1, DirUnAcceso
<1> QED
  BY <1>1, <1>3, <1>4 DEF e

\* A request that writes nothing.
LEMMA EspacioPide ==
  ASSUME Conexion, Escrituras, UNCHANGED memoria, NEW q, aMemoria' = Mandar(aMemoria, "CPU", q),
         q.cop \notin SinRespuesta
  PROVE  UNCHANGED EspaciosDe
<1> DEFINE a == aMemoria["CPU"]
<1>1. aMemoria'["CPU"] = Append(a, q) /\ Base' = Base
  BY DEF Mandar, Conexion, Clientes, memoria, Base
<1>2. EsSeq(a)
  BY DEF Conexion, Sirve
<1>3. \A x : Aplicar(x, q) = x
  BY DEF Aplicar, SinRespuesta
<1> HIDE DEF a
<1>4. MemoriaFutura' = MemoriaFutura
  <2> DEFINE B == Base
  <2>1. MemoriaFutura' = Tras(B, Append(a, q)) /\ MemoriaFutura = Tras(B, a)
    BY <1>1, FuturaTras, FuturaTrasPrima DEF a
  <2> HIDE DEF B
  <2> QED
    BY <1>2, <1>3, <2>1, TrasMas
<1> QED
  BY <1>4, EspacioFuturo, EspacioFuturoPrima DEF EspaciosDe

\* One that writes bytes b at dl.
LEMMA EspacioEscribe ==
  ASSUME Conexion, Escrituras, UNCHANGED memoria, NEW q, aMemoria' = Mandar(aMemoria, "CPU", q),
         NEW p \in Pids, NEW dl \in 0 .. EspacioDe(p) - 1, NEW tam \in Nat, dl + tam <= EspacioDe(p),
         NEW b, Len(b) = tam,
         Aplicar(MemoriaFutura, q) = escribir_memoria(MemoriaFutura, traducir_direccion(p, dl, tam), b)
  PROVE  EspaciosDe' = [EspaciosDe EXCEPT ![p] = ConBytes(p, dl, b)]
<1> DEFINE a == aMemoria["CPU"]
           f == MemoriaFutura
           lista == traducir_direccion(p, dl, tam)
           h == escribir_memoria(f, lista, b)
<1>1. aMemoria'["CPU"] = Append(a, q) /\ Base' = Base
  BY DEF Mandar, Conexion, Clientes, memoria, Base
<1>2. EsSeq(a)
  BY DEF Conexion, Sirve
<1>3. MemoriaFutura' = h
  <2> DEFINE B == Base
  <2>1. MemoriaFutura' = Tras(B, Append(a, q)) /\ MemoriaFutura = Tras(B, a)
    BY <1>1, FuturaTras, FuturaTrasPrima DEF a
  <2> HIDE DEF B, a
  <2>2. Tras(B, Append(a, q)) = Aplicar(Tras(B, a), q)
    BY <1>2, TrasMas
  <2> QED
    BY <2>1, <2>2
<1>4. \A r \in Pids : Propias(r) \subseteq DOMAIN f
  BY EnElPresente
<1>5. \A r : Espacio(r) = EspacioEn(f, r) /\ Espacio(r)' = EspacioEn(h, r)
  BY <1>3, EspacioFuturo, EspacioFuturoPrima
<1>6. De(p, lista)
  BY Traducido DEF EspacioDe
<1> HIDE DEF f, a
<1>7. ASSUME NEW r \in Pids, r # p PROVE Espacio(r)' = Espacio(r)
  <2> HIDE DEF lista
  <2>1. Iguales(f, h, r)
    BY <1>4, <1>6, <1>7, EscribeAOtro
  <2> HIDE DEF h
  <2>2. EspacioEn(f, r) = EspacioEn(h, r)
    BY <2>1, EspaciosIguales
  <2> QED
    BY <1>5, <2>2
<1>8. Espacio(p)' = ConBytes(p, dl, b)
  <2>1. EspacioEn(h, p) = Puesto(EspacioEn(f, p), dl, b)
    BY <1>4, EscribeEspacio
  <2> HIDE DEF h
  <2> QED
    BY <1>5, <2>1 DEF ConBytes
<1> DEFINE x == ConBytes(p, dl, b)
<1> HIDE DEF x
<1>9. \A r \in Pids : Espacio(r)' = IF r = p THEN x ELSE Espacio(r)
  BY <1>7, <1>8 DEF x
<1>10. EspaciosDe' = [EspaciosDe EXCEPT ![p] = x]
  BY <1>9 DEF EspaciosDe
<1> QED
  BY <1>10 DEF x

\* While the CPU has the process, its registers are the CPU's.
LEMMA TieneSusRegistros ==
  ASSUME ejecutando \in Pids, dispatch = <<>>, UNCHANGED <<ejecutando, dispatch, pcb>>,
         NEW x, EnCPU' = x
  PROVE  /\ Reg(ejecutando) = EnCPU
         /\ RegistrosDe' = [RegistrosDe EXCEPT ![ejecutando] = x]
         /\ x = EnCPU => UNCHANGED RegistrosDe
<1>1. Reg(ejecutando) = EnCPU /\ Reg(ejecutando)' = x
  BY DEF Reg
<1>2. \A p \in Pids : p # ejecutando => Reg(p)' = Reg(p)
  BY DEF Reg
<1> QED
  BY <1>1, <1>2 DEF RegistrosDe

\* The CPU is about to execute the process's instruction.
LEMMA SuInstruccion ==
  ASSUME Turnos, Prestado, Conexion, Rumbo, Vivos, Registran, BienEscritos,
         cpu.pc = "fetch", deMemoria["CPU"] # <<>>
  PROVE  /\ ejecutando \in Pids /\ ejecutando \notin terminados /\ dispatch = <<>>
         /\ pcb_actual.pid = ejecutando /\ EnCPU = pcb_actual.registros
         /\ Reg(ejecutando) = pcb_actual.registros /\ Ahora(ejecutando) = Instruccion
         /\ pcb_actual.registros \in Numerados /\ Avanzados \in Numerados
         /\ PC + 1 \in 1 .. Modulo("PC") - 1
         /\ Avanzados["PC"] = PC + 1 /\ PC + 1 \in DOMAIN Suyo /\ Instruccion = Suyo[PC + 1]
         /\ [Avanzados EXCEPT !["PC"] = (@ - 1) % Modulo("PC")] = pcb_actual.registros
         /\ Instruccion[1] \in {"SET", "JNZ"} => Instruccion[3] \in Nat
         /\ Instruccion[1] \in {"SUM", "SUB", "MOV_OUT"} => Instruccion[3] \in Registros
         /\ Instruccion[1] = "MOV_OUT" => Instruccion[3] \in DeDatos
<1>1. ejecutando \in Pids /\ pcb_actual.pid = ejecutando /\ dispatch = <<>> /\ ejecutando \notin terminados
  BY QuienEscribe DEF Prestado, Vivos
<1>2. EnCPU = pcb_actual.registros
  BY DEF EnCPU
<1>3. PC + 1 \in DOMAIN Suyo /\ Instruccion = Suyo[PC + 1]
  BY DEF Rumbo, LlegaElPC
<1>4. Reg(ejecutando) = pcb_actual.registros
  BY <1>1, <1>2 DEF Reg
<1>5. Ahora(ejecutando) = Instruccion
  BY <1>1, <1>3, <1>4 DEF Ahora, PC, Suyo
<1>6. pcb_actual.registros \in Numerados
  BY DEF Registran
<1>7. PC + 1 \in 1 .. Modulo("PC") - 1
  BY <1>1, <1>3 DEF BienEscritos, Suyo, Conexion
<1> DEFINE reg == pcb_actual.registros
<1>8. sumar_pc(reg) \in Numerados /\ sumar_pc(reg)["PC"] = PC + 1
      /\ [sumar_pc(reg) EXCEPT !["PC"] = (@ - 1) % Modulo("PC")] = reg
  <2>1. reg \in Numerados /\ reg["PC"] + 1 \in 1 .. Modulo("PC") - 1 /\ PC = reg["PC"]
    BY <1>6, <1>7 DEF PC
  <2> HIDE DEF reg
  <2> QED
    BY <2>1, SumaElPC, SubeElPC
<1>9. /\ Instruccion[1] \in {"SET", "JNZ"} => Instruccion[3] \in Nat
      /\ Instruccion[1] \in {"SUM", "SUB", "MOV_OUT"} => Instruccion[3] \in Registros
      /\ Instruccion[1] = "MOV_OUT" => Instruccion[3] \in DeDatos
  <2> DEFINE n == PC + 1
             i == Suyo[n]
  <2>1. n \in DOMAIN Suyo
    BY <1>3
  <2> HIDE DEF n
  <2>2. /\ i[1] \in {"SET", "JNZ"} => i[3] \in Nat
        /\ i[1] \in {"SUM", "SUB"} => i[3] \in Registros
        /\ i[1] = "MOV_OUT" => i[3] \in DeDatos
    BY <1>1, <2>1 DEF BienEscritos, Suyo, Conexion
  <2>3. DeDatos \subseteq Registros
    BY DEF DeDatos, Registros, Registros32
  <2> QED
    BY <1>3, <2>2, <2>3 DEF n
<1> QED
  BY <1>1, <1>2, <1>3, <1>4, <1>5, <1>6, <1>7, <1>8, <1>9 DEF Avanzados

\* What an instruction leaves alone.
LEMMA NoEsDeOtros ==
  ASSUME NEW nombres, Ejecutar(nombres)
  PROVE  /\ UNCHANGED <<programa, FinDe, ejecutando, pcb, dispatch, respuesta, memoria, interrupcion>>
         /\ cpu.pc = "fetch" /\ deMemoria["CPU"] # <<>> /\ Instruccion[1] \in nombres
         /\ UNCHANGED entradas => UNCHANGED EsperanDe
BY DEF Ejecutar, kernel, FinDe, EsperanDe

\* An instruction on registers is a step of the machine.
LEMMA IdealAritmetica ==
  ASSUME Turnos, Prestado, Conexion, Rumbo, Vivos, Registran, BienEscritos, EjecutarAritmetica
  PROVE  \E p \in Pids : Ideal!Paso(p)
<1> DEFINE x == Operar(Avanzados, Instruccion)
<1>1. /\ Ejecutar(Aritmeticas) /\ UNCHANGED <<aMemoria, entradas>>
      /\ pcb_actual' = [pcb_actual EXCEPT !.registros = x] /\ cpu' = [pc |-> "ciclo", instr |-> NULL]
  BY DEF EjecutarAritmetica, Seguir
<1>2. /\ UNCHANGED <<programa, FinDe, EsperanDe, ejecutando, pcb, dispatch, memoriaUsuario, copia>>
      /\ cpu.pc = "fetch" /\ deMemoria["CPU"] # <<>> /\ Instruccion[1] \in Aritmeticas
  BY <1>1, NoEsDeOtros DEF memoria
<1>3. /\ ejecutando \in Pids /\ ejecutando \notin terminados /\ dispatch = <<>>
      /\ Reg(ejecutando) = pcb_actual.registros /\ Ahora(ejecutando) = Instruccion
  BY <1>2, SuInstruccion
<1>4. UNCHANGED EspaciosDe
  BY <1>1, <1>2, NoSeMueve
<1>5. EnCPU' = x
  <2> HIDE DEF x
  <2> QED
    BY <1>1 DEF EnCPU, Prestado, CamposPCB
<1>6. RegistrosDe' = [RegistrosDe EXCEPT ![ejecutando] = x]
  <2> HIDE DEF x
  <2> QED
    BY <1>2, <1>3, <1>5, TieneSusRegistros
<1> PICK p \in Pids : p = ejecutando
  BY <1>3
<1>7. RegistrosDe' = [RegistrosDe EXCEPT ![p] = Operar(sumar_pc(Reg(p)), Ahora(p))]
  BY <1>3, <1>6 DEF Avanzados
<1>8. UNCHANGED <<programa, FinDe, EspaciosDe, EsperanDe>> /\ Ahora(p)[1] \in Aritmeticas /\ p \notin terminados
  BY <1>2, <1>3, <1>4
<1>9. Ideal!Paso(p)
  BY <1>7, <1>8, PasoAritmetica
<1> QED
  BY <1>9

\* What memory does with the packet of a MOV_OUT...
LEMMA AplicaMovOut ==
  ASSUME NEW p, NEW lista, De(p, lista), NEW v, NEW pid, NEW r, NEW mem
  PROVE  LET q == enviar_valor_mov_out_cpu(lista, v, pid, revisar_registro(r))
         IN  Aplicar(mem, q) = escribir_memoria(mem, lista, v) /\ q.cop = "PEDIDO_MOV_OUT"
             /\ deserializar_datos_mov_out(q).direcciones = lista /\ deserializar_datos_mov_out(q).valor = v
<1> DEFINE q == enviar_valor_mov_out_cpu(lista, v, pid, revisar_registro(r))
           m == deserializar_datos_mov_out(q)
<1>1. q.cop = "PEDIDO_MOV_OUT"
  BY DEF enviar_valor_mov_out_cpu
<1>2. m.direcciones = lista /\ m.valor = v
  <2>1. lista \in Seq(Tramos) /\ revisar_registro(r) \in BOOLEAN
    BY DEF De, revisar_registro
  <2> QED
    BY <2>1, LeeMovOut
<1>3. Aplicar(mem, q) = escribir_memoria(mem, m.direcciones, m.valor)
  <2> HIDE DEF q
  <2> QED
    BY <1>1 DEF Aplicar
<1> QED
  BY <1>1, <1>2, <1>3

\* ... and with that of a COPY_STRING.
LEMMA AplicaCopyString ==
  ASSUME NEW x, NEW mem
  PROVE  LET q == enviar_datos_copy_string(x)
         IN  Aplicar(mem, q) = escribir_memoria(mem, x.escritura, leer_memoria(mem, x.lectura))
             /\ q.cop = "PEDIDO_COPY_STRING"
<1> DEFINE q == enviar_datos_copy_string(x)
           m == deserializar_datos_copystring(q.stream)
<1>1. q.cop = "PEDIDO_COPY_STRING"
  BY DEF enviar_datos_copy_string, Paquete
<1>2. m.escritura = x.escritura /\ m.lectura = x.lectura
  BY LeeCopyString
<1>3. Aplicar(mem, q) = escribir_memoria(mem, m.escritura, leer_memoria(mem, m.lectura))
  <2> HIDE DEF q
  <2> QED
    BY <1>1 DEF Aplicar
<1> QED
  BY <1>1, <1>2, <1>3

\* The process's registers go on to the next instruction and it stays on the CPU.
LEMMA SoloAvanza ==
  ASSUME Turnos, Prestado, Conexion, Rumbo, Vivos, Registran, BienEscritos, NEW nombre, NEW q,
         UsarMemoria(nombre, q), Seguir("ciclo", NULL)
  PROVE  /\ UNCHANGED <<programa, FinDe, EsperanDe, memoria>>
         /\ RegistrosDe' = [RegistrosDe EXCEPT ![ejecutando] = Avanzados]
         /\ aMemoria' = Mandar(aMemoria, "CPU", q) /\ cpu.pc = "fetch" /\ deMemoria["CPU"] # <<>>
         /\ Instruccion[1] = nombre
<1>1. /\ Ejecutar({nombre}) /\ aMemoria' = Mandar(aMemoria, "CPU", q) /\ UNCHANGED entradas
      /\ pcb_actual' = [pcb_actual EXCEPT !.registros = Avanzados] /\ cpu' = [pc |-> "ciclo", instr |-> NULL]
  BY DEF UsarMemoria, Seguir
<1>2. /\ UNCHANGED <<programa, FinDe, EsperanDe, ejecutando, pcb, dispatch, memoria>>
      /\ cpu.pc = "fetch" /\ deMemoria["CPU"] # <<>> /\ Instruccion[1] = nombre
  BY <1>1, NoEsDeOtros
<1>3. ejecutando \in Pids /\ dispatch = <<>>
  BY <1>2, SuInstruccion
<1> DEFINE x == Avanzados
<1> HIDE DEF x
<1>4. EnCPU' = x
  BY <1>1 DEF EnCPU, Prestado, CamposPCB, x
<1>5. RegistrosDe' = [RegistrosDe EXCEPT ![ejecutando] = x]
  BY <1>2, <1>3, <1>4, TieneSusRegistros
<1> QED
  BY <1>1, <1>2, <1>5 DEF x

\* A MOV_OUT is a step of the machine when the CPU sends it.
LEMMA IdealMovOut ==
  ASSUME Turnos, Prestado, Conexion, Escrituras, Rumbo, Vivos, Registran, BienEscritos, EnSuEspacio,
         EjecutarMovOut
  PROVE  \E p \in Pids : Ideal!Paso(p)
<1> DEFINE i == Instruccion
           r == i[3]
           w == obtener_tamanio_registro(r)
           dl == Avanzados[i[2]]
           lista == Traducir(i[2], w)
           v == Bytes(Avanzados[r], w)
           q == enviar_valor_mov_out_cpu(lista, v, pcb_actual.pid, revisar_registro(r))
<1>1. UsarMemoria("MOV_OUT", q) /\ Seguir("ciclo", NULL)
  BY DEF EjecutarMovOut
<1> HIDE DEF q
<1>2. /\ UNCHANGED <<programa, FinDe, EsperanDe, memoria>>
      /\ RegistrosDe' = [RegistrosDe EXCEPT ![ejecutando] = Avanzados]
      /\ aMemoria' = Mandar(aMemoria, "CPU", q) /\ cpu.pc = "fetch" /\ deMemoria["CPU"] # <<>>
      /\ i[1] = "MOV_OUT"
  BY <1>1, SoloAvanza
<1>3. /\ ejecutando \in Pids /\ ejecutando \notin terminados
      /\ Reg(ejecutando) = pcb_actual.registros /\ Ahora(ejecutando) = i
      /\ Avanzados \in Numerados /\ r \in Registros /\ r \in DeDatos
  BY <1>2, SuInstruccion
<1> PICK p \in Pids : p = ejecutando
  BY <1>3
<1>4. <<dl, w>> \in Accesos(Avanzados, Instruccion)
  BY <1>2 DEF Accesos
<1>5. /\ dl \in 0 .. EspacioDe(p) - 1 /\ w \in Nat /\ dl + w <= EspacioDe(p)
      /\ pcb_actual.pid = p /\ De(p, traducir_direccion(p, dl, w))
  <2> HIDE DEF dl, w
  <2> QED
    BY <1>2, <1>4, EnRango
<1>6. lista = traducir_direccion(p, dl, w)
  BY <1>5 DEF Traducir
<1>7. Len(v) = w
  <2>1. Avanzados[r] \in Nat /\ w \in 0 .. ANCHO
    BY <1>3, Anchos DEF Numerados
  <2> DEFINE z == Avanzados[r]
  <2> HIDE DEF z, w
  <2>2. Len(Bytes(z, w)) = w
    BY <2>1, BytesDeNumero DEF z
  <2> QED
    BY <2>2 DEF z
<1>8. Aplicar(MemoriaFutura, q) = escribir_memoria(MemoriaFutura, lista, v)
  <2> DEFINE f == MemoriaFutura
  <2> HIDE DEF f, lista, v, w
  <2>1. Aplicar(f, q) = escribir_memoria(f, lista, v)
    BY <1>5, <1>6, AplicaMovOut DEF q
  <2> QED
    BY <2>1 DEF f
<1>9. EspaciosDe' = [EspaciosDe EXCEPT ![p] = ConBytes(p, dl, v)]
  <2> HIDE DEF dl, w, lista, v
  <2> QED
    BY <1>2, <1>5, <1>6, <1>7, <1>8, EspacioEscribe
<1>10. /\ Ahora(p) = i /\ Avanzados = sumar_pc(Reg(p)) /\ p \notin terminados
       /\ RegistrosDe' = [RegistrosDe EXCEPT ![p] = Avanzados]
  BY <1>2, <1>3 DEF Avanzados
<1>11. Ideal!Paso(p)
  <2> DEFINE reg == Avanzados
             D == dl
             V == v
             I == i
  <2>1. /\ I = Ahora(p) /\ reg = sumar_pc(Reg(p)) /\ RegistrosDe' = [RegistrosDe EXCEPT ![p] = reg]
        /\ EspaciosDe' = [EspaciosDe EXCEPT ![p] = ConBytes(p, D, V)]
        /\ I[1] = "MOV_OUT" /\ D = reg[I[2]] /\ V = Bytes(reg[I[3]], obtener_tamanio_registro(I[3]))
    BY <1>2, <1>9, <1>10
  <2> HIDE DEF reg, D, V, I
  <2> QED
    BY <1>2, <1>10, <2>1, PasoEscribe
<1> QED
  BY <1>11

\* So is a COPY_STRING.
LEMMA IdealCopyString ==
  ASSUME Turnos, Prestado, Conexion, Escrituras, Rumbo, Vivos, Registran, BienEscritos, EnSuEspacio,
         EjecutarCopyString
  PROVE  \E p \in Pids : Ideal!Paso(p)
<1> DEFINE i == Instruccion
           n == i[2]
           dl == Avanzados["DI"]
           sl == Avanzados["SI"]
           a == Traducir("DI", n)
           b == Traducir("SI", n)
           x == [escritura |-> a, lectura |-> b, tamanio |-> n, pid |-> pcb_actual.pid]
           q == enviar_datos_copy_string(x)
           v == leer_memoria(MemoriaFutura, b)
<1>1. UsarMemoria("COPY_STRING", q) /\ Seguir("ciclo", NULL)
  BY DEF EjecutarCopyString
<1> HIDE DEF q
<1>2. /\ UNCHANGED <<programa, FinDe, EsperanDe, memoria>>
      /\ RegistrosDe' = [RegistrosDe EXCEPT ![ejecutando] = Avanzados]
      /\ aMemoria' = Mandar(aMemoria, "CPU", q) /\ cpu.pc = "fetch" /\ deMemoria["CPU"] # <<>>
      /\ i[1] = "COPY_STRING"
  BY <1>1, SoloAvanza
<1>3. /\ ejecutando \in Pids /\ ejecutando \notin terminados
      /\ Reg(ejecutando) = pcb_actual.registros /\ Ahora(ejecutando) = i
  BY <1>2, SuInstruccion
<1> PICK p \in Pids : p = ejecutando
  BY <1>3
<1>4. <<dl, n>> \in Accesos(Avanzados, Instruccion) /\ <<sl, n>> \in Accesos(Avanzados, Instruccion)
  BY <1>2 DEF Accesos
<1>5. /\ dl \in 0 .. EspacioDe(p) - 1 /\ n \in Nat /\ dl + n <= EspacioDe(p)
      /\ sl \in 0 .. EspacioDe(p) - 1 /\ sl + n <= EspacioDe(p) /\ pcb_actual.pid = p
  <2> HIDE DEF dl, sl, n
  <2> QED
    BY <1>2, <1>4, EnRango
<1>6. a = traducir_direccion(p, dl, n) /\ b = traducir_direccion(p, sl, n)
  BY <1>5 DEF Traducir
<1>7. v = SubSeq(Espacio(p), sl + 1, sl + n) /\ Len(v) = n
  <2> DEFINE f == MemoriaFutura
  <2> HIDE DEF f, sl, n, b
  <2>1. leer_memoria(f, b) = SubSeq(EspacioEn(f, p), sl + 1, sl + n)
    BY <1>5, <1>6, LeeEspacio
  <2>2. Len(leer_memoria(f, b)) = n
    <3> DEFINE w == [k \in 1 .. n |-> f[Fisica(p, sl + k - 1)]]
    <3>1. leer_memoria(f, b) = w
      BY <1>5, <1>6, LeeTramo
    <3> QED
      BY <1>5, <3>1, ListaDeNumeros
  <2> QED
    BY <2>1, <2>2, EspacioFuturo DEF f
<1>8. Aplicar(MemoriaFutura, q) = escribir_memoria(MemoriaFutura, a, v)
  <2> DEFINE f == MemoriaFutura
  <2>1. x.escritura = a /\ x.lectura = b
    OBVIOUS
  <2> HIDE DEF f, x, a, b
  <2>2. Aplicar(f, q) = escribir_memoria(f, a, leer_memoria(f, b))
    BY <2>1, AplicaCopyString DEF q
  <2> QED
    BY <2>2 DEF f
<1>9. EspaciosDe' = [EspaciosDe EXCEPT ![p] = ConBytes(p, dl, v)]
  <2>1. Aplicar(MemoriaFutura, q) = escribir_memoria(MemoriaFutura, traducir_direccion(p, dl, n), v)
    <3> HIDE DEF dl, n, a, v
    <3> QED
      BY <1>6, <1>8
  <2>2. /\ aMemoria' = Mandar(aMemoria, "CPU", q) /\ UNCHANGED memoria /\ Len(v) = n /\ n \in Nat
        /\ dl \in 0 .. EspacioDe(p) - 1 /\ dl + n <= EspacioDe(p)
    BY <1>2, <1>5, <1>7
  <2> HIDE DEF dl, n, a, b, x, v
  <2> QED
    BY <2>1, <2>2, EspacioEscribe
<1>10. /\ Ahora(p) = i /\ Avanzados = sumar_pc(Reg(p)) /\ p \notin terminados
       /\ RegistrosDe' = [RegistrosDe EXCEPT ![p] = Avanzados]
  BY <1>2, <1>3 DEF Avanzados
<1>11. Ideal!Paso(p)
  <2> DEFINE reg == Avanzados
             D == dl
             V == v
             I == i
  <2>1. /\ I = Ahora(p) /\ reg = sumar_pc(Reg(p)) /\ RegistrosDe' = [RegistrosDe EXCEPT ![p] = reg]
        /\ EspaciosDe' = [EspaciosDe EXCEPT ![p] = ConBytes(p, D, V)]
        /\ I[1] = "COPY_STRING" /\ D = reg["DI"] /\ V = SubSeq(Espacio(p), reg["SI"] + 1, reg["SI"] + I[2])
    BY <1>2, <1>7, <1>9, <1>10
  <2> HIDE DEF reg, D, V, I
  <2> QED
    BY <1>2, <1>10, <2>1, PasoEscribe
<1> QED
  BY <1>11

\* An instruction of I/O.
LEMMA IdealIO ==
  ASSUME Turnos, Prestado, Conexion, Rumbo, Vivos, Registran, Pendientes, BienEscritos, EjecutarIOCPU
  PROVE  \E p \in Pids : Ideal!Paso(p)
<1> DEFINE i == Instruccion
<1>1. /\ Ejecutar(InstruccionesIO) /\ UNCHANGED aMemoria
      /\ pcb_actual' = [pcb_actual EXCEPT !.registros = Avanzados, !.motivo_desalojo = "INTERRUPCION_BLOQUEO"]
      /\ cpu' = [pc |-> "llamar", instr |-> i]
      /\ entradas' = IF EsEntrada(i[1]) THEN [entradas EXCEPT ![pcb_actual.pid] = @ + 1] ELSE entradas
  BY DEF EjecutarIOCPU, Seguir
<1>2. /\ UNCHANGED <<programa, FinDe, ejecutando, pcb, dispatch, memoriaUsuario, copia>>
      /\ cpu.pc = "fetch" /\ deMemoria["CPU"] # <<>> /\ i[1] \in InstruccionesIO
  BY <1>1, NoEsDeOtros DEF memoria
<1>3. /\ ejecutando \in Pids /\ ejecutando \notin terminados /\ dispatch = <<>>
      /\ Reg(ejecutando) = pcb_actual.registros /\ Ahora(ejecutando) = i /\ pcb_actual.pid = ejecutando
  BY <1>2, SuInstruccion
<1> PICK p \in Pids : p = ejecutando
  BY <1>3
<1>4. UNCHANGED EspaciosDe
  BY <1>1, <1>2, NoSeMueve
<1> DEFINE x == Avanzados
<1>5. RegistrosDe' = [RegistrosDe EXCEPT ![p] = x]
  <2> HIDE DEF x
  <2>1. EnCPU' = x
    BY <1>1 DEF EnCPU, Prestado, CamposPCB, x
  <2> QED
    BY <1>2, <1>3, <2>1, TieneSusRegistros
<1>6. EsperanDe' = [EsperanDe EXCEPT ![p] = EsperanDe[p] \/ EsEntrada(i[1])]
  <2>1. DOMAIN entradas = Pids /\ entradas[p] \in Nat
    BY DEF Pendientes, Caben
  <2>2. CASE EsEntrada(i[1])
    <3>1. entradas' = [entradas EXCEPT ![p] = entradas[p] + 1]
      BY <1>1, <1>3, <2>2
    <3>2. \A r \in Pids : entradas'[r] = IF r = p THEN entradas[p] + 1 ELSE entradas[r]
      BY <2>1, <3>1
    <3>3. \A r \in Pids : (entradas'[r] > 0) = IF r = p THEN TRUE ELSE (entradas[r] > 0)
      <4> TAKE r \in Pids
      <4>1. CASE r = p
        <5>1. entradas'[r] > 0
          BY <2>1, <3>2, <4>1
        <5> QED
          BY <4>1, <5>1, Zenon
      <4>2. CASE r # p
        BY <3>2, <4>2
      <4> QED
        BY <4>1, <4>2
    <3>4. EsperanDe' = [r \in Pids |-> IF r = p THEN TRUE ELSE (entradas[r] > 0)]
      BY <3>3 DEF EsperanDe
    <3>5. [EsperanDe EXCEPT ![p] = TRUE] = [r \in Pids |-> IF r = p THEN TRUE ELSE (entradas[r] > 0)]
      BY Zenon DEF EsperanDe
    <3>6. EsperanDe[p] \/ EsEntrada(i[1]) <=> TRUE
      BY <2>2
    <3> QED
      BY <3>4, <3>5, <3>6
  <2>3. CASE ~EsEntrada(i[1])
    <3>1. UNCHANGED EsperanDe
      BY <1>1, <2>3 DEF EsperanDe
    <3>2. [EsperanDe EXCEPT ![p] = EsperanDe[p]] = EsperanDe
      BY DEF EsperanDe
    <3>4. EsperanDe[p] = (entradas[p] > 0)
      BY DEF EsperanDe
    <3>3. EsperanDe[p] = (EsperanDe[p] \/ EsEntrada(i[1]))
      <4>1. CASE EsperanDe[p] = TRUE
        BY <4>1, Zenon
      <4>2. CASE EsperanDe[p] = FALSE
        BY <2>3, <4>2, Zenon
      <4>3. EsperanDe[p] \in BOOLEAN
        <5>1. (entradas[p] > 0) \in BOOLEAN
          BY <2>1
        <5> QED
          BY <3>4, <5>1
      <4> QED
        BY <4>1, <4>2, <4>3
    <3> QED
      BY <3>1, <3>2, <3>3
  <2> QED
    BY <2>2, <2>3
<1>7. Ideal!Paso(p)
  <2> DEFINE I == i
  <2>1. /\ I = Ahora(p) /\ x = sumar_pc(Reg(p)) /\ I[1] \in InstruccionesIO /\ p \notin terminados
        /\ EsperanDe' = [EsperanDe EXCEPT ![p] = EsperanDe[p] \/ EsEntrada(I[1])]
    BY <1>2, <1>3, <1>6 DEF Avanzados
  <2> HIDE DEF I, x
  <2> QED
    BY <1>2, <1>4, <1>5, <2>1, PasoIO
<1> QED
  BY <1>7

-----------------------------------------------------------------------------
(* The steps the machine does not see                                       *)

\* No register changes.
LEMMA NadieSeMueve ==
  ASSUME UNCHANGED <<ejecutando, dispatch, pcb, cpu>>, deMemoria'["CPU"] = deMemoria["CPU"],
         pcb_actual'.registros = pcb_actual.registros
  PROVE  UNCHANGED RegistrosDe
<1>1. EnCPU' = EnCPU
  BY DEF EnCPU
<1> QED
  BY <1>1 DEF RegistrosDe, Reg

\* Nothing the machine has changes.
LEMMA NadaCambia ==
  ASSUME UNCHANGED <<programa, ejecutando, dispatch, pcb, cpu, terminados, entradas, memoriaUsuario, copia>>,
         deMemoria'["CPU"] = deMemoria["CPU"], pcb_actual'.registros = pcb_actual.registros,
         aMemoria'["CPU"] = aMemoria["CPU"]
  PROVE  UNCHANGED Ideal!vars
<1>1. UNCHANGED RegistrosDe
  BY NadieSeMueve
<1>2. UNCHANGED EspaciosDe
  BY NoSeMueve
<1>3. UNCHANGED <<EsperanDe, FinDe>>
  BY DEF EsperanDe, FinDe
<1> QED
  BY <1>1, <1>2, <1>3, PasoQuieto

\* An end of quantum, the work of an interface and its read, the answer to the kernel, the
\* dispatch, the fetch, EXIT and the return of the PCB are stutters.
LEMMA QuietoInterrumpir ==
  ASSUME Prestado, Interrumpir
  PROVE  UNCHANGED Ideal!vars
<1>1. pcb_actual'.registros = pcb_actual.registros
  BY DEF Interrumpir, Prestado, CamposPCB
<1> QED
  BY <1>1, NadaCambia DEF Interrumpir, kernel, memoria, canalesM

LEMMA QuietoInterfaz ==
  ASSUME Conexion, NEW i \in Interfaces, Interfaz(i)
  PROVE  UNCHANGED Ideal!vars
<1>1. aMemoria'["CPU"] = aMemoria["CPU"] /\ deMemoria'["CPU"] = deMemoria["CPU"]
  BY OtraConexion DEF Conexion
<1> QED
  BY <1>1, NoTocaInterfaz, NadaCambia DEF kernel, procesador, memoria, historia

LEMMA QuietoLeerStdout ==
  ASSUME Conexion, NEW i \in Interfaces, LeerStdout(i)
  PROVE  UNCHANGED Ideal!vars
<1>1. aMemoria'["CPU"] = aMemoria["CPU"] /\ deMemoria'["CPU"] = deMemoria["CPU"]
  BY OtraConexion DEF Conexion
<1>2. UNCHANGED <<programa, kernel, dispatch, procesador, memoria, entradas>>
  BY DEF LeerStdout, Atender
<1> QED
  BY <1>1, <1>2, NadaCambia DEF kernel, procesador, memoria

LEMMA QuietoDesbloquear ==
  ASSUME NEW i \in Interfaces, Desbloquear(i)
  PROVE  UNCHANGED Ideal!vars
BY NadaCambia DEF Desbloquear, procesador, canalesM, memoria, historia

LEMMA QuietoDespachar ==
  ASSUME Despachar
  PROVE  UNCHANGED Ideal!vars
<1>1. ejecutando = NULL /\ dispatch' = Append(dispatch, enviar_pcb(pcb[Head(listo)]))
      /\ UNCHANGED <<programa, pcb, terminados, procesador, canalesM, memoria, historia>>
  BY DEF Despachar
<1>2. UNCHANGED RegistrosDe
  <2>1. \A p \in Pids : Reg(p) = pcb[p].registros
    BY <1>1, ConstantesCiclo DEF Reg
  <2>2. dispatch' # <<>>
    <3> DEFINE x == enviar_pcb(pcb[Head(listo)])
    <3> HIDE DEF x
    <3> QED
      BY <1>1 DEF x
  <2>3. \A p \in Pids : Reg(p)' = pcb'[p].registros
    BY <2>2 DEF Reg
  <2> QED
    BY <1>1, <2>1, <2>3 DEF RegistrosDe
<1>3. UNCHANGED EspaciosDe
  BY <1>1, NoSeMueve DEF memoria, canalesM
<1>4. UNCHANGED <<EsperanDe, FinDe>>
  BY <1>1 DEF EsperanDe, FinDe, historia
<1> QED
  BY <1>1, <1>2, <1>3, <1>4, PasoQuieto

\* The process gets to the CPU with its registers.
LEMMA QuietoRecibirPCB ==
  ASSUME Turnos, Prestado, RecibirPCB
  PROVE  UNCHANGED Ideal!vars
<1>1. /\ dispatch # <<>> /\ pcb_actual' = deserializar_pcb(Head(dispatch).stream)
      /\ dispatch' = Tail(dispatch) /\ cpu' = [cpu EXCEPT !.pc = "ciclo"]
      /\ UNCHANGED <<programa, ejecutando, pcb, terminados, canalesM, memoria, historia>>
  BY DEF RecibirPCB, kernel
<1>2. ejecutando \in Pids /\ dispatch = <<enviar_pcb(pcb[ejecutando])>> /\ dispatch' = <<>>
  <2>1. ejecutando \in Pids /\ dispatch = <<enviar_pcb(pcb[ejecutando])>>
    BY <1>1 DEF Prestado
  <2> DEFINE x == enviar_pcb(pcb[ejecutando])
  <2> HIDE DEF x
  <2>2. Tail(<<x>>) = <<>>
    OBVIOUS
  <2> QED
    BY <1>1, <2>1, <2>2 DEF x
<1>3. pcb_actual'.registros = pcb[ejecutando].registros
  <2>1. Head(dispatch).stream = Serializar(PCB, pcb[ejecutando])
    BY <1>2 DEF enviar_pcb, Paquete
  <2>2. "registros" \in Range(PCB)
    BY CamposDelPCB DEF CamposPCB
  <2> QED
    BY <1>1, <2>1, <2>2, IdaYVuelta DEF deserializar_pcb
<1>4. EnCPU' = pcb[ejecutando].registros
  BY <1>1, <1>3 DEF EnCPU, Prestado
<1>5. UNCHANGED RegistrosDe
  <2>1. \A p \in Pids : Reg(p) = pcb[p].registros
    BY <1>1 DEF Reg
  <2>2. \A p \in Pids : Reg(p)' = pcb[p].registros
    BY <1>1, <1>2, <1>4 DEF Reg
  <2> QED
    BY <2>1, <2>2 DEF RegistrosDe
<1>6. UNCHANGED EspaciosDe
  BY <1>1, NoSeMueve DEF memoria, canalesM
<1>7. UNCHANGED <<EsperanDe, FinDe>>
  BY <1>1 DEF EsperanDe, FinDe, historia
<1> QED
  BY <1>1, <1>5, <1>6, <1>7, PasoQuieto

\* The CPU goes on with the same registers.
LEMMA NadaCambiaEnCPU ==
  ASSUME UNCHANGED <<programa, ejecutando, dispatch, pcb, terminados, entradas>>,
         EnCPU' = EnCPU, UNCHANGED EspaciosDe
  PROVE  UNCHANGED Ideal!vars
<1>1. UNCHANGED RegistrosDe
  BY DEF RegistrosDe, Reg
<1>2. UNCHANGED <<EsperanDe, FinDe>>
  BY DEF EsperanDe, FinDe
<1> QED
  BY <1>1, <1>2, PasoQuieto

LEMMA QuietoFetch ==
  ASSUME Prestado, Conexion, Escrituras, Fetch
  PROVE  UNCHANGED Ideal!vars
<1> DEFINE q == pedir_instruccion_memoria(pcb_actual.pid, pcb_actual.registros["PC"])
<1>1. /\ cpu.pc = "ciclo" /\ aMemoria' = Mandar(aMemoria, "CPU", q) /\ cpu' = [cpu EXCEPT !.pc = "fetch"]
      /\ UNCHANGED <<programa, ejecutando, pcb, dispatch, terminados, pcb_actual, memoria, entradas>>
  BY DEF Fetch, kernel, historia
<1>2. q.cop \notin SinRespuesta
  BY DEF pedir_instruccion_memoria, Paquete, SinRespuesta
<1>3. UNCHANGED EspaciosDe
  <2> HIDE DEF q
  <2> QED
    BY <1>1, <1>2, EspacioPide
<1>4. EnCPU = pcb_actual.registros /\ EnCPU' = pcb_actual'.registros
  BY <1>1 DEF EnCPU, Prestado
<1> QED
  BY <1>1, <1>3, <1>4, NadaCambiaEnCPU

\* A MOV_IN has not been executed until memory answers.
LEMMA QuietoMovIn ==
  ASSUME Turnos, Prestado, Conexion, Escrituras, Rumbo, Vivos, Registran, BienEscritos, EjecutarMovIn
  PROVE  UNCHANGED Ideal!vars
<1> DEFINE q == enviar_valor_mov_in_cpu(
                  Traducir(Instruccion[3], obtener_tamanio_registro(Instruccion[2])), pcb_actual.pid)
<1>1. /\ Ejecutar({"MOV_IN"}) /\ aMemoria' = Mandar(aMemoria, "CPU", q) /\ UNCHANGED entradas
      /\ pcb_actual' = [pcb_actual EXCEPT !.registros = Avanzados] /\ cpu' = [pc |-> "mov_in", instr |-> Instruccion]
  BY DEF EjecutarMovIn, UsarMemoria, Seguir
<1>2. q.cop \notin SinRespuesta
  BY DEF enviar_valor_mov_in_cpu, SinRespuesta
<1> HIDE DEF q
<1>3. /\ UNCHANGED <<programa, ejecutando, pcb, dispatch, memoria, terminados>>
      /\ cpu.pc = "fetch" /\ deMemoria["CPU"] # <<>> /\ deMemoria' = [deMemoria EXCEPT !["CPU"] = Tail(@)]
  BY <1>1 DEF Ejecutar, kernel
<1>4. deMemoria'["CPU"] = <<>>
  <2>1. Sirve(aMemoria["CPU"], deMemoria["CPU"], cpu.pc, pcb_actual.pid) /\ DOMAIN deMemoria = Clientes
    BY DEF Conexion
  <2>2. Tail(deMemoria["CPU"]) = <<>>
    BY <1>3, <2>1, NadieEspera
  <2> QED
    BY <1>3, <2>1, <2>2 DEF Clientes
<1>5. EnCPU' = [Avanzados EXCEPT !["PC"] = (@ - 1) % Modulo("PC")]
  <2> DEFINE x == Avanzados
  <2> HIDE DEF x
  <2>1. pcb_actual'.registros = x /\ cpu'.pc = "mov_in"
    BY <1>1 DEF Prestado, CamposPCB, x
  <2>2. EnCPU' = [x EXCEPT !["PC"] = (@ - 1) % Modulo("PC")]
    BY <1>4, <2>1 DEF EnCPU
  <2> QED
    BY <2>2 DEF x
<1>6. EnCPU' = EnCPU
  BY <1>3, <1>5, SuInstruccion
<1>7. UNCHANGED EspaciosDe
  BY <1>1, <1>2, <1>3, EspacioPide
<1> QED
  BY <1>1, <1>3, <1>6, <1>7, NadaCambiaEnCPU

LEMMA QuietoExit ==
  ASSUME Prestado, EjecutarExit
  PROVE  UNCHANGED Ideal!vars
<1>1. /\ cpu.pc = "fetch" /\ cpu' = [pc |-> "devolver", instr |-> NULL] /\ UNCHANGED <<aMemoria, entradas>>
      /\ pcb_actual' = [pcb_actual EXCEPT !.motivo_desalojo = "FINALIZACION"]
      /\ UNCHANGED <<programa, ejecutando, pcb, dispatch, memoria, terminados>>
  BY DEF EjecutarExit, Ejecutar, Seguir, kernel
<1>2. EnCPU = pcb_actual.registros /\ EnCPU' = pcb_actual'.registros
  BY <1>1 DEF EnCPU
<1>3. pcb_actual'.registros = pcb_actual.registros
  BY <1>1 DEF Prestado, CamposPCB
<1>4. UNCHANGED EspaciosDe
  BY <1>1, NoSeMueve DEF memoria
<1> QED
  BY <1>1, <1>2, <1>3, <1>4, NadaCambiaEnCPU

LEMMA QuietoDevuelve ==
  ASSUME Llamar \/ Devolver
  PROVE  UNCHANGED Ideal!vars
<1>1. /\ cpu.pc # "mov_in" /\ cpu' = [pc |-> "recv", instr |-> NULL]
      /\ UNCHANGED <<programa, ejecutando, pcb, dispatch, canalesM, memoria, terminados, pcb_actual, entradas>>
  BY DEF Llamar, Devolver, Seguir, kernel, historia
<1>2. EnCPU = pcb_actual.registros /\ EnCPU' = pcb_actual'.registros
  BY <1>1 DEF EnCPU
<1>4. UNCHANGED EspaciosDe
  BY <1>1, NoSeMueve DEF memoria, canalesM
<1> QED
  BY <1>1, <1>2, <1>4, NadaCambiaEnCPU

\* The register of a MOV_IN, which had its value since memory answered.
LEMMA QuietoRecibirMovIn ==
  ASSUME Prestado, Conexion, RecibirMovIn
  PROVE  UNCHANGED Ideal!vars
<1> DEFINE v == Valor(deserializar_dato_movIN(Head(deMemoria["CPU"]).stream))
<1>1. /\ cpu.pc = "mov_in" /\ deMemoria["CPU"] # <<>> /\ cpu' = [pc |-> "ciclo", instr |-> NULL]
      /\ pcb_actual' = [pcb_actual EXCEPT !.registros[cpu.instr[2]] = v]
      /\ UNCHANGED <<programa, ejecutando, pcb, dispatch, aMemoria, memoria, terminados, entradas>>
  BY DEF RecibirMovIn, Seguir, kernel, historia
<1>2. EnCPU = [pcb_actual.registros EXCEPT ![cpu.instr[2]] = v]
  BY <1>1 DEF EnCPU
<1> HIDE DEF v
<1>3. pcb_actual'.registros = [pcb_actual.registros EXCEPT ![cpu.instr[2]] = v]
  BY <1>1 DEF Prestado, CamposPCB
<1>4. EnCPU' = pcb_actual'.registros
  BY <1>1 DEF EnCPU
<1>5. UNCHANGED EspaciosDe
  BY <1>1, NoSeMueve DEF memoria
<1> QED
  BY <1>1, <1>2, <1>3, <1>4, <1>5, NadaCambiaEnCPU

-----------------------------------------------------------------------------
(* The process that comes back                                              *)

\* The packet of the return carries the registers of the CPU.
LEMMA VuelveConSusRegistros ==
  ASSUME Turnos, Prestado, respuesta # <<>>
  PROVE  Vuelto.pcb.registros = pcb_actual.registros
<1>1. CASE pcb_actual.motivo_desalojo = "INTERRUPCION_BLOQUEO"
  <2>1. Recibido(Vuelto, pcb_actual, pedido[ejecutando])
    BY <1>1, Vuelve
  <2> QED
    BY <2>1 DEF Recibido, CamposPCB
<1>2. CASE pcb_actual.motivo_desalojo # "INTERRUPCION_BLOQUEO"
  <2> DEFINE k == enviar_pcb(pcb_actual)
  <2>1. respuesta = <<k>>
    BY <1>2 DEF Prestado
  <2>2. k.cop = "PCB" /\ deserializar_pcb(k.stream) = [c \in CamposPCB |-> pcb_actual[c]]
    BY CamposDelPCB, IdaYVuelta DEF enviar_pcb, deserializar_pcb, Paquete
  <2> HIDE DEF k
  <2>3. Vuelto = [pcb |-> deserializar_pcb(k.stream), g |-> g]
    BY <2>1, <2>2 DEF Vuelto, recibir_pcb_CPU
  <2> QED
    BY <2>2, <2>3 DEF CamposPCB
<1> QED
  BY <1>1, <1>2

\* The kernel stores them in the PCB: the machine does not notice.
LEMMA VolverIgual ==
  ASSUME Turnos, Prestado, NEW motivo, Volver(motivo)
  PROVE  /\ UNCHANGED <<programa, RegistrosDe, EspaciosDe>>
         /\ ejecutando \in Pids /\ respuesta # <<>> /\ pcb_actual.motivo_desalojo = motivo
         /\ pcb_actual.pid = ejecutando /\ Reg(ejecutando) = pcb_actual.registros
<1>1. /\ respuesta # <<>> /\ Vuelto.pcb.motivo_desalojo = motivo /\ ejecutando' = NULL
      /\ pcb' = [pcb EXCEPT ![ejecutando] = Vuelto.pcb]
      /\ UNCHANGED <<programa, dispatch, cpu, pcb_actual, canalesM, memoria>>
  BY DEF Volver, procesador
<1> HIDE DEF Vuelto
<1>2. ejecutando \in Pids /\ pcb_actual.motivo_desalojo = motivo /\ Vuelto.pcb.registros = pcb_actual.registros
  BY <1>1, Vuelve, VuelveConSusRegistros
<1>3. pcb_actual.pid = ejecutando /\ dispatch = <<>> /\ cpu.pc = "recv"
  BY <1>1 DEF Prestado
<1>4. Reg(ejecutando) = pcb_actual.registros
  BY <1>3 DEF Reg, EnCPU
<1>5. \A p \in Pids : Reg(p)' = pcb'[p].registros
  BY <1>1, ConstantesCiclo DEF Reg
<1>6. \A p \in Pids : p # ejecutando => Reg(p)' = Reg(p)
  BY <1>1, <1>5 DEF Reg
<1>8. UNCHANGED RegistrosDe
  <2>1. \A p \in Pids : Reg(p)' = Reg(p)
    <3> TAKE p \in Pids
    <3>1. CASE p = ejecutando
      <4>1. Reg(p) = pcb_actual.registros
        BY <1>4, <3>1
      <4>2. Reg(p)' = pcb'[p].registros /\ pcb'[p] = Vuelto.pcb
        BY <1>1, <1>5, <3>1 DEF Turnos
      <4> QED
        BY <1>2, <4>1, <4>2
    <3> QED
      BY <1>6, <3>1
  <2> QED
    BY <2>1 DEF RegistrosDe
<1>9. UNCHANGED EspaciosDe
  BY <1>1, NoSeMueve DEF memoria, canalesM
<1> QED
  BY <1>1, <1>2, <1>3, <1>4, <1>8, <1>9

\* Nor when the process goes back to the ready queue, or waits for an interface.
LEMMA QuietoFinDeQuantum ==
  ASSUME Turnos, Prestado, FinDeQuantum
  PROVE  UNCHANGED Ideal!vars
<1>1. Volver("INTERRUPCION_FIN_QUANTUM") /\ UNCHANGED terminados
      /\ Bajar(ejecutando, Head(respuesta).cop # "PCB" /\ EsEntrada(Vuelto.g.instruccion))
  BY DEF FinDeQuantum
<1>2. UNCHANGED <<programa, RegistrosDe, EspaciosDe>> /\ respuesta # <<>>
      /\ pcb_actual.motivo_desalojo = "INTERRUPCION_FIN_QUANTUM"
  BY <1>1, VolverIgual
<1>3. Head(respuesta).cop = "PCB"
  BY <1>2, Vuelve
<1>4. UNCHANGED entradas
  BY <1>1, <1>3 DEF Bajar
<1>5. UNCHANGED <<EsperanDe, FinDe>>
  BY <1>1, <1>4 DEF EsperanDe, FinDe
<1> QED
  BY <1>2, <1>5, PasoQuieto

LEMMA QuietoEjecutarIO ==
  ASSUME Turnos, Prestado, EjecutarIO
  PROVE  UNCHANGED Ideal!vars
<1>1. Volver("INTERRUPCION_BLOQUEO") /\ UNCHANGED <<terminados, entradas>>
  BY DEF EjecutarIO
<1>2. UNCHANGED <<programa, RegistrosDe, EspaciosDe>>
  BY <1>1, VolverIgual
<1>5. UNCHANGED <<EsperanDe, FinDe>>
  BY <1>1 DEF EsperanDe, FinDe
<1> QED
  BY <1>2, <1>5, PasoQuieto

\* EXIT, at the process's next instruction.
LEMMA IdealFinalizar ==
  ASSUME Turnos, Prestado, Rumbo, Vivos, Finalizar
  PROVE  \E p \in Pids : Ideal!Salir(p)
<1>1. Volver("FINALIZACION") /\ terminados' = terminados \cup {ejecutando} /\ UNCHANGED entradas
  BY DEF Finalizar
<1>2. /\ UNCHANGED <<programa, RegistrosDe, EspaciosDe>> /\ respuesta # <<>> /\ ejecutando \in Pids
      /\ pcb_actual.motivo_desalojo = "FINALIZACION"
      /\ pcb_actual.pid = ejecutando /\ Reg(ejecutando) = pcb_actual.registros
  BY <1>1, VolverIgual
<1>3. Suyo[PC + 1][1] = "EXIT"
  BY <1>2 DEF Rumbo, EnExit
<1>4. Ahora(ejecutando)[1] = "EXIT" /\ ejecutando \notin terminados
  BY <1>2, <1>3 DEF Ahora, Suyo, PC, Vivos
<1> PICK p \in Pids : p = ejecutando
  BY <1>2
<1>5. Ideal!Salir(p)
  BY <1>1, <1>2, <1>4, PasoSalir
<1> QED
  BY <1>5

\* A request that is refused, at the instruction before the next one.
LEMMA IdealRechazarIO ==
  ASSUME Turnos, Prestado, Conexion, PidenLoQueHay, BienEscritos, Rumbo, Vivos, RechazarIO
  PROVE  \E p \in Pids : Ideal!Salir(p)
<1>1. /\ Volver("INTERRUPCION_BLOQUEO") /\ terminados' = terminados \cup {ejecutando}
      /\ Bajar(ejecutando, EsEntrada(Vuelto.g.instruccion))
      /\ Vuelto.g.nombre_interfaz \in Interfaces =>
           Vuelto.g.instruccion \notin Sabe(TipoDe[Vuelto.g.nombre_interfaz])
  BY DEF RechazarIO
<1>2. /\ UNCHANGED <<programa, RegistrosDe, EspaciosDe>> /\ respuesta # <<>> /\ ejecutando \in Pids
      /\ pcb_actual.motivo_desalojo = "INTERRUPCION_BLOQUEO"
      /\ pcb_actual.pid = ejecutando /\ Reg(ejecutando) = pcb_actual.registros
  BY <1>1, VolverIgual
<1> HIDE DEF Vuelto
<1>3. UNCHANGED entradas
  <2> DEFINE q == pedido[ejecutando]
  <2>1. Bueno(ejecutando, q) /\ Vuelto.g.instruccion = q.instruccion
        /\ Vuelto.g.nombre_interfaz = q.nombre_interfaz
    BY <1>1, VolverEnSuLugar
  <2> HIDE DEF q
  <2>2. EsEntrada(q.instruccion) => Atendible(q)
    BY <2>1 DEF Bueno, EsEntrada, ConDirecciones
  <2>3. ~EsEntrada(Vuelto.g.instruccion)
    BY <1>1, <2>1, <2>2 DEF Atendible
  <2> QED
    BY <1>1, <2>3 DEF Bajar
<1>4. PC \in DOMAIN Suyo /\ Suyo[PC][1] \in InstruccionesIO
  BY <1>2 DEF Rumbo, EnLlamada
<1>5. PC > 0
  <2>1. DOMAIN Suyo \subseteq 1 .. Modulo("PC") - 1
    BY <1>2 DEF BienEscritos, Suyo, Conexion
  <2> QED
    BY <1>4, <2>1, Anchos
<1>6. Reg(ejecutando)["PC"] > 0 /\ programa[ejecutando][Reg(ejecutando)["PC"]][1] \in InstruccionesIO
      /\ ejecutando \notin terminados
  BY <1>2, <1>4, <1>5 DEF Suyo, PC, Vivos
<1> PICK p \in Pids : p = ejecutando
  BY <1>2
<1>7. Ideal!Salir(p)
  BY <1>1, <1>2, <1>3, <1>6, PasoSalir
<1> QED
  BY <1>7

-----------------------------------------------------------------------------
(* Memory                                                                   *)

\* On the CPU's connection, but for the answer to a MOV_IN.
LEMMA QuietoMemoria ==
  ASSUME Conexion, Escrituras, EnviosDeUno, AtenderInstruccion \/ AtenderMovOut \/ CopyLeer \/ CopyEscribir
  PROVE  UNCHANGED Ideal!vars
<1>1. UNCHANGED EspaciosDe
  BY EspacioDeMemoria DEF MemoriaCPU
<1>2. UNCHANGED <<programa, ejecutando, dispatch, pcb, terminados, cpu, pcb_actual>>
  BY NoTocaMemoria DEF MemoriaCPU, kernel, procesador
<1>3. UNCHANGED entradas
  BY DEF AtenderInstruccion, AtenderMovOut, CopyLeer, CopyEscribir, historia
<1>4. EnCPU' = EnCPU
  <2>1. CASE AtenderInstruccion
    <3> DEFINE a == aMemoria["CPU"]
    <3>1. a # <<>> /\ Head(a).cop = "PEDIDO_INSTRUCCION"
      BY <2>1 DEF AtenderInstruccion, Atender, Pedido
    <3>2. Sirve(a, deMemoria["CPU"], cpu.pc, pcb_actual.pid)
      BY DEF Conexion
    <3> HIDE DEF a
    <3>3. Head(a) = a[1] /\ 1 \in DOMAIN a
      BY <3>1, <3>2, Desencola
    <3>4. cpu.pc = "fetch"
      BY <3>1, <3>2, <3>3 DEF Sirve
    <3> QED
      BY <1>2, <3>4 DEF EnCPU
  <2>2. CASE AtenderMovOut \/ CopyLeer \/ CopyEscribir
    <3>1. UNCHANGED deMemoria
      BY <2>2 DEF AtenderMovOut, CopyLeer, CopyEscribir, canalesM
    <3> QED
      BY <1>2, <3>1 DEF EnCPU
  <2> QED
    BY <2>1, <2>2
<1> QED
  BY <1>1, <1>2, <1>3, <1>4, NadaCambiaEnCPU

\* The reader of the answer to a MOV_IN counts the fragments to get to the value.
LEMMA LeeDatoMovIn ==
  ASSUME NEW f, NEW n \in Nat, f = [k \in 1 .. n |-> f[k]], NEW v
  PROVE  deserializar_dato_movIN(enviar_dato_movIn(f, v).stream) = v
<1> DEFINE S == {f[k] : k \in 1 .. n} \cup {n, v}
<1>1. f \in Seq(S) /\ Len(f) = n /\ <<n>> \in Seq(S) /\ <<v>> \in Seq(S)
  <2>1. \A k \in 1 .. n : f[k] \in S
    OBVIOUS
  <2>2. n \in S /\ v \in S
    OBVIOUS
  <2> HIDE DEF S
  <2>3. f \in Seq(S) /\ Len(f) = n
    BY <2>1, ListaDeNumeros
  <2> QED
    BY <2>2, <2>3
<1> DEFINE s == (<<n>> \o f) \o <<v>>
<1>2. enviar_dato_movIn(f, v).stream = s
  BY <1>1 DEF enviar_dato_movIn, Paquete
<1> HIDE DEF S
<1>3. s[1] = n /\ s[n + 2] = v
  <2> DEFINE a == <<n>> \o f
  <2>1. a \in Seq(S) /\ Len(a) = n + 1 /\ a[1] = n
    BY <1>1
  <2> HIDE DEF a
  <2>2. (a \o <<v>>)[1] = a[1] /\ (a \o <<v>>)[n + 2] = v
    BY <1>1, <2>1
  <2> QED
    BY <2>1, <2>2 DEF a
<1> HIDE DEF s
<1> QED
  BY <1>2, <1>3 DEF deserializar_dato_movIN

\* Memory answers a MOV_IN: the instruction is executed.
LEMMA IdealMovIn ==
  ASSUME Turnos, Prestado, Conexion, Escrituras, EnviosDeUno, BienEscritos, Rumbo, Vivos, Registran,
         AtenderMovIn
  PROVE  \E p \in Pids : Ideal!Paso(p)
<1> DEFINE a == aMemoria["CPU"]
           lista == deserializar_datos_mov_in(Pedido("CPU")).direcciones
           i == cpu.instr
           reg == pcb_actual.registros
           dl == reg[i[3]]
           w == obtener_tamanio_registro(i[2])
           b == leer_memoria(memoriaUsuario, lista)
<1>1. /\ a # <<>> /\ Pedido("CPU").cop = "PEDIDO_MOV_IN" /\ copia = SinCopia
      /\ deMemoria' = Mandar(deMemoria, "CPU",
           enviar_dato_movIn([k \in DOMAIN lista |-> leer_memoria(memoriaUsuario, <<lista[k]>>)], b))
      /\ UNCHANGED <<programa, ejecutando, dispatch, pcb, terminados, cpu, pcb_actual, entradas>>
  BY DEF AtenderMovIn, Atender, kernel, procesador
<1>2. UNCHANGED EspaciosDe
  BY EspacioDeMemoria DEF MemoriaCPU
<1>3. cpu.pc = "mov_in" /\ deMemoria["CPU"] = <<>> /\ Tail(a) = <<>> /\ Head(a) = a[1] /\ 1 \in DOMAIN a
      /\ Pedido("CPU") = a[1]
  <2>1. Sirve(a, deMemoria["CPU"], cpu.pc, pcb_actual.pid)
    BY DEF Conexion
  <2>2. Head(a).cop = "PEDIDO_MOV_IN" /\ Pedido("CPU") = Head(a)
    BY <1>1 DEF Pedido
  <2> HIDE DEF a
  <2>3. Head(a) = a[1] /\ 1 \in DOMAIN a /\ Tail(a) = <<>> /\ deMemoria["CPU"] = <<>>
    BY <1>1, <2>1, <2>2, Desencola DEF SinRespuesta
  <2> QED
    BY <2>1, <2>2, <2>3 DEF Sirve
<1>4. ejecutando \in Pids /\ ejecutando \notin terminados /\ pcb_actual.pid = ejecutando /\ dispatch = <<>>
  BY <1>3, QuienEscribe DEF Prestado, Vivos
<1>5. PC \in DOMAIN Suyo /\ i = Suyo[PC] /\ i[1] = "MOV_IN" /\ Lee(i, lista)
  <2>1. Lee(i, deserializar_datos_mov_in(a[1]).direcciones)
    BY <1>1, <1>3 DEF Rumbo, EnMovIn
  <2>2. PC \in DOMAIN Suyo /\ i = Suyo[PC] /\ i[1] = "MOV_IN"
    BY <1>3 DEF Rumbo, EnMovIn
  <2> QED
    BY <1>3, <2>1, <2>2
<1>6. dl \in 0 .. EspacioDe(ejecutando) - 1 /\ dl + w <= EspacioDe(ejecutando)
      /\ lista = traducir_direccion(ejecutando, dl, w) /\ w \in Nat
  BY <1>4, <1>5, Anchos DEF Lee
<1>7. PC \in 1 .. Modulo("PC") - 1 /\ reg \in Numerados
  <2>1. DOMAIN Suyo \subseteq 1 .. Modulo("PC") - 1
    BY <1>4 DEF BienEscritos, Suyo, Conexion
  <2> QED
    BY <1>5, <2>1 DEF Registran
<1> PICK p \in Pids : p = ejecutando
  BY <1>4
\* Before, the PC is one less.
<1>8. Reg(p)["PC"] = PC - 1 /\ sumar_pc(Reg(p)) = reg
  <2> DEFINE x == reg
             ant == [x EXCEPT !["PC"] = (@ - 1) % Modulo("PC")]
  <2>1. EnCPU = ant
    BY <1>3 DEF EnCPU
  <2>2. x["PC"] = PC
    BY DEF PC
  <2> HIDE DEF x
  <2>3. ant["PC"] = x["PC"] - 1 /\ sumar_pc(ant) = x
    BY <1>7, <2>2, BajaElPC DEF x
  <2> QED
    BY <1>4, <2>1, <2>2, <2>3 DEF Reg, x
<1>9. Ahora(p) = i
  <2>1. (PC - 1) + 1 = PC
    BY <1>7, Anchos
  <2> QED
    BY <1>4, <1>5, <1>8, <2>1 DEF Ahora, Suyo
\* What was read is what is there.
<1>10. b = SubSeq(Espacio(p), dl + 1, dl + w)
  <2> DEFINE f == MemoriaFutura
             q == a[1]
  <2>1. f = Base
    <3>1. EsSeq(a)
      BY DEF Conexion, Sirve
    <3>2. Tras(Base, a) = Tras(Aplicar(Base, Head(a)), Tail(a))
      BY <1>1, <3>1, TrasMenos
    <3>3. Aplicar(Base, Head(a)) = Base
      BY <1>1 DEF Aplicar, Pedido
    <3>4. Tras(Base, a) = Base
      BY <1>3, <3>2, <3>3, TrasNada
    <3> QED
      BY <3>4, FuturaTras
  <2>2. Iguales(memoriaUsuario, f, p)
    BY <1>1, <2>1, EnElPresente
  <2> HIDE DEF f
  <2>3. De(p, lista)
    <3> HIDE DEF dl, w, lista
    <3> QED
      BY <1>6, Traducido DEF EspacioDe
  <2>4. \A z \in Propias(p) : f[z] = memoriaUsuario[z]
    BY <2>2 DEF Iguales
  <2>5. b = leer_memoria(f, lista)
    <3> HIDE DEF lista
    <3> QED
      BY <2>3, <2>4, LeenLoMismo
  <2>6. leer_memoria(f, lista) = SubSeq(EspacioEn(f, p), dl + 1, dl + w)
    <3> HIDE DEF lista, dl, w
    <3> QED
      BY <1>6, LeeEspacio
  <2> QED
    BY <2>5, <2>6, EspacioFuturo DEF f
\* It is what the CPU will take.
<1>11. EnCPU' = [reg EXCEPT ![i[2]] = Valor(b)]
  <2> DEFINE n == Len(lista)
             y == [k \in DOMAIN lista |-> leer_memoria(memoriaUsuario, <<lista[k]>>)]
             r == enviar_dato_movIn(y, b)
  <2>1. DOMAIN lista = 1 .. n /\ n \in Nat
    <3>1. De(p, lista)
      <4> HIDE DEF dl, w, lista
      <4> QED
        BY <1>6, Traducido DEF EspacioDe
    <3> HIDE DEF lista
    <3> QED
      BY <3>1 DEF De
  <2>2. y = [k \in 1 .. n |-> y[k]]
    <3> HIDE DEF lista, n
    <3> QED
      BY <2>1
  <2> HIDE DEF y, n, b
  <2>3. deserializar_dato_movIN(r.stream) = b
    BY <2>1, <2>2, LeeDatoMovIn
  <2> HIDE DEF r
  <2>4. deMemoria'["CPU"] = <<r>>
    BY <1>1, <1>3 DEF Mandar, Conexion, Clientes, r, y
  <2>5. deMemoria'["CPU"] # <<>> /\ Head(deMemoria'["CPU"]) = r
    BY <2>4
  <2> QED
    BY <1>1, <1>3, <2>3, <2>5 DEF EnCPU
<1>12. UNCHANGED <<FinDe, EsperanDe>>
  BY <1>1 DEF FinDe, EsperanDe
<1>13. RegistrosDe' = [RegistrosDe EXCEPT ![p] = [reg EXCEPT ![i[2]] = Valor(b)]]
  <2> DEFINE x == [reg EXCEPT ![i[2]] = Valor(b)]
  <2> HIDE DEF x
  <2>1. EnCPU' = x
    BY <1>11 DEF x
  <2>2. RegistrosDe' = [RegistrosDe EXCEPT ![ejecutando] = x]
    BY <1>1, <1>4, <2>1, TieneSusRegistros
  <2> QED
    BY <2>2 DEF x
<1> DEFINE B == b
           I == i
           R == reg
<1>14. /\ I = Ahora(p) /\ I[1] = "MOV_IN" /\ R = sumar_pc(Reg(p)) /\ p \notin terminados
       /\ B = SubSeq(Espacio(p), R[I[3]] + 1, R[I[3]] + obtener_tamanio_registro(I[2]))
       /\ RegistrosDe' = [RegistrosDe EXCEPT ![p] = [R EXCEPT ![I[2]] = Valor(B)]]
       /\ UNCHANGED <<programa, FinDe, EspaciosDe, EsperanDe>>
  BY <1>1, <1>2, <1>4, <1>5, <1>8, <1>9, <1>10, <1>12, <1>13
<1> HIDE DEF B, I, R
<1>15. Ideal!Paso(p)
  BY <1>14, PasoMovIn
<1> QED
  BY <1>15

\* A process with an input on its way.
LEMMA ConFicha ==
  ASSUME Pendientes, NEW p \in Pids, NEW t \in Fichas(p)
  PROVE  entradas[p] > 0
<1> DEFINE n == entradas[p]
           S == Fichas(p)
<1>1. n \in Nat /\ \E f \in [S -> 1 .. n] : \A x, y \in S : f[x] = f[y] => x = y
  BY DEF Pendientes, Caben
<1> HIDE DEF n, S
<1>2. PICK f \in [S -> 1 .. n] : TRUE
  BY <1>1
<1>3. f[t] \in 1 .. n
  BY <1>2 DEF S
<1> QED
  BY <1>1, <1>3 DEF n

\* Memory writes an input: the process it is for had one pending.
LEMMA IdealEntrada ==
  ASSUME Conexion, Escrituras, Lecturas, Numeros, Pendientes, NEW i \in Interfaces, EscribirStdin(i)
  PROVE  \E p \in Pids : Ideal!Entrada(p)
<1> DEFINE e == Escrito(Pedido(i)).pid
<1>1. /\ Atender(i, "PEDIDO_ESCRIBIR_DATO_STDIN") /\ UNCHANGED deMemoria
      /\ aMemoria[i] # <<>> /\ EsEscritura(Pedido(i)) /\ Bajar(e, TRUE)
  BY DEF EscribirStdin, Atender, Escrito, EsEscritura
<1>2. UNCHANGED <<programa, ejecutando, dispatch, pcb, terminados, cpu, pcb_actual>>
  BY <1>1 DEF Atender, kernel, procesador
<1> PICK p : p = e
  OBVIOUS
<1>3. p \in Pids /\ (\A q \in Pids \ {p} : Espacio(q)' = Espacio(q)) /\ DOMAIN Espacio(p)' = DOMAIN Espacio(p)
  BY EspacioEntrada DEF Numeros
<1>4. entradas[e] > 0
  <2>1. EsSeq(aMemoria[i])
    BY DEF Lecturas, Consulta
  <2>2. Pedido(i) = aMemoria[i][1] /\ 1 \in DOMAIN aMemoria[i]
    BY <1>1, <2>1, SinLaCabeza DEF Pedido
  <2>3. <<i, 1>> \in Fichas(e)
    BY <1>1, <2>2 DEF Fichas
  <2> HIDE DEF e
  <2> QED
    BY <1>3, <2>3, ConFicha
<1> HIDE DEF e
<1>5. UNCHANGED <<RegistrosDe, FinDe>>
  <2>1. UNCHANGED RegistrosDe
    BY <1>1, <1>2, NadieSeMueve
  <2> QED
    BY <1>2, <2>1 DEF FinDe
<1>6. \A q \in Pids \ {p} : entradas'[q] = entradas[q]
  BY <1>1 DEF Bajar, Pendientes
<1>7. entradas[p] > 0
  BY <1>4
<1>8. Ideal!Entrada(p)
  BY <1>2, <1>3, <1>5, <1>6, <1>7, PasoEntrada
<1> QED
  BY <1>3, <1>8

\* Each step is one of a process's machine, or none.
LEMMA IdealPaso ==
  ASSUME PidenLoQueHay, BienEscritos, InvMaquina, EnSuEspacio, Next
  PROVE  Ideal!Next \/ UNCHANGED Ideal!vars
<1>1. /\ Turnos /\ Prestado /\ Conexion /\ Pedidos /\ Escrituras /\ Lecturas
      /\ Rumbo /\ Vivos /\ Registran /\ EnviosDeUno /\ Numeros /\ Pendientes
  BY DEF InvMaquina, InvSalida, InvCiclo, Numeros
<1>2. ASSUME \E p \in Pids : Ideal!Paso(p) \/ Ideal!Entrada(p) \/ Ideal!Salir(p) PROVE Ideal!Next
  BY <1>2 DEF Ideal!Next
<1>3. CASE CPU
  <2>1. CASE RecibirPCB
    BY <1>1, <2>1, QuietoRecibirPCB
  <2>2. CASE Fetch
    BY <1>1, <2>2, QuietoFetch
  <2>3. CASE EjecutarAritmetica
    BY <1>1, <1>2, <2>3, IdealAritmetica
  <2>4. CASE EjecutarMovIn
    BY <1>1, <2>4, QuietoMovIn
  <2>5. CASE EjecutarMovOut
    BY <1>1, <1>2, <2>5, IdealMovOut
  <2>6. CASE EjecutarCopyString
    BY <1>1, <1>2, <2>6, IdealCopyString
  <2>7. CASE EjecutarIOCPU
    BY <1>1, <1>2, <2>7, IdealIO
  <2>8. CASE Llamar \/ Devolver
    BY <2>8, QuietoDevuelve
  <2>9. CASE EjecutarExit
    BY <1>1, <2>9, QuietoExit
  <2>10. CASE RecibirMovIn
    BY <1>1, <2>10, QuietoRecibirMovIn
  <2> QED
    BY <1>3, <2>1, <2>2, <2>3, <2>4, <2>5, <2>6, <2>7, <2>8, <2>9, <2>10 DEF CPU
<1>4. CASE Kernel
  <2>1. CASE Despachar
    BY <2>1, QuietoDespachar
  <2>2. CASE FinDeQuantum
    BY <1>1, <2>2, QuietoFinDeQuantum
  <2>3. CASE Finalizar
    BY <1>1, <1>2, <2>3, IdealFinalizar
  <2>4. CASE EjecutarIO
    BY <1>1, <2>4, QuietoEjecutarIO
  <2>5. CASE RechazarIO
    BY <1>1, <1>2, <2>5, IdealRechazarIO
  <2> QED
    BY <1>4, <2>1, <2>2, <2>3, <2>4, <2>5 DEF Kernel
<1>5. CASE MemoriaCPU
  <2>1. CASE AtenderMovIn
    BY <1>1, <1>2, <2>1, IdealMovIn
  <2>2. CASE AtenderInstruccion \/ AtenderMovOut \/ CopyLeer \/ CopyEscribir
    BY <1>1, <2>2, QuietoMemoria
  <2> QED
    BY <1>5, <2>1, <2>2 DEF MemoriaCPU
<1>6. CASE Interrumpir
  BY <1>1, <1>6, QuietoInterrumpir
<1>7. ASSUME NEW i \in Interfaces, Interfaz(i) \/ Desbloquear(i) \/ EscribirStdin(i) \/ LeerStdout(i)
      PROVE  Ideal!Next \/ UNCHANGED Ideal!vars
  <2>1. CASE Interfaz(i)
    BY <1>1, <2>1, QuietoInterfaz
  <2>2. CASE Desbloquear(i)
    BY <2>2, QuietoDesbloquear
  <2>3. CASE EscribirStdin(i)
    BY <1>1, <1>2, <2>3, IdealEntrada
  <2>4. CASE LeerStdout(i)
    BY <1>1, <2>4, QuietoLeerStdout
  <2> QED
    BY <1>7, <2>1, <2>2, <2>3, <2>4
<1> QED
  BY <1>3, <1>4, <1>5, <1>6, <1>7, Quienes

\* The system begins as the machine does.
LEMMA IdealInicial ==
  ASSUME Init, InvSalida
  PROVE  Ideal!Init
<1>1. RegistrosDe = [p \in Pids |-> RegistrosNulos]
  <2>1. \A p \in Pids : Reg(p) = RegistrosNulos
    BY ConstantesCiclo DEF Init, Reg, PCBNuevo
  <2> QED
    BY <2>1 DEF RegistrosDe
<1>2. ASSUME NEW p \in Pids, NEW d \in DOMAIN Espacio(p) PROVE Espacio(p)[d] = 0
  <2> DEFINE f == MemoriaFutura
             x == memoriaUsuario
  <2>1. Propias(p) \subseteq DOMAIN x
    BY DEF InvSalida, Escrituras
  <2>2. f = Base /\ Base = escribir_memoria(x, <<>>, <<>>)
    <3>1. aMemoria["CPU"] = <<>> /\ copia = SinCopia
      BY DEF Init, Clientes
    <3> QED
      BY <3>1, FuturaTras, TrasNada, SinCopiaBase
  <2> HIDE DEF f, x
  <2>3. Iguales(x, f, p)
    BY <2>1, <2>2, EscribeNada
  <2>4. Espacio(p) = EspacioEn(f, p)
    BY EspacioFuturo DEF f
  <2>5. d \in 1 .. EspacioDe(p) /\ Espacio(p)[d] = f[Fisica(p, d - 1)]
    BY <2>4 DEF EspacioEn
  <2>6. d - 1 \in 0 .. EspacioDe(p) - 1
    <3>1. EspacioDe(p) \in Nat
      BY ConstantesCiclo, Producto DEF EspacioDe
    <3> QED
      BY <2>5, <3>1
  <2>7. Fisica(p, d - 1) \in Propias(p)
    BY <2>6, FisicaPropia
  <2>8. f[Fisica(p, d - 1)] = x[Fisica(p, d - 1)]
    BY <2>3, <2>7 DEF Iguales
  <2>9. \A c \in DOMAIN x : x[c] = 0
    BY DEF Init, x
  <2> QED
    BY <2>1, <2>5, <2>7, <2>8, <2>9
<1>3. EsperanDe = [p \in Pids |-> FALSE]
  <2>1. \A p \in Pids : ~(entradas[p] > 0)
    BY DEF Init
  <2>2. \A p \in Pids : (entradas[p] > 0) = FALSE
    BY <2>1
  <2> QED
    BY <2>2, Zenon DEF EsperanDe
<1>4. FinDe = [p \in Pids |-> FALSE]
  <2>1. \A p \in Pids : p \notin terminados
    BY DEF Init
  <2>2. \A p \in Pids : (p \in terminados) = FALSE
    BY <2>1
  <2> QED
    BY <2>2, Zenon DEF FinDe
<1>5. \A p \in Pids : EspaciosDe[p] = Espacio(p)
  BY DEF EspaciosDe
<1> QED
  BY <1>1, <1>2, <1>3, <1>4, <1>5, MismasOperaciones
  DEF Ideal!Init, RegistrosDe, Reg, EspaciosDe, EsperanDe, FinDe

-----------------------------------------------------------------------------
(* The invariant is kept                                                    *)

\* A queue with nobody of T, after a push of another and after a pop.
LEMMA SinNadieDe ==
  ASSUME NEW s, EsSeq(s), NEW T, \A k \in DOMAIN s : s[k] \notin T
  PROVE  /\ \A x : x \notin T => \A k \in DOMAIN Append(s, x) : Append(s, x)[k] \notin T
         /\ s # <<>> => Head(s) \notin T /\ \A k \in DOMAIN Tail(s) : Tail(s)[k] \notin T
<1>1. ASSUME NEW x, x \notin T PROVE \A k \in DOMAIN Append(s, x) : Append(s, x)[k] \notin T
  BY <1>1, AlFinal
<1>2. ASSUME s # <<>> PROVE Head(s) \notin T /\ \A k \in DOMAIN Tail(s) : Tail(s)[k] \notin T
  BY <1>2, SinLaCabeza
<1> QED
  BY <1>1, <1>2

LEMMA VivosPaso ==
  ASSUME Turnos, Prestado, Vivos, Next
  PROVE  Vivos'
<1>1. /\ terminados \subseteq Pids /\ ejecutando \notin terminados /\ terminados \cap bloqueados = {}
      /\ \A k \in DOMAIN listo : listo[k] \notin terminados
  BY DEF Vivos
<1>2. /\ EsSeq(listo) /\ \A k \in DOMAIN listo : listo[k] # ejecutando
      /\ ejecutando \notin bloqueados /\ NULL \notin terminados
  BY <1>1, ConstantesCiclo, EsSeqDe DEF Turnos
<1>3. CASE UNCHANGED kernel
  BY <1>1, <1>3 DEF Vivos, kernel
<1>4. CASE Despachar
  <2>1. listo # <<>> /\ ejecutando' = Head(listo) /\ listo' = Tail(listo) /\ UNCHANGED <<bloqueados, terminados>>
    BY <1>4 DEF Despachar
  <2> QED
    BY <1>1, <1>2, <2>1, SinNadieDe DEF Vivos
<1>5. ASSUME NEW motivo, Volver(motivo) PROVE ejecutando' = NULL /\ ejecutando \in Pids
  BY <1>5, VolverIgual DEF Volver
<1>6. CASE FinDeQuantum
  <2>1. ejecutando' = NULL /\ listo' = Append(listo, ejecutando) /\ UNCHANGED <<bloqueados, terminados>>
    BY <1>5, <1>6 DEF FinDeQuantum
  <2> QED
    BY <1>1, <1>2, <2>1, SinNadieDe DEF Vivos
<1>7. CASE Finalizar \/ RechazarIO
  <2>1. ejecutando' = NULL /\ ejecutando \in Pids /\ terminados' = terminados \cup {ejecutando}
        /\ UNCHANGED <<bloqueados, listo>>
    BY <1>5, <1>7 DEF Finalizar, RechazarIO
  <2> QED
    BY <1>1, <1>2, <2>1, ConstantesCiclo DEF Vivos
<1>8. CASE EjecutarIO
  <2>1. ejecutando' = NULL /\ bloqueados' = bloqueados \cup {ejecutando} /\ UNCHANGED <<terminados, listo>>
    BY <1>5, <1>8 DEF EjecutarIO
  <2> QED
    BY <1>1, <1>2, <2>1 DEF Vivos
<1>9. ASSUME NEW i \in Interfaces, Desbloquear(i) PROVE Vivos'
  <2>1. PICK p \in bloqueados : bloqueados' = bloqueados \ {p} /\ listo' = Append(listo, p)
    BY <1>9 DEF Desbloquear
  <2>2. UNCHANGED <<ejecutando, terminados>>
    BY <1>9 DEF Desbloquear
  <2>3. p \notin terminados
    BY <1>1
  <2> QED
    BY <1>1, <1>2, <2>1, <2>2, <2>3, SinNadieDe DEF Vivos
<1>10. CASE CPU
  BY <1>3, <1>10, NoTocaCPU
<1>11. CASE MemoriaCPU \/ \E i \in Interfaces : EscribirStdin(i) \/ LeerStdout(i)
  BY <1>3, <1>11, NoTocaMemoria
<1>12. CASE \E i \in Interfaces : Interfaz(i)
  BY <1>3, <1>12, NoTocaInterfaz
<1>13. CASE Interrumpir
  BY <1>3, <1>13 DEF Interrumpir
<1> QED
  BY <1>4, <1>6, <1>7, <1>8, <1>9, <1>10, <1>11, <1>12, <1>13, Quienes DEF Kernel

LEMMA RegistranPaso ==
  ASSUME Turnos, Prestado, Conexion, Rumbo, Vivos, Registran, BienEscritos, Next
  PROVE  Registran'
<1>1. \A p \in Pids : pcb[p].registros \in Numerados
  BY DEF Registran
<1>2. pcb_actual.registros \in Numerados
  BY DEF Registran
<1>3. CASE UNCHANGED pcb /\ pcb_actual'.registros = pcb_actual.registros
  BY <1>1, <1>2, <1>3 DEF Registran, Numerados
<1>4. CASE Kernel
  <2>1. UNCHANGED pcb_actual
    BY <1>4, NoTocaKernel DEF procesador
  <2>2. ASSUME NEW motivo, Volver(motivo) PROVE Registran'
    <3>1. pcb' = [pcb EXCEPT ![ejecutando] = Vuelto.pcb] /\ respuesta # <<>>
      BY <2>2 DEF Volver
    <3>2. Vuelto.pcb.registros \in Numerados
      BY <1>2, <3>1, VuelveConSusRegistros
    <3> HIDE DEF Vuelto
    <3>3. DOMAIN pcb = Pids
      BY DEF Turnos
    <3>4. \A p \in Pids : pcb'[p] = IF p = ejecutando THEN Vuelto.pcb ELSE pcb[p]
      BY <3>1, <3>3
    <3> QED
      BY <1>1, <1>2, <2>1, <3>2, <3>4 DEF Registran, Numerados
  <2>3. CASE Despachar
    BY <1>3, <2>1, <2>3 DEF Despachar
  <2> QED
    BY <1>4, <2>2, <2>3 DEF Kernel, FinDeQuantum, Finalizar, EjecutarIO, RechazarIO
<1>5. CASE CPU
  <2>1. UNCHANGED pcb
    BY <1>5, NoTocaCPU DEF kernel
  <2>2. ASSUME NEW r \in Numerados, pcb_actual'.registros = r PROVE Registran'
    BY <1>1, <2>1, <2>2 DEF Registran, Numerados
  <2>3. CASE RecibirPCB
    <3>1. dispatch = <<enviar_pcb(pcb[ejecutando])>> /\ ejecutando \in Pids
          /\ pcb_actual' = deserializar_pcb(Head(dispatch).stream)
      BY <2>3 DEF RecibirPCB, Prestado
    <3>2. Head(dispatch).stream = Serializar(PCB, pcb[ejecutando])
      BY <3>1 DEF enviar_pcb, Paquete
    <3>3. "registros" \in Range(PCB)
      BY CamposDelPCB DEF CamposPCB
    <3>4. pcb_actual'.registros = pcb[ejecutando].registros
      BY <3>1, <3>2, <3>3, IdaYVuelta DEF deserializar_pcb
    <3> QED
      BY <1>1, <2>2, <3>1, <3>4
  <2>4. CASE Fetch \/ Llamar \/ Devolver
    BY <1>3, <2>1, <2>4 DEF Fetch, Llamar, Devolver
  <2>5. CASE EjecutarAritmetica
    <3>1. /\ Ejecutar(Aritmeticas)
          /\ pcb_actual' = [pcb_actual EXCEPT !.registros = Operar(Avanzados, Instruccion)]
      BY <2>5 DEF EjecutarAritmetica
    <3> DEFINE x == Avanzados
               i == Instruccion
               y == Operar(x, i)
    <3>2. x \in Numerados /\ i[1] \in Aritmeticas
          /\ (i[1] \in {"SET", "JNZ"} => i[3] \in Nat) /\ (i[1] \in {"SUM", "SUB"} => i[3] \in Registros)
      BY <3>1, SuInstruccion, NoEsDeOtros
    <3> HIDE DEF x, i
    <3>3. y \in Numerados
      BY <3>2, OperaNumeros
    <3>4. pcb_actual'.registros = y
      BY <3>1 DEF Prestado, CamposPCB, x, i
    <3> QED
      BY <2>2, <3>3, <3>4
  <2>6. CASE EjecutarMovIn \/ EjecutarMovOut \/ EjecutarCopyString \/ EjecutarIOCPU
    <3>1. pcb_actual'.registros = Avanzados
      BY <2>6 DEF EjecutarMovIn, EjecutarMovOut, EjecutarCopyString, EjecutarIOCPU, UsarMemoria, Prestado, CamposPCB
    <3>2. cpu.pc = "fetch" /\ deMemoria["CPU"] # <<>>
      BY <2>6 DEF EjecutarMovIn, EjecutarMovOut, EjecutarCopyString, EjecutarIOCPU, UsarMemoria, Ejecutar
    <3>3. Avanzados \in Numerados
      BY <3>2, SuInstruccion
    <3> QED
      BY <2>2, <3>1, <3>3
  <2>7. CASE EjecutarExit
    <3>1. pcb_actual'.registros = pcb_actual.registros
      BY <2>7 DEF EjecutarExit, Prestado, CamposPCB
    <3> QED
      BY <1>3, <2>1, <3>1
  <2>8. CASE RecibirMovIn
    <3> DEFINE b == deserializar_dato_movIN(Head(deMemoria["CPU"]).stream)
               v == Valor(b)
               r == cpu.instr[2]
    <3>1. cpu.pc = "mov_in" /\ deMemoria["CPU"] # <<>> /\ pcb_actual' = [pcb_actual EXCEPT !.registros[r] = v]
      BY <2>8 DEF RecibirMovIn
    <3>2. b \in Seq(Nat) /\ Len(b) <= ANCHO
      BY <3>1 DEF Rumbo, EnMovIn
    <3> HIDE DEF b
    <3>3. v \in Nat
      BY <3>2, ValorDeBytes
    <3> HIDE DEF v, r
    <3>4. [pcb_actual.registros EXCEPT ![r] = v] \in Numerados
      BY <1>2, <3>3, UnRegistro
    <3>5. pcb_actual'.registros = [pcb_actual.registros EXCEPT ![r] = v]
      BY <3>1 DEF Prestado, CamposPCB
    <3> QED
      BY <2>2, <3>4, <3>5
  <2> QED
    BY <1>5, <2>3, <2>4, <2>5, <2>6, <2>7, <2>8 DEF CPU
<1>6. CASE \E i \in Interfaces : Desbloquear(i)
  BY <1>3, <1>6 DEF Desbloquear, procesador
<1>7. CASE MemoriaCPU \/ \E i \in Interfaces : EscribirStdin(i) \/ LeerStdout(i)
  BY <1>3, <1>7, NoTocaMemoria DEF kernel, procesador
<1>8. CASE \E i \in Interfaces : Interfaz(i)
  BY <1>3, <1>8, NoTocaInterfaz DEF kernel, procesador
<1>9. CASE Interrumpir
  <2>1. pcb_actual'.registros = pcb_actual.registros
    BY <1>9 DEF Interrumpir, Prestado, CamposPCB
  <2> QED
    BY <1>3, <1>9, <2>1 DEF Interrumpir, kernel
<1> QED
  BY <1>4, <1>5, <1>6, <1>7, <1>8, <1>9, Quienes

-----------------------------------------------------------------------------
(* Where the CPU is in its program                                          *)

\* What is left of a queue was in it.
LEMMA QuedaDeLaCola ==
  ASSUME NEW a, EsSeq(a), NEW b, b = a \/ (a # <<>> /\ b = Tail(a))
  PROVE  \A k \in DOMAIN b : \E j \in DOMAIN a : b[k] = a[j]
<1>1. CASE b = a
  BY <1>1
<1>2. CASE a # <<>> /\ b = Tail(a)
  BY <1>2, SinLaCabeza
<1> QED
  BY <1>1, <1>2

\* The steps of the others, seen from the CPU.
LEMMA FueraDelCPU ==
  ASSUME Turnos, Prestado, Conexion, Next, ~CPU
  PROVE  /\ UNCHANGED <<programa, cpu>> /\ pcb_actual'.pid = pcb_actual.pid
         /\ pcb_actual'.registros = pcb_actual.registros
         /\ pcb_actual'.motivo_desalojo \in {pcb_actual.motivo_desalojo, "INTERRUPCION_FIN_QUANTUM"}
         /\ respuesta' # <<>> => respuesta # <<>>
         /\ ~MemoriaCPU => aMemoria'["CPU"] = aMemoria["CPU"] /\ deMemoria'["CPU"] = deMemoria["CPU"]
         /\ \/ aMemoria'["CPU"] = aMemoria["CPU"]
            \/ aMemoria["CPU"] # <<>> /\ aMemoria'["CPU"] = Tail(aMemoria["CPU"])
<1>1. DOMAIN pcb_actual = CamposPCB /\ DOMAIN aMemoria = Clientes /\ "CPU" \in Clientes
  BY DEF Prestado, Conexion, Clientes
<1>2. CASE Kernel
  <2>1. UNCHANGED <<programa, cpu, pcb_actual, aMemoria, deMemoria>>
    BY <1>2, NoTocaKernel DEF procesador, canalesM
  <2>2. respuesta' # <<>> => respuesta # <<>>
    <3>1. ASSUME NEW motivo, Volver(motivo) PROVE respuesta # <<>>
      BY <3>1 DEF Volver
    <3>2. CASE Despachar
      BY <3>2 DEF Despachar
    <3> QED
      BY <1>2, <3>1, <3>2 DEF Kernel, FinDeQuantum, Finalizar, EjecutarIO, RechazarIO
  <2> QED
    BY <2>1, <2>2
<1>3. CASE \E i \in Interfaces : Desbloquear(i)
  BY <1>3 DEF Desbloquear, procesador, canalesM
<1>4. CASE MemoriaCPU
  <2>1. UNCHANGED <<programa, cpu, pcb_actual, respuesta>>
    BY <1>4, NoTocaMemoria DEF procesador
  <2>2. \/ aMemoria'["CPU"] = aMemoria["CPU"]
        \/ aMemoria["CPU"] # <<>> /\ aMemoria'["CPU"] = Tail(aMemoria["CPU"])
    <3>1. ASSUME NEW cop, Atender("CPU", cop)
          PROVE  aMemoria["CPU"] # <<>> /\ aMemoria'["CPU"] = Tail(aMemoria["CPU"])
      BY <1>1, <3>1 DEF Atender
    <3>2. CASE CopyEscribir
      BY <3>2 DEF CopyEscribir, canalesM
    <3> QED
      BY <1>4, <3>1, <3>2 DEF MemoriaCPU, AtenderInstruccion, AtenderMovIn, AtenderMovOut, CopyLeer
  <2> QED
    BY <1>4, <2>1, <2>2
<1>5. CASE \E i \in Interfaces : Interfaz(i) \/ EscribirStdin(i) \/ LeerStdout(i)
  <2>1. UNCHANGED <<programa, cpu, pcb_actual, respuesta>>
    BY <1>5, NoTocaInterfaz, NoTocaMemoria DEF procesador
  <2>2. aMemoria'["CPU"] = aMemoria["CPU"] /\ deMemoria'["CPU"] = deMemoria["CPU"]
    BY <1>5, OtraConexion DEF Conexion
  <2> QED
    BY <2>1, <2>2
<1>6. CASE Interrumpir
  <2>1. /\ pcb_actual' = [pcb_actual EXCEPT !.motivo_desalojo = "INTERRUPCION_FIN_QUANTUM"]
        /\ UNCHANGED <<programa, cpu, respuesta, aMemoria, deMemoria>>
    BY <1>6 DEF Interrumpir, canalesM
  <2>2. pcb_actual'.pid = pcb_actual.pid /\ pcb_actual'.registros = pcb_actual.registros
        /\ pcb_actual'.motivo_desalojo = "INTERRUPCION_FIN_QUANTUM"
    BY <1>1, <2>1 DEF CamposPCB
  <2> QED
    BY <2>1, <2>2
<1> QED
  BY <1>2, <1>3, <1>4, <1>5, <1>6, Quienes

\* The same instruction is the next one.
LEMMA MismoPC ==
  ASSUME UNCHANGED programa, pcb_actual'.pid = pcb_actual.pid,
         pcb_actual'.registros = pcb_actual.registros
  PROVE  PC' = PC /\ Suyo' = Suyo
BY DEF PC, Suyo

\* The PC when an instruction has been taken.
LEMMA AvanzaElPC ==
  ASSUME Turnos, Prestado, Conexion, Rumbo, Vivos, Registran, BienEscritos,
         NEW nombres, Ejecutar(nombres), pcb_actual'.pid = pcb_actual.pid, pcb_actual'.registros = Avanzados
  PROVE  /\ PC' = PC + 1 /\ Suyo' = Suyo /\ PC' \in DOMAIN Suyo' /\ Suyo'[PC'] = Instruccion
         /\ Instruccion[1] \in nombres /\ pcb_actual.pid = ejecutando /\ ejecutando \in Pids
<1>1. UNCHANGED programa /\ cpu.pc = "fetch" /\ deMemoria["CPU"] # <<>> /\ Instruccion[1] \in nombres
  BY NoEsDeOtros
<1>2. /\ Avanzados["PC"] = PC + 1 /\ PC + 1 \in DOMAIN Suyo /\ Instruccion = Suyo[PC + 1]
      /\ pcb_actual.pid = ejecutando /\ ejecutando \in Pids
  BY <1>1, SuInstruccion
<1>3. PC' = PC + 1 /\ Suyo' = Suyo
  BY <1>1, <1>2 DEF PC, Suyo
<1> QED
  BY <1>1, <1>2, <1>3

LEMMA PideElPCPaso ==
  ASSUME Turnos, Prestado, Conexion, Rumbo, Conexion', Next
  PROVE  PideElPC'
<1> DEFINE a == aMemoria["CPU"]
<1>1. CASE cpu'.pc # "fetch"
  BY <1>1 DEF PideElPC, Conexion, Sirve
<1>2. CASE cpu'.pc = "fetch" /\ CPU
  <2>1. Fetch
    BY <1>2 DEF CPU, RecibirPCB, EjecutarAritmetica, EjecutarMovIn, EjecutarMovOut, EjecutarCopyString,
       EjecutarIOCPU, Llamar, EjecutarExit, RecibirMovIn, Devolver, Seguir, Prestado
  <2> DEFINE q == pedir_instruccion_memoria(pcb_actual.pid, pcb_actual.registros["PC"])
  <2>2. /\ cpu.pc = "ciclo" /\ aMemoria' = Mandar(aMemoria, "CPU", q) /\ UNCHANGED <<programa, pcb_actual>>
    BY <2>1 DEF Fetch
  <2>3. q.stream = <<pcb_actual.pid, PC>>
    BY DEF pedir_instruccion_memoria, Paquete, PC
  <2> HIDE DEF q
  <2>4. aMemoria'["CPU"] = Append(a, q)
    BY <2>2 DEF Mandar, Conexion, Clientes
  <2>5. Callada(a)
    BY <2>2, NadieEspera DEF Conexion
  <2> HIDE DEF a
  <2>6. \A k \in DOMAIN aMemoria'["CPU"] : aMemoria'["CPU"][k] = q \/ aMemoria'["CPU"][k].cop \in SinRespuesta
    BY <2>4, <2>5, AlFinal DEF Callada
  <2>7. UNCHANGED PC
    BY <2>2 DEF PC
  <2> QED
    BY <2>2, <2>3, <2>6, <2>7 DEF PideElPC, SinRespuesta
<1>3. CASE ~CPU
  <2>1. /\ UNCHANGED <<programa, cpu>> /\ pcb_actual'.pid = pcb_actual.pid
        /\ pcb_actual'.registros = pcb_actual.registros
        /\ a = aMemoria'["CPU"] \/ (a # <<>> /\ aMemoria'["CPU"] = Tail(a))
    BY <1>3, FueraDelCPU
  <2>2. EsSeq(a)
    BY DEF Conexion, Sirve
  <2>3. \A k \in DOMAIN a : a[k].cop = "PEDIDO_INSTRUCCION" => a[k].stream = <<pcb_actual.pid, PC>>
    BY DEF Rumbo, PideElPC
  <2> HIDE DEF a
  <2>4. \A k \in DOMAIN aMemoria'["CPU"] : \E j \in DOMAIN a : aMemoria'["CPU"][k] = a[j]
    BY <2>1, <2>2, QuedaDeLaCola
  <2>5. PC' = PC
    BY <2>1, MismoPC
  <2> QED
    BY <2>1, <2>3, <2>4, <2>5 DEF PideElPC
<1> QED
  BY <1>1, <1>2, <1>3

LEMMA LlegaElPCPaso ==
  ASSUME Turnos, Prestado, Conexion, Rumbo, Next
  PROVE  LlegaElPC'
<1> DEFINE a == aMemoria["CPU"]
           d == deMemoria["CPU"]
<1>1. CASE cpu'.pc # "fetch"
  BY <1>1 DEF LlegaElPC
<1>2. CASE cpu'.pc = "fetch" /\ CPU
  <2>1. Fetch
    BY <1>2 DEF CPU, RecibirPCB, EjecutarAritmetica, EjecutarMovIn, EjecutarMovOut, EjecutarCopyString,
       EjecutarIOCPU, Llamar, EjecutarExit, RecibirMovIn, Devolver, Seguir, Prestado
  <2>2. d = <<>>
    BY <2>1, NadieEspera DEF Conexion, Fetch
  <2>3. deMemoria'["CPU"] = <<>>
    BY <2>1, <2>2 DEF Fetch
  <2> QED
    BY <2>3 DEF LlegaElPC
<1>3. CASE cpu'.pc = "fetch" /\ ~CPU
  <2>1. /\ UNCHANGED <<programa, cpu>> /\ pcb_actual'.pid = pcb_actual.pid
        /\ pcb_actual'.registros = pcb_actual.registros
        /\ ~MemoriaCPU => deMemoria'["CPU"] = d
    BY <1>3, FueraDelCPU
  <2>2. PC' = PC /\ Suyo' = Suyo
    BY <2>1, MismoPC
  <2>3. CASE deMemoria'["CPU"] = d
    <3>1. Instruccion' = Instruccion
      BY <2>3 DEF Instruccion
    <3> QED
      BY <2>1, <2>2, <2>3, <3>1 DEF Rumbo, LlegaElPC
  <2>4. CASE AtenderInstruccion
    <3> DEFINE m == deserializar_pedido_instruccion(Pedido("CPU").stream)
               r == enviar_instruccion(programa[m.pid][m.pc + 1])
    <3>1. /\ a # <<>> /\ Head(a).cop = "PEDIDO_INSTRUCCION" /\ Pedido("CPU") = Head(a)
          /\ deMemoria' = IF m.pc + 1 \in DOMAIN programa[m.pid] THEN Mandar(deMemoria, "CPU", r) ELSE deMemoria
      BY <2>4 DEF AtenderInstruccion, Atender, Pedido
    <3>2. Sirve(a, d, cpu.pc, pcb_actual.pid)
      BY DEF Conexion
    <3>3. Head(a) = a[1] /\ 1 \in DOMAIN a /\ d = <<>>
      <4> HIDE DEF a, d
      <4> QED
        BY <3>1, <3>2, Desencola DEF SinRespuesta
    <3>4. Pedido("CPU").stream = <<pcb_actual.pid, PC>>
      BY <3>1, <3>3 DEF Rumbo, PideElPC
    <3>5. m.pid = pcb_actual.pid /\ m.pc = PC
      BY <3>4 DEF deserializar_pedido_instruccion, Deserializar, Range
    <3> HIDE DEF m
    <3>6. CASE m.pc + 1 \in DOMAIN programa[m.pid]
      <4>1. deMemoria'["CPU"] = <<r>>
        BY <3>1, <3>3, <3>6 DEF Mandar, Conexion, Clientes
      <4>2. r.stream = programa[m.pid][m.pc + 1]
        BY DEF enviar_instruccion, Paquete
      <4> HIDE DEF r
      <4>3. Instruccion' = programa[m.pid][m.pc + 1]
        BY <4>1, <4>2 DEF Instruccion, deserializar_instruccion
      <4> QED
        BY <2>2, <3>5, <3>6, <4>3 DEF LlegaElPC, Suyo
    <3>7. CASE m.pc + 1 \notin DOMAIN programa[m.pid]
      BY <2>3, <3>1, <3>7
    <3> QED
      BY <3>6, <3>7
  <2>5. CASE AtenderMovIn
    <3>1. a # <<>> /\ Head(a).cop = "PEDIDO_MOV_IN"
      BY <2>5 DEF AtenderMovIn, Atender, Pedido
    <3>2. Sirve(a, d, cpu.pc, pcb_actual.pid)
      BY DEF Conexion
    <3>3. cpu.pc = "mov_in"
      <4> HIDE DEF a, d
      <4>1. Head(a) = a[1] /\ 1 \in DOMAIN a
        BY <3>1, <3>2, Desencola
      <4> QED
        BY <3>1, <3>2, <4>1 DEF Sirve
    <3> QED
      BY <1>3, <2>1, <3>3
  <2>6. CASE AtenderMovOut \/ CopyLeer \/ CopyEscribir
    BY <2>3, <2>6 DEF AtenderMovOut, CopyLeer, CopyEscribir, canalesM
  <2> QED
    BY <2>1, <2>3, <2>4, <2>5, <2>6 DEF MemoriaCPU
<1> QED
  BY <1>1, <1>2, <1>3

\* The pairs at the head of a stream.
LEMMA ListaDePares ==
  ASSUME NEW lista \in Seq(Tramos), NEW L, L = Len(lista),
         NEW s, \A k \in 1 .. 2 * L : s[k] = Pares(lista)[k]
  PROVE  Lista(s, L) = lista
<1> DEFINE a == Pares(lista)
<1>1. L \in Nat /\ DOMAIN lista = 1 .. L /\ \A i \in 1 .. L : lista[i] \in Tramos
  OBVIOUS
<1>2. a = [k \in 1 .. 2 * L |-> IF k % 2 = 1 THEN lista[(k + 1) \div 2].direccion_fisica
                                ELSE lista[k \div 2].tamanio]
  BY DEF Pares
<1> HIDE DEF a
<1>3. \A i \in 1 .. L : /\ 2 * i - 1 \in 1 .. 2 * L /\ 2 * i \in 1 .. 2 * L
                        /\ (2 * i - 1) % 2 = 1 /\ (2 * i) % 2 # 1
                        /\ (2 * i - 1 + 1) \div 2 = i /\ (2 * i) \div 2 = i
  BY <1>1
<1>4. \A i \in 1 .. L : a[2 * i - 1] = lista[i].direccion_fisica /\ a[2 * i] = lista[i].tamanio
  BY <1>2, <1>3
<1>5. \A i \in 1 .. L : s[2 * i - 1] = lista[i].direccion_fisica /\ s[2 * i] = lista[i].tamanio
  BY <1>3, <1>4 DEF a
<1>6. Lista(s, L) = [i \in 1 .. L |-> [direccion_fisica |-> lista[i].direccion_fisica, tamanio |-> lista[i].tamanio]]
  BY <1>5 DEF Lista
<1>7. \A i \in 1 .. L : lista[i] = [direccion_fisica |-> lista[i].direccion_fisica, tamanio |-> lista[i].tamanio]
  BY <1>1 DEF Tramos
<1>8. lista = [i \in 1 .. L |-> lista[i]]
  BY <1>1
<1> QED
  BY <1>6, <1>7, <1>8

\* Address and size of each fragment, one behind the other.
LEMMA LargoDePares ==
  ASSUME NEW lista \in Seq(Tramos), NEW L, L = Len(lista)
  PROVE  L \in Nat /\ Len(Pares(lista)) = 2 * L /\ Pares(lista) \in Seq({Pares(lista)[k] : k \in 1 .. 2 * L})
<1> DEFINE a == Pares(lista)
           S == {a[k] : k \in 1 .. 2 * L}
           n == 2 * L
<1>1. L \in Nat /\ n \in Nat
  OBVIOUS
<1>2. a = [k \in 1 .. n |-> a[k]]
  BY DEF Pares
<1>3. \A k \in 1 .. n : a[k] \in S
  OBVIOUS
<1> HIDE DEF a, S, n
<1>4. Len(a) = n /\ a \in Seq(S)
  BY <1>1, <1>2, <1>3, ListaDeNumeros
<1> QED
  BY <1>1, <1>4 DEF a, S, n

\* The reader of MOV_IN counts them from the size of the packet.
LEMMA LeeMovIn ==
  ASSUME NEW lista \in Seq(Tramos), NEW pid
  PROVE  deserializar_datos_mov_in(enviar_valor_mov_in_cpu(lista, pid)).direcciones = lista
<1> DEFINE L == Len(lista)
           a == Pares(lista)
           q == enviar_valor_mov_in_cpu(lista, pid)
           n == (q.size - 4) \div 8
           S == {a[k] : k \in 1 .. 2 * L} \cup {pid}
<1>1. q.stream = a \o <<pid>> /\ q.size = 8 * L + 4
  BY DEF enviar_valor_mov_in_cpu
<1>2. deserializar_datos_mov_in(q).direcciones = Lista(q.stream, n)
  BY DEF deserializar_datos_mov_in
<1>3. L \in Nat /\ Len(a) = 2 * L /\ a \in Seq(S) /\ <<pid>> \in Seq(S)
  <2>1. L \in Nat /\ Len(a) = 2 * L /\ a \in Seq({a[k] : k \in 1 .. 2 * L})
    <3> HIDE DEF L
    <3> QED
      BY LargoDePares DEF L
  <2> HIDE DEF a, L
  <2> QED
    BY <2>1
<1> HIDE DEF q
<1>4. n = L
  <2> HIDE DEF L, a
  <2>1. q.size - 4 = 8 * L
    BY <1>1, <1>3
  <2>2. (8 * L) \div 8 = L
    BY <1>3
  <2> QED
    BY <2>1, <2>2
<1> HIDE DEF L, a, S, n
<1>5. \A k \in 1 .. 2 * L : (a \o <<pid>>)[k] = a[k]
  BY <1>3
<1>6. Lista(q.stream, L) = lista
  BY <1>1, <1>5, ListaDePares DEF L, a
<1> QED
  BY <1>2, <1>4, <1>6 DEF q

LEMMA EnMovInPaso ==
  ASSUME Turnos, Prestado, Conexion, Escrituras, BienEscritos, EnSuEspacio, Rumbo, Vivos, Registran,
         BytesEnMemoria, Next
  PROVE  EnMovIn'
<1> DEFINE a == aMemoria["CPU"]
           d == deMemoria["CPU"]
<1>1. CASE cpu'.pc # "mov_in"
  BY <1>1 DEF EnMovIn
<1>2. CASE cpu'.pc = "mov_in" /\ CPU
  <2>1. EjecutarMovIn
    BY <1>2 DEF CPU, RecibirPCB, Fetch, EjecutarAritmetica, EjecutarMovOut, EjecutarCopyString,
       EjecutarIOCPU, Llamar, EjecutarExit, RecibirMovIn, Devolver, Seguir, Prestado
  <2> DEFINE i == Instruccion
             w == obtener_tamanio_registro(i[2])
             dl == Avanzados[i[3]]
             lista == Traducir(i[3], w)
             q == enviar_valor_mov_in_cpu(lista, pcb_actual.pid)
  <2>2. /\ Ejecutar({"MOV_IN"}) /\ aMemoria' = Mandar(aMemoria, "CPU", q)
        /\ pcb_actual' = [pcb_actual EXCEPT !.registros = Avanzados]
        /\ cpu' = [pc |-> "mov_in", instr |-> Instruccion]
    BY <2>1 DEF EjecutarMovIn, UsarMemoria, Seguir
  <2>3. pcb_actual'.pid = pcb_actual.pid /\ pcb_actual'.registros = Avanzados
    BY <2>2 DEF Prestado, CamposPCB
  <2>4. /\ PC' \in DOMAIN Suyo' /\ Suyo'[PC'] = i /\ i[1] = "MOV_IN" /\ pcb_actual.pid = ejecutando /\ ejecutando \in Pids
    BY <2>2, <2>3, AvanzaElPC
  <2>5. Callada(a) /\ Tail(d) = <<>> /\ deMemoria'["CPU"] = Tail(d) /\ cpu.pc = "fetch" /\ deMemoria["CPU"] # <<>>
    BY <2>2, NadieEspera DEF Ejecutar, Conexion, Clientes
  <2>6. aMemoria'["CPU"] = Append(a, q)
    BY <2>2 DEF Mandar, Conexion, Clientes
  <2>7. <<dl, w>> \in Accesos(Avanzados, i)
    BY <2>4 DEF Accesos
  <2>8. dl \in 0 .. EspacioDe(ejecutando) - 1 /\ dl + w <= EspacioDe(ejecutando)
        /\ De(ejecutando, traducir_direccion(ejecutando, dl, w))
    <3> HIDE DEF dl, w
    <3> QED
      BY <2>5, <2>7, EnRango
  <2>9. lista = traducir_direccion(pcb_actual.pid, dl, w)
    BY DEF Traducir
  <2>10. deserializar_datos_mov_in(q).direcciones = lista
    <3> HIDE DEF dl, w, lista
    <3>1. lista \in Seq(Tramos)
      BY <2>4, <2>8, <2>9 DEF De
    <3> QED
      BY <3>1, LeeMovIn
  <2> PICK I, l : I = i /\ l = lista
    OBVIOUS
  <2>11. Lee(I, l)'
    <3>1. pcb_actual'.registros[I[3]] = dl /\ l = traducir_direccion(pcb_actual'.pid, dl, w)
      BY <2>3, <2>9
    <3>2. w = obtener_tamanio_registro(I[2])
      OBVIOUS
    <3> HIDE DEF dl, w, lista
    <3> QED
      BY <2>3, <2>4, <2>8, <3>1, <3>2 DEF Lee
  <2> HIDE DEF q, lista, i
  <2>12. \A k \in DOMAIN aMemoria'["CPU"] : aMemoria'["CPU"][k].cop = "PEDIDO_MOV_IN" => aMemoria'["CPU"][k] = q
    <3> HIDE DEF a
    <3>1. \A k \in DOMAIN Append(a, q) : Append(a, q)[k].cop \in SinRespuesta \/ Append(a, q)[k] = q
      BY <2>5, AlFinal DEF Callada
    <3> QED
      BY <2>6, <3>1 DEF SinRespuesta
  <2>13. cpu'.instr = I /\ deMemoria'["CPU"] = <<>>
    BY <2>2, <2>5 DEF i
  <2> QED
    BY <2>4, <2>10, <2>11, <2>12, <2>13 DEF EnMovIn
<1>3. CASE cpu'.pc = "mov_in" /\ ~CPU
  <2>1. /\ UNCHANGED <<programa, cpu>> /\ pcb_actual'.pid = pcb_actual.pid
        /\ pcb_actual'.registros = pcb_actual.registros
        /\ ~MemoriaCPU => deMemoria'["CPU"] = d
        /\ aMemoria'["CPU"] = a \/ (a # <<>> /\ aMemoria'["CPU"] = Tail(a))
    BY <1>3, FueraDelCPU
  <2>2. PC' = PC /\ Suyo' = Suyo /\ cpu.pc = "mov_in"
    BY <1>3, <2>1, MismoPC
  <2>3. PC' \in DOMAIN Suyo' /\ cpu'.instr = Suyo'[PC'] /\ Suyo'[PC'][1] = "MOV_IN"
    BY <2>1, <2>2 DEF Rumbo, EnMovIn
  <2>4. (\A k \in DOMAIN aMemoria["CPU"] : aMemoria["CPU"][k].cop = "PEDIDO_MOV_IN" =>
           Lee(cpu.instr, deserializar_datos_mov_in(aMemoria["CPU"][k]).direcciones))'
    <3>1. EsSeq(a)
      BY DEF Conexion, Sirve
    <3>2. \A j \in DOMAIN a : a[j].cop = "PEDIDO_MOV_IN" =>
            Lee(cpu.instr, deserializar_datos_mov_in(a[j]).direcciones)
      BY <2>2 DEF Rumbo, EnMovIn
    <3> HIDE DEF a
    <3>3. \A k \in DOMAIN aMemoria'["CPU"] : \E j \in DOMAIN a : aMemoria'["CPU"][k] = a[j]
      BY <2>1, <3>1, QuedaDeLaCola
    <3> QED
      BY <2>1, <3>2, <3>3 DEF Lee
  <2> DEFINE b == deserializar_dato_movIN(Head(deMemoria["CPU"]).stream)
  <2>5. CASE deMemoria'["CPU"] = d
    <3>1. deMemoria'["CPU"] # <<>> => b' \in Seq(Nat) /\ Len(b') <= ANCHO
      BY <2>2, <2>5 DEF Rumbo, EnMovIn
    <3> QED
      BY <2>3, <2>4, <3>1 DEF EnMovIn
  <2>6. CASE AtenderInstruccion
    <3>1. a # <<>> /\ Head(a).cop = "PEDIDO_INSTRUCCION"
      BY <2>6 DEF AtenderInstruccion, Atender, Pedido
    <3>2. Sirve(a, d, cpu.pc, pcb_actual.pid)
      BY DEF Conexion
    <3>3. cpu.pc = "fetch"
      <4> HIDE DEF a, d
      <4>1. Head(a) = a[1] /\ 1 \in DOMAIN a
        BY <3>1, <3>2, Desencola
      <4> QED
        BY <3>1, <3>2, <4>1 DEF Sirve
    <3> QED
      BY <2>2, <3>3
  <2>7. CASE AtenderMovOut \/ CopyLeer \/ CopyEscribir
    BY <2>5, <2>7 DEF AtenderMovOut, CopyLeer, CopyEscribir, canalesM
  <2>8. CASE AtenderMovIn
    <3> DEFINE i == cpu.instr
               lista == deserializar_datos_mov_in(Pedido("CPU")).direcciones
               dl == pcb_actual.registros[i[3]]
               w == obtener_tamanio_registro(i[2])
               v == leer_memoria(memoriaUsuario, lista)
               y == [k \in DOMAIN lista |-> leer_memoria(memoriaUsuario, <<lista[k]>>)]
               r == enviar_dato_movIn(y, v)
    <3>1. /\ a # <<>> /\ Pedido("CPU").cop = "PEDIDO_MOV_IN" /\ Pedido("CPU") = Head(a)
          /\ deMemoria' = Mandar(deMemoria, "CPU", r)
      BY <2>8 DEF AtenderMovIn, Atender, Pedido
    <3>2. Head(a) = a[1] /\ 1 \in DOMAIN a /\ d = <<>>
      <4>1. Sirve(a, d, cpu.pc, pcb_actual.pid)
        BY DEF Conexion
      <4> HIDE DEF a, d
      <4> QED
        BY <3>1, <4>1, Desencola DEF SinRespuesta
    <3>3. Lee(i, lista)
      BY <2>2, <3>1, <3>2 DEF Rumbo, EnMovIn
    <3> PICK p \in Pids : p = pcb_actual.pid
      BY <2>2 DEF Prestado
    <3>4. dl \in 0 .. EspacioDe(p) - 1 /\ dl + w <= EspacioDe(p) /\ lista = traducir_direccion(p, dl, w)
          /\ w \in Nat /\ w <= ANCHO
      <4>1. PC \in DOMAIN Suyo /\ i = Suyo[PC] /\ i[1] = "MOV_IN"
        BY <2>2, <3>1, <3>2 DEF Rumbo, EnMovIn
      <4>2. i[2] \in DeDatos
        BY <2>2, <4>1 DEF BienEscritos, Suyo, Conexion, Prestado
      <4> QED
        BY <3>3, <4>2, Anchos DEF Lee
    <3>5. v \in Seq(Nat) /\ Len(v) <= ANCHO
      <4> DEFINE s == [k \in 1 .. w |-> memoriaUsuario[Fisica(p, dl + k - 1)]]
      <4>1. v = s
        <5> HIDE DEF dl, w, lista
        <5> QED
          BY <3>4, LeeTramo
      <4>2. \A k \in 1 .. w : memoriaUsuario[Fisica(p, dl + k - 1)] \in Nat
        <5> TAKE k \in 1 .. w
        <5>1. dl + k - 1 \in 0 .. EspacioDe(p) - 1
          <6> HIDE DEF dl, w
          <6>1. EspacioDe(p) \in Nat
            BY ConstantesCiclo, Producto DEF EspacioDe
          <6> QED
            BY <3>4, <6>1
        <5>2. Fisica(p, dl + k - 1) \in Propias(p)
          <6> HIDE DEF dl, w
          <6> QED
            BY <5>1, FisicaPropia
        <5> QED
          BY <5>2 DEF Escrituras, BytesEnMemoria
      <4> DEFINE W == w
                 h == [k \in 1 .. W |-> memoriaUsuario[Fisica(p, dl + k - 1)]]
      <4>3. h = [k \in 1 .. W |-> h[k]] /\ W \in Nat /\ \A k \in 1 .. W : h[k] \in Nat
        BY <3>4, <4>2
      <4>4. s = h /\ W <= ANCHO
        BY <3>4
      <4> HIDE DEF h, W, s, v
      <4>5. h \in Seq(Nat) /\ Len(h) = W
        BY <4>3, ListaDeNumeros
      <4> QED
        BY <4>1, <4>4, <4>5
    <3>6. deserializar_dato_movIN(r.stream) = v
      <4> DEFINE n == Len(lista)
      <4>1. DOMAIN lista = 1 .. n /\ n \in Nat
        <5>1. De(p, lista)
          <6> HIDE DEF dl, w, lista
          <6> QED
            BY <3>4, Traducido DEF EspacioDe
        <5> HIDE DEF lista
        <5> QED
          BY <5>1 DEF De
      <4>2. y = [k \in 1 .. n |-> y[k]]
        <5> HIDE DEF lista, n
        <5> QED
          BY <4>1
      <4> HIDE DEF y, n, v
      <4> QED
        BY <4>1, <4>2, LeeDatoMovIn
    <3> HIDE DEF r, v
    <3>7. deMemoria'["CPU"] = <<r>>
      BY <3>1, <3>2 DEF Mandar, Conexion, Clientes
    <3>8. b' = v
      BY <3>6, <3>7
    <3> QED
      BY <2>3, <2>4, <3>5, <3>8 DEF EnMovIn
  <2> QED
    BY <2>1, <2>5, <2>6, <2>7, <2>8 DEF MemoriaCPU
<1> QED
  BY <1>1, <1>2, <1>3

\* The steps of the CPU with which its process neither asks for I/O nor leaves.
LEMMA SigueEnSuTurno ==
  ASSUME Prestado, RecibirPCB \/ Fetch \/ EjecutarAritmetica \/ EjecutarMovIn \/ EjecutarMovOut
                   \/ EjecutarCopyString \/ RecibirMovIn
  PROVE  cpu'.pc \notin {"llamar", "devolver"} /\ respuesta' = <<>>
<1>1. CASE RecibirPCB
  BY <1>1 DEF RecibirPCB, Prestado
<1>2. CASE Fetch
  BY <1>2 DEF Fetch, Prestado
<1>3. ASSUME NEW nombres, Ejecutar(nombres) PROVE respuesta' = <<>>
  BY <1>3 DEF Ejecutar, Prestado
<1>4. CASE EjecutarAritmetica \/ EjecutarMovIn \/ EjecutarMovOut \/ EjecutarCopyString
  BY <1>3, <1>4 DEF EjecutarAritmetica, EjecutarMovIn, EjecutarMovOut, EjecutarCopyString, UsarMemoria, Seguir
<1>5. CASE RecibirMovIn
  BY <1>5 DEF RecibirMovIn, Prestado, Seguir
<1> QED
  BY <1>1, <1>2, <1>4, <1>5

LEMMA EnLlamadaPaso ==
  ASSUME Turnos, Prestado, Conexion, Rumbo, Vivos, Registran, BienEscritos, Next
  PROVE  EnLlamada'
<1>0. DOMAIN pcb_actual = CamposPCB
  BY DEF Prestado
<1>1. CASE EjecutarIOCPU
  <2>1. /\ Ejecutar(InstruccionesIO)
        /\ pcb_actual' = [pcb_actual EXCEPT !.registros = Avanzados, !.motivo_desalojo = "INTERRUPCION_BLOQUEO"]
    BY <1>1 DEF EjecutarIOCPU
  <2>2. pcb_actual'.pid = pcb_actual.pid /\ pcb_actual'.registros = Avanzados
    BY <1>0, <2>1 DEF CamposPCB
  <2>3. PC' \in DOMAIN Suyo' /\ Suyo'[PC'] = Instruccion /\ Instruccion[1] \in InstruccionesIO
    BY <2>1, <2>2, AvanzaElPC
  <2> QED
    BY <2>3 DEF EnLlamada
<1>2. CASE Llamar
  <2>1. cpu.pc = "llamar" /\ UNCHANGED <<programa, pcb_actual>>
    BY <1>2 DEF Llamar
  <2>2. PC' = PC /\ Suyo' = Suyo
    BY <2>1, MismoPC
  <2> QED
    BY <2>1, <2>2 DEF Rumbo, EnLlamada
<1>3. CASE Devolver
  BY <1>3 DEF Devolver, Prestado, EnLlamada
<1>4. CASE EjecutarExit
  BY <1>4 DEF EjecutarExit, Ejecutar, Seguir, Prestado, EnLlamada
<1>5. CASE RecibirPCB \/ Fetch \/ EjecutarAritmetica \/ EjecutarMovIn \/ EjecutarMovOut
           \/ EjecutarCopyString \/ RecibirMovIn
  BY <1>5, SigueEnSuTurno DEF EnLlamada
<1>6. CASE ~CPU
  <2>1. /\ UNCHANGED <<programa, cpu>> /\ pcb_actual'.pid = pcb_actual.pid
        /\ pcb_actual'.registros = pcb_actual.registros
        /\ pcb_actual'.motivo_desalojo \in {pcb_actual.motivo_desalojo, "INTERRUPCION_FIN_QUANTUM"}
        /\ respuesta' # <<>> => respuesta # <<>>
    BY <1>6, FueraDelCPU
  <2>2. PC' = PC /\ Suyo' = Suyo
    BY <2>1, MismoPC
  <2> QED
    BY <2>1, <2>2 DEF Rumbo, EnLlamada
<1> QED
  BY <1>1, <1>2, <1>3, <1>4, <1>5, <1>6 DEF CPU

LEMMA EnExitPaso ==
  ASSUME Turnos, Prestado, Conexion, Rumbo, Vivos, Registran, BienEscritos, Next
  PROVE  EnExit'
<1>0. DOMAIN pcb_actual = CamposPCB
  BY DEF Prestado
<1>1. CASE EjecutarExit
  <2>1. /\ Ejecutar({"EXIT"})
        /\ pcb_actual' = [pcb_actual EXCEPT !.motivo_desalojo = "FINALIZACION"]
    BY <1>1 DEF EjecutarExit
  <2>2. pcb_actual'.pid = pcb_actual.pid /\ pcb_actual'.registros = pcb_actual.registros
    BY <1>0, <2>1 DEF CamposPCB
  <2>3. UNCHANGED programa /\ cpu.pc = "fetch" /\ deMemoria["CPU"] # <<>> /\ Instruccion[1] = "EXIT"
    BY <2>1, NoEsDeOtros
  <2>4. Instruccion = Suyo[PC + 1]
    BY <2>3, SuInstruccion
  <2>5. PC' = PC /\ Suyo' = Suyo
    BY <2>2, <2>3, MismoPC
  <2> QED
    BY <2>3, <2>4, <2>5 DEF EnExit
<1>2. CASE Llamar
  BY <1>2 DEF Llamar, Prestado, EnExit
<1>3. CASE Devolver
  <2>1. /\ cpu.pc = "devolver" \/ (cpu.pc = "ciclo" /\ interrupcion)
        /\ UNCHANGED <<programa, pcb_actual>>
    BY <1>3 DEF Devolver
  <2>2. PC' = PC /\ Suyo' = Suyo
    BY <2>1, MismoPC
  <2> QED
    BY <2>1, <2>2 DEF Rumbo, EnExit, Prestado
<1>4. CASE EjecutarIOCPU
  BY <1>4 DEF EjecutarIOCPU, Ejecutar, Seguir, Prestado, EnExit
<1>5. CASE RecibirPCB \/ Fetch \/ EjecutarAritmetica \/ EjecutarMovIn \/ EjecutarMovOut
           \/ EjecutarCopyString \/ RecibirMovIn
  BY <1>5, SigueEnSuTurno DEF EnExit
<1>6. CASE ~CPU
  <2>1. /\ UNCHANGED <<programa, cpu>> /\ pcb_actual'.pid = pcb_actual.pid
        /\ pcb_actual'.registros = pcb_actual.registros
        /\ pcb_actual'.motivo_desalojo \in {pcb_actual.motivo_desalojo, "INTERRUPCION_FIN_QUANTUM"}
        /\ respuesta' # <<>> => respuesta # <<>>
    BY <1>6, FueraDelCPU
  <2>2. PC' = PC /\ Suyo' = Suyo
    BY <2>1, MismoPC
  <2> QED
    BY <2>1, <2>2 DEF Rumbo, EnExit
<1> QED
  BY <1>1, <1>2, <1>3, <1>4, <1>5, <1>6 DEF CPU

\* Where the CPU is in the program, after any step.
LEMMA RumboPaso ==
  ASSUME Turnos, Prestado, Conexion, Escrituras, BienEscritos, EnSuEspacio, Rumbo, Vivos, Registran,
         BytesEnMemoria, Next
  PROVE  Rumbo'
<1>1. Conexion'
  BY ConexionPaso
<1> QED
  BY <1>1, PideElPCPaso, LlegaElPCPaso, EnMovInPaso, EnLlamadaPaso, EnExitPaso DEF Rumbo

-----------------------------------------------------------------------------
(* Numbers                                                                  *)

\* Some places of a list have a first and a last.
LEMMA UltimoLugar ==
  ASSUME NEW n \in Nat, NEW S \in SUBSET (1 .. n), S # {}
  PROVE  \E k \in S : \A j \in S : j <= k
<1> DEFINE R == {n - j : j \in S}
<1>1. R \in SUBSET Nat /\ R # {}
  <2>1. \A j \in S : n - j \in Nat
    OBVIOUS
  <2>2. \A y \in R : y \in Nat
    BY <2>1
  <2>3. PICK j \in S : TRUE
    OBVIOUS
  <2>4. n - j \in R
    OBVIOUS
  <2> HIDE DEF R
  <2> QED
    BY <2>2, <2>4
<1>2. Min(R) \in R /\ \A y \in R : Min(R) <= y
  <2> HIDE DEF R
  <2> QED
    BY <1>1, MinDeNaturales
<1>3. PICK k \in S : Min(R) = n - k
  BY <1>2
<1>4. ASSUME NEW j \in S PROVE j <= k
  <2>1. n - k <= n - j
    BY <1>2, <1>3
  <2>2. j \in Nat /\ k \in Nat
    OBVIOUS
  <2> QED
    BY <2>1, <2>2
<1> QED
  BY <1>4

\* The first of some positions.
LEMMA PrimerLugar ==
  ASSUME NEW n \in Nat, NEW S \in SUBSET (1 .. n), S # {}
  PROVE  \E k \in S : \A j \in S : k <= j
<1>1. S \in SUBSET Nat
  OBVIOUS
<1> QED
  BY <1>1, MinDeNaturales

\* Numbers written where there are numbers...
LEMMA EscribeNumeros ==
  ASSUME NEW p, NEW lista, De(p, lista), NEW mem, \A b \in DOMAIN mem : mem[b] \in Nat,
         NEW dato \in Seq(Nat)
  PROVE  \A b \in DOMAIN mem : escribir_memoria(mem, lista, dato)[b] \in Nat
<1> DEFINE f == Fisicas(lista)
           n == IF Len(dato) < Len(f) THEN Len(dato) ELSE Len(f)
           Van(b) == {k \in 1 .. n : f[k] = b}
           c(b) == CHOOSE k \in Van(b) : \A j \in Van(b) : j <= k
<1>1. escribir_memoria(mem, lista, dato) = [b \in DOMAIN mem |-> IF Van(b) = {} THEN mem[b] ELSE dato[c(b)]]
  BY DEF escribir_memoria
<1>2. Len(f) \in Nat
  BY SonPropias
<1> HIDE DEF f
<1>3. n \in Nat /\ n <= Len(dato)
  BY <1>2
<1> HIDE DEF n
<1>4. \A b : Van(b) # {} => c(b) \in 1 .. n
  <2> TAKE b
  <2>1. Van(b) \in SUBSET (1 .. n)
    OBVIOUS
  <2>2. Van(b) # {} => \E k \in Van(b) : \A j \in Van(b) : j <= k
    BY <1>3, <2>1, UltimoLugar
  <2> HIDE DEF Van
  <2> QED
    BY <2>1, <2>2
<1> HIDE DEF Van, c
<1>5. \A b : Van(b) # {} => dato[c(b)] \in Nat
  BY <1>3, <1>4
<1> QED
  BY <1>1, <1>5

\* ... and read from there.
LEMMA LeeNumeros ==
  ASSUME NEW p, NEW lista, De(p, lista), NEW mem, Propias(p) \subseteq DOMAIN mem,
         \A b \in DOMAIN mem : mem[b] \in Nat
  PROVE  leer_memoria(mem, lista) \in Seq(Nat)
<1> DEFINE f == Fisicas(lista)
           n == Len(f)
           s == leer_memoria(mem, lista)
<1>1. f \in Seq(Propias(p))
  BY SonPropias
<1>2. n \in Nat /\ DOMAIN f = 1 .. n /\ \A k \in 1 .. n : f[k] \in Propias(p)
  <2> HIDE DEF f
  <2> QED
    BY <1>1
<1>3. s = [k \in 1 .. n |-> mem[f[k]]]
  BY <1>2 DEF leer_memoria
<1> HIDE DEF f, n, s
<1>4. s = [k \in 1 .. n |-> s[k]] /\ \A k \in 1 .. n : s[k] \in Nat
  BY <1>2, <1>3
<1>5. s \in Seq(Nat)
  BY <1>2, <1>4, ListaDeNumeros
<1> QED
  BY <1>5 DEF s

\* A string, up to its zero, is of numbers.
LEMMA HastaCeroNumeros ==
  ASSUME NEW dato \in Seq(Nat)
  PROVE  HastaCero(dato) \in Seq(Nat)
<1> DEFINE ceros == {i \in DOMAIN dato : dato[i] = 0}
           c == CHOOSE i \in ceros : \A j \in ceros : i <= j
<1>1. HastaCero(dato) = IF ceros = {} THEN dato ELSE SubSeq(dato, 1, c - 1)
  BY DEF HastaCero
<1>2. ceros \in SUBSET (1 .. Len(dato)) /\ Len(dato) \in Nat
  OBVIOUS
<1> HIDE DEF ceros
<1>3. ASSUME ceros # {} PROVE c \in 1 .. Len(dato)
  <2>1. \E k \in ceros : \A j \in ceros : k <= j
    BY <1>2, <1>3, PrimerLugar
  <2> QED
    BY <1>2, <2>1
<1> HIDE DEF c
<1>4. ASSUME ceros # {} PROVE SubSeq(dato, 1, c - 1) \in Seq(Nat)
  BY <1>3, <1>4
<1> QED
  BY <1>1, <1>4

-----------------------------------------------------------------------------
\* The first request on the CPU's connection.
LEMMA PrimeroDelCPU ==
  ASSUME Conexion, aMemoria["CPU"] # <<>>
  PROVE  \E k \in DOMAIN aMemoria["CPU"] : Pedido("CPU") = aMemoria["CPU"][k]
<1> DEFINE a == aMemoria["CPU"]
<1>1. EsSeq(a) /\ Pedido("CPU") = Head(a)
  BY DEF Conexion, Sirve, Pedido
<1> HIDE DEF a
<1>2. Head(a) = a[1] /\ 1 \in DOMAIN a
  BY <1>1, SinLaCabeza DEF a
<1> QED
  BY <1>1, <1>2 DEF a

LEMMA BytesEnMemoriaPaso ==
  ASSUME Conexion, Escrituras, Lecturas, Numeros, Next
  PROVE  BytesEnMemoria'
<1> DEFINE Sanos(mem) == \A b \in DOMAIN mem : mem[b] \in Nat
<1>0. Sanos(memoriaUsuario) /\ copia.dato \in Seq(Nat)
  BY DEF Numeros, BytesEnMemoria
<1>1. ASSUME NEW p, NEW lista, De(p, lista), NEW dato \in Seq(Nat),
             memoriaUsuario' = escribir_memoria(memoriaUsuario, lista, dato)
      PROVE  Sanos(memoriaUsuario')
  <2>1. DOMAIN escribir_memoria(memoriaUsuario, lista, dato) = DOMAIN memoriaUsuario
    BY MismoDominio
  <2>2. \A b \in DOMAIN memoriaUsuario : escribir_memoria(memoriaUsuario, lista, dato)[b] \in Nat
    BY <1>0, <1>1, EscribeNumeros
  <2> QED
    BY <1>1, <2>1, <2>2
<1>2. CASE UNCHANGED <<memoriaUsuario, copia>>
  BY <1>0, <1>2 DEF BytesEnMemoria
<1>3. CASE AtenderMovOut
  <2> DEFINE m == deserializar_datos_mov_out(Pedido("CPU"))
  <2>1. /\ memoriaUsuario' = escribir_memoria(memoriaUsuario, m.direcciones, m.valor) /\ UNCHANGED copia
        /\ aMemoria["CPU"] # <<>> /\ Pedido("CPU").cop = "PEDIDO_MOV_OUT"
    BY <1>3 DEF AtenderMovOut, Atender
  <2>2. DeUno(Pedido("CPU"))
    BY <2>1, PrimeroDelCPU DEF Numeros, EnviosDeUno
  <2>3. (\E p \in Pids : De(p, m.direcciones)) /\ m.valor \in Seq(Nat)
    BY <2>1, <2>2 DEF DeUno
  <2> HIDE DEF m
  <2> QED
    BY <1>0, <1>1, <2>1, <2>3 DEF BytesEnMemoria
<1>4. CASE CopyLeer
  <2> DEFINE m == deserializar_datos_copystring(Pedido("CPU").stream)
             v == leer_memoria(memoriaUsuario, m.lectura)
  <2>1. /\ copia' = [escritura |-> m.escritura, dato |-> v] /\ UNCHANGED memoriaUsuario
        /\ aMemoria["CPU"] # <<>> /\ Pedido("CPU").cop = "PEDIDO_COPY_STRING"
    BY <1>4 DEF CopyLeer, Atender
  <2>2. DeUno(Pedido("CPU"))
    BY <2>1, PrimeroDelCPU DEF Numeros, EnviosDeUno
  <2>3. PICK p \in Pids : De(p, m.lectura)
    BY <2>1, <2>2 DEF DeUno
  <2> HIDE DEF m
  <2>4. v \in Seq(Nat)
    BY <1>0, <2>3, LeeNumeros DEF Escrituras
  <2> QED
    BY <1>0, <2>1, <2>4 DEF BytesEnMemoria
<1>5. CASE CopyEscribir
  <2>1. /\ memoriaUsuario' = escribir_memoria(memoriaUsuario, copia.escritura, copia.dato)
        /\ copia' = SinCopia /\ copia # SinCopia
    BY <1>5 DEF CopyEscribir
  <2>2. PICK p \in Pids : De(p, copia.escritura)
    BY <2>1 DEF Escrituras, Ajeno
  <2>3. copia'.dato \in Seq(Nat)
    BY <2>1 DEF SinCopia
  <2> QED
    BY <1>0, <1>1, <2>1, <2>2, <2>3 DEF BytesEnMemoria
<1>6. ASSUME NEW i \in Interfaces, EscribirStdin(i) PROVE BytesEnMemoria'
  <2> DEFINE m == Escrito(Pedido(i))
  <2>1. /\ memoriaUsuario' = escribir_memoria(memoriaUsuario, m.direcciones, m.dato) /\ UNCHANGED copia
        /\ aMemoria[i] # <<>> /\ EsEscritura(Pedido(i))
    BY <1>6 DEF EscribirStdin, Atender, Escrito, EsEscritura
  <2>2. EsSeq(aMemoria[i])
    BY DEF Lecturas, Consulta
  <2>3. Pedido(i) = aMemoria[i][1] /\ 1 \in DOMAIN aMemoria[i]
    BY <2>1, <2>2, SinLaCabeza DEF Pedido
  <2>4. Entra(Pedido(i))
    BY <2>3 DEF Numeros, EnInterfaces, Llevan
  <2>5. De(m.pid, m.direcciones) /\ m.dato \in Seq(Nat)
    BY <2>1, <2>4 DEF Entra
  <2> HIDE DEF m
  <2> QED
    BY <1>0, <1>1, <2>1, <2>5 DEF BytesEnMemoria
<1>7. ASSUME CPU \/ Kernel \/ Interrumpir \/ AtenderInstruccion \/ AtenderMovIn
             \/ \E i \in Interfaces : Interfaz(i) \/ Desbloquear(i) \/ LeerStdout(i)
      PROVE  UNCHANGED <<memoriaUsuario, copia>>
  <2>1. CASE Kernel \/ \E i \in Interfaces : Desbloquear(i)
    BY <2>1, NoTocaKernel DEF memoria
  <2>2. CASE \E i \in Interfaces : Interfaz(i)
    BY <2>2, NoTocaInterfaz DEF memoria
  <2>3. CASE Interrumpir \/ AtenderInstruccion \/ AtenderMovIn \/ \E i \in Interfaces : LeerStdout(i)
    BY <2>3 DEF Interrumpir, AtenderInstruccion, AtenderMovIn, LeerStdout, memoria
  <2>4. CASE CPU
    <3>1. ASSUME NEW nombres, Ejecutar(nombres) PROVE UNCHANGED memoria
      BY <3>1 DEF Ejecutar
    <3> QED
      BY <2>4, <3>1 DEF CPU, RecibirPCB, Fetch, EjecutarAritmetica, EjecutarMovIn, EjecutarMovOut,
         EjecutarCopyString, EjecutarIOCPU, Llamar, EjecutarExit, RecibirMovIn, Devolver, UsarMemoria, memoria
  <2> QED
    BY <1>7, <2>1, <2>2, <2>3, <2>4
<1> QED
  BY <1>2, <1>3, <1>4, <1>5, <1>6, <1>7, Quienes DEF MemoriaCPU

\* What the CPU sends.
LEMMA MandaMovOut ==
  ASSUME Turnos, Prestado, Conexion, Rumbo, Vivos, Registran, BienEscritos, EnSuEspacio, EjecutarMovOut
  PROVE  \E q : DeUno(q) /\ aMemoria' = Mandar(aMemoria, "CPU", q)
<1> DEFINE r == Instruccion[3]
           w == obtener_tamanio_registro(r)
           lista == Traducir(Instruccion[2], w)
           n == Avanzados[r]
           v == Bytes(n, w)
           q == enviar_valor_mov_out_cpu(lista, v, pcb_actual.pid, revisar_registro(r))
           m == deserializar_datos_mov_out(q)
<1>1. Ejecutar({"MOV_OUT"}) /\ aMemoria' = Mandar(aMemoria, "CPU", q)
  BY DEF EjecutarMovOut, UsarMemoria
<1>2. cpu.pc = "fetch" /\ deMemoria["CPU"] # <<>> /\ Instruccion[1] = "MOV_OUT"
  BY <1>1 DEF Ejecutar
<1>3. <<Avanzados[Instruccion[2]], w>> \in Accesos(Avanzados, Instruccion)
  BY <1>2 DEF Accesos
<1>4. De(ejecutando, lista) /\ ejecutando \in Pids
  BY <1>2, <1>3, DirUnAcceso, QuienEscribe DEF Traducir
<1>5. v \in Seq(Nat)
  <2>1. n \in Nat
    BY <1>2, SuInstruccion DEF Numerados
  <2>2. w \in 0 .. ANCHO
    BY <1>2, SuInstruccion, Anchos
  <2> HIDE DEF n, w
  <2> QED
    BY <2>1, <2>2, BytesDeNumero
<1>6. q.cop = "PEDIDO_MOV_OUT" /\ m.direcciones = lista /\ m.valor = v
  <2> HIDE DEF lista, v, r
  <2> QED
    BY <1>4, AplicaMovOut
<1> HIDE DEF r, w, n, lista, v, q
<1>7. DeUno(q)
  BY <1>4, <1>5, <1>6 DEF DeUno
<1> QED
  BY <1>1, <1>7

LEMMA MandaCopyString ==
  ASSUME Turnos, Prestado, EnSuEspacio, EjecutarCopyString
  PROVE  \E q : DeUno(q) /\ aMemoria' = Mandar(aMemoria, "CPU", q)
<1> DEFINE a == Traducir("DI", Instruccion[2])
           b == Traducir("SI", Instruccion[2])
           x == [escritura |-> a, lectura |-> b, tamanio |-> Instruccion[2], pid |-> pcb_actual.pid]
           q == enviar_datos_copy_string(x)
           m == deserializar_datos_copystring(q.stream)
<1>1. Ejecutar({"COPY_STRING"}) /\ aMemoria' = Mandar(aMemoria, "CPU", q)
  BY DEF EjecutarCopyString, UsarMemoria
<1>2. cpu.pc = "fetch" /\ deMemoria["CPU"] # <<>> /\ Instruccion[1] = "COPY_STRING"
  BY <1>1 DEF Ejecutar
<1>3. /\ <<Avanzados["DI"], Instruccion[2]>> \in Accesos(Avanzados, Instruccion)
      /\ <<Avanzados["SI"], Instruccion[2]>> \in Accesos(Avanzados, Instruccion)
  BY <1>2 DEF Accesos
<1>4. De(ejecutando, a) /\ De(ejecutando, b) /\ ejecutando \in Pids
  BY <1>2, <1>3, DirUnAcceso, QuienEscribe DEF Traducir
<1>5. q.cop = "PEDIDO_COPY_STRING"
  BY DEF enviar_datos_copy_string, Paquete
<1>6. m.escritura = x.escritura /\ m.lectura = x.lectura
  BY LeeCopyString
<1>7. x.escritura = a /\ x.lectura = b
  OBVIOUS
<1> HIDE DEF a, b, x, q
<1>8. DeUno(q)
  BY <1>4, <1>5, <1>6, <1>7 DEF DeUno
<1> QED
  BY <1>1, <1>8

LEMMA EnviosDeUnoPaso ==
  ASSUME Turnos, Prestado, Conexion, Rumbo, Vivos, Registran, BienEscritos, EnSuEspacio, EnviosDeUno, Next
  PROVE  EnviosDeUno'
<1> DEFINE a == aMemoria["CPU"]
<1>1. EsSeq(a) /\ \A k \in DOMAIN a : DeUno(a[k])
  BY DEF Conexion, Sirve, EnviosDeUno
<1>2. ASSUME NEW q, DeUno(q), aMemoria' = Mandar(aMemoria, "CPU", q)
      PROVE  EnviosDeUno'
  <2>1. aMemoria'["CPU"] = Append(a, q)
    BY <1>2 DEF Mandar, Conexion, Clientes
  <2> HIDE DEF a
  <2>2. \A k \in DOMAIN Append(a, q) : Append(a, q)[k] = q \/ (k \in DOMAIN a /\ Append(a, q)[k] = a[k])
    BY <1>1, AlFinal
  <2>3. \A k \in DOMAIN Append(a, q) : DeUno(Append(a, q)[k])
    BY <1>1, <1>2, <2>2
  <2> QED
    BY <2>1, <2>3 DEF EnviosDeUno, DeUno
<1>3. CASE aMemoria'["CPU"] = a \/ (a # <<>> /\ aMemoria'["CPU"] = Tail(a))
  <2> HIDE DEF a
  <2>1. \A k \in DOMAIN aMemoria'["CPU"] : \E j \in DOMAIN a : aMemoria'["CPU"][k] = a[j]
    BY <1>1, <1>3, QuedaDeLaCola
  <2>2. \A k \in DOMAIN aMemoria'["CPU"] : DeUno(aMemoria'["CPU"][k])
    BY <1>1, <2>1
  <2> QED
    BY <2>2 DEF EnviosDeUno, DeUno
<1>4. CASE Fetch
  <2> DEFINE q == pedir_instruccion_memoria(pcb_actual.pid, pcb_actual.registros["PC"])
  <2>1. aMemoria' = Mandar(aMemoria, "CPU", q)
    BY <1>4 DEF Fetch
  <2>2. DeUno(q)
    BY DEF DeUno, pedir_instruccion_memoria, Paquete
  <2> HIDE DEF q
  <2> QED
    BY <1>2, <2>1, <2>2
<1>5. CASE EjecutarMovIn
  <2> DEFINE q == enviar_valor_mov_in_cpu(
                    Traducir(Instruccion[3], obtener_tamanio_registro(Instruccion[2])), pcb_actual.pid)
  <2>1. aMemoria' = Mandar(aMemoria, "CPU", q)
    BY <1>5 DEF EjecutarMovIn, UsarMemoria
  <2>2. q.cop = "PEDIDO_MOV_IN"
    BY DEF enviar_valor_mov_in_cpu
  <2> HIDE DEF q
  <2>3. DeUno(q)
    BY <2>2 DEF DeUno
  <2> QED
    BY <1>2, <2>1, <2>3
<1>6. CASE EjecutarMovOut
  BY <1>2, <1>6, MandaMovOut
<1>7. CASE EjecutarCopyString
  BY <1>2, <1>7, MandaCopyString
<1>8. CASE RecibirPCB \/ EjecutarAritmetica \/ EjecutarIOCPU \/ Llamar \/ EjecutarExit \/ RecibirMovIn \/ Devolver
  <2>1. aMemoria' = aMemoria
    BY <1>8 DEF RecibirPCB, EjecutarAritmetica, EjecutarIOCPU, Llamar, EjecutarExit, RecibirMovIn, Devolver, canalesM
  <2> QED
    BY <1>3, <2>1
<1>9. CASE ~CPU
  BY <1>3, <1>9, FueraDelCPU
<1> QED
  BY <1>4, <1>5, <1>6, <1>7, <1>8, <1>9 DEF CPU

-----------------------------------------------------------------------------
(* The interfaces' data                                                     *)

\* The names of the fields of a packet.
LEMMA NombresDe ==
  /\ \A a, b, c : {<<a, b, c>>[k] : k \in DOMAIN <<a, b, c>>} = {a, b, c}
  /\ \A a, b, c, d : {<<a, b, c, d>>[k] : k \in DOMAIN <<a, b, c, d>>} = {a, b, c, d}
  /\ \A a, b, c, d, e, f :
       {<<a, b, c, d, e, f>>[k] : k \in DOMAIN <<a, b, c, d, e, f>>} = {a, b, c, d, e, f}
<1>1. ASSUME NEW a, NEW b, NEW c
      PROVE  {<<a, b, c>>[k] : k \in DOMAIN <<a, b, c>>} = {a, b, c}
  <2>1. DOMAIN <<a, b, c>> = {1, 2, 3}
    OBVIOUS
  <2> QED
    BY <2>1
<1>2. ASSUME NEW a, NEW b, NEW c, NEW d
      PROVE  {<<a, b, c, d>>[k] : k \in DOMAIN <<a, b, c, d>>} = {a, b, c, d}
  <2>1. DOMAIN <<a, b, c, d>> = {1, 2, 3, 4}
    OBVIOUS
  <2> QED
    BY <2>1
<1>3. ASSUME NEW a, NEW b, NEW c, NEW d, NEW e, NEW f
      PROVE  {<<a, b, c, d, e, f>>[k] : k \in DOMAIN <<a, b, c, d, e, f>>} = {a, b, c, d, e, f}
  <2>1. DOMAIN <<a, b, c, d, e, f>> = {1, 2, 3, 4, 5, 6}
    OBVIOUS
  <2> QED
    BY <2>1
<1> QED
  BY <1>1, <1>2, <1>3

\* The fields an interface's reader takes.
LEMMA CamposLeidos ==
  ASSUME NEW p, NEW y, y.pc = "trabajar", y.cop = p.cop, y.m = LeerPedido(p)
  PROVE  ConCampos(y)
<1>1. ASSUME NEW campos, NEW s PROVE DOMAIN Deserializar(campos, s) = {campos[k] : k \in DOMAIN campos}
  BY DEF Deserializar, Range
<1>2. ASSUME NEW s
      PROVE  /\ DOMAIN deserializar_InterfazGenerica(s) = {"unidades_de_trabajo", "pid", "nombre_interfaz"}
             /\ DOMAIN deserializar_InterfazStdin(s) = {"pid", "nombre_interfaz", "direcciones"}
             /\ DOMAIN deserializar_InterfazStdout(s) = {"pid", "nombre_interfaz", "direcciones"}
             /\ DOMAIN deserializar_interfaz_dialfs_create_delete(s) = {"pid", "nombre_archivo", "nombre_interfaz"}
  <2>1. ASSUME NEW a, NEW b, NEW c PROVE DOMAIN Deserializar(<<a, b, c>>, s) = {a, b, c}
    <3>1. PICK t : t = <<a, b, c>>
      OBVIOUS
    <3>2. DOMAIN Deserializar(t, s) = {t[k] : k \in DOMAIN t}
      BY <1>1
    <3> QED
      BY <3>1, <3>2, NombresDe
  <2> QED
    BY <2>1 DEF deserializar_InterfazGenerica, deserializar_InterfazStdin, deserializar_InterfazStdout,
       deserializar_interfaz_dialfs_create_delete
<1>3. ASSUME NEW s
      PROVE  /\ DOMAIN deserializar_interfaz_dialfs_truncate(s)
                  = {"pid", "nombre_archivo", "nombre_interfaz", "tamanio"}
             /\ DOMAIN deserializar_interfaz_dialfs_write_read(s)
                  = {"pid", "nombre_archivo", "nombre_interfaz", "tamanio", "direcciones", "puntero"}
  <2>1. PICK t : t = <<"pid", "nombre_archivo", "nombre_interfaz", "tamanio">>
    OBVIOUS
  <2>2. DOMAIN Deserializar(t, s) = {t[k] : k \in DOMAIN t}
    BY <1>1
  <2>3. {t[k] : k \in DOMAIN t} = {"pid", "nombre_archivo", "nombre_interfaz", "tamanio"}
    BY <2>1, NombresDe
  <2>4. PICK u : u = <<"pid", "nombre_archivo", "nombre_interfaz", "tamanio", "direcciones", "puntero">>
    OBVIOUS
  <2>5. DOMAIN Deserializar(u, s) = {u[k] : k \in DOMAIN u}
    BY <1>1
  <2>6. {u[k] : k \in DOMAIN u} = {"pid", "nombre_archivo", "nombre_interfaz", "tamanio", "direcciones", "puntero"}
    BY <2>4, NombresDe
  <2> QED
    BY <2>1, <2>2, <2>3, <2>4, <2>5, <2>6
       DEF deserializar_interfaz_dialfs_truncate, deserializar_interfaz_dialfs_write_read
<1>4. ASSUME NEW cop, NEW s
      PROVE  /\ "pid" \in DOMAIN deserializar_InterfazDialfs(cop, s)
             /\ "dato" \notin DOMAIN deserializar_InterfazDialfs(cop, s)
             /\ cop = "PEDIDO_IO_FS_READ" => "tamanio" \in DOMAIN deserializar_InterfazDialfs(cop, s)
  <2> DEFINE x == deserializar_interfaz_dialfs_create_delete(s)
             v == deserializar_interfaz_dialfs_truncate(s)
             w == deserializar_interfaz_dialfs_write_read(s)
  <2>1. /\ "pid" \in DOMAIN x /\ "pid" \in DOMAIN v /\ "pid" \in DOMAIN w
        /\ "dato" \notin DOMAIN x /\ "dato" \notin DOMAIN v /\ "dato" \notin DOMAIN w /\ "tamanio" \in DOMAIN w
    BY <1>2, <1>3
  <2> HIDE DEF x, v, w
  <2>2. deserializar_InterfazDialfs(cop, s) =
          CASE cop \in {"PEDIDO_IO_FS_CREATE", "PEDIDO_IO_FS_DELETE"} -> x
            [] cop = "PEDIDO_IO_FS_TRUNCATE" -> v
            [] OTHER -> w
    BY DEF deserializar_InterfazDialfs, x, v, w
  <2> QED
    BY <2>1, <2>2
<1> DEFINE x == deserializar_InterfazGenerica(p.stream)
           u == deserializar_InterfazStdin(p.stream)
           v == deserializar_InterfazStdout(p.stream)
           w == deserializar_InterfazDialfs(p.cop, p.stream)
<1>5. /\ "pid" \in DOMAIN x /\ "pid" \in DOMAIN u /\ "pid" \in DOMAIN v /\ "pid" \in DOMAIN w
      /\ "dato" \notin DOMAIN x /\ "dato" \notin DOMAIN u /\ "dato" \notin DOMAIN v /\ "dato" \notin DOMAIN w
      /\ p.cop = "PEDIDO_IO_FS_READ" => "tamanio" \in DOMAIN w
  BY <1>2, <1>4
<1> HIDE DEF x, u, v, w
<1>6. LeerPedido(p) = CASE p.cop = "PEDIDO_IO_GEN_SLEEP" -> x
                        [] p.cop = "PEDIDO_IO_STDIN_READ" -> u
                        [] p.cop = "PEDIDO_IO_STDOUT_WRITE" -> v
                        [] OTHER -> w
  BY DEF LeerPedido, x, u, v, w
<1> QED
  BY <1>5, <1>6 DEF ConCampos

\* What interface i was asked for.
LEMMA LoPedido ==
  ASSUME InvCiclo, NEW i \in Interfaces, interfaz[i].pc # "recv",
         interfaz[i].cop \in {"PEDIDO_IO_STDIN_READ", "PEDIDO_IO_FS_READ"}, NEW m, m = interfaz[i].m
  PROVE  /\ m.pid \in Pids /\ De(m.pid, m.direcciones) /\ "direcciones" \in DOMAIN m
         /\ \A c \in DOMAIN m \ {"pid"} : m[c] = pedido[m.pid][c]
         /\ interfaz[i].cop = CodigoDe(pedido[m.pid].instruccion)
         /\ EsEntrada(pedido[m.pid].instruccion)
<1> DEFINE q == pedido[m.pid]
<1>1. Fiel(i, interfaz[i].cop, m, bloqueados, pedido)
  BY DEF InvCiclo, Pedidos, Camino, EnCamino
<1>2. /\ Bueno(m.pid, q) /\ interfaz[i].cop = CodigoDe(q.instruccion)
      /\ q.instruccion \in ConDirecciones <=> "direcciones" \in DOMAIN m
      /\ \A c \in DOMAIN m \ {"pid"} : m[c] = q[c]
  BY <1>1 DEF Fiel
<1> HIDE DEF q
<1>3. q.instruccion \in InstruccionesIO
  BY <1>2 DEF Bueno
<1>4. q.instruccion \in {"IO_STDIN_READ", "IO_FS_READ"}
  BY <1>2, <1>3 DEF CodigoDe, InstruccionesIO, InstruccionesDialFS
<1>5. "direcciones" \in DOMAIN m
  BY <1>2, <1>4 DEF ConDirecciones
<1>6. m.pid \in Pids /\ De(m.pid, m.direcciones)
  BY <1>5, DeQuienPidio
<1> QED
  BY <1>2, <1>4, <1>5, <1>6 DEF EsEntrada, q

\* The data an interface sends to be written, with the process's addresses.
LEMMA LlevaEntrada ==
  ASSUME NEW m, "pid" \in DOMAIN m, "dato" \notin DOMAIN m, "direcciones" \in DOMAIN m,
         NEW dato, NEW q, q = enviar_dato_stdin(Junto(m, [dato |-> dato]))
  PROVE  /\ EsEscritura(q) /\ Escrito(q).pid = m.pid /\ Escrito(q).direcciones = m.direcciones
         /\ Escrito(q).dato = HastaCero(dato)
<1> DEFINE n == [dato |-> dato]
           j == Junto(m, n)
           x == [j EXCEPT !.dato = HastaCero(@)]
           campos == <<"dato", "direcciones", "pid">>
<1>1. DOMAIN n = {"dato"} /\ n["dato"] = dato
  OBVIOUS
<1> HIDE DEF n
<1>2. DOMAIN j = DOMAIN m \cup {"dato"} /\ j["dato"] = dato /\ j["pid"] = m["pid"]
      /\ j["direcciones"] = m["direcciones"]
  <2>1. DOMAIN j = DOMAIN m \cup DOMAIN n
    BY EnJunto
  <2>2. \A c \in DOMAIN m : j[c] = m[c]
    BY EnJunto
  <2>3. \A c \in DOMAIN n \ DOMAIN m : j[c] = n[c]
    BY EnJunto
  <2>4. "dato" \in DOMAIN n \ DOMAIN m
    BY <1>1
  <2> HIDE DEF j
  <2> QED
    BY <1>1, <2>1, <2>2, <2>3, <2>4
<1> HIDE DEF j
<1>3. x["dato"] = HastaCero(dato) /\ x["pid"] = m["pid"] /\ x["direcciones"] = m["direcciones"]
  BY <1>2
<1>4. q = Paquete("PEDIDO_ESCRIBIR_DATO_STDIN", Serializar(campos, x))
  BY DEF enviar_dato_stdin, j, n
<1> HIDE DEF x
<1>5. {"dato", "direcciones", "pid"} \subseteq Range(campos)
  BY DEF Range
<1>6. Deserializar(campos, Serializar(campos, x)) = [c \in Range(campos) |-> x[c]]
  BY IdaYVuelta
<1>7. Escrito(q) = Deserializar(campos, q.stream) /\ q.stream = Serializar(campos, x)
      /\ q.cop = "PEDIDO_ESCRIBIR_DATO_STDIN"
  BY <1>4 DEF Escrito, deserializar_dato_interfaz_STDIN, Paquete
<1> HIDE DEF campos
<1>8. Escrito(q) = [c \in Range(campos) |-> x[c]]
  BY <1>6, <1>7
<1>9. Escrito(q)["dato"] = x["dato"] /\ Escrito(q)["pid"] = x["pid"]
      /\ Escrito(q)["direcciones"] = x["direcciones"]
  BY <1>5, <1>8
<1> QED
  BY <1>3, <1>7, <1>9 DEF EsEscritura

\* A step of interface i leaves what the others carry.
LEMMA LlevanDe ==
  ASSUME Conexion, Pedidos, EnInterfaces, NEW i \in Interfaces, NEW y, NEW a, NEW d, Llevan(y, a, d),
         interfaz' = [interfaz EXCEPT ![i] = y] \/ (UNCHANGED interfaz /\ y = interfaz[i]),
         aMemoria' = [aMemoria EXCEPT ![i] = a] \/ (UNCHANGED aMemoria /\ a = aMemoria[i]),
         deMemoria' = [deMemoria EXCEPT ![i] = d] \/ (UNCHANGED deMemoria /\ d = deMemoria[i])
  PROVE  EnInterfaces'
<1>1. DOMAIN interfaz = Interfaces
  BY DEF Pedidos
<1>2. DOMAIN aMemoria = Clientes /\ DOMAIN deMemoria = Clientes /\ Interfaces \subseteq Clientes
  BY DEF Conexion, Clientes
<1>3. interfaz'[i] = y /\ \A j \in Interfaces : j # i => interfaz'[j] = interfaz[j]
  BY <1>1
<1>4. aMemoria'[i] = a /\ \A j \in Interfaces : j # i => aMemoria'[j] = aMemoria[j]
  BY <1>2
<1>5. deMemoria'[i] = d /\ \A j \in Interfaces : j # i => deMemoria'[j] = deMemoria[j]
  BY <1>2
<1>6. ASSUME NEW j \in Interfaces PROVE Llevan(interfaz'[j], aMemoria'[j], deMemoria'[j])
  <2>1. CASE j = i
    BY <1>3, <1>4, <1>5, <2>1
  <2>2. CASE j # i
    <3>1. Llevan(interfaz[j], aMemoria[j], deMemoria[j])
      BY DEF EnInterfaces
    <3> QED
      BY <1>3, <1>4, <1>5, <2>2, <3>1
  <2> QED
    BY <2>1, <2>2
<1> QED
  BY <1>6 DEF EnInterfaces

LEMMA LlevanAparte ==
  ASSUME EnInterfaces, UNCHANGED interfaz,
         \A i \in Interfaces : aMemoria'[i] = aMemoria[i] /\ deMemoria'[i] = deMemoria[i]
  PROVE  EnInterfaces'
  BY DEF EnInterfaces

\* One more message at the end, and one less at the head.
LEMMA LlevanMas ==
  ASSUME NEW z, NEW a, NEW d, Llevan(z, a, d), EsSeq(a), EsSeq(d), NEW y, ConCampos(y)
  PROVE  /\ Llevan(y, a, d)
         /\ \A q : Entra(q) => Llevan(y, Append(a, q), d)
         /\ a # <<>> => Llevan(y, Tail(a), d)
         /\ a # <<>> => \A r : Sale(r) => Llevan(y, Tail(a), Append(d, r))
         /\ d # <<>> => Llevan(y, a, Tail(d))
<1>1. (\A k \in DOMAIN a : Entra(a[k])) /\ (\A k \in DOMAIN d : Sale(d[k]))
  BY DEF Llevan
<1>2. ASSUME NEW q, Entra(q) PROVE \A k \in DOMAIN Append(a, q) : Entra(Append(a, q)[k])
  <2>1. \A k \in DOMAIN Append(a, q) : Append(a, q)[k] = q \/ (k \in DOMAIN a /\ Append(a, q)[k] = a[k])
    BY AlFinal
  <2> QED
    BY <1>1, <1>2, <2>1
<1>3. ASSUME NEW r, Sale(r) PROVE \A k \in DOMAIN Append(d, r) : Sale(Append(d, r)[k])
  <2>1. \A k \in DOMAIN Append(d, r) : Append(d, r)[k] = r \/ (k \in DOMAIN d /\ Append(d, r)[k] = d[k])
    BY AlFinal
  <2> QED
    BY <1>1, <1>3, <2>1
<1>4. a # <<>> => \A k \in DOMAIN Tail(a) : Entra(Tail(a)[k])
  BY <1>1, SinLaCabeza
<1>5. d # <<>> => \A k \in DOMAIN Tail(d) : Sale(Tail(d)[k])
  BY <1>1, SinLaCabeza
<1> QED
  BY <1>1, <1>2, <1>3, <1>4, <1>5 DEF Llevan

\* What an interface that reads sends to be written is its process's and numbers.
LEMMA EnviaEntrada ==
  ASSUME InvCiclo, EnInterfaces, NEW i \in Interfaces, interfaz[i].pc # "recv",
         interfaz[i].cop \in {"PEDIDO_IO_STDIN_READ", "PEDIDO_IO_FS_READ"},
         NEW m, m = interfaz[i].m, NEW dato
  PROVE  LET q == enviar_dato_stdin(Junto(m, [dato |-> dato]))
         IN  /\ EsEscritura(q) /\ Escrito(q).pid = m.pid
             /\ dato \in Seq(Nat) => Entra(q)
<1> DEFINE q == enviar_dato_stdin(Junto(m, [dato |-> dato]))
<1>1. /\ m.pid \in Pids /\ De(m.pid, m.direcciones) /\ "direcciones" \in DOMAIN m
  BY LoPedido
<1>2. "pid" \in DOMAIN m /\ "dato" \notin DOMAIN m
  BY DEF EnInterfaces, Llevan, ConCampos
<1>3. /\ EsEscritura(q) /\ Escrito(q).pid = m.pid /\ Escrito(q).direcciones = m.direcciones
      /\ Escrito(q).dato = HastaCero(dato)
  BY <1>1, <1>2, LlevaEntrada
<1>4. dato \in Seq(Nat) => HastaCero(dato) \in Seq(Nat)
  BY HastaCeroNumeros
<1> HIDE DEF q
<1>5. dato \in Seq(Nat) => Entra(q)
  BY <1>1, <1>3, <1>4 DEF Entra
<1> QED
  BY <1>3, <1>5 DEF q

\* The bytes of the file that are read.
LEMMA LeeArchivo ==
  ASSUME InvCiclo, EnInterfaces, EnArchivo, NEW i \in Interfaces, interfaz[i].pc # "recv",
         interfaz[i].cop = "PEDIDO_IO_FS_READ"
  PROVE  SubSeq(archivo, Atoi(interfaz[i].m.puntero) + 1, Atoi(interfaz[i].m.puntero) + interfaz[i].m.tamanio)
           \in Seq(Nat)
<1> DEFINE m == interfaz[i].m
           n == m.tamanio
           q == pedido[m.pid]
<1>1. "tamanio" \in DOMAIN m
  BY DEF EnInterfaces, Llevan, ConCampos
<1>2. /\ m.pid \in Pids /\ \A c \in DOMAIN m \ {"pid"} : m[c] = q[c]
      /\ interfaz[i].cop = CodigoDe(q.instruccion) /\ EsEntrada(q.instruccion)
  BY LoPedido
<1>3. AlArchivo(q)
  <2>1. m.pid \in bloqueados
    BY DeQuienPidio
  <2> QED
    BY <1>2, <2>1 DEF EnArchivo, EnPedido
<1> HIDE DEF q
<1>4. q.instruccion = "IO_FS_READ"
  BY <1>2 DEF CodigoDe, EsEntrada
<1>5. n \in 0 .. TAM_ARCHIVO
  <2>1. m["tamanio"] = q["tamanio"]
    BY <1>1, <1>2
  <2> QED
    BY <1>3, <1>4, <2>1 DEF AlArchivo
<1> HIDE DEF n
<1>6. archivo \in [1 .. TAM_ARCHIVO -> Nat] /\ TAM_ARCHIVO \in Nat
  BY ConstantesMaquina DEF EnArchivo
<1>7. archivo \in Seq(Nat) /\ Len(archivo) = TAM_ARCHIVO
  BY <1>6
<1>8. SubSeq(archivo, 1, n) \in Seq(Nat)
  BY <1>5, <1>6, <1>7
<1> QED
  BY <1>8 DEF Atoi, n

\* What interfaces hold, and exchange with memory, after any step.
LEMMA EnInterfacesPaso ==
  ASSUME InvSalida, Numeros, Next
  PROVE  EnInterfaces'
<1>0. Conexion /\ Pedidos /\ EnInterfaces /\ InvCiclo /\ Lecturas
  BY DEF InvSalida, InvCiclo, Numeros
<1>1. CASE CPU \/ MemoriaCPU
  <2>1. UNCHANGED interfaz
    BY <1>1, NoTocaCPU, NoTocaMemoria DEF io
  <2> QED
    BY <1>0, <1>1, <2>1, ConexionDeCPU, LlevanAparte
<1>2. CASE Kernel \/ \E i \in Interfaces : Desbloquear(i)
  <2>1. UNCHANGED <<interfaz, aMemoria, deMemoria>>
    BY <1>2, NoTocaKernel DEF io, canalesM
  <2> QED
    BY <1>0, <2>1, LlevanAparte
<1>3. CASE Interrumpir
  <2>1. UNCHANGED <<interfaz, aMemoria, deMemoria>>
    BY <1>3 DEF Interrumpir, io, canalesM
  <2> QED
    BY <1>0, <2>1, LlevanAparte
<1>4. ASSUME NEW i \in Interfaces, Interfaz(i) \/ EscribirStdin(i) \/ LeerStdout(i)
      PROVE  EnInterfaces'
  <2> DEFINE z == interfaz[i]
             a == aMemoria[i]
             d == deMemoria[i]
  <2>1. Llevan(z, a, d) /\ Consulta(z, a, d) /\ EsSeq(a) /\ EsSeq(d)
    BY <1>0, <1>4 DEF EnInterfaces, Lecturas, Consulta
  <2>2. DOMAIN z = {"pc", "cop", "m"}
    BY <1>0, <1>4 DEF Pedidos, Camino, EnCamino
  <2>3. ASSUME NEW y, NEW b, NEW e, Llevan(y, b, e),
               interfaz' = [interfaz EXCEPT ![i] = y] \/ (UNCHANGED interfaz /\ y = z),
               aMemoria' = [aMemoria EXCEPT ![i] = b] \/ (UNCHANGED aMemoria /\ b = a),
               deMemoria' = [deMemoria EXCEPT ![i] = e] \/ (UNCHANGED deMemoria /\ e = d)
        PROVE  EnInterfaces'
    BY <1>0, <1>4, <2>3, LlevanDe
  <2>4. ConCampos(Ociosa) /\ ConCampos(z)
    BY <2>1 DEF Ociosa, ConCampos, Llevan
  <2> HIDE DEF z, a, d
  <2>5. CASE RecibirPedido(i)
    <3> DEFINE p == Head(aInterfaz[i])
               y == [pc |-> "trabajar", cop |-> p.cop, m |-> LeerPedido(p)]
    <3>1. /\ interfaz' = [interfaz EXCEPT ![i] = y]
          /\ UNCHANGED <<aMemoria, deMemoria>>
      BY <2>5 DEF RecibirPedido, canalesM
    <3>2. y.pc = "trabajar" /\ y.cop = p.cop /\ y.m = LeerPedido(p)
      OBVIOUS
    <3> HIDE DEF y, p
    <3>3. ConCampos(y)
      BY <3>2, CamposLeidos
    <3>4. Llevan(y, a, d)
      BY <2>1, <3>3, LlevanMas
    <3> QED
      BY <2>3, <3>1, <3>4
  <2>6. CASE procesar_sleep(i)
    <3>1. /\ interfaz' = [interfaz EXCEPT ![i] = Ociosa] /\ UNCHANGED <<aMemoria, deMemoria>>
      BY <2>6 DEF procesar_sleep, Trabaja, Responder
    <3>2. Llevan(Ociosa, a, d)
      BY <2>1, <2>4, LlevanMas
    <3> QED
      BY <2>3, <3>1, <3>2
  <2>7. CASE procesar_stdin(i) \/ procesar_dialfs_read(i)
    <3>1. PICK dato : /\ EnviarEntrada(i, dato) /\ dato \in Seq(Nat) /\ UNCHANGED deMemoria /\ z.pc = "trabajar"
                      /\ z.cop \in {"PEDIDO_IO_STDIN_READ", "PEDIDO_IO_FS_READ"}
      <4>1. CASE procesar_stdin(i)
        BY <4>1, ConstantesMaquina DEF procesar_stdin, Trabaja, z
      <4>2. CASE procesar_dialfs_read(i)
        <5>1. /\ interfaz[i].pc = "trabajar" /\ interfaz[i].cop = "PEDIDO_IO_FS_READ" /\ UNCHANGED deMemoria
              /\ EnviarEntrada(i, SubSeq(archivo, Atoi(interfaz[i].m.puntero) + 1,
                                         Atoi(interfaz[i].m.puntero) + interfaz[i].m.tamanio))
          BY <4>2 DEF procesar_dialfs_read, Trabaja
        <5>2. SubSeq(archivo, Atoi(interfaz[i].m.puntero) + 1,
                     Atoi(interfaz[i].m.puntero) + interfaz[i].m.tamanio) \in Seq(Nat)
          BY <1>0, <1>4, <5>1, LeeArchivo DEF Numeros
        <5> QED
          BY <5>1, <5>2 DEF z
      <4> QED
        BY <2>7, <4>1, <4>2
    <3> DEFINE q == enviar_dato_stdin(Junto(interfaz[i].m, [dato |-> dato]))
    <3>2. /\ interfaz' = [interfaz EXCEPT ![i] = Ociosa]
          /\ aMemoria' = [aMemoria EXCEPT ![i] = Append(a, q)] /\ UNCHANGED deMemoria
      BY <3>1 DEF EnviarEntrada, Responder, Mandar, a
    <3>3. Entra(q)
      BY <1>0, <1>4, <3>1, EnviaEntrada DEF z
    <3> HIDE DEF q
    <3>4. Llevan(Ociosa, Append(a, q), d)
      BY <2>1, <2>4, <3>3, LlevanMas
    <3> QED
      BY <2>3, <3>2, <3>4
  <2>8. CASE PedirDato(i)
    <3> DEFINE y == [z EXCEPT !.pc = "esperar"]
               q == enviar_direcciones_stdout(z.m)
    <3>1. /\ z.pc = "trabajar" /\ interfaz' = [interfaz EXCEPT ![i] = y]
          /\ aMemoria' = [aMemoria EXCEPT ![i] = Append(a, q)] /\ UNCHANGED deMemoria
      BY <2>8 DEF PedirDato, Trabaja, Mandar, z, a
    <3>2. y.cop = z.cop /\ y.m = z.m
      BY <2>2
    <3>3. Entra(q)
      BY LeeDirecciones DEF Entra, EsEscritura
    <3>4. ConCampos(y)
      BY <2>4, <3>1, <3>2 DEF ConCampos
    <3> HIDE DEF y, q
    <3>5. Llevan(y, Append(a, q), d)
      BY <2>1, <3>3, <3>4, LlevanMas
    <3> QED
      BY <2>3, <3>1, <3>5
  <2>9. CASE RecibirDato(i)
    <3>1. /\ d # <<>> /\ deMemoria' = [deMemoria EXCEPT ![i] = Tail(d)]
          /\ interfaz' = [interfaz EXCEPT ![i] = Ociosa] /\ UNCHANGED aMemoria
      BY <2>9 DEF RecibirDato, Responder, d
    <3>2. Llevan(Ociosa, a, Tail(d))
      BY <2>1, <2>4, <3>1, LlevanMas
    <3> QED
      BY <2>3, <3>1, <3>2
  <2>10. CASE EscribirStdin(i)
    <3>1. /\ a # <<>> /\ aMemoria' = [aMemoria EXCEPT ![i] = Tail(a)] /\ UNCHANGED <<deMemoria, interfaz>>
      BY <2>10 DEF EscribirStdin, Atender, a, io
    <3>2. Llevan(z, Tail(a), d)
      BY <2>1, <2>4, <3>1, LlevanMas
    <3> QED
      BY <2>3, <3>1, <3>2
  <2>11. CASE LeerStdout(i)
    <3> DEFINE lista == deserializar_direcciones_de_stdout(Pedido(i).stream).direcciones
               v == leer_memoria(memoriaUsuario, lista)
               r == enviar_dato_leido(v)
    <3>1. /\ a # <<>> /\ Pedido(i) = Head(a) /\ Head(a).cop = "PEDIDO_A_LEER_DATO_STDOUT"
          /\ aMemoria' = [aMemoria EXCEPT ![i] = Tail(a)]
          /\ deMemoria' = [deMemoria EXCEPT ![i] = Append(d, r)] /\ UNCHANGED interfaz
      BY <2>11 DEF LeerStdout, Atender, Pedido, Mandar, a, d, io
    <3>2. Head(a) = a[1] /\ 1 \in DOMAIN a
      BY <2>1, <3>1, SinLaCabeza
    <3>3. z.pc = "esperar" /\ lista = z.m.direcciones
          /\ z.cop \in {"PEDIDO_IO_STDOUT_WRITE", "PEDIDO_IO_FS_WRITE"}
      BY <2>1, <3>1, <3>2 DEF Consulta
    <3>4. PICK p \in Pids : De(p, lista)
      BY <1>0, <1>4, <3>3, DeQuienPidio DEF z
    <3> HIDE DEF lista
    <3>5. v \in Seq(Nat)
      BY <3>4, LeeNumeros DEF InvSalida, Escrituras, Numeros, BytesEnMemoria
    <3> HIDE DEF v
    <3>6. HastaCero(v) \in Seq(Nat)
      BY <3>5, HastaCeroNumeros
    <3>7. Sale(r)
      BY <3>6 DEF Sale, enviar_dato_leido, Paquete, deserializar_dato_interfaz_STDOUT
    <3> HIDE DEF r
    <3>8. Llevan(z, Tail(a), Append(d, r))
      BY <2>1, <2>4, <3>1, <3>7, LlevanMas
    <3> QED
      BY <2>3, <3>1, <3>8
  <2> QED
    BY <1>4, <2>5, <2>6, <2>7, <2>8, <2>9, <2>10, <2>11 DEF Interfaz
<1> QED
  BY <1>1, <1>2, <1>3, <1>4, Quienes

\* Nothing but an instruction of I/O asks for I/O.
LEMMA NadieMasPide ==
  ASSUME Turnos, Prestado, Conexion, Next, ~EjecutarIOCPU, NEW p \in Pids, EnPedido(p)'
  PROVE  EnPedido(p) /\ UNCHANGED pedido
<1>0. DOMAIN pcb_actual = CamposPCB
  BY DEF Prestado
<1>1. CASE CPU
  <2>1. ASSUME NEW nombres, Ejecutar(nombres) PROVE UNCHANGED <<bloqueados, ejecutando>> /\ respuesta' = <<>>
    BY <2>1 DEF Ejecutar, kernel, Prestado
  <2>2. UNCHANGED <<bloqueados, ejecutando, pedido>>
    BY <1>1, <2>1 DEF CPU, RecibirPCB, Fetch, EjecutarAritmetica, EjecutarMovIn, EjecutarMovOut,
       EjecutarCopyString, Llamar, EjecutarExit, RecibirMovIn, Devolver, UsarMemoria, kernel, historia
  <2>3. CASE RecibirPCB \/ Fetch \/ EjecutarAritmetica \/ EjecutarMovIn \/ EjecutarMovOut
             \/ EjecutarCopyString \/ RecibirMovIn
    BY <2>2, <2>3, SigueEnSuTurno DEF EnPedido
  <2>4. CASE Llamar
    BY <2>2, <2>4 DEF Llamar, EnPedido
  <2>5. CASE EjecutarExit
    <3>1. respuesta' = <<>> /\ cpu'.pc = "devolver"
      BY <2>1, <2>5 DEF EjecutarExit, Seguir
    <3> QED
      BY <2>2, <3>1 DEF EnPedido
  <2>6. CASE Devolver
    BY <2>2, <2>6 DEF Devolver, Prestado, EnPedido
  <2> QED
    BY <1>1, <2>3, <2>4, <2>5, <2>6 DEF CPU
<1>2. CASE ~CPU
  <2>1. /\ UNCHANGED cpu
        /\ pcb_actual'.motivo_desalojo \in {pcb_actual.motivo_desalojo, "INTERRUPCION_FIN_QUANTUM"}
        /\ respuesta' # <<>> => respuesta # <<>>
    BY <1>2, FueraDelCPU
  <2>2. CASE Kernel
    <3>1. UNCHANGED <<pedido, pcb_actual>>
      BY <2>2, NoTocaKernel DEF procesador
    <3>2. CASE Despachar
      BY <3>1, <3>2, ConstantesCiclo DEF Despachar, EnPedido, Prestado, procesador
    <3>3. ASSUME NEW motivo, Volver(motivo), motivo # "INTERRUPCION_BLOQUEO", UNCHANGED bloqueados
          PROVE  EnPedido(p)
      <4>1. ejecutando' = NULL
        BY <3>3 DEF Volver
      <4> QED
        BY <3>3, <4>1, ConstantesCiclo DEF EnPedido
    <3>4. ASSUME Volver("INTERRUPCION_BLOQUEO"), bloqueados' \subseteq bloqueados \cup {ejecutando}
          PROVE  EnPedido(p)
      <4>1. ejecutando' = NULL /\ respuesta # <<>> /\ pcb_actual.motivo_desalojo = "INTERRUPCION_BLOQUEO"
        BY <3>4, VolverIgual DEF Volver
      <4> QED
        BY <3>4, <4>1, ConstantesCiclo DEF EnPedido
    <3> QED
      BY <2>2, <3>1, <3>2, <3>3, <3>4 DEF Kernel, FinDeQuantum, Finalizar, EjecutarIO, RechazarIO
  <2>3. CASE \E i \in Interfaces : Desbloquear(i)
    BY <2>3 DEF Desbloquear, EnPedido, procesador, historia
  <2>4. CASE MemoriaCPU \/ \E i \in Interfaces : EscribirStdin(i) \/ LeerStdout(i)
    BY <2>4, NoTocaMemoria DEF EnPedido, procesador, kernel
  <2>5. CASE \E i \in Interfaces : Interfaz(i)
    BY <2>5, NoTocaInterfaz DEF EnPedido, procesador, kernel, historia
  <2>6. CASE Interrumpir
    BY <2>1, <2>6 DEF Interrumpir, EnPedido, kernel
  <2> QED
    BY <1>2, <2>2, <2>3, <2>4, <2>5, <2>6, Quienes
<1> QED
  BY <1>1, <1>2

LEMMA EnArchivoPaso ==
  ASSUME Turnos, Prestado, Conexion, Lecturas, EnSuArchivo, EnInterfaces, EnArchivo, Next
  PROVE  EnArchivo'
<1>1. archivo' \in [1 .. TAM_ARCHIVO -> Nat]
  <2>1. archivo \in [1 .. TAM_ARCHIVO -> Nat]
    BY DEF EnArchivo
  <2>2. ASSUME NEW i \in Interfaces, RecibirDato(i) PROVE archivo' \in [1 .. TAM_ARCHIVO -> Nat]
    <3> DEFINE d == deMemoria[i]
               dato == deserializar_dato_interfaz_STDOUT(Head(d).stream)
               p == Atoi(interfaz[i].m.puntero)
    <3>1. /\ d # <<>>
          /\ archivo' = IF interfaz[i].cop = "PEDIDO_IO_STDOUT_WRITE" THEN archivo
                        ELSE [b \in DOMAIN archivo |-> IF b - p \in DOMAIN dato THEN dato[b - p] ELSE archivo[b]]
      BY <2>2 DEF RecibirDato
    <3>2. EsSeq(d) /\ \A k \in DOMAIN d : Sale(d[k])
      BY DEF EnInterfaces, Llevan, Lecturas, Consulta
    <3>3. Sale(Head(d))
      <4> HIDE DEF d
      <4>1. Head(d) = d[1] /\ 1 \in DOMAIN d
        BY <3>1, <3>2, SinLaCabeza
      <4> QED
        BY <3>2, <4>1
    <3>4. dato \in Seq(Nat)
      BY <3>3 DEF Sale
    <3> HIDE DEF dato, p
    <3>5. \A k \in DOMAIN dato : dato[k] \in Nat
      BY <3>4
    <3> QED
      BY <2>1, <3>1, <3>5
  <2>3. CASE UNCHANGED archivo
    BY <2>1, <2>3
  <2>4. ASSUME NEW i \in Interfaces, Interfaz(i), ~RecibirDato(i) PROVE UNCHANGED archivo
    BY <2>4 DEF Interfaz, RecibirPedido, procesar_sleep, procesar_stdin, procesar_dialfs_read, PedirDato, Trabaja
  <2>5. CASE ~\E i \in Interfaces : Interfaz(i)
    <3>1. CASE CPU \/ MemoriaCPU
      BY <2>1, <3>1, NoTocaCPU, NoTocaMemoria DEF io
    <3>2. CASE Kernel \/ \E i \in Interfaces : Desbloquear(i)
      BY <2>1, <3>2, NoTocaKernel DEF io
    <3>3. CASE \E i \in Interfaces : EscribirStdin(i) \/ LeerStdout(i)
      BY <2>1, <3>3, NoTocaMemoria DEF io
    <3>4. CASE Interrumpir
      BY <2>1, <3>4 DEF Interrumpir, io
    <3> QED
      BY <2>5, <3>1, <3>2, <3>3, <3>4, Quienes
  <2> QED
    BY <2>2, <2>3, <2>4, <2>5
<1>2. ASSUME NEW p \in Pids, EnPedido(p)' PROVE AlArchivo(pedido'[p])
  <2>1. CASE ~EjecutarIOCPU
    BY <1>2, <2>1, NadieMasPide DEF EnArchivo
  <2>2. CASE EjecutarIOCPU
    <3> DEFINE q == PedidoIO(Avanzados, Instruccion)
    <3>1. /\ Ejecutar(InstruccionesIO) /\ pedido' = [pedido EXCEPT ![pcb_actual.pid] = q]
      BY <2>2 DEF EjecutarIOCPU
    <3>2. /\ cpu.pc = "fetch" /\ deMemoria["CPU"] # <<>> /\ UNCHANGED <<bloqueados, ejecutando>>
      BY <3>1 DEF Ejecutar, kernel
    <3>3. pcb_actual.pid = ejecutando /\ DOMAIN pedido = Pids
      BY <3>2 DEF Prestado, Turnos
    <3>4. AlArchivo(q)
      <4>1. Instruccion[1] = "IO_FS_READ" => q.tamanio = Avanzados[Instruccion[5]]
        BY DEF PedidoIO
      <4>2. Instruccion[1] \in InstruccionesIO
        BY <3>1 DEF Ejecutar
      <4>3. q.instruccion = Instruccion[1]
        BY <4>2 DEF PedidoIO, InstruccionesIO, InstruccionesDialFS
      <4> HIDE DEF q
      <4> QED
        BY <3>2, <4>1, <4>3 DEF AlArchivo, EnSuArchivo
    <3> HIDE DEF q
    <3>5. CASE p = ejecutando
      BY <3>1, <3>3, <3>4, <3>5
    <3>6. CASE p # ejecutando
      <4>1. p \in bloqueados
        BY <1>2, <3>2, <3>6 DEF EnPedido
      <4>2. AlArchivo(pedido[p])
        BY <4>1 DEF EnArchivo, EnPedido
      <4> QED
        BY <3>1, <3>3, <3>6, <4>2
    <3> QED
      BY <3>5, <3>6
  <2> QED
    BY <2>1, <2>2
<1> QED
  BY <1>1, <1>2 DEF EnArchivo, AlArchivo

\* Registers, bytes and data, after any step.
LEMMA NumerosPaso ==
  ASSUME InvMaquina, BienEscritos, EnSuEspacio, EnSuArchivo, Next
  PROVE  Numeros'
<1>1. /\ Turnos /\ Prestado /\ Conexion /\ Pedidos /\ Escrituras /\ Lecturas /\ InvSalida
      /\ Rumbo /\ Vivos /\ Numeros
      /\ Registran /\ BytesEnMemoria /\ EnviosDeUno /\ EnInterfaces /\ EnArchivo
  BY DEF InvMaquina, InvSalida, InvCiclo, Numeros
<1>2. Registran' /\ BytesEnMemoria'
  BY <1>1, RegistranPaso, BytesEnMemoriaPaso
<1>3. EnviosDeUno' /\ EnInterfaces'
  BY <1>1, EnviosDeUnoPaso, EnInterfacesPaso
<1>4. EnArchivo'
  BY <1>1, EnArchivoPaso
<1> QED
  BY <1>2, <1>3, <1>4 DEF Numeros

-----------------------------------------------------------------------------
(* Inputs on their way                                                      *)

\* As many or fewer...
LEMMA CabenMenos ==
  ASSUME NEW S, NEW n, Caben(S, n), NEW T, NEW w \in [T -> S],
         \A x, y \in T : w[x] = w[y] => x = y
  PROVE  Caben(T, n)
<1>1. n \in Nat
  BY DEF Caben
<1>2. PICK f \in [S -> 1 .. n] : \A x, y \in S : f[x] = f[y] => x = y
  BY DEF Caben
<1> DEFINE h == [x \in T |-> f[w[x]]]
<1>3. h \in [T -> 1 .. n]
  OBVIOUS
<1>4. \A x, y \in T : h[x] = h[y] => x = y
  BY <1>2
<1> HIDE DEF h
<1> QED
  BY <1>1, <1>3, <1>4 DEF Caben

\* ... of a part.
LEMMA CabenParte ==
  ASSUME NEW S, NEW n, Caben(S, n), NEW T, T \subseteq S
  PROVE  Caben(T, n)
<1> DEFINE w == [x \in T |-> x]
<1>1. w \in [T -> S] /\ \A x, y \in T : w[x] = w[y] => x = y
  OBVIOUS
<1> HIDE DEF w
<1> QED
  BY <1>1, CabenMenos

\* ... one more...
LEMMA CabenUnaMas ==
  ASSUME NEW S, NEW n, Caben(S, n), NEW t, NEW T, T \subseteq S \cup {t}
  PROVE  Caben(T, n + 1)
<1>1. n \in Nat
  BY DEF Caben
<1>2. PICK f \in [S -> 1 .. n] : \A x, y \in S : f[x] = f[y] => x = y
  BY DEF Caben
<1> DEFINE h == [x \in T |-> IF x \in S THEN f[x] ELSE n + 1]
<1>3. h \in [T -> 1 .. n + 1]
  BY <1>1
<1>4. ASSUME NEW x \in T, NEW y \in T, h[x] = h[y] PROVE x = y
  <2>1. \A u \in S : f[u] # n + 1
    BY <1>1
  <2>2. \A u \in T : u \notin S => u = t
    OBVIOUS
  <2> QED
    BY <1>2, <1>4, <2>1, <2>2
<1> HIDE DEF h
<1> QED
  BY <1>1, <1>3, <1>4 DEF Caben

\* ... and one less.
LEMMA CabenUnaMenos ==
  ASSUME NEW S, NEW n, Caben(S, n), NEW t \in S, NEW T, NEW w \in [T -> S \ {t}],
         \A x, y \in T : w[x] = w[y] => x = y
  PROVE  Caben(T, n - 1)
<1>1. n \in Nat
  BY DEF Caben
<1>2. PICK f \in [S -> 1 .. n] : \A x, y \in S : f[x] = f[y] => x = y
  BY DEF Caben
<1> DEFINE h == [x \in T |-> IF f[w[x]] = n THEN f[t] ELSE f[w[x]]]
<1>3. n - 1 \in Nat /\ f[t] \in 1 .. n
  BY <1>1
<1>4. h \in [T -> 1 .. n - 1]
  <2> SUFFICES ASSUME NEW x \in T PROVE h[x] \in 1 .. n - 1
    OBVIOUS
  <2>1. w[x] \in S /\ w[x] # t /\ f[w[x]] \in 1 .. n
    OBVIOUS
  <2>2. f[w[x]] # f[t]
    BY <1>2, <2>1
  <2>3. f[w[x]] = n => f[t] # n
    BY <2>2
  <2> QED
    BY <1>1, <1>3, <2>1, <2>3
<1>5. ASSUME NEW x \in T, NEW y \in T, h[x] = h[y] PROVE x = y
  <2>1. w[x] \in S /\ w[x] # t /\ w[y] \in S /\ w[y] # t
    OBVIOUS
  <2>2. f[w[x]] # f[t] /\ f[w[y]] # f[t]
    BY <1>2, <2>1
  <2>3. f[w[x]] = f[w[y]]
    BY <1>5, <2>2
  <2>4. w[x] = w[y]
    BY <1>2, <2>1, <2>3
  <2> QED
    BY <2>4
<1> HIDE DEF h
<1> QED
  BY <1>3, <1>4, <1>5 DEF Caben

\* What is on its way.
Viaja(p, i, k) == /\ i \in Interfaces /\ k \in DOMAIN aMemoria[i]
                  /\ EsEscritura(aMemoria[i][k]) /\ Escrito(aMemoria[i][k]).pid = p
\* What an input on its way is.
LEMMA EsFicha ==
  ASSUME NEW p
  PROVE  /\ \A t \in Fichas(p) : \/ t = <<"CPU", 0>> /\ Debe(p)
                                 \/ \E i, k : t = <<i, k>> /\ Viaja(p, i, k)
         /\ Debe(p) => <<"CPU", 0>> \in Fichas(p)
         /\ \A i, k : Viaja(p, i, k) => <<i, k>> \in Fichas(p)
<1> DEFINE D == {t \in {<<"CPU", 0>>} : Debe(p)}
           V(i) == {<<i, k>> : k \in {j \in DOMAIN aMemoria[i] :
                                        EsEscritura(aMemoria[i][j]) /\ Escrito(aMemoria[i][j]).pid = p}}
           U == UNION {V(i) : i \in Interfaces}
<1>1. Fichas(p) = D \cup U
  BY DEF Fichas
<1>2. \A t \in D : t = <<"CPU", 0>> /\ Debe(p)
  OBVIOUS
<1>3. Debe(p) => <<"CPU", 0>> \in D
  OBVIOUS
<1>4. \A t \in U : \E i, k : t = <<i, k>> /\ Viaja(p, i, k)
  BY DEF Viaja
<1>5. \A i, k : Viaja(p, i, k) => <<i, k>> \in V(i) /\ i \in Interfaces
  BY DEF Viaja
<1>6. \A i \in Interfaces : V(i) \subseteq U
  OBVIOUS
<1> HIDE DEF D, U, V
<1> QED
  BY <1>1, <1>2, <1>3, <1>4, <1>5, <1>6

LEMMA EsFichaPrima ==
  ASSUME NEW p
  PROVE  /\ \A t \in Fichas(p)' : \/ t = <<"CPU", 0>> /\ Debe(p)'
                                  \/ \E i, k : t = <<i, k>> /\ Viaja(p, i, k)'
         /\ Debe(p)' => <<"CPU", 0>> \in Fichas(p)'
         /\ \A i, k : Viaja(p, i, k)' => <<i, k>> \in Fichas(p)'
<1> DEFINE D == {t \in {<<"CPU", 0>>} : Debe(p)'}
           V(i) == {<<i, k>> : k \in {j \in DOMAIN aMemoria'[i] :
                                        EsEscritura(aMemoria'[i][j]) /\ Escrito(aMemoria'[i][j]).pid = p}}
           U == UNION {V(i) : i \in Interfaces}
<1>1. Fichas(p)' = D \cup U
  BY DEF Fichas, EsEscritura, Escrito
<1>2. \A t \in D : t = <<"CPU", 0>> /\ Debe(p)'
  OBVIOUS
<1>3. Debe(p)' => <<"CPU", 0>> \in D
  OBVIOUS
<1>4. \A t \in U : \E i, k : t = <<i, k>> /\ Viaja(p, i, k)'
  BY DEF Viaja, EsEscritura, Escrito
<1>5. \A i, k : Viaja(p, i, k)' => <<i, k>> \in V(i) /\ i \in Interfaces
  BY DEF Viaja, EsEscritura, Escrito
<1>6. \A i \in Interfaces : V(i) \subseteq U
  OBVIOUS
<1> HIDE DEF D, U, V
<1> QED
  BY <1>1, <1>2, <1>3, <1>4, <1>5, <1>6

\* Nothing more on its way.
LEMMA FichasParte ==
  ASSUME NEW p, Debe(p)' => Debe(p), \A i, k : Viaja(p, i, k)' => Viaja(p, i, k)
  PROVE  Fichas(p)' \subseteq Fichas(p)
  BY EsFicha, EsFichaPrima

\* Memory takes the first of interface i's requests.
LEMMA FichasCorren ==
  ASSUME NEW p, Debe(p)' => Debe(p), NEW i \in Interfaces,
         \A k : Viaja(p, i, k)' => k \in Nat /\ k > 0 /\ Viaja(p, i, k + 1),
         \A j, k : j # i /\ Viaja(p, j, k)' => Viaja(p, j, k)
  PROVE  \E w \in [Fichas(p)' -> Fichas(p) \ {<<i, 1>>}] :
           \A x, y \in Fichas(p)' : w[x] = w[y] => x = y
<1> DEFINE w == [t \in Fichas(p)' |-> IF t[1] = i THEN <<i, t[2] + 1>> ELSE t]
<1>1. ASSUME NEW t \in Fichas(p)'
      PROVE  \/ t[1] # i /\ w[t] = t /\ t \in Fichas(p)
             \/ \E k \in Nat \ {0} : t = <<i, k>> /\ w[t] = <<i, k + 1>> /\ <<i, k + 1>> \in Fichas(p)
  <2>1. CASE t = <<"CPU", 0>> /\ Debe(p)'
    <3>1. t[1] = "CPU" /\ i # "CPU"
      BY <2>1, ConstantesCiclo DEF Interfaces
    <3>2. t \in Fichas(p)
      BY <2>1, EsFicha
    <3> QED
      BY <3>1, <3>2
  <2>2. ASSUME NEW j, NEW k, t = <<j, k>>, Viaja(p, j, k)'
        PROVE  \/ t[1] # i /\ w[t] = t /\ t \in Fichas(p)
               \/ \E l \in Nat \ {0} : t = <<i, l>> /\ w[t] = <<i, l + 1>> /\ <<i, l + 1>> \in Fichas(p)
    <3>1. CASE j = i
      <4>1. k \in Nat \ {0} /\ Viaja(p, i, k + 1)
        BY <2>2, <3>1
      <4>2. <<i, k + 1>> \in Fichas(p)
        BY <4>1, EsFicha
      <4>3. w[t] = <<i, k + 1>>
        BY <2>2, <3>1
      <4> QED
        BY <2>2, <3>1, <4>1, <4>2, <4>3
    <3>2. CASE j # i
      <4>1. t \in Fichas(p)
        BY <2>2, <3>2, EsFicha
      <4> QED
        BY <2>2, <3>2, <4>1
    <3> QED
      BY <3>1, <3>2
  <2> QED
    BY <2>1, <2>2, EsFichaPrima
<1>2. DOMAIN w = Fichas(p)' /\ w = [t \in Fichas(p)' |-> w[t]]
  OBVIOUS
<1> HIDE DEF w
<1>3. \A t \in Fichas(p)' : w[t] \in Fichas(p) \ {<<i, 1>>}
  <2> TAKE t \in Fichas(p)'
  <2>1. CASE t[1] # i /\ w[t] = t /\ t \in Fichas(p)
    <3>1. t # <<i, 1>>
      BY <2>1
    <3> QED
      BY <2>1, <3>1
  <2>2. ASSUME NEW k \in Nat \ {0}, w[t] = <<i, k + 1>>, <<i, k + 1>> \in Fichas(p)
        PROVE  w[t] \in Fichas(p) \ {<<i, 1>>}
    BY <2>2
  <2> QED
    BY <1>1, <2>1, <2>2
<1>4. ASSUME NEW x \in Fichas(p)', NEW y \in Fichas(p)', w[x] = w[y] PROVE x = y
  <2>1. CASE x[1] # i /\ w[x] = x /\ y[1] # i /\ w[y] = y
    BY <1>4, <2>1
  <2>2. ASSUME NEW u, NEW v, w[u] = w[v], u[1] # i, w[u] = u, NEW k \in Nat \ {0}, w[v] = <<i, k + 1>>
        PROVE  FALSE
    <3>1. u = <<i, k + 1>>
      BY <2>2
    <3> QED
      BY <2>2, <3>1
  <2>3. ASSUME NEW k \in Nat \ {0}, NEW l \in Nat \ {0}, x = <<i, k>>, w[x] = <<i, k + 1>>,
               y = <<i, l>>, w[y] = <<i, l + 1>>
        PROVE  x = y
    BY <1>4, <2>3
  <2> QED
    BY <1>1, <1>4, <2>1, <2>2, <2>3
<1>5. w \in [Fichas(p)' -> Fichas(p) \ {<<i, 1>>}]
  BY <1>2, <1>3
<1> QED
  BY <1>4, <1>5

\* Interface i sends what the process was waiting for.
LEMMA FichaCambia ==
  ASSUME NEW p, Debe(p), ~Debe(p)', NEW i \in Interfaces, NEW n, ~Viaja(p, i, n),
         \A j, k : Viaja(p, j, k)' => Viaja(p, j, k) \/ (j = i /\ k = n)
  PROVE  \E w \in [Fichas(p)' -> Fichas(p)] : \A x, y \in Fichas(p)' : w[x] = w[y] => x = y
<1> DEFINE w == [t \in Fichas(p)' |-> IF t = <<i, n>> THEN <<"CPU", 0>> ELSE t]
<1>1. ASSUME NEW t \in Fichas(p)'
      PROVE  \/ t = <<i, n>>
             \/ \E j, k : t = <<j, k>> /\ Viaja(p, j, k)
  <2>1. PICK j, k : t = <<j, k>> /\ Viaja(p, j, k)'
    BY EsFichaPrima
  <2> QED
    BY <2>1
<1>2. \A j, k : Viaja(p, j, k) => <<j, k>> \in Fichas(p) /\ j # "CPU"
  BY EsFicha, ConstantesCiclo DEF Viaja, Interfaces
<1>3. <<"CPU", 0>> \in Fichas(p)
  BY EsFicha
<1>4. \A t \in Fichas(p)' : /\ w[t] \in Fichas(p)
                            /\ t # <<i, n>> => w[t] = t /\ t # <<"CPU", 0>>
                            /\ t = <<i, n>> => w[t] = <<"CPU", 0>>
  BY <1>1, <1>2, <1>3
<1>5. w \in [Fichas(p)' -> Fichas(p)]
  BY <1>4
<1> HIDE DEF w
<1>6. \A x, y \in Fichas(p)' : w[x] = w[y] => x = y
  BY <1>4
<1> QED
  BY <1>5, <1>6

LEMMA ViajaIgual ==
  ASSUME NEW i, aMemoria'[i] = aMemoria[i]
  PROVE  \A p, k : Viaja(p, i, k)' <=> Viaja(p, i, k)
BY DEF Viaja, EsEscritura, Escrito

LEMMA ContestadoIgual ==
  ASSUME UNCHANGED deInterfaz
  PROVE  \A p : Contestado(p)' <=> Contestado(p)
BY DEF Contestado, PidDe

\* The answer of interface i.
LEMMA ContestadoMas ==
  ASSUME Pedidos, NEW i \in Interfaces, NEW x, deInterfaz' = Mandar(deInterfaz, i, x)
  PROVE  (\A p : p = PidDe(x) => Contestado(p)') /\ \A p : Contestado(p) => Contestado(p)'
<1> DEFINE d == deInterfaz[i]
<1>1. EsSeq(d) /\ DOMAIN deInterfaz = Interfaces
  BY DEF Pedidos, Camino, EnCamino
<1>2. deInterfaz'[i] = Append(d, x) /\ \A j \in Interfaces : j # i => deInterfaz'[j] = deInterfaz[j]
  BY <1>1 DEF Mandar
<1> HIDE DEF d
<1>3. /\ Len(d) + 1 \in DOMAIN Append(d, x) /\ Append(d, x)[Len(d) + 1] = x
      /\ \A k \in DOMAIN d : k \in DOMAIN Append(d, x) /\ Append(d, x)[k] = d[k]
  BY <1>1, AlFinal
<1>4. ASSUME NEW p, p = PidDe(x) PROVE Contestado(p)'
  BY <1>2, <1>3, <1>4 DEF Contestado, PidDe
<1>5. ASSUME NEW p, Contestado(p) PROVE Contestado(p)'
  <2>1. PICK j \in Interfaces : \E k \in DOMAIN deInterfaz[j] : PidDe(deInterfaz[j][k]) = p
    BY <1>5 DEF Contestado
  <2>2. PICK k \in DOMAIN deInterfaz[j] : PidDe(deInterfaz[j][k]) = p
    BY <2>1
  <2>3. k \in DOMAIN deInterfaz'[j] /\ deInterfaz'[j][k] = deInterfaz[j][k]
    BY <1>2, <1>3, <2>2 DEF d
  <2> QED
    BY <2>2, <2>3 DEF Contestado
<1> QED
  BY <1>4, <1>5

\* A step with which no process has more inputs on their way.
LEMMA PendientesQuietos ==
  ASSUME Turnos, Prestado, Conexion, Pendientes, Next, ~EjecutarIOCPU, UNCHANGED entradas,
         \A p : Contestado(p) /\ EnPedido(p)' => Contestado(p)',
         \A p, i, k : Viaja(p, i, k)' => Viaja(p, i, k)
  PROVE  Pendientes'
<1>1. ASSUME NEW p \in Pids PROVE Caben(Fichas(p)', entradas[p])
  <2>1. Debe(p)' => Debe(p)
    BY NadieMasPide DEF Debe, EsEntrada
  <2>2. Fichas(p)' \subseteq Fichas(p)
    BY <2>1, FichasParte
  <2> QED
    BY <2>2, CabenParte DEF Pendientes
<1> QED
  BY <1>1 DEF Pendientes, Caben

\* Steps on the CPU's connection.
LEMMA PendientesAparte ==
  ASSUME Turnos, Prestado, Conexion, Pendientes, Next, ~EjecutarIOCPU, UNCHANGED <<entradas, deInterfaz>>,
         \A i \in Interfaces : aMemoria'[i] = aMemoria[i]
  PROVE  Pendientes'
<1>1. \A p, i, k : Viaja(p, i, k)' => Viaja(p, i, k)
  <2>1. \A p, i, k : Viaja(p, i, k)' => i \in Interfaces
    BY DEF Viaja
  <2> QED
    BY <2>1, ViajaIgual
<1>2. \A p : Contestado(p) /\ EnPedido(p)' => Contestado(p)'
  BY ContestadoIgual
<1> QED
  BY <1>1, <1>2, PendientesQuietos

\* What the kernel refuses or forgets is no input.
LEMMA MismasEntradas ==
  ASSUME Turnos, Prestado, PidenLoQueHay, Kernel
  PROVE  UNCHANGED entradas
<1>1. CASE Despachar \/ Finalizar \/ EjecutarIO
  BY <1>1 DEF Despachar, Finalizar, EjecutarIO, historia
<1>2. CASE FinDeQuantum
  <2>1. /\ Volver("INTERRUPCION_FIN_QUANTUM") /\ respuesta # <<>>
        /\ Vuelto.pcb.motivo_desalojo = "INTERRUPCION_FIN_QUANTUM"
        /\ Bajar(ejecutando, Head(respuesta).cop # "PCB" /\ EsEntrada(Vuelto.g.instruccion))
    BY <1>2 DEF FinDeQuantum, Volver
  <2> HIDE DEF Vuelto
  <2>2. Head(respuesta).cop = "PCB"
    BY <2>1, Vuelve
  <2> QED
    BY <2>1, <2>2 DEF Bajar
<1>3. CASE RechazarIO
  <2> DEFINE q == pedido[ejecutando]
  <2>1. /\ Volver("INTERRUPCION_BLOQUEO")
        /\ Bajar(ejecutando, EsEntrada(Vuelto.g.instruccion))
        /\ Vuelto.g.nombre_interfaz \in Interfaces =>
             Vuelto.g.instruccion \notin Sabe(TipoDe[Vuelto.g.nombre_interfaz])
    BY <1>3 DEF RechazarIO
  <2> HIDE DEF Vuelto
  <2>2. Bueno(ejecutando, q) /\ Vuelto.g.instruccion = q.instruccion
        /\ Vuelto.g.nombre_interfaz = q.nombre_interfaz
    BY <2>1, VolverEnSuLugar
  <2> HIDE DEF q
  <2>3. EsEntrada(q.instruccion) => Atendible(q)
    BY <2>2 DEF Bueno, EsEntrada, ConDirecciones
  <2>4. ~EsEntrada(Vuelto.g.instruccion)
    BY <2>1, <2>2, <2>3 DEF Atendible
  <2> QED
    BY <2>1, <2>4 DEF Bajar
<1> QED
  BY <1>1, <1>2, <1>3 DEF Kernel

\* An instruction of I/O is one more input, if it is one.
LEMMA PendientesDeIO ==
  ASSUME Turnos, Prestado, Conexion, Pendientes, EjecutarIOCPU
  PROVE  Pendientes'
<1> DEFINE q == PedidoIO(Avanzados, Instruccion)
<1>0. cpu.pc = "fetch" /\ pcb_actual.pid \in Pids
  BY DEF EjecutarIOCPU, Ejecutar, Prestado
<1> PICK e \in Pids : e = pcb_actual.pid
  BY <1>0
<1>1. /\ Ejecutar(InstruccionesIO) /\ pedido' = [pedido EXCEPT ![e] = q]
      /\ entradas' = IF EsEntrada(Instruccion[1]) THEN [entradas EXCEPT ![e] = @ + 1] ELSE entradas
  BY DEF EjecutarIOCPU
<1>2. /\ cpu.pc = "fetch" /\ UNCHANGED <<bloqueados, ejecutando, deInterfaz>> /\ respuesta' = respuesta
      /\ Instruccion[1] \in InstruccionesIO
  BY <1>1 DEF Ejecutar, kernel, canalesI
<1>3. q.instruccion = Instruccion[1]
  BY <1>2 DEF PedidoIO, InstruccionesIO, InstruccionesDialFS
<1>4. e = ejecutando /\ e \in Pids /\ respuesta = <<>> /\ DOMAIN pedido = Pids /\ e \notin bloqueados
  BY <1>2 DEF Prestado, Turnos
<1> HIDE DEF q
<1>5. \A i \in Interfaces : aMemoria'[i] = aMemoria[i]
  BY ConexionDeCPU DEF CPU
<1>6. \A p, i, k : Viaja(p, i, k)' => Viaja(p, i, k)
  <2>1. \A p, i, k : Viaja(p, i, k)' => i \in Interfaces
    BY DEF Viaja
  <2> QED
    BY <1>5, <2>1, ViajaIgual
<1>7. \A p : Contestado(p)' <=> Contestado(p)
  BY <1>2, ContestadoIgual
<1>8. ASSUME NEW p \in Pids, p # e PROVE Caben(Fichas(p)', entradas'[p])
  <2>1. entradas'[p] = entradas[p] /\ pedido'[p] = pedido[p]
    BY <1>1, <1>4, <1>8 DEF Pendientes
  <2>2. EnPedido(p)' => EnPedido(p)
    BY <1>2, <1>4, <1>8 DEF EnPedido
  <2>3. Debe(p)' => Debe(p)
    BY <1>7, <2>1, <2>2 DEF Debe, EsEntrada
  <2>4. Fichas(p)' \subseteq Fichas(p)
    BY <1>6, <2>3, FichasParte
  <2> QED
    BY <2>1, <2>4, CabenParte DEF Pendientes
<1>9. Caben(Fichas(e)', entradas'[e])
  <2>1. pedido'[e] = q
    BY <1>1, <1>4
  <2>2. Caben(Fichas(e), entradas[e])
    BY <1>4 DEF Pendientes
  <2>3. CASE EsEntrada(Instruccion[1])
    <3>1. entradas'[e] = entradas[e] + 1
      BY <1>1, <1>4, <2>3 DEF Pendientes
    <3>2. Fichas(e)' \subseteq Fichas(e) \cup {<<"CPU", 0>>}
      <4>1. ASSUME NEW t \in Fichas(e)' PROVE t \in Fichas(e) \cup {<<"CPU", 0>>}
        <5>1. CASE t = <<"CPU", 0>>
          BY <5>1
        <5>2. ASSUME NEW i, NEW k, t = <<i, k>>, Viaja(e, i, k)' PROVE t \in Fichas(e)
          BY <1>6, <5>2, EsFicha
        <5> QED
          BY <4>1, <5>1, <5>2, EsFichaPrima
      <4> QED
        BY <4>1
    <3>3. Caben(Fichas(e)', entradas[e] + 1)
      BY <2>2, <3>2, CabenUnaMas, Zenon
    <3> QED
      BY <3>1, <3>3, Zenon
  <2>4. CASE ~EsEntrada(Instruccion[1])
    <3>1. UNCHANGED entradas
      BY <1>1, <2>4
    <3>2. ~Debe(e)'
      BY <1>3, <2>1, <2>4 DEF Debe, EsEntrada
    <3>3. Fichas(e)' \subseteq Fichas(e)
      BY <1>6, <3>2, FichasParte
    <3> QED
      BY <2>2, <3>1, <3>3, CabenParte
  <2> QED
    BY <2>3, <2>4
<1>10. DOMAIN entradas' = Pids
  BY <1>1 DEF Pendientes
<1> QED
  BY <1>8, <1>9, <1>10 DEF Pendientes, Caben

\* The kernel wakes the process of an answer up.
LEMMA PendientesDesbloquear ==
  ASSUME Turnos, Prestado, Conexion, Pedidos, Pendientes, NEW i \in Interfaces, Desbloquear(i)
  PROVE  Pendientes'
<1> DEFINE d == deInterfaz[i]
           e == PidDe(Head(d))
<1>1. /\ d # <<>> /\ deInterfaz' = [deInterfaz EXCEPT ![i] = Tail(d)] /\ e \in bloqueados
      /\ bloqueados' = bloqueados \ {e} /\ UNCHANGED <<ejecutando, aMemoria, entradas>>
  BY DEF Desbloquear, canalesM, historia
<1>2. Next /\ ~EjecutarIOCPU
  <2>1. Next
    BY DEF Next, Sistema
  <2>2. EjecutarIOCPU => UNCHANGED deInterfaz
    BY DEF EjecutarIOCPU, Ejecutar, canalesI
  <2>3. EsSeq(d) /\ DOMAIN deInterfaz = Interfaces
    BY DEF Pedidos, Camino, EnCamino
  <2>4. deInterfaz'[i] = Tail(d)
    BY <1>1, <2>3
  <2> HIDE DEF d
  <2>5. Len(Tail(d)) = Len(d) - 1 /\ Len(d) \in Nat
    BY <1>1, <2>3, SinLaCabeza
  <2>6. Tail(d) # d
    BY <2>5
  <2> QED
    BY <2>1, <2>2, <2>4, <2>6 DEF d
<1>3. ASSUME NEW p, Contestado(p), EnPedido(p)' PROVE Contestado(p)'
  <2>1. p # e
    BY <1>1, <1>3 DEF EnPedido, Turnos
  <2>2. EsSeq(d) /\ DOMAIN deInterfaz = Interfaces
    BY DEF Pedidos, Camino, EnCamino
  <2>3. deInterfaz'[i] = Tail(d) /\ \A j \in Interfaces : j # i => deInterfaz'[j] = deInterfaz[j]
    BY <1>1, <2>2
  <2>4. PICK j \in Interfaces : \E k \in DOMAIN deInterfaz[j] : PidDe(deInterfaz[j][k]) = p
    BY <1>3 DEF Contestado
  <2>5. PICK k \in DOMAIN deInterfaz[j] : PidDe(deInterfaz[j][k]) = p
    BY <2>4
  <2>6. CASE j # i
    BY <2>3, <2>5, <2>6 DEF Contestado, PidDe
  <2>7. CASE j = i
    <3>1. k \in DOMAIN d /\ PidDe(d[k]) = p
      BY <2>5, <2>7
    <3> HIDE DEF d
    <3>2. /\ Head(d) = d[1] /\ Len(d) \in Nat /\ DOMAIN d = 1 .. Len(d)
          /\ DOMAIN Tail(d) = 1 .. Len(d) - 1
          /\ \A l \in DOMAIN Tail(d) : Tail(d)[l] = d[l + 1]
      BY <1>1, <2>2, SinLaCabeza
    <3>3. k # 1
      BY <2>1, <3>1, <3>2
    <3>4. k - 1 \in DOMAIN Tail(d) /\ (k - 1) + 1 = k
      BY <3>1, <3>2, <3>3
    <3>5. Tail(d)[k - 1] = d[k]
      BY <3>2, <3>4
    <3>6. \E l \in DOMAIN Tail(d) : PidDe(Tail(d)[l]) = p
      BY <3>1, <3>4, <3>5
    <3> QED
      BY <2>3, <3>6 DEF Contestado, PidDe
  <2> QED
    BY <2>6, <2>7
<1>4. \A p, j, k : Viaja(p, j, k)' => Viaja(p, j, k)
  BY <1>1 DEF Viaja, EsEscritura, Escrito
<1> HIDE DEF e, d
<1> QED
  BY <1>1, <1>2, <1>3, <1>4, PendientesQuietos

\* An interface that sends nothing to be written.
LEMMA PendientesInterfaz ==
  ASSUME Turnos, Prestado, Conexion, Pedidos, Lecturas, Pendientes, NEW i \in Interfaces,
         RecibirPedido(i) \/ procesar_sleep(i) \/ PedirDato(i) \/ RecibirDato(i)
  PROVE  Pendientes'
<1>1. Next /\ Interfaz(i)
  BY DEF Next, Sistema, Interfaz
<1>2. UNCHANGED entradas /\ ~EjecutarIOCPU
  <2>1. UNCHANGED <<entradas, cpu>>
    BY <1>1, NoTocaInterfaz DEF historia, procesador
  <2>2. EjecutarIOCPU => cpu.pc = "fetch" /\ cpu'.pc = "llamar"
    BY DEF EjecutarIOCPU, Ejecutar, Seguir
  <2> QED
    BY <2>1, <2>2
<1>3. \A p : Contestado(p) => Contestado(p)'
  <2>1. CASE UNCHANGED deInterfaz
    BY <2>1, ContestadoIgual
  <2>2. ASSUME NEW x, deInterfaz' = Mandar(deInterfaz, i, x) PROVE \A p : Contestado(p) => Contestado(p)'
    BY <2>2, ContestadoMas
  <2> QED
    BY <2>1, <2>2 DEF RecibirPedido, procesar_sleep, PedirDato, RecibirDato, Responder
<1>4. \A p, j, k : Viaja(p, j, k)' => Viaja(p, j, k)
  <2>1. CASE UNCHANGED aMemoria
    BY <2>1 DEF Viaja, EsEscritura, Escrito
  <2>2. CASE PedirDato(i)
    <3> DEFINE a == aMemoria[i]
               q == enviar_direcciones_stdout(interfaz[i].m)
    <3>1. aMemoria' = Mandar(aMemoria, i, q)
      BY <2>2 DEF PedirDato
    <3>2. ~EsEscritura(q)
      BY LeeDirecciones DEF EsEscritura
    <3> HIDE DEF q
    <3>3. DOMAIN aMemoria = Clientes /\ i \in Clientes /\ EsSeq(a)
      BY DEF Conexion, Clientes, Lecturas, Consulta
    <3>4. aMemoria'[i] = Append(a, q) /\ \A j \in Interfaces : j # i => aMemoria'[j] = aMemoria[j]
      BY <3>1, <3>3 DEF Mandar, Clientes
    <3>5. \A p, j, k : j \in Interfaces /\ j # i => (Viaja(p, j, k)' => Viaja(p, j, k))
      BY <3>4, ViajaIgual
    <3>6. ASSUME NEW p, NEW k, Viaja(p, i, k)' PROVE Viaja(p, i, k)
      <4>1. k \in DOMAIN Append(a, q) /\ EsEscritura(Append(a, q)[k]) /\ Escrito(Append(a, q)[k]).pid = p
        BY <3>4, <3>6 DEF Viaja, EsEscritura, Escrito
      <4> HIDE DEF a
      <4>2. /\ Len(a) \in Nat /\ DOMAIN a = 1 .. Len(a) /\ DOMAIN Append(a, q) = 1 .. Len(a) + 1
            /\ Append(a, q)[Len(a) + 1] = q /\ \A l \in DOMAIN a : Append(a, q)[l] = a[l]
        BY <3>3, AlFinal
      <4>3. k # Len(a) + 1
        BY <3>2, <4>1, <4>2
      <4>4. k \in DOMAIN a
        BY <4>1, <4>2, <4>3
      <4>5. EsEscritura(a[k]) /\ Escrito(a[k]).pid = p
        BY <4>1, <4>2, <4>4
      <4> QED
        BY <4>4, <4>5 DEF Viaja, a
    <3>7. \A p, j, k : Viaja(p, j, k)' => j \in Interfaces
      BY DEF Viaja
    <3> QED
      BY <3>5, <3>6, <3>7
  <2> QED
    BY <2>1, <2>2 DEF RecibirPedido, procesar_sleep, RecibirDato, canalesM
<1> QED
  BY <1>1, <1>2, <1>3, <1>4, PendientesQuietos

\* Who waits for the input that interface i is reading has not been answered.
LEMMA SinContestar ==
  ASSUME InvCiclo, NEW i \in Interfaces, interfaz[i].pc # "recv",
         interfaz[i].cop \in {"PEDIDO_IO_STDIN_READ", "PEDIDO_IO_FS_READ"}, NEW e, e = interfaz[i].m.pid
  PROVE  e \in Pids /\ Debe(e)
<1>1. e \in Pids /\ EsEntrada(pedido[e].instruccion) /\ e \in bloqueados
  BY LoPedido, DeQuienPidio
<1>2. Fiel(i, interfaz[i].cop, interfaz[i].m, bloqueados, pedido)
  BY DEF InvCiclo, Pedidos, Camino, EnCamino
<1>3. pedido[e].nombre_interfaz = i
  BY <1>2 DEF Fiel
<1>4. \A j \in Interfaces : \A k \in DOMAIN deInterfaz[j] : pedido[PidDe(deInterfaz[j][k])].nombre_interfaz = j
  BY DEF InvCiclo, Pedidos, Camino, EnCamino
<1>5. \A k \in DOMAIN deInterfaz[i] : PidDe(deInterfaz[i][k]) # e
  BY DEF InvCiclo, Pedidos, Camino, SinRepetir
<1>6. ~Contestado(e)
  BY <1>3, <1>4, <1>5 DEF Contestado
<1> QED
  BY <1>1, <1>6 DEF Debe, EnPedido

\* The input that was to be sent is sent: there are as many on their way.
LEMMA PendientesEntrada ==
  ASSUME InvCiclo, Lecturas, EnInterfaces, Pendientes, NEW i \in Interfaces,
         procesar_stdin(i) \/ procesar_dialfs_read(i)
  PROVE  Pendientes'
<1>1. Next /\ Interfaz(i)
  BY DEF Next, Sistema, Interfaz
<1>2. UNCHANGED entradas /\ ~EjecutarIOCPU
  <2>1. UNCHANGED <<entradas, cpu>>
    BY <1>1, NoTocaInterfaz DEF historia, procesador
  <2>2. EjecutarIOCPU => cpu.pc = "fetch" /\ cpu'.pc = "llamar"
    BY DEF EjecutarIOCPU, Ejecutar, Seguir
  <2> QED
    BY <2>1, <2>2
<1>3. PICK dato : /\ EnviarEntrada(i, dato) /\ interfaz[i].pc # "recv"
                  /\ interfaz[i].cop \in {"PEDIDO_IO_STDIN_READ", "PEDIDO_IO_FS_READ"}
  BY DEF procesar_stdin, procesar_dialfs_read, Trabaja
<1> PICK e : e = interfaz[i].m.pid
  OBVIOUS
<1>4. e \in Pids /\ Debe(e)
  BY <1>3, SinContestar
<1>5. Turnos /\ Prestado /\ Conexion /\ Pedidos
  BY DEF InvCiclo
<1> PICK x : x = Fin(interfaz[i].cop, interfaz[i].m)
  OBVIOUS
<1> DEFINE q == enviar_dato_stdin(Junto(interfaz[i].m, [dato |-> dato]))
           a == aMemoria[i]
<1>6. deInterfaz' = Mandar(deInterfaz, i, x) /\ aMemoria' = Mandar(aMemoria, i, q)
  BY <1>3 DEF EnviarEntrada, Responder
<1>7. EsEscritura(q) /\ Escrito(q).pid = e
  BY <1>3, EnviaEntrada
<1>8. PidDe(x) = e
  <2>1. /\ interfaz[i].cop = CodigoDe(pedido[interfaz[i].m.pid].instruccion)
        /\ EsEntrada(pedido[interfaz[i].m.pid].instruccion)
    BY <1>3, LoPedido
  <2>2. pedido[interfaz[i].m.pid].instruccion \in InstruccionesIO
    BY <2>1 DEF EsEntrada, InstruccionesIO, InstruccionesDialFS
  <2> QED
    BY <2>1, <2>2, NombraAlProceso
<1> HIDE DEF q
<1>9. (\A p : p = PidDe(x) => Contestado(p)') /\ \A p : Contestado(p) => Contestado(p)'
  BY <1>5, <1>6, ContestadoMas
<1>10. ~Debe(e)'
  BY <1>8, <1>9 DEF Debe
<1> PICK n : n = Len(a) + 1
  OBVIOUS
<1>11. ~Viaja(e, i, n) /\ \A p, j, k : Viaja(p, j, k)' => Viaja(p, j, k) \/ (p = e /\ j = i /\ k = n)
  <2>1. DOMAIN aMemoria = Clientes /\ i \in Clientes /\ EsSeq(a)
    BY <1>5 DEF Conexion, Clientes, Lecturas, Consulta
  <2>2. aMemoria'[i] = Append(a, q) /\ \A j \in Interfaces : j # i => aMemoria'[j] = aMemoria[j]
    BY <1>6, <2>1 DEF Mandar, Clientes
  <2>3. \A p, j, k : j \in Interfaces /\ j # i => (Viaja(p, j, k)' => Viaja(p, j, k))
    BY <2>2, ViajaIgual
  <2> HIDE DEF a
  <2>4. /\ Len(a) \in Nat /\ DOMAIN a = 1 .. Len(a) /\ DOMAIN Append(a, q) = 1 .. Len(a) + 1
        /\ Append(a, q)[Len(a) + 1] = q /\ \A l \in DOMAIN a : Append(a, q)[l] = a[l]
    BY <2>1, AlFinal
  <2>5. ASSUME NEW p, NEW k, Viaja(p, i, k)' PROVE Viaja(p, i, k) \/ (p = e /\ k = n)
    <3>1. k \in DOMAIN Append(a, q) /\ EsEscritura(Append(a, q)[k]) /\ Escrito(Append(a, q)[k]).pid = p
      BY <2>2, <2>5 DEF Viaja, EsEscritura, Escrito
    <3>2. CASE k = Len(a) + 1
      BY <1>7, <2>4, <3>1, <3>2
    <3>3. CASE k # Len(a) + 1
      <4>1. k \in DOMAIN a
        BY <2>4, <3>1, <3>3
      <4>2. EsEscritura(a[k]) /\ Escrito(a[k]).pid = p
        BY <2>4, <3>1, <4>1
      <4> QED
        BY <4>1, <4>2 DEF Viaja, a
    <3> QED
      BY <3>2, <3>3
  <2>6. \A p, j, k : Viaja(p, j, k)' => j \in Interfaces
    BY DEF Viaja
  <2>7. n \notin DOMAIN a
    BY <2>4
  <2>8. ~Viaja(e, i, n)
    BY <2>7 DEF Viaja, a
  <2> QED
    BY <2>3, <2>5, <2>6, <2>8
<1>12. ASSUME NEW p \in Pids PROVE Caben(Fichas(p)', entradas[p])
  <2>1. Caben(Fichas(p), entradas[p])
    BY DEF Pendientes
  <2>2. CASE p = e
    <3>1. \E h \in [Fichas(p)' -> Fichas(p)] : \A u, v \in Fichas(p)' : h[u] = h[v] => u = v
      <4>1. Debe(p) /\ ~Debe(p)' /\ ~Viaja(p, i, n)
        BY <1>4, <1>10, <1>11, <2>2
      <4>2. \A j, k : Viaja(p, j, k)' => Viaja(p, j, k) \/ (j = i /\ k = n)
        BY <1>11
      <4> QED
        BY <4>1, <4>2, FichaCambia
    <3> QED
      BY <2>1, <3>1, CabenMenos
  <2>3. CASE p # e
    <3>1. Debe(p)' => Debe(p)
      BY <1>1, <1>2, <1>5, <1>9, NadieMasPide DEF Debe, EsEntrada
    <3>2. \A j, k : Viaja(p, j, k)' => Viaja(p, j, k)
      BY <1>11, <2>3
    <3>3. Fichas(p)' \subseteq Fichas(p)
      BY <3>1, <3>2, FichasParte
    <3> QED
      BY <2>1, <3>3, CabenParte
  <2> QED
    BY <2>2, <2>3
<1> QED
  BY <1>2, <1>12 DEF Pendientes, Caben

\* Memory takes a request of an interface.
LEMMA CorrenTodas ==
  ASSUME Turnos, Prestado, Conexion, Lecturas, NEW i \in Interfaces, EscribirStdin(i) \/ LeerStdout(i),
         NEW p \in Pids
  PROVE  \E h \in [Fichas(p)' -> Fichas(p) \ {<<i, 1>>}] :
           \A x, y \in Fichas(p)' : h[x] = h[y] => x = y
<1> DEFINE a == aMemoria[i]
<1>1. Next /\ ~EjecutarIOCPU /\ UNCHANGED deInterfaz
  <2>1. Next
    BY DEF Next, Sistema
  <2>2. UNCHANGED <<deInterfaz, cpu>>
    BY NoTocaMemoria DEF canalesI, procesador
  <2>3. EjecutarIOCPU => cpu.pc = "fetch" /\ cpu'.pc = "llamar"
    BY DEF EjecutarIOCPU, Ejecutar, Seguir
  <2> QED
    BY <2>1, <2>2, <2>3
<1>2. Debe(p)' => Debe(p)
  BY <1>1, ContestadoIgual, NadieMasPide DEF Debe, EsEntrada
<1>3. /\ a # <<>> /\ EsSeq(a) /\ aMemoria'[i] = Tail(a)
      /\ \A j \in Interfaces : j # i => aMemoria'[j] = aMemoria[j]
  <2>1. DOMAIN aMemoria = Clientes /\ i \in Clientes /\ EsSeq(a)
    BY DEF Conexion, Clientes, Lecturas, Consulta
  <2>2. a # <<>> /\ aMemoria' = [aMemoria EXCEPT ![i] = Tail(a)]
    BY DEF EscribirStdin, LeerStdout, Atender
  <2> QED
    BY <2>1, <2>2 DEF Clientes
<1>4. \A j, k : j # i /\ Viaja(p, j, k)' => Viaja(p, j, k)
  <2>1. \A j, k : Viaja(p, j, k)' => j \in Interfaces
    BY DEF Viaja
  <2> QED
    BY <1>3, <2>1, ViajaIgual
<1> HIDE DEF a
<1>5. ASSUME NEW k, Viaja(p, i, k)' PROVE k \in Nat /\ k > 0 /\ Viaja(p, i, k + 1)
  <2>1. k \in DOMAIN Tail(a) /\ EsEscritura(Tail(a)[k]) /\ Escrito(Tail(a)[k]).pid = p
    BY <1>3, <1>5 DEF Viaja, EsEscritura, Escrito
  <2>2. /\ Len(a) \in Nat /\ DOMAIN Tail(a) = 1 .. Len(a) - 1
        /\ k + 1 \in DOMAIN a /\ Tail(a)[k] = a[k + 1]
    BY <1>3, <2>1, SinLaCabeza
  <2>3. k \in Nat /\ k > 0
    BY <2>1, <2>2
  <2>4. EsEscritura(a[k + 1]) /\ Escrito(a[k + 1]).pid = p
    BY <2>1, <2>2
  <2> QED
    BY <2>2, <2>3, <2>4 DEF Viaja, a
<1> QED
  BY <1>2, <1>4, <1>5, FichasCorren

LEMMA PendientesLeerStdout ==
  ASSUME Turnos, Prestado, Conexion, Lecturas, Pendientes, NEW i \in Interfaces, LeerStdout(i)
  PROVE  Pendientes'
<1>1. UNCHANGED entradas
  BY DEF LeerStdout
<1>2. ASSUME NEW p \in Pids PROVE Caben(Fichas(p)', entradas[p])
  <2>1. Caben(Fichas(p) \ {<<i, 1>>}, entradas[p])
    BY CabenParte DEF Pendientes
  <2>2. \E h \in [Fichas(p)' -> Fichas(p) \ {<<i, 1>>}] : \A x, y \in Fichas(p)' : h[x] = h[y] => x = y
    BY CorrenTodas
  <2> QED
    BY <2>1, <2>2, CabenMenos
<1> QED
  BY <1>1, <1>2 DEF Pendientes, Caben

\* The input is in memory: its process has one less on its way.
LEMMA PendientesEscribirStdin ==
  ASSUME Turnos, Prestado, Conexion, Escrituras, Lecturas, Numeros, Pendientes, NEW i \in Interfaces,
         EscribirStdin(i)
  PROVE  Pendientes'
<1>1. /\ aMemoria[i] # <<>> /\ EsEscritura(Pedido(i)) /\ Bajar(Escrito(Pedido(i)).pid, TRUE)
  BY DEF EscribirStdin, Atender, Escrito, EsEscritura
<1> PICK e : e = Escrito(Pedido(i)).pid
  OBVIOUS
<1>2. e \in Pids
  BY EspacioEntrada DEF Numeros
<1>3. <<i, 1>> \in Fichas(e)
  <2>1. EsSeq(aMemoria[i])
    BY DEF Lecturas, Consulta
  <2>2. Pedido(i) = aMemoria[i][1] /\ 1 \in DOMAIN aMemoria[i]
    BY <1>1, <2>1, SinLaCabeza DEF Pedido
  <2> QED
    BY <1>1, <2>2, EsFicha DEF Viaja
<1>4. entradas' = [entradas EXCEPT ![e] = @ - 1] /\ DOMAIN entradas = Pids
  BY <1>1 DEF Bajar, Pendientes
<1>5. ASSUME NEW p \in Pids PROVE Caben(Fichas(p)', entradas'[p])
  <2>1. Caben(Fichas(p), entradas[p])
    BY DEF Pendientes
  <2>2. \E h \in [Fichas(p)' -> Fichas(p) \ {<<i, 1>>}] : \A x, y \in Fichas(p)' : h[x] = h[y] => x = y
    BY CorrenTodas
  <2>3. CASE p = e
    <3>1. entradas'[p] = entradas[p] - 1
      BY <1>2, <1>4, <2>3
    <3>2. <<i, 1>> \in Fichas(p)
      BY <1>3, <2>3
    <3>3. Caben(Fichas(p)', entradas[p] - 1)
      BY <2>1, <2>2, <3>2, CabenUnaMenos, Zenon
    <3> QED
      BY <3>1, <3>3, Zenon
  <2>4. CASE p # e
    <3>1. entradas'[p] = entradas[p]
      BY <1>4, <2>4
    <3>2. Caben(Fichas(p) \ {<<i, 1>>}, entradas[p])
      BY <2>1, CabenParte
    <3> QED
      BY <2>2, <3>1, <3>2, CabenMenos
  <2> QED
    BY <2>3, <2>4
<1> QED
  BY <1>4, <1>5 DEF Pendientes, Caben

\* The inputs on their way, after any step.
LEMMA PendientesPaso ==
  ASSUME PidenLoQueHay, InvMaquina, Next
  PROVE  Pendientes'
<1>1. /\ Turnos /\ Prestado /\ Conexion /\ Pedidos /\ Escrituras /\ Lecturas /\ InvCiclo
      /\ Numeros /\ EnInterfaces /\ Pendientes
  BY DEF InvMaquina, InvSalida, InvCiclo, Numeros
<1>2. CASE EjecutarIOCPU
  BY <1>1, <1>2, PendientesDeIO
<1>3. CASE (CPU \/ MemoriaCPU) /\ ~EjecutarIOCPU
  <2>1. UNCHANGED <<entradas, deInterfaz>>
    <3>1. CASE CPU
      <4>1. UNCHANGED deInterfaz
        BY <3>1, NoTocaCPU DEF canalesI
      <4>2. UNCHANGED entradas
        BY <1>3, <3>1 DEF CPU, RecibirPCB, Fetch, EjecutarAritmetica, EjecutarMovIn, EjecutarMovOut,
           EjecutarCopyString, Llamar, EjecutarExit, RecibirMovIn, Devolver, UsarMemoria, historia
      <4> QED
        BY <4>1, <4>2
    <3>2. CASE MemoriaCPU
      <4>1. UNCHANGED deInterfaz
        BY <3>2, NoTocaMemoria DEF canalesI
      <4>2. UNCHANGED entradas
        BY <3>2 DEF MemoriaCPU, AtenderInstruccion, AtenderMovIn, AtenderMovOut, CopyLeer, CopyEscribir,
           historia
      <4> QED
        BY <4>1, <4>2
    <3> QED
      BY <1>3, <3>1, <3>2
  <2>2. \A i \in Interfaces : aMemoria'[i] = aMemoria[i]
    BY <1>1, <1>3, ConexionDeCPU
  <2> QED
    BY <1>1, <1>3, <2>1, <2>2, PendientesAparte
<1>4. CASE Kernel \/ Interrumpir
  <2>1. UNCHANGED <<entradas, aMemoria, deMemoria, cpu>>
    BY <1>1, <1>4, NoTocaKernel, MismasEntradas DEF Interrumpir, canalesM, procesador
  <2>2. ~EjecutarIOCPU
    BY <2>1 DEF EjecutarIOCPU, Ejecutar, Seguir
  <2>3. UNCHANGED deInterfaz
    BY <1>4 DEF Kernel, Despachar, FinDeQuantum, Finalizar, EjecutarIO, RechazarIO, Volver, Interrumpir,
       canalesI
  <2> QED
    BY <1>1, <2>1, <2>2, <2>3, PendientesAparte
<1>5. ASSUME NEW i \in Interfaces, Interfaz(i) \/ Desbloquear(i) \/ EscribirStdin(i) \/ LeerStdout(i)
      PROVE  Pendientes'
  BY <1>1, <1>5, PendientesDesbloquear, PendientesInterfaz, PendientesEntrada, PendientesLeerStdout,
     PendientesEscribirStdin DEF Interfaz
<1> QED
  BY <1>2, <1>3, <1>4, <1>5, Quienes

\* The invariant holds at the start, in a step that changes nothing, and in every other.
LEMMA MaquinaInicial ==
  ASSUME Init
  PROVE  InvMaquina
<1>1. InvSalida
  BY SalidaInicial
<1>2. /\ cpu.pc = "recv" /\ respuesta = <<>> /\ bloqueados = {} /\ terminados = {} /\ ejecutando = NULL
      /\ pcb_actual = PCBNuevo(NULL) /\ pcb = [p \in Pids |-> PCBNuevo(p)] /\ copia = SinCopia
      /\ aMemoria = [c \in Clientes |-> <<>>] /\ deMemoria = [c \in Clientes |-> <<>>]
      /\ interfaz = [i \in Interfaces |-> Ociosa] /\ archivo = [b \in 1 .. TAM_ARCHIVO |-> 0]
      /\ entradas = [p \in Pids |-> 0]
  BY DEF Init
<1>3. /\ aMemoria["CPU"] = <<>> /\ deMemoria["CPU"] = <<>> /\ DOMAIN <<>> = {}
      /\ \A i \in Interfaces : aMemoria[i] = <<>> /\ deMemoria[i] = <<>>
  BY <1>2 DEF Clientes
<1>4. Rumbo
  BY <1>2, <1>3 DEF Rumbo, PideElPC, LlegaElPC, EnMovIn, EnLlamada, EnExit
<1>5. Vivos
  BY <1>2 DEF Vivos
<1>6. \A p \in Pids : ~EnPedido(p)
  BY <1>2 DEF EnPedido
<1>7. Numeros
  <2>1. RegistrosNulos \in Numerados
    BY DEF RegistrosNulos, Numerados
  <2>2. Registran
    BY <1>2, <2>1 DEF Registran, PCBNuevo
  <2>3. BytesEnMemoria
    BY <1>2 DEF Init, BytesEnMemoria, SinCopia
  <2>4. EnviosDeUno
    BY <1>3 DEF EnviosDeUno
  <2>5. EnInterfaces
    BY <1>2, <1>3 DEF EnInterfaces, Llevan, ConCampos, Ociosa
  <2>6. EnArchivo
    BY <1>2, <1>6 DEF EnArchivo
  <2> QED
    BY <2>2, <2>3, <2>4, <2>5, <2>6 DEF Numeros
<1>8. Pendientes
  <2>1. ASSUME NEW p \in Pids PROVE Caben(Fichas(p), entradas[p])
    <3>1. \A i, k : ~Viaja(p, i, k)
      BY <1>3 DEF Viaja
    <3>2. Fichas(p) = {}
      BY <1>6, <3>1, EsFicha DEF Debe
    <3> DEFINE f == [x \in Fichas(p) |-> 1]
    <3>3. f \in [Fichas(p) -> 1 .. 0] /\ \A x, y \in Fichas(p) : f[x] = f[y] => x = y
      BY <3>2
    <3>4. entradas[p] = 0
      BY <1>2
    <3> HIDE DEF f
    <3> QED
      BY <3>3, <3>4 DEF Caben
  <2> QED
    BY <1>2, <2>1 DEF Pendientes
<1> QED
  BY <1>1, <1>4, <1>5, <1>7, <1>8 DEF InvMaquina

LEMMA MaquinaQuieta ==
  ASSUME InvMaquina, InvSalida', UNCHANGED vars
  PROVE  InvMaquina' /\ UNCHANGED Ideal!vars
<1>1. UNCHANGED <<programa, listo, ejecutando, pcb, bloqueados, terminados, dispatch, respuesta, cpu,
                  pcb_actual, aMemoria, deMemoria, memoriaUsuario, copia, deInterfaz, interfaz, archivo,
                  pedido, entradas>>
  BY DEF vars, kernel, procesador, memoria, canalesM, canalesI, io, historia
<1>2. Rumbo'
  BY <1>1 DEF InvMaquina, Rumbo, PideElPC, LlegaElPC, EnMovIn, EnLlamada, EnExit, PC, Suyo, Instruccion, Lee
<1>3. Vivos'
  BY <1>1 DEF InvMaquina, Vivos
<1>4. Numeros'
  <2>1. Registran' /\ BytesEnMemoria' /\ EnviosDeUno'
    BY <1>1 DEF InvMaquina, Numeros, Registran, BytesEnMemoria, EnviosDeUno
  <2>2. EnInterfaces'
    BY <1>1, LlevanAparte DEF InvMaquina, Numeros
  <2>3. EnArchivo'
    BY <1>1 DEF InvMaquina, Numeros, EnArchivo, EnPedido
  <2> QED
    BY <2>1, <2>2, <2>3 DEF Numeros
<1>5. Pendientes'
  <2>1. ASSUME NEW p \in Pids PROVE Caben(Fichas(p)', entradas[p])
    <3>1. Debe(p)' => Debe(p)
      BY <1>1, ContestadoIgual DEF Debe, EsEntrada, EnPedido
    <3>2. \A i, k : Viaja(p, i, k)' => Viaja(p, i, k)
      BY <1>1, ViajaIgual
    <3>3. Fichas(p)' \subseteq Fichas(p)
      BY <3>1, <3>2, FichasParte
    <3> QED
      BY <3>3, CabenParte DEF InvMaquina, Pendientes
  <2> QED
    BY <1>1, <2>1 DEF InvMaquina, Pendientes, Caben
<1>6. UNCHANGED Ideal!vars
  BY <1>1, NadaCambia
<1> QED
  BY <1>2, <1>3, <1>4, <1>5, <1>6 DEF InvMaquina

LEMMA MaquinaPaso ==
  ASSUME ~InterrumpeLlamadas, PidenLoQueHay, BienEscritos, InvMaquina, EnSuEspacio, EnSuArchivo, [Next]_vars
  PROVE  InvMaquina' /\ [Ideal!Next]_(Ideal!vars)
<1>1. InvSalida'
  BY SalidaPaso DEF InvMaquina
<1>2. CASE Next
  <2>1. /\ Turnos /\ Prestado /\ Conexion /\ Escrituras /\ Rumbo /\ Vivos /\ Registran /\ BytesEnMemoria
    BY DEF InvMaquina, InvSalida, InvCiclo, Numeros
  <2>2. Rumbo' /\ Vivos'
    BY <1>2, <2>1, RumboPaso, VivosPaso
  <2>3. Numeros' /\ Pendientes'
    BY <1>2, NumerosPaso, PendientesPaso
  <2>4. Ideal!Next \/ UNCHANGED Ideal!vars
    BY <1>2, IdealPaso
  <2> QED
    BY <1>1, <2>2, <2>3, <2>4 DEF InvMaquina
<1>3. CASE UNCHANGED vars
  BY <1>1, <1>3, MaquinaQuieta
<1> QED
  BY <1>2, <1>3

\* For any programs that ask interfaces for what they can do, whose numbers and registers are
\* so, and that stay in their memory and in the file, and with no end of quantum between a
\* syscall's reason and its request, the CPU's cycle, the packets, the context switches, the
\* page tables and the interfaces are together a machine that executes each process's
\* instructions in order, on registers and memory that change by them or by inputs it asked
\* for, and in no other way.
THEOREM MaquinaPropia ==
  ASSUME ~InterrumpeLlamadas, PidenLoQueHay, BienEscritos
  PROVE  Spec /\ []EnSuEspacio /\ []EnSuArchivo => CadaUnoSuMaquina
<1>1. Init => InvMaquina /\ Ideal!Init
  BY MaquinaInicial, IdealInicial DEF InvMaquina
<1>2. InvMaquina /\ EnSuEspacio /\ EnSuArchivo /\ [Next]_vars => InvMaquina' /\ [Ideal!Next]_(Ideal!vars)
  BY MaquinaPaso
<1> QED
  BY <1>1, <1>2, PTL DEF Spec, CadaUnoSuMaquina, Ideal!Spec
=============================================================================
