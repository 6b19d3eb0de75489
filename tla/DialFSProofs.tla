----------------------------- MODULE DialFSProofs -----------------------------
(***************************************************************************)
(* Theorems of the DialFS interface, for any number of files, blocks,      *)
(* bytes per block and sizes: no block is lost, the list of files agrees   *)
(* with the metadata, what a file holds survives moves and compactions,    *)
(* and a file is refused a size only when the files would not fit.         *)
(***************************************************************************)
EXTENDS DialFS, ListasProofs

\* The list and the metadata agree also while the interface is down.
Concuerdan ==
  \A f \in Archivos : IF Tiene(f) THEN metadata[f] = lista[f] ELSE metadata[f] \in {NoExiste, SinClaves}

Inv == TypeOK /\ Concuerdan /\ SinFugas

-----------------------------------------------------------------------------
(* Bytes and blocks.                                                        *)

LEMMA DiscoPositivo == BLOCK_COUNT \in Nat /\ BLOCK_COUNT > 0 /\ BLOCK_SIZE \in Nat /\ BLOCK_SIZE > 0
  BY ConstantesDialFS

LEMMA PartesBasta ==
  ASSUME NEW tam \in Nat
  PROVE  /\ Partes(tam) \in Nat
         /\ tam <= Partes(tam) * BLOCK_SIZE /\ Partes(tam) * BLOCK_SIZE <= tam + BLOCK_SIZE - 1
  BY DiscoPositivo DEF Partes

\* A file takes its blocks, and one when it is empty.
LEMMA OcupaAlguno ==
  ASSUME NEW tam \in Nat
  PROVE  /\ Ocupados(tam) \in Nat \ {0} /\ Partes(tam) \in Nat /\ Partes(tam) <= Ocupados(tam)
         /\ Partes(tam) # 0 => Ocupados(tam) = Partes(tam)
<1>1. Partes(tam) \in Nat /\ tam <= Partes(tam) * BLOCK_SIZE /\ BLOCK_SIZE \in Nat
  BY DiscoPositivo, PartesBasta
<1>2. Partes(tam) = 0 => tam = 0
  BY <1>1
<1>3. Partes(0) = 0
  <2>1. Partes(0) * BLOCK_SIZE <= BLOCK_SIZE - 1 /\ Partes(0) \in Nat
    BY PartesBasta, DiscoPositivo
  <2>2. Partes(0) >= 1 => Partes(0) * BLOCK_SIZE >= BLOCK_SIZE
    BY <2>1, DiscoPositivo
  <2> QED
    BY <2>1, <2>2, DiscoPositivo
<1> QED
  BY <1>1, <1>2, <1>3 DEF Ocupados

\* Two sizes together take no more blocks than apart.
LEMMA PartesDeLaSuma ==
  ASSUME NEW a \in Nat, NEW b \in Nat
  PROVE  Partes(a + b) <= Partes(a) + Partes(b)
<1> DEFINE x == Partes(a)
           y == Partes(b)
           z == Partes(a + b)
<1>1. /\ BLOCK_SIZE \in Nat /\ BLOCK_SIZE > 0 /\ x \in Nat /\ y \in Nat /\ z \in Nat
      /\ a <= x * BLOCK_SIZE /\ b <= y * BLOCK_SIZE /\ z * BLOCK_SIZE <= (a + b) + BLOCK_SIZE - 1
  BY DiscoPositivo, PartesBasta, a + b \in Nat
<1> HIDE DEF x, y, z
<1>2. a + b <= (x + y) * BLOCK_SIZE
  BY <1>1
<1>3. z * BLOCK_SIZE < (x + y + 1) * BLOCK_SIZE
  BY <1>1, <1>2
<1>4. z < x + y + 1
  BY <1>1, <1>3
<1> QED
  BY <1>1, <1>4 DEF x, y, z

\* Where a file is, while nothing is damaged.
LEMMA EnElDisco ==
  ASSUME TypeOK, Concuerdan, Sano, NEW f \in DOMAIN lista
  PROVE  /\ f \in Archivos /\ metadata[f] = lista[f] /\ lista[f] = Entrada(Inicial(f), lista[f].tamanio)
         /\ Inicial(f) \in Nat /\ lista[f].tamanio \in Nat
         /\ OcupadosDe(f) = Ocupados(lista[f].tamanio) /\ OcupadosDe(f) \in Nat \ {0}
         /\ PartesDe(f) = Partes(lista[f].tamanio) /\ PartesDe(f) \in Nat /\ PartesDe(f) <= OcupadosDe(f)
         /\ DeEntrada(lista[f]) = Inicial(f) .. Inicial(f) + OcupadosDe(f) - 1
         /\ Inicial(f) + OcupadosDe(f) <= BLOCK_COUNT
<1>1. f \in Archivos /\ metadata[f] = lista[f] /\ lista[f] \in Entradas
  BY DEF TypeOK, Concuerdan, Tiene
<1>2. Inicial(f) \in Bloques /\ lista[f].tamanio \in Nat
  BY <1>1 DEF Entradas, Inicial
<1>3. Inicial(f) \in Nat /\ BLOCK_COUNT \in Nat
  BY <1>2, DiscoPositivo DEF Bloques
<1>4. lista[f] = Entrada(Inicial(f), lista[f].tamanio)
  BY <1>1 DEF Entradas, Inicial, Entrada
<1>5. OcupadosDe(f) = Ocupados(lista[f].tamanio) /\ DeEntrada(lista[f]) = Inicial(f) .. Inicial(f) + OcupadosDe(f) - 1
  BY <1>1 DEF OcupadosDe, DeEntrada, Inicial
<1>6. OcupadosDe(f) \in Nat \ {0} /\ PartesDe(f) \in Nat /\ PartesDe(f) <= OcupadosDe(f)
  BY <1>2, <1>5, OcupaAlguno DEF PartesDe
<1>7. Inicial(f) + OcupadosDe(f) <= BLOCK_COUNT
  <2>1. Inicial(f) + OcupadosDe(f) - 1 \in DeEntrada(lista[f])
    BY <1>3, <1>5, <1>6
  <2>2. Inicial(f) + OcupadosDe(f) - 1 \in Bloques
    BY <2>1 DEF Sano
  <2> QED
    BY <1>3, <1>6, <2>2 DEF Bloques
<1> QED
  BY <1>1, <1>2, <1>3, <1>4, <1>5, <1>6, <1>7 DEF PartesDe

\* Of two files, one is wholly before the other.
LEMMA UnoTrasOtro ==
  ASSUME TypeOK, Concuerdan, Sano, NEW f \in DOMAIN lista, NEW g \in DOMAIN lista, f # g
  PROVE  /\ Inicial(f) # Inicial(g)
         /\ Inicial(f) < Inicial(g) => Inicial(f) + OcupadosDe(f) <= Inicial(g)
<1>1. /\ Inicial(f) \in Nat /\ OcupadosDe(f) \in Nat \ {0}
      /\ DeEntrada(lista[f]) = Inicial(f) .. Inicial(f) + OcupadosDe(f) - 1
      /\ Inicial(g) \in Nat /\ OcupadosDe(g) \in Nat \ {0}
      /\ DeEntrada(lista[g]) = Inicial(g) .. Inicial(g) + OcupadosDe(g) - 1
  BY EnElDisco
<1>2. DeEntrada(lista[f]) \cap DeEntrada(lista[g]) = {}
  BY DEF Sano
<1>3. Inicial(g) \in DeEntrada(lista[g])
  BY <1>1
<1>4. Inicial(g) \notin DeEntrada(lista[f])
  BY <1>2, <1>3
<1> QED
  BY <1>1, <1>4

-----------------------------------------------------------------------------
(* The handlers other than a compaction keep the invariant.                 *)

\* What the list says is natural, and no metadata without keys says it.
LEMMA EsEntrada ==
  ASSUME NEW b \in Nat, NEW tam \in Nat
  PROVE  /\ Entrada(b, tam) \notin {NoExiste, SinClaves}
         /\ Entrada(b, tam).bloque_inicial = b /\ Entrada(b, tam).tamanio = tam
         /\ b \in Bloques => Entrada(b, tam) \in Entradas
         /\ DeEntrada(Entrada(b, tam)) = b .. b + Ocupados(tam) - 1
<1>1. Entrada(b, tam) \in [bloque_inicial : Nat, tamanio : Nat]
  BY DEF Entrada
<1> QED
  BY <1>1, ConstantesDialFS DEF Entrada, Entradas, DeEntrada

\* A new size alone: the metadata has the list's block.
LEMMA AnotaTamanio ==
  ASSUME TypeOK, Concuerdan, NEW f \in DOMAIN lista, NEW tam, AnotarTamanio(f, tam)
  PROVE  Anotar(f, Inicial(f), tam)
<1>1. f \in Archivos /\ metadata[f] = lista[f] /\ lista[f] \in Entradas
  BY DEF TypeOK, Concuerdan, Tiene
<1>2. [lista[f] EXCEPT !.tamanio = tam] = Entrada(Inicial(f), tam)
  BY <1>1 DEF Entradas, Entrada, Inicial
<1>3. metadata' = [metadata EXCEPT ![f] = [lista[f] EXCEPT !.tamanio = tam]]
  BY <1>1 DEF AnotarTamanio
<1> QED
  BY <1>2, <1>3 DEF AnotarTamanio, Anotar, Inicial

\* A new entry for f, in the list and in the metadata.
LEMMA AnotarInv ==
  ASSUME TypeOK, Concuerdan, NEW f \in DOMAIN lista, NEW b \in Bloques, NEW tam \in Nat, Anotar(f, b, tam)
  PROVE  /\ DOMAIN lista' = DOMAIN lista
         /\ \A g \in DOMAIN lista : lista'[g] = IF g = f THEN Entrada(b, tam) ELSE lista[g]
         /\ lista' \in [DOMAIN lista' -> Entradas]
         /\ metadata' \in [Archivos -> {NoExiste, SinClaves} \cup Entradas]
         /\ Concuerdan'
<1>1. b \in Nat
  BY DiscoPositivo DEF Bloques
<1>2. Entrada(b, tam) \in Entradas
  BY <1>1, EsEntrada
<1>3. f \in Archivos
  BY DEF TypeOK
<1> DEFINE e == Entrada(b, tam)
<1> HIDE DEF e
<1>4. lista' = [lista EXCEPT ![f] = e] /\ metadata' = [metadata EXCEPT ![f] = e]
  BY DEF Anotar, e
<1>5. DOMAIN lista' = DOMAIN lista /\ \A g \in DOMAIN lista : lista'[g] = IF g = f THEN e ELSE lista[g]
  BY <1>4
<1>6. /\ metadata' \in [Archivos -> {NoExiste, SinClaves} \cup Entradas]
      /\ \A g \in Archivos : metadata'[g] = IF g = f THEN e ELSE metadata[g]
  BY <1>2, <1>3, <1>4 DEF TypeOK, e
<1> QED
  BY <1>2, <1>4, <1>5, <1>6 DEF TypeOK, Concuerdan, Tiene, e

LEMMA NoSonEntradas == NoExiste \notin Entradas /\ SinClaves \notin Entradas /\ Bloques \subseteq Nat
<1>1. Bloques \subseteq Nat
  BY DiscoPositivo DEF Bloques
<1>2. Entradas \subseteq [bloque_inicial : Nat, tamanio : Nat]
  BY <1>1 DEF Entradas
<1> QED
  BY <1>1, <1>2, ConstantesDialFS

LEMMA CrearInv ==
  ASSUME Inv, NEW f \in Archivos, Crear(f)
  PROVE  Inv' /\ f \notin DOMAIN lista
<1> DEFINE b == Min(LibresEnDisco)
           e == Entrada(b, 0)
<1>1. b \in Bloques /\ ~bitmap[b]
  <2>1. LibresEnDisco \in SUBSET Nat /\ LibresEnDisco # {} /\ LibresEnDisco \subseteq Bloques
    BY NoSonEntradas DEF LibresEnDisco, Crear
  <2>2. b \in LibresEnDisco
    BY <2>1, MinDeNaturales
  <2> QED
    BY <2>1, <2>2 DEF LibresEnDisco
<1> HIDE DEF b
<1>2. /\ b \in Nat /\ e \in Entradas /\ Ocupados(0) = 1 /\ DeEntrada(e) = b .. b + Ocupados(0) - 1
  BY <1>1, NoSonEntradas, EsEntrada DEF Ocupados
<1>3. b \in DeEntrada(e)
  BY <1>2
<1>4. f \notin DOMAIN lista /\ DOMAIN lista \subseteq Archivos
  <2>1. f \in DOMAIN lista => metadata[f] = lista[f] /\ lista[f] \in Entradas
    BY DEF Inv, Concuerdan, Tiene, TypeOK
  <2> QED
    BY <2>1, NoSonEntradas DEF Crear, Inv, TypeOK
<1> HIDE DEF e
<1>5. /\ bitmap' = Marcar(bitmap, {b}) /\ metadata' = [metadata EXCEPT ![f] = e]
      /\ lista' = [g \in DOMAIN lista \cup {f} |-> IF g = f THEN e ELSE lista[g]]
      /\ bloques' = bloques /\ sin_respuesta' = Nada /\ caida' = caida
  BY DEF Crear, b, e
<1>6. /\ DOMAIN lista' = DOMAIN lista \cup {f} /\ lista'[f] = e
      /\ \A g \in DOMAIN lista : lista'[g] = lista[g]
  BY <1>4, <1>5
<1>7. /\ metadata' \in [Archivos -> {NoExiste, SinClaves} \cup Entradas]
      /\ \A g \in Archivos : metadata'[g] = IF g = f THEN e ELSE metadata[g]
  BY <1>2, <1>5 DEF Inv, TypeOK
<1>8. /\ bitmap' \in [Bloques -> BOOLEAN]
      /\ \A c \in Bloques : bitmap'[c] <=> c = b \/ bitmap[c]
  <2>1. bitmap' = [c \in Bloques |-> c \in {b} \/ bitmap[c]]
    BY <1>5 DEF Marcar
  <2> QED
    BY <2>1
<1>9. TypeOK'
  BY <1>2, <1>4, <1>5, <1>6, <1>7, <1>8 DEF Inv, TypeOK
<1>10. Concuerdan'
  BY <1>4, <1>6, <1>7 DEF Inv, Concuerdan, Tiene
<1>11. SinFugas'
  <2> SUFFICES ASSUME NEW c \in Bloques, bitmap'[c]
               PROVE  \E g \in DOMAIN lista' : c \in DeEntrada(lista'[g])
    BY DEF SinFugas
  <2>1. CASE c = b
    BY <1>3, <1>6, <2>1
  <2>2. CASE bitmap[c]
    BY <1>6, <2>2 DEF Inv, SinFugas
  <2> QED
    BY <1>8, <2>1, <2>2
<1> QED
  BY <1>4, <1>9, <1>10, <1>11 DEF Inv

LEMMA CrearSinLugarInv ==
  ASSUME Inv, NEW f \in Archivos, CrearSinLugar(f)
  PROVE  Inv'
<1>1. /\ metadata' = [metadata EXCEPT ![f] = SinClaves]
      /\ bitmap' = bitmap /\ bloques' = bloques /\ lista' = lista
      /\ sin_respuesta' = Nada /\ caida' = caida
  BY DEF CrearSinLugar
<1>2. f \notin DOMAIN lista
  <2>1. f \in DOMAIN lista => metadata[f] = lista[f] /\ lista[f] \in Entradas
    BY DEF Inv, Concuerdan, Tiene, TypeOK
  <2> QED
    BY <2>1, NoSonEntradas DEF CrearSinLugar, Inv, TypeOK
<1>3. /\ metadata' \in [Archivos -> {NoExiste, SinClaves} \cup Entradas]
      /\ \A g \in Archivos : metadata'[g] = IF g = f THEN SinClaves ELSE metadata[g]
  BY <1>1 DEF Inv, TypeOK
<1>4. TypeOK'
  BY <1>1, <1>3 DEF Inv, TypeOK
<1>5. Concuerdan'
  BY <1>1, <1>2, <1>3 DEF Inv, Concuerdan, Tiene
<1>6. SinFugas'
  BY <1>1 DEF Inv, SinFugas
<1> QED
  BY <1>4, <1>5, <1>6 DEF Inv

LEMMA BorrarInv ==
  ASSUME Inv, NEW f \in Archivos, Borrar(f)
  PROVE  Inv'
<1>1. /\ f \in DOMAIN lista /\ bitmap' = Liberar(bitmap, DeEntrada(metadata[f]))
      /\ metadata' = [metadata EXCEPT ![f] = NoExiste]
      /\ lista' = [g \in DOMAIN lista \ {f} |-> lista[g]]
      /\ bloques' = bloques /\ sin_respuesta' = Nada /\ caida' = caida
  BY DEF Borrar, Tiene
<1>2. /\ DOMAIN lista' = DOMAIN lista \ {f}
      /\ \A g \in DOMAIN lista' : lista'[g] = lista[g]
  BY <1>1
<1>3. /\ metadata' \in [Archivos -> {NoExiste, SinClaves} \cup Entradas]
      /\ \A g \in Archivos : metadata'[g] = IF g = f THEN NoExiste ELSE metadata[g]
  BY <1>1 DEF Inv, TypeOK
<1>4. metadata[f] = lista[f]
  BY <1>1 DEF Inv, Concuerdan, Tiene
<1>5. /\ bitmap' \in [Bloques -> BOOLEAN]
      /\ \A c \in Bloques : bitmap'[c] <=> c \notin DeEntrada(lista[f]) /\ bitmap[c]
  <2>1. bitmap' = [c \in Bloques |-> c \notin DeEntrada(lista[f]) /\ bitmap[c]]
    BY <1>1, <1>4 DEF Liberar
  <2> QED
    BY <2>1
<1>6. TypeOK'
  BY <1>1, <1>2, <1>3, <1>5 DEF Inv, TypeOK
<1>7. Concuerdan'
  BY <1>1, <1>2, <1>3 DEF Inv, Concuerdan, Tiene
<1>8. SinFugas'
  <2> SUFFICES ASSUME NEW c \in Bloques, bitmap'[c]
               PROVE  \E g \in DOMAIN lista' : c \in DeEntrada(lista'[g])
    BY DEF SinFugas
  <2>1. PICK g \in DOMAIN lista : c \in DeEntrada(lista[g])
    BY <1>5 DEF Inv, SinFugas
  <2>2. g # f
    BY <1>5, <2>1
  <2> QED
    BY <1>2, <2>1, <2>2
<1> QED
  BY <1>6, <1>7, <1>8 DEF Inv

\* A block of another file is none of f's.
LEMMA Ajeno ==
  ASSUME TypeOK, Concuerdan, Sano, NEW f \in DOMAIN lista, NEW g \in DOMAIN lista, g # f, NEW c \in DeEntrada(lista[g])
  PROVE  /\ c \in Bloques /\ c \in Nat /\ bitmap[c]
         /\ ~(Inicial(f) <= c /\ c < Inicial(f) + OcupadosDe(f))
<1>1. c \in Bloques /\ bitmap[c] /\ c \notin DeEntrada(lista[f])
  BY DEF Sano
<1>2. /\ DeEntrada(lista[f]) = Inicial(f) .. Inicial(f) + OcupadosDe(f) - 1
      /\ Inicial(f) \in Nat /\ OcupadosDe(f) \in Nat /\ c \in Nat
  BY <1>1, EnElDisco, NoSonEntradas
<1> QED
  BY <1>1, <1>2

\* A truncation that notes new blocks for f loses none: it marks no other, and leaves
\* those of the rest.
LEMMA TruncarInv ==
  ASSUME Inv, Sano, NEW f \in DOMAIN lista, NEW b \in Bloques, NEW tam \in Nat, Anotar(f, b, tam),
         bitmap' \in [Bloques -> BOOLEAN],
         \A c \in Bloques : bitmap'[c] =>
           \/ c \in DeEntrada(Entrada(b, tam))
           \/ bitmap[c] /\ c \notin DeEntrada(lista[f]),
         bloques' \in [Bloques -> {Nada} \cup (Archivos \X Bloques)],
         sin_respuesta' = Nada, caida' = caida
  PROVE  Inv'
<1>1. /\ DOMAIN lista' = DOMAIN lista
      /\ \A g \in DOMAIN lista : lista'[g] = IF g = f THEN Entrada(b, tam) ELSE lista[g]
      /\ lista' \in [DOMAIN lista' -> Entradas]
      /\ metadata' \in [Archivos -> {NoExiste, SinClaves} \cup Entradas]
      /\ Concuerdan'
  BY AnotarInv DEF Inv
<1>2. TypeOK'
  BY <1>1 DEF Inv, TypeOK
<1>3. SinFugas'
  <2> SUFFICES ASSUME NEW c \in Bloques, bitmap'[c]
               PROVE  \E g \in DOMAIN lista' : c \in DeEntrada(lista'[g])
    BY DEF SinFugas
  <2>1. CASE c \in DeEntrada(Entrada(b, tam))
    BY <1>1, <2>1
  <2>2. CASE bitmap[c] /\ c \notin DeEntrada(lista[f])
    <3>1. PICK g \in DOMAIN lista : c \in DeEntrada(lista[g])
      BY <2>2 DEF Inv, SinFugas
    <3> QED
      BY <1>1, <2>2, <3>1
  <2> QED
    BY <2>1, <2>2
<1> QED
  BY <1>1, <1>2, <1>3 DEF Inv

LEMMA DentroDelDisco ==
  ASSUME Inv, Sano, NEW f \in DOMAIN lista
  PROVE  /\ Inicial(f) \in Bloques /\ Inicial(f) \in Nat /\ OcupadosDe(f) \in Nat \ {0}
         /\ DeEntrada(lista[f]) = Inicial(f) .. Inicial(f) + OcupadosDe(f) - 1
<1>1. /\ Inicial(f) \in Nat /\ OcupadosDe(f) \in Nat \ {0} /\ Inicial(f) + OcupadosDe(f) <= BLOCK_COUNT
      /\ DeEntrada(lista[f]) = Inicial(f) .. Inicial(f) + OcupadosDe(f) - 1
  BY EnElDisco DEF Inv
<1> QED
  BY <1>1, DiscoPositivo DEF Bloques

LEMMA AchicarInv ==
  ASSUME Inv, Sano, NEW f \in Archivos, NEW tam \in Nat, Achicar(f, tam)
  PROVE  Inv'
<1> DEFINE sobran == Inicial(f) + Partes(tam) .. Inicial(f) + OcupadosDe(f) - 1
           de == DeEntrada(Entrada(Inicial(f), tam))
<1>1. /\ f \in DOMAIN lista /\ Partes(tam) < OcupadosDe(f)
      /\ bitmap' = Liberar(bitmap, sobran)
      /\ bloques' = [c \in Bloques |-> IF c \in sobran THEN Nada ELSE bloques[c]]
      /\ Anotar(f, Inicial(f), tam) /\ sin_respuesta' = Nada /\ caida' = caida
  BY AnotaTamanio DEF Achicar, Tiene, Inv
<1>2. /\ Inicial(f) \in Bloques /\ Inicial(f) \in Nat /\ OcupadosDe(f) \in Nat \ {0}
      /\ DeEntrada(lista[f]) = Inicial(f) .. Inicial(f) + OcupadosDe(f) - 1
  BY <1>1, DentroDelDisco
<1>3. de = Inicial(f) .. Inicial(f) + Ocupados(tam) - 1
  BY <1>2, EsEntrada
<1>4. Ocupados(tam) \in Nat \ {0} /\ Partes(tam) \in Nat /\ Partes(tam) <= Ocupados(tam)
  BY OcupaAlguno
<1>5. /\ bitmap' \in [Bloques -> BOOLEAN]
      /\ \A c \in Bloques : bitmap'[c] <=> c \notin sobran /\ bitmap[c]
  <2>1. bitmap' = [c \in Bloques |-> c \notin sobran /\ bitmap[c]]
    BY <1>1 DEF Liberar
  <2> HIDE DEF sobran
  <2> QED
    BY <2>1
<1>6. \A c \in Bloques : c \in DeEntrada(lista[f]) => c \in sobran \/ c \in de
  BY <1>1, <1>2, <1>3, <1>4, NoSonEntradas
<1>7. bloques' \in [Bloques -> {Nada} \cup (Archivos \X Bloques)]
  <2> HIDE DEF sobran
  <2> QED
    BY <1>1 DEF Inv, TypeOK
<1>8. \A c \in Bloques : bitmap'[c] => c \in de \/ (bitmap[c] /\ c \notin DeEntrada(lista[f]))
  <2> HIDE DEF sobran, de
  <2> QED
    BY <1>5, <1>6
<1> QED
  BY <1>1, <1>2, <1>5, <1>7, <1>8, TruncarInv

LEMMA MismosBloquesInv ==
  ASSUME Inv, Sano, NEW f \in Archivos, NEW tam \in Nat, MismosBloques(f, tam)
  PROVE  Inv'
<1>1. /\ f \in DOMAIN lista /\ Partes(tam) = OcupadosDe(f)
      /\ bitmap' = bitmap /\ bloques' = bloques
      /\ Anotar(f, Inicial(f), tam) /\ sin_respuesta' = Nada /\ caida' = caida
  BY AnotaTamanio DEF MismosBloques, Tiene, Inv
<1>2. /\ Inicial(f) \in Bloques /\ Inicial(f) \in Nat /\ OcupadosDe(f) \in Nat \ {0}
      /\ DeEntrada(lista[f]) = Inicial(f) .. Inicial(f) + OcupadosDe(f) - 1
  BY <1>1, DentroDelDisco
<1>3. DeEntrada(Entrada(Inicial(f), tam)) = DeEntrada(lista[f])
  <2>1. Ocupados(tam) = OcupadosDe(f)
    BY <1>1, <1>2, OcupaAlguno
  <2> QED
    BY <1>2, <2>1, EsEntrada
<1>4. bitmap \in [Bloques -> BOOLEAN] /\ bloques \in [Bloques -> {Nada} \cup (Archivos \X Bloques)]
  BY DEF Inv, TypeOK
<1> QED
  BY <1>1, <1>2, <1>3, <1>4, TruncarInv

LEMMA AgrandarEnLugarInv ==
  ASSUME Inv, Sano, NEW f \in Archivos, NEW tam \in Nat, AgrandarEnLugar(f, tam)
  PROVE  Inv'
<1> DEFINE nuevos == Inicial(f) .. Inicial(f) + Partes(tam) - 1
<1>1. /\ f \in DOMAIN lista /\ Partes(tam) > OcupadosDe(f)
      /\ bitmap' = Marcar(bitmap, nuevos) /\ bloques' = bloques
      /\ Anotar(f, Inicial(f), tam) /\ sin_respuesta' = Nada /\ caida' = caida
  BY DEF AgrandarEnLugar, Crece, Tiene
<1>2. /\ Inicial(f) \in Bloques /\ Inicial(f) \in Nat /\ OcupadosDe(f) \in Nat \ {0}
      /\ DeEntrada(lista[f]) = Inicial(f) .. Inicial(f) + OcupadosDe(f) - 1
  BY <1>1, DentroDelDisco
<1>3. DeEntrada(Entrada(Inicial(f), tam)) = nuevos /\ Partes(tam) \in Nat
  <2>1. Ocupados(tam) = Partes(tam) /\ Partes(tam) \in Nat
    BY <1>1, <1>2, OcupaAlguno
  <2> QED
    BY <1>2, <2>1, EsEntrada
<1>4. \A c \in DeEntrada(lista[f]) : c \in nuevos
  BY <1>1, <1>2, <1>3
<1> HIDE DEF nuevos
<1>5. /\ bitmap' \in [Bloques -> BOOLEAN]
      /\ \A c \in Bloques : bitmap'[c] <=> c \in nuevos \/ bitmap[c]
  <2>1. bitmap' = [c \in Bloques |-> c \in nuevos \/ bitmap[c]]
    BY <1>1 DEF Marcar
  <2> QED
    BY <2>1
<1>6. bloques \in [Bloques -> {Nada} \cup (Archivos \X Bloques)]
  BY DEF Inv, TypeOK
<1> QED
  BY <1>1, <1>2, <1>3, <1>4, <1>5, <1>6, TruncarInv

\* memmove: n blocks arrive, and nothing else changes.
Copiado(r, bs, de, a, n) ==
  /\ \A b \in Bloques : b < a \/ b >= a + n => r[b] = bs[b]
  /\ \A i \in 0 .. n - 1 : a + i \in Bloques => r[a + i] = bs[de + i]

LEMMA CopiarMueve ==
  ASSUME NEW S, NEW bs \in [Bloques -> S], NEW de \in Nat, NEW a \in Nat, NEW n \in Nat,
         de + n <= BLOCK_COUNT
  PROVE  /\ Copiar(bs, de, a, n) \in [Bloques -> S]
         /\ Copiado(Copiar(bs, de, a, n), bs, de, a, n)
<1>0. BLOCK_COUNT \in Nat
  BY DiscoPositivo
<1> DEFINE r == Copiar(bs, de, a, n)
<1>1. r = [b \in Bloques |-> IF b - a \in 0 .. n - 1 THEN bs[de + (b - a)] ELSE bs[b]]
  BY DEF Copiar
<1>2. \A b \in Bloques : b - a \in 0 .. n - 1 => de + (b - a) \in Bloques
  BY <1>0 DEF Bloques
<1>3. \A b \in Bloques : r[b] = IF b - a \in 0 .. n - 1 THEN bs[de + (b - a)] ELSE bs[b]
  BY <1>1
<1>4. r \in [Bloques -> S]
  BY <1>1, <1>2
<1> HIDE DEF r
<1>5. \A b \in Bloques : b < a \/ b >= a + n => r[b] = bs[b]
  BY <1>0, <1>3 DEF Bloques
<1>6. ASSUME NEW i \in 0 .. n - 1, a + i \in Bloques PROVE r[a + i] = bs[de + i]
  <2>1. (a + i) - a = i
    OBVIOUS
  <2> QED
    BY <1>3, <1>6, <2>1
<1> QED
  BY <1>4, <1>5, <1>6 DEF r, Copiado

\* The place found holds nothing of the other files.
LEMMA HuecoLibre ==
  ASSUME Inv, Sano, NEW f \in DOMAIN lista, NEW n \in Nat, Huecos(f, n) # {}
  PROVE  /\ Min(Huecos(f, n)) \in Nat /\ Min(Huecos(f, n)) + n <= BLOCK_COUNT
         /\ \A c \in Min(Huecos(f, n)) .. Min(Huecos(f, n)) + n - 1 :
              c \in Bloques /\ (~bitmap[c] \/ c \in DeEntrada(lista[f]))
<1> DEFINE b == Min(Huecos(f, n))
<1>1. Huecos(f, n) \in SUBSET Nat
  BY DiscoPositivo DEF Huecos
<1>2. b \in Huecos(f, n)
  BY <1>1, MinDeNaturales
<1> HIDE DEF b
<1>3. /\ b \in 0 .. BLOCK_COUNT - n
      /\ \A c \in b .. b + n - 1 : ~bitmap[c] \/ c \in Inicial(f) .. Inicial(f) + Contados(f) - 1
  BY <1>2 DEF Huecos
<1>4. /\ Inicial(f) \in Nat /\ OcupadosDe(f) \in Nat \ {0}
      /\ DeEntrada(lista[f]) = Inicial(f) .. Inicial(f) + OcupadosDe(f) - 1
  BY DentroDelDisco
<1>5. Inicial(f) .. Inicial(f) + Contados(f) - 1 \subseteq DeEntrada(lista[f])
  BY <1>4 DEF Contados
<1>6. b \in Nat /\ b + n <= BLOCK_COUNT /\ \A c \in b .. b + n - 1 : c \in Bloques
  BY <1>3, DiscoPositivo DEF Bloques
<1> QED
  BY <1>3, <1>5, <1>6 DEF b

LEMMA MoverInv ==
  ASSUME Inv, Sano, NEW f \in Archivos, NEW tam \in Nat, Mover(f, tam)
  PROVE  Inv'
<1> DEFINE b == Min(Huecos(f, Partes(tam)))
           viejos == Inicial(f) .. Inicial(f) + OcupadosDe(f) - 1
           nuevos == b .. b + Partes(tam) - 1
<1>1. /\ f \in DOMAIN lista /\ Partes(tam) > OcupadosDe(f) /\ Huecos(f, Partes(tam)) # {}
      /\ bitmap' = Marcar(Liberar(bitmap, viejos), nuevos)
      /\ bloques' = Copiar(bloques, Inicial(f), b, OcupadosDe(f))
      /\ Anotar(f, b, tam) /\ sin_respuesta' = Nada /\ caida' = caida
  BY DEF Mover, Crece, Tiene
<1>2. /\ Inicial(f) \in Nat /\ OcupadosDe(f) \in Nat \ {0} /\ Inicial(f) + OcupadosDe(f) <= BLOCK_COUNT
      /\ DeEntrada(lista[f]) = viejos
  BY <1>1, EnElDisco DEF Inv
<1>3. Ocupados(tam) = Partes(tam) /\ Partes(tam) \in Nat \ {0}
  <2>1. Partes(tam) \in Nat /\ (Partes(tam) # 0 => Ocupados(tam) = Partes(tam))
    BY OcupaAlguno
  <2>2. Partes(tam) > OcupadosDe(f) /\ OcupadosDe(f) \in Nat
    BY <1>1, <1>2
  <2> QED
    BY <2>1, <2>2
<1>4. b \in Nat /\ b + Partes(tam) <= BLOCK_COUNT
  BY <1>1, <1>3, HuecoLibre
<1>5. b \in Bloques
  BY <1>3, <1>4, DiscoPositivo DEF Bloques
<1> HIDE DEF b
<1>6. DeEntrada(Entrada(b, tam)) = nuevos
  BY <1>3, <1>4, EsEntrada
<1> HIDE DEF viejos, nuevos
<1>7. /\ bitmap' \in [Bloques -> BOOLEAN]
      /\ \A c \in Bloques : bitmap'[c] <=> c \in nuevos \/ (c \notin viejos /\ bitmap[c])
  <2> DEFINE l == [c \in Bloques |-> c \notin viejos /\ bitmap[c]]
  <2>1. bitmap' = [c \in Bloques |-> c \in nuevos \/ l[c]]
    BY <1>1 DEF Marcar, Liberar
  <2>2. \A c \in Bloques : l[c] <=> c \notin viejos /\ bitmap[c]
    OBVIOUS
  <2> HIDE DEF l
  <2> QED
    BY <2>1, <2>2
<1>8. bloques' \in [Bloques -> {Nada} \cup (Archivos \X Bloques)]
  <2>1. bloques \in [Bloques -> {Nada} \cup (Archivos \X Bloques)]
    BY DEF Inv, TypeOK
  <2> QED
    BY <1>1, <1>2, <1>4, <2>1, CopiarMueve
<1> QED
  BY <1>1, <1>2, <1>5, <1>6, <1>7, <1>8, TruncarInv

LEMMA TruncarSinLugarInv ==
  ASSUME Inv, NEW f \in Archivos, NEW tam \in Tamanios, TruncarSinLugar(f, tam)
  PROVE  Inv'
<1>1. /\ bitmap' = bitmap /\ bloques' = bloques /\ metadata' = metadata /\ lista' = lista
      /\ sin_respuesta' = <<f, tam>> /\ caida' = caida
  BY DEF TruncarSinLugar, disco
<1> QED
  BY <1>1 DEF Inv, TypeOK, Concuerdan, Tiene, SinFugas

LEMMA UsarSinClavesInv ==
  ASSUME Inv, NEW f \in Archivos, UsarSinClaves(f)
  PROVE  Inv'
<1>1. /\ bitmap' = bitmap /\ bloques' = bloques /\ metadata' = metadata /\ lista' = lista
      /\ sin_respuesta' = Nada /\ caida' = TRUE
  BY DEF UsarSinClaves, disco
<1> QED
  BY <1>1 DEF Inv, TypeOK, Concuerdan, Tiene, SinFugas

LEMMA EscribirInv ==
  ASSUME Inv, Sano, NEW f \in Archivos, NEW i \in Bloques, Escribir(f, i)
  PROVE  Inv'
<1>1. /\ f \in DOMAIN lista /\ bloques' = [bloques EXCEPT ![Inicial(f) + i] = <<f, i>>]
      /\ bitmap' = bitmap /\ metadata' = metadata /\ lista' = lista
      /\ sin_respuesta' = Nada /\ caida' = caida
  BY DEF Escribir, Tiene
<1>2. bloques' \in [Bloques -> {Nada} \cup (Archivos \X Bloques)]
  <2>1. <<f, i>> \in Archivos \X Bloques
    OBVIOUS
  <2> QED
    BY <1>1, <2>1 DEF Inv, TypeOK
<1> QED
  BY <1>1, <1>2 DEF Inv, TypeOK, Concuerdan, Tiene, SinFugas

\* The list read at the start is the one there was.
LEMMA ReiniciarInv ==
  ASSUME Inv, Reiniciar
  PROVE  Inv' /\ lista' = lista
<1>1. /\ \A f \in Archivos : metadata[f] # SinClaves
      /\ lista' = [f \in {g \in Archivos : metadata[g] # NoExiste} |-> metadata[f]]
      /\ bitmap' = bitmap /\ bloques' = bloques /\ metadata' = metadata
      /\ sin_respuesta' = Nada /\ caida' = FALSE
  BY DEF Reiniciar, disco
<1>2. DOMAIN lista = {g \in Archivos : metadata[g] # NoExiste}
  <2>1. DOMAIN lista \subseteq Archivos /\ \A f \in DOMAIN lista : lista[f] \in Entradas /\ metadata[f] = lista[f]
    BY DEF Inv, TypeOK, Concuerdan, Tiene
  <2>2. \A f \in Archivos : f \notin DOMAIN lista => metadata[f] = NoExiste
    BY <1>1 DEF Inv, Concuerdan, Tiene
  <2> QED
    BY <2>1, <2>2, NoSonEntradas
<1>3. lista = [f \in DOMAIN lista |-> lista[f]]
  BY DEF Inv, TypeOK
<1>4. lista' = lista
  BY <1>1, <1>2, <1>3 DEF Inv, TypeOK, Concuerdan, Tiene
<1> QED
  BY <1>1, <1>4 DEF Inv, TypeOK, Concuerdan, Tiene, SinFugas

-----------------------------------------------------------------------------
(* A compaction.  The files are sorted, f last; each one but f goes to a    *)
(* block at or before its own, so the moves, in order, destroy nothing.     *)

\* s has every file of S once, by first block.
PorBloque(s, S) ==
  s \in [1 .. Cardinality(S) -> S]
  /\ \A i, j \in 1 .. Cardinality(S) : i < j => Inicial(s[i]) < Inicial(s[j])

\* Any files can be sorted: otherwise take the least number of them that cannot, and
\* put the last of them after the others.
LEMMA SePuedenOrdenar ==
  ASSUME Inv, Sano
  PROVE  \A S \in SUBSET DOMAIN lista : \E s : PorBloque(s, S)
<1>0. IsFiniteSet(DOMAIN lista)
  BY ConstantesDialFS, FS_Subset DEF Inv, TypeOK
<1> DEFINE Mal == {n \in Nat : \E S \in SUBSET DOMAIN lista : Cardinality(S) = n /\ ~ \E s : PorBloque(s, S)}
<1>1. ASSUME Mal # {} PROVE FALSE
  <2>1. Mal \in SUBSET Nat
    OBVIOUS
  <2>2. Min(Mal) \in Mal /\ \A m \in Mal : Min(Mal) <= m
    <3> HIDE DEF Mal
    <3> QED
      BY <1>1, <2>1, MinDeNaturales
  <2>3. PICK S \in SUBSET DOMAIN lista : Cardinality(S) = Min(Mal) /\ ~ \E s : PorBloque(s, S)
    BY <2>2
  <2> DEFINE n == Cardinality(S)
  <2>4. n \in Nat /\ IsFiniteSet(S) /\ n = Min(Mal)
    BY <1>0, <2>3, FS_Subset, FS_CardinalityType
  <2>5. S # {}
    <3> SUFFICES ASSUME S = {} PROVE FALSE
      OBVIOUS
    <3>1. n = 0 /\ 1 .. n = {}
      BY FS_EmptySet
    <3>2. PorBloque(<<>>, S)
      BY <3>1 DEF PorBloque
    <3> QED
      BY <2>3, <3>2
  <2>6. PICK x \in S : \A g \in S : Inicial(g) <= Inicial(x)
    <3> DEFINE R == {BLOCK_COUNT - Inicial(g) : g \in S}
    <3>1. \A g \in S : Inicial(g) \in Nat /\ BLOCK_COUNT - Inicial(g) \in Nat
      <4> SUFFICES ASSUME NEW g \in S PROVE Inicial(g) \in Nat /\ BLOCK_COUNT - Inicial(g) \in Nat
        OBVIOUS
      <4>1. Inicial(g) \in Bloques /\ Inicial(g) \in Nat
        BY DentroDelDisco
      <4> QED
        BY <4>1, DiscoPositivo DEF Bloques
    <3>2. Min(R) \in R /\ \A y \in R : Min(R) <= y
      <4>1. R \in SUBSET Nat /\ R # {}
        BY <2>5, <3>1
      <4> HIDE DEF R
      <4> QED
        BY <4>1, MinDeNaturales
    <3>3. PICK x \in S : Min(R) = BLOCK_COUNT - Inicial(x)
      BY <3>2
    <3>4. \A g \in S : BLOCK_COUNT - Inicial(x) <= BLOCK_COUNT - Inicial(g)
      BY <3>2, <3>3
    <3> QED
      BY <3>1, <3>4, DiscoPositivo
  <2> DEFINE T == S \ {x}
  <2>7. T \in SUBSET DOMAIN lista /\ Cardinality(T) = n - 1 /\ n - 1 \in Nat
    <3>1. Cardinality(T) = n - 1 /\ IsFiniteSet(T)
      BY <2>4, FS_RemoveElement
    <3> QED
      BY <3>1, FS_CardinalityType
  <2>8. PICK t : PorBloque(t, T)
    <3>1. n - 1 \notin Mal
      <4>1. n - 1 \in Mal => n <= n - 1
        BY <2>2, <2>4
      <4> QED
        BY SMTT(30), <2>4, <4>1
    <3> QED
      BY <2>7, <3>1
  <2>9. /\ t \in [1 .. n - 1 -> T]
        /\ \A i, j \in 1 .. n - 1 : i < j => Inicial(t[i]) < Inicial(t[j])
    BY <2>7, <2>8 DEF PorBloque
  <2> DEFINE s == [i \in 1 .. n |-> IF i = n THEN x ELSE t[i]]
  <2> HIDE DEF n
  <2>10. \A i \in 1 .. n : i # n => i \in 1 .. n - 1
    BY <2>4
  <2>11. s \in [1 .. n -> S]
    BY <2>9, <2>10
  <2>12. \A i \in 1 .. n - 1 : Inicial(t[i]) < Inicial(x)
    <3> TAKE i \in 1 .. n - 1
    <3>1. t[i] \in S /\ t[i] # x
      BY <2>9
    <3>2. Inicial(t[i]) # Inicial(x) /\ Inicial(t[i]) <= Inicial(x)
      BY <2>6, <3>1, UnoTrasOtro DEF Inv
    <3>3. Inicial(t[i]) \in Nat /\ Inicial(x) \in Nat
      BY <3>1, DentroDelDisco
    <3> QED
      BY <3>2, <3>3
  <2>13. \A i, j \in 1 .. n : i < j => Inicial(s[i]) < Inicial(s[j])
    <3> TAKE i, j \in 1 .. n
    <3> HAVE i < j
    <3>1. i # n /\ i \in 1 .. n - 1 /\ s[i] = t[i]
      BY <2>4, <2>10
    <3>2. CASE j = n
      BY <2>12, <3>1, <3>2
    <3>3. CASE j # n
      BY <2>9, <2>10, <3>1, <3>3
    <3> QED
      BY <3>2, <3>3
  <2> HIDE DEF s
  <2>14. PorBloque(s, S)
    BY <2>11, <2>13 DEF PorBloque, n
  <2> QED
    BY <2>3, <2>14
<1>2. \A S \in SUBSET DOMAIN lista : Cardinality(S) \in Nat
  BY <1>0, FS_Subset, FS_CardinalityType
<1> QED
  BY <1>1, <1>2

LEMMA OrdenadosPorBloque ==
  ASSUME Inv, Sano, NEW S \in SUBSET DOMAIN lista
  PROVE  /\ Ordenados(S) \in Seq(S) /\ Len(Ordenados(S)) = Cardinality(S) /\ Cardinality(S) \in Nat
         /\ \A i, j \in 1 .. Cardinality(S) : i < j => Inicial(Ordenados(S)[i]) < Inicial(Ordenados(S)[j])
         /\ \A g \in S : \E i \in 1 .. Cardinality(S) : Ordenados(S)[i] = g
<1> DEFINE n == Cardinality(S)
           s == Ordenados(S)
<1>1. IsFiniteSet(S) /\ n \in Nat
  <2>1. IsFiniteSet(DOMAIN lista)
    BY ConstantesDialFS, FS_Subset DEF Inv, TypeOK
  <2> QED
    BY <2>1, FS_Subset, FS_CardinalityType
<1>2. PorBloque(s, S)
  <2>1. \E r : PorBloque(r, S)
    BY SePuedenOrdenar
  <2> QED
    BY <2>1 DEF PorBloque, Ordenados
<1> HIDE DEF s
<1>3. s \in [1 .. n -> S] /\ \A i, j \in 1 .. n : i < j => Inicial(s[i]) < Inicial(s[j])
  BY <1>2 DEF PorBloque
<1>4. s \in Seq(S) /\ Len(s) = n
  BY <1>1, <1>3, ListaDeFuncion
<1>5. \A i \in 1 .. n : Inicial(s[i]) \in Nat
  BY <1>3, DentroDelDisco
<1> HIDE DEF n
<1>6. \A i, j \in 1 .. n : s[i] = s[j] => i = j
  BY <1>1, <1>3, <1>5
<1>7. s \in Injection(1 .. n, S)
  BY <1>3, <1>6 DEF Injection, IsInjective
<1>8. Cardinality(1 .. n) = n
  BY <1>1, FS_Interval
<1>9. s \in Surjection(1 .. n, S)
  BY <1>1, <1>7, <1>8, FS_Injection DEF n
<1>10. \A g \in S : \E i \in 1 .. n : s[i] = g
  BY <1>9 DEF Surjection
<1> QED
  BY <1>1, <1>3, <1>4, <1>10 DEF n, s

\* The order the files are moved in: f the last, the others by first block.
EsOrden(orden, f) ==
  /\ orden \in Seq(DOMAIN lista) /\ Len(orden) \in Nat \ {0} /\ orden[Len(orden)] = f
  /\ \A i, j \in 1 .. Len(orden) - 1 : i < j => Inicial(orden[i]) < Inicial(orden[j])
  /\ \A i, j \in 1 .. Len(orden) : orden[i] = orden[j] => i = j
  /\ \A g \in DOMAIN lista : \E k \in 1 .. Len(orden) : orden[k] = g

LEMMA OrdenCompactadoEs ==
  ASSUME Inv, Sano, NEW f \in DOMAIN lista
  PROVE  EsOrden(OrdenCompactado(f), f)
<1> DEFINE S == DOMAIN lista \ {f}
           s == Ordenados(S)
           n == Cardinality(S)
           o == Append(s, f)
<1>1. /\ s \in Seq(S) /\ Len(s) = n /\ n \in Nat
      /\ \A i, j \in 1 .. n : i < j => Inicial(s[i]) < Inicial(s[j])
      /\ \A g \in S : \E i \in 1 .. n : s[i] = g
  BY OrdenadosPorBloque
<1> HIDE DEF s, n
<1>2. s \in Seq(DOMAIN lista) /\ \A i \in 1 .. n : s[i] \in S
  BY <1>1
<1>3. /\ o \in Seq(DOMAIN lista) /\ Len(o) = n + 1 /\ o[n + 1] = f
      /\ \A i \in 1 .. n : o[i] = s[i]
  BY <1>1, <1>2, AppendProperties
<1> HIDE DEF o
<1>4. Len(o) - 1 = n /\ Len(o) \in Nat \ {0}
  BY <1>1, <1>3
<1>5. \A i, j \in 1 .. n : i < j => Inicial(o[i]) < Inicial(o[j])
  BY <1>1, <1>3
<1>6. \A i \in 1 .. n : o[i] # f /\ o[i] \in DOMAIN lista /\ Inicial(o[i]) \in Nat
  BY <1>2, <1>3, DentroDelDisco
<1>7. \A i, j \in 1 .. n : o[i] = o[j] => i = j
  BY SMTT(30), <1>1, <1>5, <1>6
<1>8. \A i, j \in 1 .. n + 1 : o[i] = o[j] => i = j
  <2>1. \A i \in 1 .. n + 1 : i = n + 1 \/ i \in 1 .. n
    BY <1>1
  <2> QED
    BY <1>3, <1>6, <1>7, <2>1
<1>9. \A g \in DOMAIN lista : \E k \in 1 .. n + 1 : o[k] = g
  <2> TAKE g \in DOMAIN lista
  <2>1. CASE g = f
    BY <1>1, <1>3, <2>1
  <2>2. CASE g # f
    <3>1. PICK i \in 1 .. n : s[i] = g
      BY <1>1, <2>2
    <3> QED
      BY <1>1, <1>3, <3>1
  <2> QED
    BY <2>1, <2>2
<1>10. EsOrden(o, f)
  BY <1>3, <1>4, <1>5, <1>8, <1>9 DEF EsOrden
<1> QED
  BY <1>10 DEF OrdenCompactado, o, s

\* Each file starts where the one before ends.
LEMMA InicioSigue ==
  ASSUME Inv, Sano, NEW f \in DOMAIN lista, NEW orden, EsOrden(orden, f)
  PROVE  /\ InicioCompactado(orden, 1) = 0
         /\ \A k \in 1 .. Len(orden) :
              /\ orden[k] \in DOMAIN lista
              /\ InicioCompactado(orden, k) \in Nat /\ PartesDe(orden[k]) \in Nat
              /\ InicioCompactado(orden, k + 1) = InicioCompactado(orden, k) + PartesDe(orden[k])
<1> DEFINE L == Len(orden)
<1>1. L \in Nat \ {0} /\ \A k \in 1 .. L : orden[k] \in DOMAIN lista
  BY ElementOfSeq DEF EsOrden
<1> HIDE DEF L
<1>2. \A k \in 1 .. L : PartesDe(orden[k]) \in Nat
  BY <1>1, EnElDisco DEF Inv
<1>3. InicioCompactado(orden, 1) = 0
  <2>1. 1 .. 1 - 1 = {}
    OBVIOUS
  <2>2. [j \in {} |-> PartesDe(orden[j])] \in [{} -> Nat]
    OBVIOUS
  <2>3. SumFunction([j \in {} |-> PartesDe(orden[j])]) = 0
    BY ONLY <2>2, SumaVacia
  <2> QED
    BY <2>1, <2>3 DEF InicioCompactado
<1>4. ASSUME NEW k \in 1 .. L
      PROVE  /\ InicioCompactado(orden, k) \in Nat
             /\ InicioCompactado(orden, k + 1) = InicioCompactado(orden, k) + PartesDe(orden[k])
  <2> DEFINE todos  == [j \in 1 .. k |-> PartesDe(orden[j])]
             antes  == [j \in 1 .. k - 1 |-> PartesDe(orden[j])]
  <2>1. 1 .. k \subseteq 1 .. L /\ 1 .. k - 1 \subseteq 1 .. k /\ (k + 1) - 1 = k /\ k \in Nat \ {0} /\ k \in 1 .. k
    BY <1>1
  <2>2. todos \in [1 .. k -> Nat] /\ antes \in [1 .. k - 1 -> Nat] /\ todos[k] = PartesDe(orden[k])
    BY <1>2, <2>1
  <2>3. \A j \in 1 .. k - 1 : antes[j] = todos[j]
    BY <2>1
  <2>4. InicioCompactado(orden, k + 1) = SumFunction(todos) /\ InicioCompactado(orden, k) = SumFunction(antes)
    BY <2>1 DEF InicioCompactado
  <2> HIDE DEF todos, antes
  <2>5. TerminoMas(todos, antes, k)
    BY <2>1, <2>2, <2>3, SumaHasta
  <2> QED
    BY <2>2, <2>4, <2>5 DEF TerminoMas
<1> QED
  BY <1>1, <1>2, <1>3, <1>4 DEF L

LEMMA IniciosCrecen ==
  ASSUME Inv, Sano, NEW f \in DOMAIN lista, NEW orden, EsOrden(orden, f),
         NEW j \in 1 .. Len(orden), NEW k \in 1 .. Len(orden) + 1, j < k
  PROVE  InicioCompactado(orden, j) + PartesDe(orden[j]) <= InicioCompactado(orden, k)
<1> DEFINE L == Len(orden)
           c(i) == InicioCompactado(orden, i)
           Mal == {i \in j + 1 .. L + 1 : ~(c(j) + PartesDe(orden[j]) <= c(i))}
<1>1. /\ L \in Nat \ {0}
      /\ \A i \in 1 .. L : c(i) \in Nat /\ PartesDe(orden[i]) \in Nat /\ c(i + 1) = c(i) + PartesDe(orden[i])
  BY InicioSigue DEF EsOrden
<1>2. ASSUME Mal # {} PROVE FALSE
  <2>1. Mal \in SUBSET Nat
    BY <1>1
  <2>2. PICK i \in Mal : \A m \in Mal : i <= m
    <3> HIDE DEF Mal
    <3> QED
      BY <1>2, <2>1, MinDeNaturales
  <2> HIDE DEF c, L
  <2>3. i \in j + 1 .. L + 1 /\ ~(c(j) + PartesDe(orden[j]) <= c(i)) /\ j \in 1 .. L
    BY DEF L
  <2>4. CASE i = j + 1
    BY <1>1, <2>3, <2>4
  <2>5. CASE i # j + 1
    <3>1. i - 1 \in j + 1 .. L + 1 /\ i - 1 \in 1 .. L /\ (i - 1) + 1 = i
      BY <1>1, <2>3, <2>5
    <3>2. i - 1 \notin Mal
      <4>1. i - 1 \in Mal => i <= i - 1
        BY <2>2
      <4> QED
        BY <2>3, <4>1
    <3>3. c(j) + PartesDe(orden[j]) <= c(i - 1)
      BY <3>1, <3>2
    <3>4. c(i) = c(i - 1) + PartesDe(orden[i - 1]) /\ c(i - 1) \in Nat /\ PartesDe(orden[i - 1]) \in Nat
      BY <1>1, <3>1
    <3>5. c(j) \in Nat /\ PartesDe(orden[j]) \in Nat
      BY <1>1, <2>3
    <3> QED
      BY <2>3, <3>3, <3>4, <3>5
  <2> QED
    BY <2>4, <2>5
<1>3. k \in j + 1 .. L + 1
  BY <1>1
<1> QED
  BY <1>2, <1>3

\* A file is never moved forward, and there is still room for f if f was before it.
AntesDeDonde(orden, f, k) ==
  /\ InicioCompactado(orden, k) <= Inicial(orden[k])
  /\ Inicial(f) < Inicial(orden[k]) =>
       InicioCompactado(orden, k) + OcupadosDe(f) <= Inicial(orden[k])

LEMMA VanAntes ==
  ASSUME Inv, Sano, NEW f \in DOMAIN lista, NEW orden, EsOrden(orden, f)
  PROVE  \A k \in 1 .. Len(orden) - 1 : AntesDeDonde(orden, f, k)
<1> DEFINE L == Len(orden)
           c(i) == InicioCompactado(orden, i)
           Mal == {i \in 1 .. L - 1 : ~AntesDeDonde(orden, f, i)}
<1>1. /\ L \in Nat \ {0} /\ c(1) = 0
      /\ \A i \in 1 .. L : /\ orden[i] \in DOMAIN lista /\ c(i) \in Nat /\ PartesDe(orden[i]) \in Nat
                           /\ c(i + 1) = c(i) + PartesDe(orden[i])
  BY InicioSigue DEF EsOrden
<1>2. /\ \A i, j \in 1 .. L - 1 : i < j => Inicial(orden[i]) < Inicial(orden[j])
      /\ \A i \in 1 .. L - 1 : i \in 1 .. L /\ orden[i] # f
  <2>1. \A i \in 1 .. L - 1 : i \in 1 .. L /\ L \in 1 .. L /\ i # L
    BY <1>1
  <2> HIDE DEF c
  <2> QED
    BY <2>1 DEF EsOrden
<1>3. \A i \in 1 .. L : /\ Inicial(orden[i]) \in Nat /\ OcupadosDe(orden[i]) \in Nat \ {0}
                        /\ PartesDe(orden[i]) <= OcupadosDe(orden[i])
  BY <1>1, EnElDisco DEF Inv
<1>4. Inicial(f) \in Nat /\ OcupadosDe(f) \in Nat \ {0}
  BY EnElDisco DEF Inv
<1>5. ASSUME NEW i \in 1 .. L - 1, NEW g \in DOMAIN lista, Inicial(orden[i]) < Inicial(g)
      PROVE  Inicial(orden[i]) + PartesDe(orden[i]) <= Inicial(g)
  <2> HIDE DEF c, L
  <2>0. i \in 1 .. L /\ orden[i] \in DOMAIN lista
    BY <1>1, <1>2
  <2>1. Inicial(g) \in Nat /\ Inicial(orden[i]) \in Nat
    BY <2>0, DentroDelDisco
  <2>2. orden[i] # g
    BY <1>5, <2>1
  <2>3. Inicial(orden[i]) + OcupadosDe(orden[i]) <= Inicial(g)
    BY <1>5, <2>0, <2>2, UnoTrasOtro DEF Inv
  <2> QED
    BY <1>1, <1>3, <2>0, <2>1, <2>3
<1>6. ASSUME Mal # {} PROVE FALSE
  <2>1. Mal \in SUBSET Nat
    BY <1>1
  <2>2. PICK i \in Mal : \A m \in Mal : i <= m
    <3> HIDE DEF Mal
    <3> QED
      BY <1>6, <2>1, MinDeNaturales
  <2> HIDE DEF c, L
  <2>3. i \in 1 .. L - 1 /\ ~AntesDeDonde(orden, f, i) /\ i \in 1 .. L /\ orden[i] # f /\ orden[i] \in DOMAIN lista
    BY <1>1, <1>2
  <2>4. Inicial(f) < Inicial(orden[i]) => Inicial(f) + OcupadosDe(f) <= Inicial(orden[i])
    BY <2>3, UnoTrasOtro DEF Inv
  <2>5. CASE i = 1
    BY <1>1, <1>3, <1>4, <2>3, <2>4, <2>5 DEF AntesDeDonde, c
  <2>6. CASE i # 1
    <3> DEFINE h == i - 1
    <3>1. h \in 1 .. L - 1 /\ h \in 1 .. L /\ h + 1 = i /\ h < i
      BY <1>1, <2>3, <2>6
    <3>2. h \notin Mal
      <4>1. h \in Mal => i <= h
        BY <2>2
      <4> QED
        BY <2>3, <3>1, <4>1
    <3> HIDE DEF h
    <3>3. AntesDeDonde(orden, f, h)
      BY <3>1, <3>2
    <3>4. c(i) = c(h) + PartesDe(orden[h]) /\ c(h) \in Nat /\ PartesDe(orden[h]) \in Nat
      BY <1>1, <3>1
    <3>5. Inicial(orden[h]) < Inicial(orden[i])
      BY <1>2, <2>3, <3>1
    <3>6. Inicial(orden[h]) + PartesDe(orden[h]) <= Inicial(orden[i])
      BY <1>5, <2>3, <3>1, <3>5
    <3>7. Inicial(orden[h]) \in Nat /\ Inicial(orden[i]) \in Nat
      BY <1>3, <2>3, <3>1
    <3>8. /\ c(h) <= Inicial(orden[h])
          /\ Inicial(f) < Inicial(orden[h]) => c(h) + OcupadosDe(f) <= Inicial(orden[h])
      BY <3>3 DEF AntesDeDonde, c
    <3>9. c(i) <= Inicial(orden[i])
      BY <3>4, <3>6, <3>7, <3>8
    <3>10. ASSUME Inicial(f) < Inicial(orden[i]) PROVE c(i) + OcupadosDe(f) <= Inicial(orden[i])
      <4>1. CASE Inicial(f) < Inicial(orden[h])
        BY <1>4, <3>4, <3>6, <3>7, <3>8, <4>1
      <4>2. CASE Inicial(orden[h]) < Inicial(f)
        <5>1. Inicial(orden[h]) + PartesDe(orden[h]) <= Inicial(f)
          BY <1>5, <3>1, <4>2
        <5> QED
          BY <1>4, <2>4, <3>4, <3>7, <3>8, <3>10, <5>1
      <4>3. Inicial(f) # Inicial(orden[h])
        BY <1>1, <1>2, <3>1, UnoTrasOtro DEF Inv
      <4> QED
        BY <1>4, <3>7, <4>1, <4>2, <4>3
    <3> QED
      BY <2>3, <3>9, <3>10 DEF AntesDeDonde, c
  <2> QED
    BY <2>5, <2>6
<1> QED
  BY <1>6

\* There is room for all, f after the others.
LEMMA UltimoCabe ==
  ASSUME Inv, Sano, NEW f \in DOMAIN lista, NEW orden, EsOrden(orden, f)
  PROVE  InicioCompactado(orden, Len(orden)) + OcupadosDe(f) <= BLOCK_COUNT
<1> DEFINE L == Len(orden)
           c(i) == InicioCompactado(orden, i)
<1>1. /\ L \in Nat \ {0} /\ c(1) = 0
      /\ \A i \in 1 .. L : /\ orden[i] \in DOMAIN lista /\ c(i) \in Nat /\ PartesDe(orden[i]) \in Nat
                           /\ c(i + 1) = c(i) + PartesDe(orden[i])
  BY InicioSigue DEF EsOrden
<1>2. Inicial(f) \in Nat /\ OcupadosDe(f) \in Nat \ {0} /\ Inicial(f) + OcupadosDe(f) <= BLOCK_COUNT
  BY EnElDisco DEF Inv
<1> HIDE DEF c, L
<1>3. CASE L = 1
  BY <1>1, <1>2, <1>3, DiscoPositivo DEF c, L
<1>4. CASE L # 1
  <2> DEFINE h == L - 1
             g == orden[h]
  <2>1. h \in 1 .. L - 1 /\ h \in 1 .. L /\ h + 1 = L
    BY <1>1, <1>4
  <2>2. AntesDeDonde(orden, f, h)
    BY <2>1, VanAntes DEF L
  <2>3. g # f /\ g \in DOMAIN lista
    <3>0. L \in 1 .. L /\ h # L
      BY <1>1, <2>1
    <3>1. L \in 1 .. L /\ h # L /\ orden[L] = f
      BY SMTT(30), <3>0 DEF EsOrden, L
    <3>2. orden[h] = orden[L] => h = L
      BY <2>1, <3>1 DEF EsOrden, L
    <3> QED
      BY <1>1, <2>1, <3>1, <3>2
  <2> HIDE DEF h
  <2>4. c(L) = c(h) + PartesDe(g) /\ c(h) \in Nat
    BY <1>1, <2>1
  <2> HIDE DEF g
  <2>5. /\ Inicial(g) \in Nat /\ OcupadosDe(g) \in Nat \ {0} /\ PartesDe(g) \in Nat
        /\ PartesDe(g) <= OcupadosDe(g) /\ Inicial(g) + OcupadosDe(g) <= BLOCK_COUNT
    BY <2>3, EnElDisco DEF Inv
  <2>6. /\ c(h) <= Inicial(g)
        /\ Inicial(f) < Inicial(g) => c(h) + OcupadosDe(f) <= Inicial(g)
    BY <2>2 DEF AntesDeDonde, c, g
  <2>7. /\ Inicial(f) # Inicial(g)
        /\ Inicial(g) < Inicial(f) => Inicial(g) + OcupadosDe(g) <= Inicial(f)
    BY <2>3, UnoTrasOtro DEF Inv
  <2>8. CASE Inicial(f) < Inicial(g)
    <3>1. c(L) + OcupadosDe(f) <= BLOCK_COUNT
      BY <1>2, <2>4, <2>5, <2>6, <2>8, DiscoPositivo
    <3> QED
      BY <3>1 DEF c, L
  <2>9. CASE Inicial(g) < Inicial(f)
    <3>1. c(L) + OcupadosDe(f) <= BLOCK_COUNT
      BY <1>2, <2>4, <2>5, <2>6, <2>7, <2>9, DiscoPositivo
    <3> QED
      BY <3>1 DEF c, L
  <2> QED
    BY <1>2, <2>5, <2>7, <2>8, <2>9
<1> QED
  BY <1>3, <1>4

LEMMA PartesDeCero == Partes(0) = 0
<1>1. Partes(0) * BLOCK_SIZE <= BLOCK_SIZE - 1 /\ Partes(0) \in Nat
  BY PartesBasta, DiscoPositivo
<1>2. Partes(0) >= 1 => Partes(0) * BLOCK_SIZE >= BLOCK_SIZE
  BY <1>1, DiscoPositivo
<1> QED
  BY <1>1, <1>2, DiscoPositivo

\* All the bytes together take no more blocks than the files apart.
LEMMA TotalCabe ==
  ASSUME Inv, Sano, NEW f \in DOMAIN lista, NEW orden, EsOrden(orden, f)
  PROVE  /\ Partes(TamanioTotal) \in Nat
         /\ Partes(TamanioTotal) <= InicioCompactado(orden, Len(orden) + 1)
<1> DEFINE L == Len(orden)
           c(i) == InicioCompactado(orden, i)
           G(k) == {orden[j] : j \in 1 .. k}
           t(k) == [g \in G(k) |-> lista[g].tamanio]
           T(k) == SumFunction(t(k))
           Bien(k) == T(k) \in Nat /\ Partes(T(k)) <= c(k + 1)
           Mal == {k \in 0 .. L : ~Bien(k)}
<1>1. /\ L \in Nat \ {0} /\ c(1) = 0
      /\ \A i \in 1 .. L : /\ orden[i] \in DOMAIN lista /\ c(i) \in Nat /\ PartesDe(orden[i]) \in Nat
                           /\ c(i + 1) = c(i) + PartesDe(orden[i])
  BY InicioSigue DEF EsOrden
<1>2. \A i, j \in 1 .. L : orden[i] = orden[j] => i = j
  BY DEF EsOrden
<1>3. \A g \in DOMAIN lista : lista[g].tamanio \in Nat
  BY EnElDisco DEF Inv
<1>4. IsFiniteSet(DOMAIN lista)
  BY ConstantesDialFS, FS_Subset DEF Inv, TypeOK
<1>5. ASSUME Mal # {} PROVE FALSE
  <2>1. Mal \in SUBSET Nat
    BY <1>1
  <2>2. PICK k \in Mal : \A m \in Mal : k <= m
    <3> HIDE DEF Mal
    <3> QED
      BY <1>5, <2>1, MinDeNaturales
  <2> HIDE DEF c, L
  <2>3. k \in 0 .. L /\ ~Bien(k)
    OBVIOUS
  <2>4. CASE k = 0
    <3>1. G(0) = {} /\ 0 + 1 = 1
      OBVIOUS
    <3>2. t(0) \in [{} -> Nat]
      BY <3>1
    <3>3. T(0) = 0
      <4> HIDE DEF t
      <4> QED
        BY <3>2, SumaVacia
    <3> QED
      BY <1>1, <2>3, <2>4, <3>1, <3>3, PartesDeCero
  <2>5. CASE k # 0
    <3> DEFINE h == k - 1
               x == orden[k]
    <3>1. h \in 0 .. L /\ h + 1 = k /\ k \in 1 .. L /\ 1 .. h \subseteq 1 .. L /\ 1 .. k \subseteq 1 .. L
      BY <1>1, <2>3, <2>5
    <3>2. h \notin Mal
      <4>1. h \in Mal => k <= h
        BY <2>2
      <4> QED
        BY <2>3, <3>1, <4>1
    <3>3. Bien(h)
      BY <3>1, <3>2
    <3>4. x \in G(k) /\ G(h) = G(k) \ {x}
      <4>1. k \in 1 .. k /\ \A i \in 1 .. k : i = k \/ i \in 1 .. h
        BY <3>1
      <4>2. \A i \in 1 .. h : orden[i] # x /\ i \in 1 .. k
        BY <1>2, <3>1
      <4> HIDE DEF h
      <4> QED
        BY <4>1, <4>2
    <3> HIDE DEF h
    <3>5. IsFiniteSet(G(k)) /\ \A g \in G(k) : lista[g].tamanio \in Nat
      <4>1. G(k) \in SUBSET DOMAIN lista
        BY <1>1, <3>1
      <4> QED
        BY <1>3, <1>4, <4>1, FS_Subset
    <3>6. /\ t(k) \in [G(k) -> Nat] /\ t(h) \in [G(h) -> Nat] /\ \A g \in G(h) : t(h)[g] = t(k)[g]
          /\ t(k)[x] = lista[x].tamanio
      <4> HIDE DEF G
      <4> QED
        BY <3>4, <3>5
    <3>7. TerminoMas(t(k), t(h), x)
      <4> HIDE DEF G, t, x
      <4> QED
        BY <3>4, <3>5, <3>6, SumaSinUno
    <3>8. T(k) = lista[x].tamanio + T(h) /\ T(h) \in Nat /\ T(k) \in Nat /\ lista[x].tamanio \in Nat
      <4>1. lista[x].tamanio \in Nat
        BY <3>4, <3>5
      <4> HIDE DEF t, G, x
      <4> QED
        BY <3>6, <3>7, <4>1 DEF TerminoMas
    <3> HIDE DEF T
    <3>9. Partes(T(k)) <= PartesDe(x) + Partes(T(h))
      BY <3>8, PartesDeLaSuma DEF PartesDe
    <3>10. c(k + 1) = c(k) + PartesDe(x) /\ PartesDe(x) \in Nat /\ c(k) \in Nat
      BY <1>1, <3>1
    <3>11. Partes(T(h)) <= c(k) /\ Partes(T(h)) \in Nat /\ Partes(T(k)) \in Nat
      BY <3>1, <3>3, <3>8, PartesBasta
    <3> HIDE DEF x
    <3> QED
      BY <2>3, <3>8, <3>9, <3>10, <3>11
  <2> QED
    BY <2>4, <2>5
<1>6. Bien(L)
  <2>1. L \in 0 .. L
    BY <1>1
  <2> HIDE DEF Bien, L
  <2> QED
    BY <1>5, <2>1
<1>7. G(L) = DOMAIN lista
  <2>1. \A g \in DOMAIN lista : \E k \in 1 .. L : orden[k] = g
    BY DEF EsOrden
  <2>2. \A k \in 1 .. L : orden[k] \in DOMAIN lista
    BY <1>1
  <2> HIDE DEF L
  <2> QED
    BY <2>1, <2>2
<1>8. TamanioTotal = T(L)
  BY <1>7 DEF TamanioTotal
<1>9. TamanioTotal \in Nat /\ Partes(TamanioTotal) <= c(L + 1)
  <2> HIDE DEF T, c, L
  <2> QED
    BY <1>6, <1>8
<1> QED
  BY <1>9, PartesBasta

\* A block before the end is one of some file's.
LEMMA BloqueDeAlguno ==
  ASSUME Inv, Sano, NEW f \in DOMAIN lista, NEW orden, EsOrden(orden, f),
         NEW b \in Nat, b < InicioCompactado(orden, Len(orden) + 1)
  PROVE  \E k \in 1 .. Len(orden) :
           InicioCompactado(orden, k) <= b /\ b < InicioCompactado(orden, k) + PartesDe(orden[k])
<1> DEFINE L == Len(orden)
           c(i) == InicioCompactado(orden, i)
           I == {k \in 1 .. L : b < c(k + 1)}
<1>1. /\ L \in Nat \ {0} /\ c(1) = 0
      /\ \A i \in 1 .. L : c(i) \in Nat /\ PartesDe(orden[i]) \in Nat /\ c(i + 1) = c(i) + PartesDe(orden[i])
  BY InicioSigue DEF EsOrden
<1>2. L \in I /\ I \in SUBSET Nat
  BY <1>1
<1>3. PICK k \in I : \A m \in I : k <= m
  <2> HIDE DEF I, L
  <2> QED
    BY <1>2, MinDeNaturales
<1> HIDE DEF c, L
<1>4. k \in 1 .. L /\ b < c(k + 1)
  OBVIOUS
<1>5. c(k) <= b
  <2>1. CASE k = 1
    BY <1>1, <2>1
  <2>2. CASE k # 1
    <3>1. k - 1 \in 1 .. L /\ (k - 1) + 1 = k
      BY <1>1, <1>4, <2>2
    <3>2. k - 1 \notin I
      <4>1. k - 1 \in I => k <= k - 1
        BY <1>3
      <4> QED
        BY <1>4, <4>1
    <3>3. c(k) \in Nat
      BY <1>1, <1>4
    <3> QED
      BY <3>1, <3>2, <3>3
  <2> QED
    BY <2>1, <2>2
<1> QED
  BY <1>1, <1>4, <1>5 DEF c, L

\* The moves, one after the other, are a function of how many were made.
EsMudanza(m, orden, n) ==
  m = [k \in 0 .. n |->
         IF k = 0 THEN bloques
         ELSE Copiar(m[k - 1], Inicial(orden[k]), InicioCompactado(orden, k), PartesDe(orden[k]))]

LEMMA HayMudanza ==
  ASSUME NEW orden, NEW L \in Nat
  PROVE  \E m : EsMudanza(m, orden, L)
<1> DEFINE paso(bs, k) == Copiar(bs, Inicial(orden[k]), InicioCompactado(orden, k), PartesDe(orden[k]))
           Mal == {n \in Nat : ~ \E m : EsMudanza(m, orden, n)}
<1> SUFFICES ASSUME Mal # {} PROVE FALSE
  OBVIOUS
<1>1. Mal \in SUBSET Nat
  OBVIOUS
<1>2. PICK n \in Mal : \A i \in Mal : n <= i
  <2> HIDE DEF Mal
  <2> QED
    BY <1>1, MinDeNaturales
<1>3. n \in Nat /\ ~ \E m : EsMudanza(m, orden, n)
  OBVIOUS
<1>4. CASE n = 0
  <2> DEFINE m == [k \in 0 .. 0 |-> bloques]
  <2>1. \A k \in 0 .. 0 : k = 0
    OBVIOUS
  <2>2. m = [k \in 0 .. 0 |-> IF k = 0 THEN bloques ELSE paso(m[k - 1], k)]
    <3> HIDE DEF paso
    <3> QED
      BY <2>1
  <2>3. EsMudanza(m, orden, 0)
    BY <2>2 DEF EsMudanza
  <2> HIDE DEF m
  <2> QED
    BY <1>3, <1>4, <2>3
<1>5. CASE n # 0
  <2>1. n - 1 \in Nat /\ n - 1 \notin Mal
    <3>1. n - 1 \in Mal => n <= n - 1
      BY <1>2
    <3> QED
      BY <1>3, <1>5, <3>1
  <2>2. PICK j : EsMudanza(j, orden, n - 1)
    BY <2>1
  <2> HIDE DEF Mal
  <2> DEFINE r(k) == IF k = 0 THEN bloques ELSE paso(j[k - 1], k)
             m == [k \in 0 .. n |-> r(k)]
  <2>3. j = [k \in 0 .. n - 1 |-> r(k)]
    BY <2>2 DEF EsMudanza
  <2> HIDE DEF paso
  <2>4. \A k \in 0 .. n - 1 : j[k] = r(k) /\ m[k] = r(k)
    <3>1. \A k \in 0 .. n - 1 : k \in 0 .. n
      BY <1>3
    <3> HIDE DEF r
    <3> QED
      BY <2>3, <3>1
  <2>5. \A k \in 0 .. n : k # 0 => k - 1 \in 0 .. n - 1
    BY <1>3
  <2>6. \A k \in 0 .. n : r(k) = IF k = 0 THEN bloques ELSE paso(m[k - 1], k)
    <3> HIDE DEF m
    <3> QED
      BY <2>4, <2>5
  <2>7. m = [k \in 0 .. n |-> IF k = 0 THEN bloques ELSE paso(m[k - 1], k)]
    <3> DEFINE q == [k \in 0 .. n |-> IF k = 0 THEN bloques ELSE paso(m[k - 1], k)]
    <3>1. \A k \in 0 .. n : q[k] = r(k)
      BY <2>6
    <3>2. q = [k \in 0 .. n |-> q[k]] /\ m = [k \in 0 .. n |-> m[k]]
      OBVIOUS
    <3>3. \A k \in 0 .. n : m[k] = r(k)
      OBVIOUS
    <3>4. DOMAIN q = 0 .. n /\ DOMAIN m = 0 .. n
      OBVIOUS
    <3> HIDE DEF q, m, r
    <3>5. \A k \in 0 .. n : q[k] = m[k]
      BY <3>1, <3>3
    <3>6. q = m
      BY <3>2, <3>5
    <3> QED
      BY <3>6 DEF q
  <2>8. EsMudanza(m, orden, n)
    BY <2>7 DEF EsMudanza, paso
  <2> HIDE DEF m
  <2> QED
    BY <1>3, <2>8
<1> QED
  BY <1>4, <1>5

LEMMA MudadosPaso ==
  ASSUME NEW orden, Len(orden) \in Nat \ {0}
  PROVE  /\ Mudados(orden)[0] = bloques
         /\ \A k \in 1 .. Len(orden) - 1 :
              Mudados(orden)[k] = Copiar(Mudados(orden)[k - 1], Inicial(orden[k]),
                                         InicioCompactado(orden, k), PartesDe(orden[k]))
<1> DEFINE L == Len(orden) - 1
           M == Mudados(orden)
           paso(bs, k) == Copiar(bs, Inicial(orden[k]), InicioCompactado(orden, k), PartesDe(orden[k]))
<1>1. L \in Nat
  OBVIOUS
<1>2. \E m : EsMudanza(m, orden, L)
  BY <1>1, HayMudanza
<1>3. EsMudanza(M, orden, L)
  BY <1>2 DEF Mudados, EsMudanza
<1> HIDE DEF M
<1>4. M = [k \in 0 .. L |-> IF k = 0 THEN bloques ELSE paso(M[k - 1], k)]
  BY <1>3 DEF EsMudanza
<1> HIDE DEF L, paso
<1>5. /\ M[0] = bloques
      /\ \A k \in 1 .. L : M[k] = paso(M[k - 1], k)
  BY <1>1, <1>4
<1> QED
  BY <1>5 DEF L, M, paso

\* What the blocks may hold.
Escritos == {Nada} \cup (Archivos \X Bloques)

\* After j moves those j files are whole in their places, and what is behind is as it was.
Mudanza(orden, j) ==
  /\ Mudados(orden)[j] \in [Bloques -> Escritos]
  /\ \A k \in 1 .. j : \A i \in 0 .. PartesDe(orden[k]) - 1 :
       Mudados(orden)[j][InicioCompactado(orden, k) + i] = bloques[Inicial(orden[k]) + i]
  /\ \A b \in Bloques : b >= InicioCompactado(orden, j + 1) => Mudados(orden)[j][b] = bloques[b]

LEMMA MudanzaPaso ==
  ASSUME Inv, Sano, NEW f \in DOMAIN lista, NEW orden, EsOrden(orden, f),
         NEW j \in 1 .. Len(orden) - 1, Mudanza(orden, j - 1)
  PROVE  Mudanza(orden, j)
<1> DEFINE L == Len(orden)
           c(i) == InicioCompactado(orden, i)
           x == orden[j]
           V == Mudados(orden)[j - 1]
           N == Mudados(orden)[j]
<1>1. /\ L \in Nat \ {0} /\ j \in 1 .. L /\ (j - 1) + 1 = j
      /\ \A i \in 1 .. L : /\ orden[i] \in DOMAIN lista /\ c(i) \in Nat /\ PartesDe(orden[i]) \in Nat
                           /\ c(i + 1) = c(i) + PartesDe(orden[i])
  <2>1. L \in Nat \ {0} /\ j \in 1 .. L - 1
    BY DEF EsOrden
  <2>2. j \in 1 .. L /\ (j - 1) + 1 = j
    BY <2>1
  <2> QED
    BY <2>1, <2>2, InicioSigue
<1>2. /\ Inicial(x) \in Nat /\ PartesDe(x) \in Nat /\ Inicial(x) + PartesDe(x) <= BLOCK_COUNT
  <2>1. /\ Inicial(x) \in Nat /\ PartesDe(x) \in Nat /\ PartesDe(x) <= OcupadosDe(x) /\ OcupadosDe(x) \in Nat
        /\ Inicial(x) + OcupadosDe(x) <= BLOCK_COUNT
    BY <1>1, EnElDisco DEF Inv
  <2> HIDE DEF x
  <2> QED
    BY <2>1, DiscoPositivo
<1>3. c(j) \in Nat /\ c(j) <= Inicial(x) /\ c(j + 1) = c(j) + PartesDe(x)
  BY <1>1, VanAntes DEF AntesDeDonde
<1>4. N = Copiar(V, Inicial(x), c(j), PartesDe(x))
  BY <1>1, MudadosPaso
<1>5. /\ V \in [Bloques -> Escritos]
      /\ \A k \in 1 .. j - 1 : \A i \in 0 .. PartesDe(orden[k]) - 1 : V[c(k) + i] = bloques[Inicial(orden[k]) + i]
      /\ \A b \in Bloques : b >= c(j) => V[b] = bloques[b]
  BY <1>1 DEF Mudanza
<1>6. \A k \in 1 .. j - 1 : k \in 1 .. L /\ c(k) \in Nat /\ PartesDe(orden[k]) \in Nat /\ c(k) + PartesDe(orden[k]) <= c(j)
  <2> TAKE k \in 1 .. j - 1
  <2>1. k \in 1 .. L /\ k < j /\ j \in 1 .. L + 1
    BY <1>1
  <2> QED
    BY <1>1, <2>1, IniciosCrecen
<1> HIDE DEF L, c, x, V, N
<1>7. /\ N \in [Bloques -> Escritos]
      /\ \A b \in Bloques : b < c(j) \/ b >= c(j) + PartesDe(x) => N[b] = V[b]
      /\ \A i \in 0 .. PartesDe(x) - 1 : c(j) + i \in Bloques => N[c(j) + i] = V[Inicial(x) + i]
  <2> DEFINE K == Copiar(V, Inicial(x), c(j), PartesDe(x))
  <2>1. /\ K \in [Bloques -> Escritos]
        /\ \A b \in Bloques : b < c(j) \/ b >= c(j) + PartesDe(x) => K[b] = V[b]
        /\ \A i \in 0 .. PartesDe(x) - 1 : c(j) + i \in Bloques => K[c(j) + i] = V[Inicial(x) + i]
    <3>1. V \in [Bloques -> Escritos] /\ Inicial(x) \in Nat /\ c(j) \in Nat /\ PartesDe(x) \in Nat
      BY <1>2, <1>3, <1>5
    <3>2. K \in [Bloques -> Escritos] /\ Copiado(K, V, Inicial(x), c(j), PartesDe(x))
      BY <1>2, <3>1, CopiarMueve
    <3> HIDE DEF K
    <3> QED
      BY <3>2 DEF Copiado
  <2> HIDE DEF K
  <2>2. N = K
    BY <1>4 DEF K
  <2> QED
    BY <2>1, <2>2
<1>8. ASSUME NEW i \in 0 .. PartesDe(x) - 1 PROVE N[c(j) + i] = bloques[Inicial(x) + i]
  <2> DEFINE a == Inicial(x)
             d == c(j)
             n == PartesDe(x)
  <2>1. c(j) + i \in Bloques /\ Inicial(x) + i \in Bloques /\ Inicial(x) + i >= c(j)
    <3>1. a \in Nat /\ n \in Nat /\ d \in Nat /\ a + n <= BLOCK_COUNT /\ d <= a /\ BLOCK_COUNT \in Nat
      BY <1>2, <1>3, DiscoPositivo
    <3>2. i \in Nat /\ i < n
      BY <3>1
    <3> HIDE DEF a, d, n
    <3>3. /\ d + i \in 0 .. BLOCK_COUNT - 1 /\ a + i \in 0 .. BLOCK_COUNT - 1 /\ a + i >= d
      BY <3>1, <3>2
    <3> QED
      BY <3>3 DEF a, d, Bloques
  <2> QED
    BY <1>5, <1>7, <2>1
<1>9. ASSUME NEW k \in 1 .. j - 1, NEW i \in 0 .. PartesDe(orden[k]) - 1
      PROVE  N[c(k) + i] = bloques[Inicial(orden[k]) + i]
  <2>0. c(k) \in Nat /\ PartesDe(orden[k]) \in Nat /\ c(k) + PartesDe(orden[k]) <= c(j) /\ c(j) \in Nat
    BY <1>3, <1>6
  <2>1. c(k) + i \in Nat /\ c(k) + i < c(j)
    <3> DEFINE d == c(k)
               n == PartesDe(orden[k])
               e == c(j)
    <3>1. d \in Nat /\ n \in Nat /\ e \in Nat /\ d + n <= e /\ i \in Nat /\ i < n
      BY <2>0
    <3> HIDE DEF d, n, e
    <3>2. d + i \in Nat /\ d + i < e
      BY <3>1
    <3> QED
      BY <3>2 DEF d, e
  <2>2. c(k) + i \in Bloques
    <3>1. c(j) <= BLOCK_COUNT /\ BLOCK_COUNT \in Nat
      BY <1>2, <1>3, DiscoPositivo
    <3> QED
      BY <2>0, <2>1, <3>1 DEF Bloques
  <2>3. N[c(k) + i] = V[c(k) + i]
    BY <1>7, <2>1, <2>2
  <2> QED
    BY <1>5, <2>3
<1>10. \A k \in 1 .. j : k = j \/ k \in 1 .. j - 1
  OBVIOUS
<1>11. \A k \in 1 .. j : \A i \in 0 .. PartesDe(orden[k]) - 1 : N[c(k) + i] = bloques[Inicial(orden[k]) + i]
  <2> TAKE k \in 1 .. j
  <2>1. CASE k = j
    BY <1>8, <2>1 DEF x
  <2>2. CASE k \in 1 .. j - 1
    BY <1>9, <2>2
  <2> QED
    BY <1>10, <2>1, <2>2
<1>12. \A b \in Bloques : b >= c(j + 1) => N[b] = bloques[b]
  <2> TAKE b \in Bloques
  <2> HAVE b >= c(j + 1)
  <2>1. b \in Nat /\ b >= c(j) + PartesDe(x) /\ b >= c(j)
    BY <1>2, <1>3, NoSonEntradas
  <2> QED
    BY <1>5, <1>7, <2>1
<1> QED
  BY <1>7, <1>11, <1>12 DEF Mudanza, N, c

LEMMA MudanzaEntera ==
  ASSUME Inv, Sano, NEW f \in DOMAIN lista, NEW orden, EsOrden(orden, f)
  PROVE  Mudanza(orden, Len(orden) - 1)
<1> DEFINE L == Len(orden)
           Mal == {j \in 0 .. L - 1 : ~Mudanza(orden, j)}
<1>1. L \in Nat \ {0}
  BY DEF EsOrden
<1>2. ASSUME Mal # {} PROVE FALSE
  <2>1. Mal \in SUBSET Nat
    BY <1>1
  <2>2. PICK j \in Mal : \A m \in Mal : j <= m
    <3> HIDE DEF Mal
    <3> QED
      BY <1>2, <2>1, MinDeNaturales
  <2>3. j \in 0 .. L - 1 /\ ~Mudanza(orden, j)
    OBVIOUS
  <2>4. CASE j = 0
    <3>1. Mudados(orden)[0] = bloques
      BY <1>1, MudadosPaso
    <3>2. bloques \in [Bloques -> Escritos]
      BY DEF Inv, TypeOK, Escritos
    <3>3. 1 .. 0 = {}
      OBVIOUS
    <3>4. Mudanza(orden, 0)
      BY <3>1, <3>2, <3>3 DEF Mudanza
    <3> QED
      BY <2>3, <2>4, <3>4
  <2>5. CASE j # 0
    <3>1. j - 1 \in 0 .. L - 1 /\ j \in 1 .. L - 1
      BY <1>1, <2>3, <2>5
    <3>2. j - 1 \notin Mal
      <4>1. j - 1 \in Mal => j <= j - 1
        BY <2>2
      <4> QED
        BY <2>3, <4>1
    <3>3. Mudanza(orden, j - 1)
      BY <3>1, <3>2
    <3> QED
      BY <2>3, <3>1, <3>3, MudanzaPaso
  <2> QED
    BY <2>4, <2>5
<1>3. L - 1 \in 0 .. L - 1
  BY <1>1
<1> QED
  BY <1>2, <1>3

\* After a compaction every file is whole where it starts now.
LEMMA CompactarNoPierde ==
  ASSUME Inv, Sano, NEW f \in DOMAIN lista, NEW orden, EsOrden(orden, f)
  PROVE  /\ BloquesCompactados(orden) \in [Bloques -> Escritos]
         /\ \A k \in 1 .. Len(orden) : \A i \in 0 .. PartesDe(orden[k]) - 1 :
              BloquesCompactados(orden)[InicioCompactado(orden, k) + i] = bloques[Inicial(orden[k]) + i]
<1> DEFINE L == Len(orden)
           c(i) == InicioCompactado(orden, i)
           R == BloquesCompactados(orden)
           M == Mudados(orden)[L - 1]
           n == PartesDe(f)
<1>1. /\ L \in Nat \ {0} /\ L \in 1 .. L /\ orden[L] = f
      /\ \A i \in 1 .. L : c(i) \in Nat /\ PartesDe(orden[i]) \in Nat
  <2>1. L \in Nat \ {0} /\ orden[L] = f
    BY DEF EsOrden
  <2>2. L \in 1 .. L
    BY <2>1
  <2> QED
    BY <2>1, <2>2, InicioSigue
<1>2. /\ M \in [Bloques -> Escritos]
      /\ \A k \in 1 .. L - 1 : \A i \in 0 .. PartesDe(orden[k]) - 1 : M[c(k) + i] = bloques[Inicial(orden[k]) + i]
  BY MudanzaEntera DEF Mudanza
<1>3. R = [b \in Bloques |-> IF b - c(L) \in 0 .. n - 1 THEN bloques[Inicial(f) + (b - c(L))] ELSE M[b]]
  BY <1>1 DEF BloquesCompactados
<1>4. /\ Inicial(f) \in Nat /\ n \in Nat /\ c(L) \in Nat /\ Inicial(f) + n <= BLOCK_COUNT /\ c(L) + n <= BLOCK_COUNT
  <2>1. /\ Inicial(f) \in Nat /\ PartesDe(f) \in Nat /\ PartesDe(f) <= OcupadosDe(f) /\ OcupadosDe(f) \in Nat
        /\ Inicial(f) + OcupadosDe(f) <= BLOCK_COUNT
    BY EnElDisco DEF Inv
  <2>2. c(L) + OcupadosDe(f) <= BLOCK_COUNT /\ c(L) \in Nat
    BY <1>1, UltimoCabe
  <2> HIDE DEF c, L
  <2> QED
    BY <2>1, <2>2, DiscoPositivo
<1>5. bloques \in [Bloques -> Escritos]
  BY DEF Inv, TypeOK, Escritos
<1>6. \A k \in 1 .. L - 1 : k \in 1 .. L /\ c(k) + PartesDe(orden[k]) <= c(L)
  <2> TAKE k \in 1 .. L - 1
  <2>1. k \in 1 .. L /\ k < L /\ L \in 1 .. L + 1
    BY <1>1
  <2> QED
    BY <2>1, IniciosCrecen
<1> HIDE DEF R, M, c, L, n
<1>7. \A b \in Bloques : b - c(L) \in 0 .. n - 1 => Inicial(f) + (b - c(L)) \in Bloques
  BY <1>4, DiscoPositivo DEF Bloques
<1>8. R \in [Bloques -> Escritos]
  BY <1>2, <1>3, <1>5, <1>7
<1>9. \A b \in Bloques : R[b] = IF b - c(L) \in 0 .. n - 1 THEN bloques[Inicial(f) + (b - c(L))] ELSE M[b]
  BY <1>3
<1>10. ASSUME NEW i \in 0 .. n - 1 PROVE R[c(L) + i] = bloques[Inicial(f) + i]
  <2>1. c(L) + i \in Bloques /\ (c(L) + i) - c(L) = i
    BY <1>4, DiscoPositivo DEF Bloques
  <2> QED
    BY <1>9, <2>1
<1>11. ASSUME NEW k \in 1 .. L - 1, NEW i \in 0 .. PartesDe(orden[k]) - 1
       PROVE  R[c(k) + i] = bloques[Inicial(orden[k]) + i]
  <2>1. c(k) \in Nat /\ PartesDe(orden[k]) \in Nat /\ c(k) + i < c(L)
    BY <1>1, <1>4, <1>6
  <2>2. c(k) + i \in Bloques /\ ~((c(k) + i) - c(L) \in 0 .. n - 1)
    BY <1>4, <2>1, DiscoPositivo DEF Bloques
  <2> QED
    BY <1>2, <1>9, <2>2
<1>12. \A k \in 1 .. L : k = L \/ k \in 1 .. L - 1
  BY <1>1
<1>13. \A k \in 1 .. L : \A i \in 0 .. PartesDe(orden[k]) - 1 : R[c(k) + i] = bloques[Inicial(orden[k]) + i]
  <2> TAKE k \in 1 .. L
  <2>1. CASE k = L
    BY <1>1, <1>10, <2>1 DEF n
  <2>2. CASE k \in 1 .. L - 1
    BY <1>11, <2>2
  <2> QED
    BY <1>12, <2>1, <2>2
<1> QED
  BY <1>8, <1>13 DEF R, c, L

\* The entries of a compaction.
Reubicada(orden, tam, k) ==
  Entrada(InicioCompactado(orden, k), IF k = Len(orden) THEN tam ELSE lista[orden[k]].tamanio)

LEMMA ReubicadoAnota ==
  ASSUME Inv, Sano, NEW f \in DOMAIN lista, NEW orden, EsOrden(orden, f), NEW tam \in Nat, Reubicado(orden, tam)
  PROVE  /\ DOMAIN lista' = DOMAIN lista
         /\ \A k \in 1 .. Len(orden) : lista'[orden[k]] = Reubicada(orden, tam, k)
         /\ lista' = [g \in DOMAIN lista |-> lista'[g]]
         /\ metadata' = [g \in Archivos |-> IF Tiene(g) THEN lista'[g] ELSE metadata[g]]
<1> DEFINE L == Len(orden)
           K(g) == CHOOSE j \in DOMAIN orden : orden[j] = g
           e(g) == Reubicada(orden, tam, K(g))
<1>1. DOMAIN orden = 1 .. L /\ \A k \in 1 .. L : orden[k] \in DOMAIN lista
  BY LenProperties, ElementOfSeq DEF EsOrden
<1>2. \A k \in 1 .. L : K(orden[k]) = k
  <2> TAKE k \in 1 .. L
  <2>1. K(orden[k]) \in 1 .. L /\ orden[K(orden[k])] = orden[k]
    BY <1>1
  <2> HIDE DEF K
  <2> QED
    BY <2>1 DEF EsOrden
<1>3. /\ lista' = [g \in DOMAIN lista |-> e(g)]
      /\ metadata' = [g \in Archivos |-> IF Tiene(g) THEN e(g) ELSE metadata[g]]
  <2> DEFINE b(k) == InicioCompactado(orden, k)
             t(k, x) == IF k = L THEN tam ELSE x.tamanio
             h(x, k) == Entrada(b(k), t(k, x))
  <2>1. /\ lista' = [g \in DOMAIN lista |-> h(lista[g], K(g))]
        /\ metadata' = [g \in Archivos |-> IF Tiene(g) THEN h(metadata[g], K(g)) ELSE metadata[g]]
    BY DEF Reubicado
  <2>2. \A g \in Archivos : Tiene(g) => metadata[g] = lista[g]
    BY DEF Inv, Concuerdan
  <2>3. \A g \in DOMAIN lista : h(lista[g], K(g)) = e(g)
    <3> TAKE g \in DOMAIN lista
    <3>1. PICK k \in 1 .. L : orden[k] = g
      BY <1>1 DEF EsOrden
    <3>2. K(g) = k
      BY <1>2, <3>1
    <3> QED
      BY <3>1, <3>2 DEF Reubicada
  <2> HIDE DEF h, e
  <2> QED
    BY <2>1, <2>2, <2>3 DEF Tiene
<1> HIDE DEF e
<1>4. DOMAIN lista' = DOMAIN lista /\ \A g \in DOMAIN lista : lista'[g] = e(g)
  BY <1>3
<1>5. \A k \in 1 .. L : lista'[orden[k]] = Reubicada(orden, tam, k)
  <2> TAKE k \in 1 .. L
  <2>1. lista'[orden[k]] = e(orden[k])
    BY <1>1, <1>4
  <2> QED
    BY <1>2, <2>1 DEF e
<1>6. lista' = [g \in DOMAIN lista |-> lista'[g]]
  BY <1>3
<1>7. metadata' = [g \in Archivos |-> IF Tiene(g) THEN lista'[g] ELSE metadata[g]]
  BY <1>3, <1>4 DEF Tiene
<1> QED
  BY <1>4, <1>5, <1>6, <1>7

\* What a compaction does, file by file: each gets its blocks, one after the other.
LEMMA CompactarHace ==
  ASSUME Inv, Sano, NEW f \in Archivos, NEW tam \in Nat, Compactar(f, tam)
  PROVE  \E orden :
           /\ f \in DOMAIN lista /\ EsOrden(orden, f) /\ Reubicado(orden, tam)
           /\ bloques' = BloquesCompactados(orden)
           /\ bitmap' = [b \in Bloques |->
                b < Partes(TamanioTotal)
                \/ b \in InicioCompactado(orden, Len(orden)) .. InicioCompactado(orden, Len(orden)) + Partes(tam) - 1]
           /\ Partes(tam) \in Nat /\ Partes(tam) > OcupadosDe(f) /\ Ocupados(tam) = Partes(tam)
           /\ sin_respuesta' = Nada /\ caida' = caida
<1> DEFINE orden == OrdenCompactado(f)
<1>1. /\ f \in DOMAIN lista /\ Reubicado(orden, tam)
      /\ bloques' = BloquesCompactados(orden)
      /\ bitmap' = [b \in Bloques |->
           b < Partes(TamanioTotal)
           \/ b \in InicioCompactado(orden, Len(orden)) .. InicioCompactado(orden, Len(orden)) + Partes(tam) - 1]
      /\ Partes(tam) > OcupadosDe(f) /\ sin_respuesta' = Nada /\ caida' = caida
  BY DEF Compactar, SinHueco, Crece, Tiene
<1>2. EsOrden(orden, f)
  BY <1>1, OrdenCompactadoEs
<1> HIDE DEF orden
<1>3. Partes(tam) \in Nat /\ Ocupados(tam) = Partes(tam)
  <2>1. Partes(tam) \in Nat /\ (Partes(tam) # 0 => Ocupados(tam) = Partes(tam))
    BY OcupaAlguno
  <2>2. Partes(tam) > OcupadosDe(f) /\ OcupadosDe(f) \in Nat
    BY <1>1, DentroDelDisco
  <2> QED
    BY <2>1, <2>2
<1> QED
  BY <1>1, <1>2, <1>3

LEMMA CompactarInv ==
  ASSUME Inv, Sano, NEW f \in Archivos, NEW tam \in Nat, Compactar(f, tam)
  PROVE  Inv'
<1>1. PICK orden :
           /\ f \in DOMAIN lista /\ EsOrden(orden, f) /\ Reubicado(orden, tam)
           /\ bloques' = BloquesCompactados(orden)
           /\ bitmap' = [b \in Bloques |->
                b < Partes(TamanioTotal)
                \/ b \in InicioCompactado(orden, Len(orden)) .. InicioCompactado(orden, Len(orden)) + Partes(tam) - 1]
           /\ Partes(tam) \in Nat /\ Partes(tam) > OcupadosDe(f) /\ Ocupados(tam) = Partes(tam)
           /\ sin_respuesta' = Nada /\ caida' = caida
  BY CompactarHace
<1> DEFINE L == Len(orden)
           c(i) == InicioCompactado(orden, i)
           t(k) == IF k = L THEN tam ELSE lista[orden[k]].tamanio
<1>2. /\ L \in Nat \ {0} /\ L \in 1 .. L /\ orden[L] = f
      /\ \A i \in 1 .. L : /\ orden[i] \in DOMAIN lista /\ c(i) \in Nat /\ PartesDe(orden[i]) \in Nat
                           /\ c(i + 1) = c(i) + PartesDe(orden[i])
      /\ \A g \in DOMAIN lista : \E k \in 1 .. L : orden[k] = g
  <2>1. /\ L \in Nat \ {0} /\ orden[L] = f
        /\ \A g \in DOMAIN lista : \E k \in 1 .. L : orden[k] = g
    BY <1>1 DEF EsOrden
  <2>2. L \in 1 .. L
    BY <2>1
  <2> QED
    BY <1>1, <2>1, <2>2, InicioSigue
<1>3. /\ DOMAIN lista' = DOMAIN lista
      /\ \A k \in 1 .. L : lista'[orden[k]] = Entrada(c(k), t(k))
      /\ lista' = [g \in DOMAIN lista |-> lista'[g]]
      /\ metadata' = [g \in Archivos |-> IF Tiene(g) THEN lista'[g] ELSE metadata[g]]
  BY <1>1, ReubicadoAnota DEF Reubicada
<1>4. /\ OcupadosDe(f) \in Nat \ {0} /\ PartesDe(f) \in Nat /\ PartesDe(f) <= OcupadosDe(f)
      /\ c(L) \in Nat /\ c(L) + OcupadosDe(f) <= BLOCK_COUNT
  <2>1. OcupadosDe(f) \in Nat \ {0} /\ PartesDe(f) \in Nat /\ PartesDe(f) <= OcupadosDe(f)
    BY <1>1, EnElDisco DEF Inv
  <2> QED
    BY <1>1, <1>2, <2>1, UltimoCabe
<1>5. \A k \in 1 .. L : t(k) \in Nat
  BY <1>2, EnElDisco DEF Inv
<1>6. \A k \in 1 .. L : c(k) \in Bloques
  <2> TAKE k \in 1 .. L
  <2>1. c(k) <= c(L)
    <3>0. c(k) \in Nat /\ PartesDe(orden[k]) \in Nat /\ c(L) \in Nat
      BY <1>2
    <3>1. CASE k = L
      <4> HIDE DEF c, L
      <4> QED
        BY <3>0, <3>1
    <3>2. CASE k # L
      <4>1. k < L /\ L \in 1 .. L + 1
        <5>1. L \in Nat \ {0}
          BY <1>2
        <5> HIDE DEF L
        <5> QED
          BY <3>2, <5>1
      <4>2. c(k) + PartesDe(orden[k]) <= c(L)
        BY <1>1, <4>1, IniciosCrecen
      <4> HIDE DEF c, L
      <4> QED
        BY <3>0, <4>2
    <3> QED
      BY <3>1, <3>2
  <2> HIDE DEF c, L
  <2>2. c(k) \in Nat
    BY <1>2
  <2> QED
    BY <1>4, <2>1, <2>2, DiscoPositivo DEF Bloques
<1> HIDE DEF c, L, t
<1>7. \A g \in DOMAIN lista : lista'[g] \in Entradas
  <2> TAKE g \in DOMAIN lista
  <2>1. PICK k \in 1 .. L : orden[k] = g
    BY <1>2
  <2>2. Entrada(c(k), t(k)) \in Entradas
    BY <1>2, <1>5, <1>6, EsEntrada
  <2> QED
    BY <1>3, <2>1, <2>2
<1>8. metadata' \in [Archivos -> {NoExiste, SinClaves} \cup Entradas] /\ lista' \in [DOMAIN lista' -> Entradas]
  BY <1>3, <1>7 DEF Inv, TypeOK, Tiene
<1>9. TypeOK'
  <2>1. bitmap' \in [Bloques -> BOOLEAN]
    BY <1>1
  <2>2. bloques' \in [Bloques -> {Nada} \cup (Archivos \X Bloques)]
    BY <1>1, CompactarNoPierde DEF Escritos
  <2>3. DOMAIN lista' \subseteq Archivos /\ sin_respuesta' \in {Nada} \cup (Archivos \X Tamanios) /\ caida' \in BOOLEAN
    BY <1>1, <1>3 DEF Inv, TypeOK
  <2> QED
    BY <1>8, <2>1, <2>2, <2>3 DEF TypeOK
<1>10. Concuerdan'
  BY <1>3 DEF Inv, Concuerdan, Tiene
<1>11. SinFugas'
  <2> SUFFICES ASSUME NEW b \in Bloques, bitmap'[b]
               PROVE  \E g \in DOMAIN lista' : b \in DeEntrada(lista'[g])
    BY DEF SinFugas
  <2>1. b \in Nat
    BY NoSonEntradas
  <2>2. b < Partes(TamanioTotal) \/ b \in c(L) .. c(L) + Partes(tam) - 1
    BY <1>1 DEF c, L
  <2>3. ASSUME NEW k \in 1 .. L, b \in c(k) .. c(k) + Ocupados(t(k)) - 1
        PROVE  \E g \in DOMAIN lista' : b \in DeEntrada(lista'[g])
    <3>1. DeEntrada(Entrada(c(k), t(k))) = c(k) .. c(k) + Ocupados(t(k)) - 1
      BY <1>2, <1>5, EsEntrada
    <3> QED
      BY <1>2, <1>3, <2>3, <3>1
  <2>4. CASE b \in c(L) .. c(L) + Partes(tam) - 1
    <3>1. t(L) = tam
      BY DEF t
    <3> QED
      BY <1>1, <1>2, <2>3, <2>4, <3>1
  <2>5. CASE b < Partes(TamanioTotal)
    <3>1. Partes(TamanioTotal) \in Nat /\ Partes(TamanioTotal) <= c(L + 1) /\ c(L + 1) \in Nat
      <4>1. Partes(TamanioTotal) \in Nat /\ Partes(TamanioTotal) <= c(L + 1)
        BY <1>1, TotalCabe DEF c, L
      <4> QED
        BY <1>2, <4>1
    <3>2. b < c(L + 1)
      BY <2>1, <2>5, <3>1
    <3>3. PICK k \in 1 .. L : c(k) <= b /\ b < c(k) + PartesDe(orden[k])
      BY <1>1, <2>1, <3>2, BloqueDeAlguno DEF c, L
    <3>4. PartesDe(orden[k]) <= Ocupados(t(k)) /\ Ocupados(t(k)) \in Nat
      <4>1. CASE k = L
        <5>1. t(k) = tam /\ orden[k] = f
          BY <1>2, <4>1 DEF t
        <5>2. /\ Ocupados(tam) = Partes(tam) /\ Partes(tam) \in Nat /\ Partes(tam) > OcupadosDe(f)
              /\ OcupadosDe(f) \in Nat /\ PartesDe(f) \in Nat /\ PartesDe(f) <= OcupadosDe(f)
          BY <1>1, <1>4
        <5> QED
          BY <5>1, <5>2
      <4>2. CASE k # L
        <5>1. t(k) = lista[orden[k]].tamanio
          BY <4>2 DEF t
        <5> QED
          BY <1>5, <5>1, OcupaAlguno DEF PartesDe
      <4> QED
        BY <4>1, <4>2
    <3>5. c(k) \in Nat /\ PartesDe(orden[k]) \in Nat
      BY <1>2
    <3>6. b \in c(k) .. c(k) + Ocupados(t(k)) - 1
      BY <2>1, <3>3, <3>4, <3>5
    <3> QED
      BY <2>3, <3>6
  <2> QED
    BY <2>2, <2>4, <2>5
<1> QED
  BY <1>9, <1>10, <1>11 DEF Inv

-----------------------------------------------------------------------------
(* Every step keeps the invariant.                                          *)

LEMMA InvPaso == Inv /\ [Next]_vars => Inv'
<1> SUFFICES ASSUME Inv, [Next]_vars PROVE Inv'
  OBVIOUS
<1>1. ASSUME NEW f \in Archivos, NEW tam \in Tamanios, Sano, Truncar(f, tam) PROVE Inv'
  <2>1. tam \in Nat
    BY ConstantesDialFS
  <2>2. CASE Achicar(f, tam)
    BY <1>1, <2>1, <2>2, AchicarInv
  <2>3. CASE MismosBloques(f, tam)
    BY <1>1, <2>1, <2>3, MismosBloquesInv
  <2>4. CASE AgrandarEnLugar(f, tam)
    BY <1>1, <2>1, <2>4, AgrandarEnLugarInv
  <2>5. CASE Mover(f, tam)
    BY <1>1, <2>1, <2>5, MoverInv
  <2>6. CASE Compactar(f, tam)
    BY <1>1, <2>1, <2>6, CompactarInv
  <2>7. CASE TruncarSinLugar(f, tam)
    BY <2>1, <2>7, TruncarSinLugarInv
  <2> QED
    BY <1>1, <2>2, <2>3, <2>4, <2>5, <2>6, <2>7 DEF Truncar
<1>2. CASE Atiende /\ \E f \in Archivos :
             \/ Crear(f) \/ CrearSinLugar(f) \/ Borrar(f) \/ UsarSinClaves(f)
             \/ \E tam \in Tamanios : Truncar(f, tam)
             \/ \E i \in Bloques : Escribir(f, i)
  <2>1. Sano
    BY <1>2 DEF Atiende
  <2>2. PICK f \in Archivos :
             \/ Crear(f) \/ CrearSinLugar(f) \/ Borrar(f) \/ UsarSinClaves(f)
             \/ \E tam \in Tamanios : Truncar(f, tam)
             \/ \E i \in Bloques : Escribir(f, i)
    BY <1>2
  <2> QED
    BY <1>1, <2>1, <2>2, CrearInv, CrearSinLugarInv, BorrarInv, UsarSinClavesInv, EscribirInv
<1>3. CASE Reiniciar
  BY <1>3, ReiniciarInv
<1>4. CASE UNCHANGED vars
  BY <1>4 DEF vars, disco, Inv, TypeOK, Concuerdan, Tiene, SinFugas
<1> QED
  BY <1>2, <1>3, <1>4 DEF Next

LEMMA InvInicial == Init => Inv
<1> SUFFICES ASSUME Init PROVE Inv
  OBVIOUS
<1>1. DOMAIN lista = {} /\ lista \in [DOMAIN lista -> Entradas]
  BY DEF Init
<1> QED
  BY <1>1 DEF Init, Inv, TypeOK, Concuerdan, Tiene, SinFugas

LEMMA InvSiempre == Spec => []Inv
  BY InvInicial, InvPaso, PTL DEF Spec

\* The types of the interface's state.
THEOREM TiposSiempre == Spec => []TypeOK
<1>1. Inv => TypeOK
  BY DEF Inv
<1> QED
  BY <1>1, InvSiempre, PTL

\* No block is marked and nobody's: deletions, truncations, moves and compactions
\* release what they leave (instrucciones_io.c: procesar_truncate_archivo; dialfs.c:
\* borrar_archivo).
THEOREM SinFugasSiempre == Spec => []SinFugas
<1>1. Inv => SinFugas
  BY DEF Inv
<1> QED
  BY <1>1, InvSiempre, PTL

\* ARCHIVOS_EN_FS says of each file what its metadata says, also while the interface
\* is down, so that a restart reads back the list it had.
THEOREM ListaSiempreAlDia == Spec => []ListaAlDia
<1>1. Inv => ListaAlDia
  BY DEF Inv, Concuerdan, ListaAlDia
<1> QED
  BY <1>1, InvSiempre, PTL

-----------------------------------------------------------------------------
(* No step damages what a file holds.                                       *)

LEMMA ParteDelArchivo ==
  ASSUME Inv, Sano, NEW g \in DOMAIN lista, NEW i \in 0 .. BLOCK_COUNT - 1, i < Partes(lista[g].tamanio)
  PROVE  /\ i \in Nat /\ i < OcupadosDe(g) /\ Inicial(g) \in Nat /\ OcupadosDe(g) \in Nat
         /\ i \in 0 .. PartesDe(g) - 1
         /\ Inicial(g) + i \in DeEntrada(lista[g]) /\ Inicial(g) + i \in Bloques
<1>1. /\ Inicial(g) \in Nat /\ PartesDe(g) \in Nat /\ OcupadosDe(g) \in Nat /\ PartesDe(g) <= OcupadosDe(g)
      /\ PartesDe(g) = Partes(lista[g].tamanio)
      /\ DeEntrada(lista[g]) = Inicial(g) .. Inicial(g) + OcupadosDe(g) - 1
      /\ Inicial(g) + OcupadosDe(g) <= BLOCK_COUNT
  BY EnElDisco DEF Inv
<1>2. i \in Nat
  BY DiscoPositivo
<1> QED
  BY <1>1, <1>2, DiscoPositivo DEF Bloques

\* Nothing is written, and the files there are stay where they were.
LEMMA QuietoNoDania ==
  ASSUME bloques' = bloques,
         \A g \in DOMAIN lista \cap DOMAIN lista' : lista'[g].bloque_inicial = Inicial(g)
  PROVE  NoDania
BY DEF NoDania

LEMMA AnotarEnSuLugar ==
  ASSUME Inv, Sano, NEW f \in DOMAIN lista, NEW tam \in Nat, Anotar(f, Inicial(f), tam)
  PROVE  \A g \in DOMAIN lista \cap DOMAIN lista' : lista'[g].bloque_inicial = Inicial(g)
<1>1. Inicial(f) \in Bloques /\ Inicial(f) \in Nat
  BY DentroDelDisco
<1>2. \A g \in DOMAIN lista : lista'[g] = IF g = f THEN Entrada(Inicial(f), tam) ELSE lista[g]
  BY <1>1, AnotarInv DEF Inv
<1> QED
  BY <1>1, <1>2 DEF Entrada, Inicial

LEMMA AchicarNoDania ==
  ASSUME Inv, Sano, NEW f \in Archivos, NEW tam \in Nat, Achicar(f, tam)
  PROVE  NoDania
<1> DEFINE sobran == Inicial(f) + Partes(tam) .. Inicial(f) + OcupadosDe(f) - 1
<1>1. /\ f \in DOMAIN lista /\ Anotar(f, Inicial(f), tam)
      /\ bloques' = [c \in Bloques |-> IF c \in sobran THEN Nada ELSE bloques[c]]
  BY AnotaTamanio DEF Achicar, Tiene, Inv
<1>2. Inicial(f) \in Bloques /\ Inicial(f) \in Nat /\ OcupadosDe(f) \in Nat
  BY <1>1, DentroDelDisco
<1>3. \A g \in DOMAIN lista : lista'[g] = IF g = f THEN Entrada(Inicial(f), tam) ELSE lista[g]
  BY <1>1, <1>2, AnotarInv DEF Inv
<1>4. \A g \in DOMAIN lista \cap DOMAIN lista' : lista'[g].bloque_inicial = Inicial(g)
  BY <1>1, AnotarEnSuLugar
<1>5. Partes(tam) \in Nat
  BY OcupaAlguno
<1> SUFFICES ASSUME NEW g \in DOMAIN lista \cap DOMAIN lista', NEW i \in 0 .. BLOCK_COUNT - 1,
                    i < Partes(lista[g].tamanio), i < Partes(lista'[g].tamanio)
             PROVE  bloques'[Inicial(g) + i] = bloques[Inicial(g) + i]
  BY <1>4 DEF NoDania
<1>6. /\ i \in Nat /\ Inicial(g) \in Nat /\ Inicial(g) + i \in Bloques
      /\ Inicial(g) + i \in DeEntrada(lista[g])
  BY ParteDelArchivo
<1>7. Inicial(g) + i \notin sobran
  <2>1. CASE g = f
    <3>1. i < Partes(tam)
      BY <1>3, <2>1 DEF Entrada
    <3> QED
      BY <1>2, <1>5, <1>6, <2>1, <3>1
  <2>2. CASE g # f
    <3>1. ~(Inicial(f) <= Inicial(g) + i /\ Inicial(g) + i < Inicial(f) + OcupadosDe(f))
      BY <1>1, <1>6, <2>2, Ajeno DEF Inv
    <3> QED
      BY <1>2, <1>5, <1>6, <3>1
  <2> QED
    BY <2>1, <2>2
<1> HIDE DEF sobran
<1> QED
  BY <1>1, <1>6, <1>7

LEMMA MoverNoDania ==
  ASSUME Inv, Sano, NEW f \in Archivos, NEW tam \in Nat, Mover(f, tam)
  PROVE  NoDania
<1> DEFINE b == Min(Huecos(f, Partes(tam)))
           n == OcupadosDe(f)
<1>1. /\ f \in DOMAIN lista /\ Partes(tam) > n /\ Huecos(f, Partes(tam)) # {}
      /\ bloques' = Copiar(bloques, Inicial(f), b, n)
      /\ Anotar(f, b, tam)
  BY DEF Mover, Crece, Tiene
<1>2. Inicial(f) \in Nat /\ n \in Nat \ {0} /\ Inicial(f) + n <= BLOCK_COUNT /\ Partes(tam) \in Nat
  <2>1. Inicial(f) \in Nat /\ n \in Nat \ {0} /\ Inicial(f) + n <= BLOCK_COUNT
    BY <1>1, EnElDisco DEF Inv
  <2> QED
    BY <2>1, OcupaAlguno
<1>3. /\ b \in Nat /\ b + Partes(tam) <= BLOCK_COUNT
      /\ \A c \in b .. b + Partes(tam) - 1 : ~bitmap[c] \/ c \in DeEntrada(lista[f])
  BY <1>1, <1>2, HuecoLibre
<1> HIDE DEF b, n
<1>4. b \in Bloques
  BY <1>1, <1>2, <1>3, DiscoPositivo DEF Bloques
<1>5. \A g \in DOMAIN lista : lista'[g] = IF g = f THEN Entrada(b, tam) ELSE lista[g]
  BY <1>1, <1>4, AnotarInv DEF Inv
<1>6. Copiado(bloques', bloques, Inicial(f), b, n)
  <2>1. bloques \in [Bloques -> Escritos]
    BY DEF Inv, TypeOK, Escritos
  <2> QED
    BY <1>1, <1>2, <1>3, <2>1, CopiarMueve
<1> SUFFICES ASSUME NEW g \in DOMAIN lista \cap DOMAIN lista', NEW i \in 0 .. BLOCK_COUNT - 1,
                    i < Partes(lista[g].tamanio), i < Partes(lista'[g].tamanio)
             PROVE  bloques'[lista'[g].bloque_inicial + i] = bloques[Inicial(g) + i]
  BY DEF NoDania
<1>7. /\ i \in Nat /\ i < OcupadosDe(g) /\ Inicial(g) \in Nat /\ Inicial(g) + i \in Bloques
      /\ Inicial(g) + i \in DeEntrada(lista[g])
  BY ParteDelArchivo
<1>8. CASE g = f
  <2>1. lista'[g].bloque_inicial = b
    BY <1>5, <1>8 DEF Entrada
  <2>2. i \in 0 .. n - 1 /\ b + i \in Bloques
    BY <1>1, <1>2, <1>3, <1>7, <1>8, DiscoPositivo DEF n, Bloques
  <2> QED
    BY <1>6, <1>8, <2>1, <2>2 DEF Copiado
<1>9. CASE g # f
  <2>1. lista'[g].bloque_inicial = Inicial(g)
    BY <1>5, <1>9 DEF Inicial
  <2> DEFINE c == Inicial(g) + i
  <2>2. c \in Bloques /\ c \in Nat /\ bitmap[c] /\ c \notin DeEntrada(lista[f])
    <3>1. c \in Bloques /\ bitmap[c] /\ DeEntrada(lista[f]) \cap DeEntrada(lista[g]) = {}
      BY <1>1, <1>7, <1>9 DEF Sano
    <3> QED
      BY <1>7, <3>1
  <2> HIDE DEF c
  <2>3. c \notin b .. b + Partes(tam) - 1
    BY <1>3, <2>2
  <2>4. c < b \/ c >= b + n
    BY <1>1, <1>2, <1>3, <2>2, <2>3
  <2>5. bloques'[c] = bloques[c]
    BY <1>6, <2>2, <2>4 DEF Copiado
  <2> QED
    BY <2>1, <2>5 DEF c
<1> QED
  BY <1>8, <1>9

LEMMA CompactarNoDania ==
  ASSUME Inv, Sano, NEW f \in Archivos, NEW tam \in Nat, Compactar(f, tam)
  PROVE  NoDania
<1>1. PICK orden :
           /\ f \in DOMAIN lista /\ EsOrden(orden, f) /\ Reubicado(orden, tam)
           /\ bloques' = BloquesCompactados(orden)
  BY CompactarHace
<1>2. \A k \in 1 .. Len(orden) : lista'[orden[k]] = Reubicada(orden, tam, k)
  BY <1>1, ReubicadoAnota
<1>3. \A k \in 1 .. Len(orden) : \A i \in 0 .. PartesDe(orden[k]) - 1 :
         bloques'[InicioCompactado(orden, k) + i] = bloques[Inicial(orden[k]) + i]
  BY <1>1, CompactarNoPierde
<1> SUFFICES ASSUME NEW g \in DOMAIN lista \cap DOMAIN lista', NEW i \in 0 .. BLOCK_COUNT - 1,
                    i < Partes(lista[g].tamanio)
             PROVE  bloques'[lista'[g].bloque_inicial + i] = bloques[Inicial(g) + i]
  BY DEF NoDania
<1>4. i \in 0 .. PartesDe(g) - 1
  BY ParteDelArchivo
<1>5. PICK k \in 1 .. Len(orden) : orden[k] = g
  BY <1>1 DEF EsOrden
<1>6. lista'[g].bloque_inicial = InicioCompactado(orden, k)
  <2>1. lista'[g] = Reubicada(orden, tam, k)
    BY <1>2, <1>5
  <2> DEFINE t == IF k = Len(orden) THEN tam ELSE lista[orden[k]].tamanio
  <2>2. lista'[g] = Entrada(InicioCompactado(orden, k), t)
    BY <2>1 DEF Reubicada
  <2> HIDE DEF t
  <2> QED
    BY <2>2 DEF Entrada
<1> QED
  BY <1>3, <1>4, <1>5, <1>6

LEMMA EscribirNoDania ==
  ASSUME Inv, Sano, NEW f \in Archivos, NEW j \in Bloques, Escribir(f, j)
  PROVE  NoDania
<1>1. /\ f \in DOMAIN lista /\ j < Partes(lista[f].tamanio) /\ lista' = lista
      /\ bloques' = [bloques EXCEPT ![Inicial(f) + j] = <<f, j>>]
  BY DEF Escribir, Tiene
<1>2. /\ j \in Nat /\ Inicial(f) \in Nat /\ Inicial(f) + j \in Bloques
      /\ Inicial(f) + j \in DeEntrada(lista[f])
  BY <1>1, ParteDelArchivo DEF Bloques
<1> SUFFICES ASSUME NEW g \in DOMAIN lista, NEW i \in 0 .. BLOCK_COUNT - 1, i < Partes(lista[g].tamanio)
             PROVE  bloques'[Inicial(g) + i] \in {bloques[Inicial(g) + i], <<g, i>>}
  BY <1>1 DEF NoDania, Inicial
<1>3. i \in Nat /\ Inicial(g) \in Nat /\ Inicial(g) + i \in Bloques /\ Inicial(g) + i \in DeEntrada(lista[g])
  BY ParteDelArchivo
<1>4. bloques'[Inicial(g) + i] = IF Inicial(g) + i = Inicial(f) + j THEN <<f, j>> ELSE bloques[Inicial(g) + i]
  <2> DEFINE x == Inicial(f) + j
             y == Inicial(g) + i
  <2>1. bloques' = [bloques EXCEPT ![x] = <<f, j>>] /\ y \in DOMAIN bloques /\ x \in DOMAIN bloques
    BY <1>1, <1>2, <1>3 DEF Inv, TypeOK
  <2> HIDE DEF x, y
  <2>2. bloques'[y] = IF y = x THEN <<f, j>> ELSE bloques[y]
    BY <2>1
  <2> QED
    BY <2>2 DEF x, y
<1>5. Inicial(g) + i = Inicial(f) + j => g = f /\ i = j
  <2>1. Inicial(g) + i = Inicial(f) + j => g = f
    BY <1>1, <1>2, <1>3 DEF Sano
  <2> QED
    BY <1>2, <1>3, <2>1
<1> QED
  BY <1>4, <1>5

LEMMA NoDaniaPaso == Inv /\ [Next]_vars => NoDania
<1> SUFFICES ASSUME Inv, [Next]_vars, Sano PROVE NoDania
  BY DEF NoDania
<1>1. ASSUME NEW f \in Archivos, NEW tam \in Tamanios, Truncar(f, tam) PROVE NoDania
  <2>1. tam \in Nat
    BY ConstantesDialFS
  <2>2. CASE Achicar(f, tam)
    BY <2>1, <2>2, AchicarNoDania
  <2>3. CASE MismosBloques(f, tam)
    <3>1. f \in DOMAIN lista /\ bloques' = bloques /\ Anotar(f, Inicial(f), tam)
      BY <2>3, AnotaTamanio DEF MismosBloques, Tiene, Inv
    <3> QED
      BY <2>1, <3>1, AnotarEnSuLugar, QuietoNoDania
  <2>4. CASE AgrandarEnLugar(f, tam)
    <3>1. f \in DOMAIN lista /\ bloques' = bloques /\ Anotar(f, Inicial(f), tam)
      BY <2>4 DEF AgrandarEnLugar, Crece, Tiene
    <3> QED
      BY <2>1, <3>1, AnotarEnSuLugar, QuietoNoDania
  <2>5. CASE Mover(f, tam)
    BY <2>1, <2>5, MoverNoDania
  <2>6. CASE Compactar(f, tam)
    BY <2>1, <2>6, CompactarNoDania
  <2>7. CASE TruncarSinLugar(f, tam)
    BY <2>7, QuietoNoDania DEF TruncarSinLugar, disco, Inicial
  <2> QED
    BY <1>1, <2>2, <2>3, <2>4, <2>5, <2>6, <2>7 DEF Truncar
<1>2. ASSUME NEW f \in Archivos, Crear(f) PROVE NoDania
  <2>1. f \notin DOMAIN lista
    BY <1>2, CrearInv
  <2>2. bloques' = bloques /\ \A g \in DOMAIN lista : lista'[g] = lista[g]
    <3> DEFINE e == Entrada(Min(LibresEnDisco), 0)
    <3>1. /\ bloques' = bloques
          /\ lista' = [g \in DOMAIN lista \cup {f} |-> IF g = f THEN e ELSE lista[g]]
      BY <1>2 DEF Crear
    <3> HIDE DEF e
    <3> QED
      BY <2>1, <3>1
  <2> QED
    BY <2>2, QuietoNoDania DEF Inicial
<1>3. ASSUME NEW f \in Archivos, Borrar(f) PROVE NoDania
  <2>1. bloques' = bloques /\ \A g \in DOMAIN lista' : lista'[g] = lista[g]
    BY <1>3 DEF Borrar
  <2> QED
    BY <2>1, QuietoNoDania DEF Inicial
<1>4. ASSUME bloques' = bloques, lista' = lista PROVE NoDania
  BY <1>4, QuietoNoDania DEF Inicial
<1>5. ASSUME NEW f \in Archivos, CrearSinLugar(f) \/ UsarSinClaves(f) PROVE NoDania
  <2>1. bloques' = bloques /\ lista' = lista
    BY <1>5 DEF CrearSinLugar, UsarSinClaves, disco
  <2> QED
    BY <1>4, <2>1
<1>6. CASE Atiende /\ \E f \in Archivos :
             \/ Crear(f) \/ CrearSinLugar(f) \/ Borrar(f) \/ UsarSinClaves(f)
             \/ \E tam \in Tamanios : Truncar(f, tam)
             \/ \E i \in Bloques : Escribir(f, i)
  <2>1. PICK f \in Archivos :
             \/ Crear(f) \/ CrearSinLugar(f) \/ Borrar(f) \/ UsarSinClaves(f)
             \/ \E tam \in Tamanios : Truncar(f, tam)
             \/ \E i \in Bloques : Escribir(f, i)
    BY <1>6
  <2>2. ASSUME NEW i \in Bloques, Escribir(f, i) PROVE NoDania
    BY <2>2, EscribirNoDania
  <2> QED
    BY <1>1, <1>2, <1>3, <1>5, <2>1, <2>2
<1>7. CASE Reiniciar
  <2>1. bloques' = bloques /\ lista' = lista
    BY <1>7, ReiniciarInv DEF Reiniciar, disco
  <2> QED
    BY <1>4, <2>1
<1>8. CASE UNCHANGED vars
  <2>1. bloques' = bloques /\ lista' = lista
    BY <1>8 DEF vars, disco
  <2> QED
    BY <1>4, <2>1
<1> QED
  BY <1>6, <1>7, <1>8 DEF Next

\* What a file holds survives the moves, compactions, truncations and deletions of the
\* others and its own, and restarts, while no two files share a block (the search of
\* dialfs.c:520 may make them: Sano).
THEOREM ContenidoSiempreIntacto == Spec => ContenidoIntacto
  BY InvSiempre, NoDaniaPaso, PTL DEF Spec, ContenidoIntacto

-----------------------------------------------------------------------------
(* A size is refused only when there is no room.                            *)

\* The files S have at most the blocks they are counted with.
LEMMA CuentaDeBloques ==
  ASSUME Inv, Sano
  PROVE  \A S \in SUBSET DOMAIN lista :
           /\ IsFiniteSet(UNION {DeEntrada(lista[g]) : g \in S})
           /\ Cardinality(UNION {DeEntrada(lista[g]) : g \in S}) <= SumFunction([g \in S |-> OcupadosDe(g)])
<1>0. IsFiniteSet(DOMAIN lista)
  BY ConstantesDialFS, FS_Subset DEF Inv, TypeOK
<1> DEFINE U(S) == UNION {DeEntrada(lista[g]) : g \in S}
           t(S) == [g \in S |-> OcupadosDe(g)]
           Bien(S) == IsFiniteSet(U(S)) /\ Cardinality(U(S)) <= SumFunction(t(S))
           Mal == {n \in Nat : \E S \in SUBSET DOMAIN lista : Cardinality(S) = n /\ ~Bien(S)}
<1>1. ASSUME Mal # {} PROVE FALSE
  <2>1. Mal \in SUBSET Nat
    OBVIOUS
  <2>2. Min(Mal) \in Mal /\ \A m \in Mal : Min(Mal) <= m
    <3> HIDE DEF Mal
    <3> QED
      BY <1>1, <2>1, MinDeNaturales
  <2>3. PICK S \in SUBSET DOMAIN lista : Cardinality(S) = Min(Mal) /\ ~Bien(S)
    BY <2>2
  <2>4. Cardinality(S) \in Nat /\ IsFiniteSet(S)
    BY <1>0, FS_Subset, FS_CardinalityType
  <2>5. CASE S = {}
    <3>1. U(S) = {} /\ t(S) \in [{} -> Nat]
      BY <2>5
    <3>2. IsFiniteSet(U(S)) /\ Cardinality(U(S)) = 0
      BY <3>1, FS_EmptySet
    <3>3. SumFunction(t(S)) = 0
      <4> HIDE DEF t
      <4> QED
        BY <3>1, SumaVacia
    <3> QED
      BY <2>3, <3>2, <3>3
  <2>6. CASE S # {}
    <3>1. PICK x \in S : TRUE
      BY <2>6
    <3> DEFINE T == S \ {x}
               D == DeEntrada(lista[x])
    <3>2. T \in SUBSET DOMAIN lista /\ Cardinality(T) = Cardinality(S) - 1 /\ Cardinality(T) \in Nat
      <4>1. Cardinality(T) = Cardinality(S) - 1 /\ IsFiniteSet(T)
        BY <2>4, FS_RemoveElement
      <4> QED
        BY <4>1, FS_CardinalityType
    <3>3. Bien(T)
      <4>1. \A n \in Mal : Cardinality(S) <= n
        <5> HIDE DEF Mal
        <5> QED
          BY <2>2, <2>3
      <4>2. ~(Cardinality(S) <= Cardinality(T))
        <5> HIDE DEF T
        <5> QED
          BY <2>4, <3>2
      <4>3. Cardinality(T) \notin Mal
        <5> HIDE DEF Mal, T
        <5> QED
          BY <4>1, <4>2
      <4> HIDE DEF Bien
      <4> QED
        BY <3>2, <4>3
    <3>4. U(S) = U(T) \cup D
      OBVIOUS
    <3>5. IsFiniteSet(D) /\ Cardinality(D) = OcupadosDe(x) /\ OcupadosDe(x) \in Nat
      <4>1. /\ Inicial(x) \in Nat /\ OcupadosDe(x) \in Nat \ {0}
            /\ D = Inicial(x) .. Inicial(x) + OcupadosDe(x) - 1
        BY DentroDelDisco
      <4> HIDE DEF D
      <4>2. /\ IsFiniteSet(Inicial(x) .. Inicial(x) + OcupadosDe(x) - 1)
            /\ Cardinality(Inicial(x) .. Inicial(x) + OcupadosDe(x) - 1) = OcupadosDe(x)
        BY SMTT(30), <4>1, FS_Interval
      <4> QED
        BY <4>1, <4>2
    <3>6. /\ t(S) \in [S -> Nat] /\ t(T) \in [T -> Nat] /\ \A g \in T : t(T)[g] = t(S)[g]
          /\ t(S)[x] = OcupadosDe(x)
      <4>1. \A g \in S : OcupadosDe(g) \in Nat
        BY DentroDelDisco
      <4> QED
        BY <4>1
    <3>7. TerminoMas(t(S), t(T), x)
      <4>1. T = S \ {x}
        OBVIOUS
      <4> HIDE DEF t, T
      <4> QED
        BY <2>4, <3>6, <4>1, SumaSinUno
    <3> HIDE DEF U, t, T, D
    <3>8. /\ SumFunction(t(S)) = OcupadosDe(x) + SumFunction(t(T)) /\ SumFunction(t(T)) \in Nat
      BY <3>6, <3>7 DEF TerminoMas
    <3>9. /\ IsFiniteSet(U(T) \cup D) /\ Cardinality(U(T)) \in Nat
          /\ Cardinality(U(T) \cup D) <= Cardinality(U(T)) + Cardinality(D)
      <4>1. /\ IsFiniteSet(U(T)) /\ IsFiniteSet(D)
        BY <3>3, <3>5
      <4>2. /\ IsFiniteSet(U(T) \cup D)
            /\ Cardinality(U(T) \cup D) = Cardinality(U(T)) + Cardinality(D) - Cardinality(U(T) \cap D)
        BY <4>1, FS_Union
      <4>3. Cardinality(U(T)) \in Nat /\ Cardinality(D) \in Nat /\ Cardinality(U(T) \cap D) \in Nat
        BY <4>1, FS_Intersection, FS_CardinalityType
      <4> QED
        BY <4>2, <4>3
    <3>10. Cardinality(U(T) \cup D) \in Nat
      BY <3>9, FS_CardinalityType
    <3>11. Cardinality(U(S)) <= SumFunction(t(S)) /\ IsFiniteSet(U(S))
      BY <3>3, <3>4, <3>5, <3>8, <3>9, <3>10
    <3> QED
      BY <2>3, <3>11
  <2> QED
    BY <2>5, <2>6
<1>2. \A S \in SUBSET DOMAIN lista : Cardinality(S) \in Nat
  BY <1>0, FS_Subset, FS_CardinalityType
<1>3. \A S \in SUBSET DOMAIN lista : Bien(S)
  <2> HIDE DEF Bien
  <2> QED
    BY <1>1, <1>2
<1> QED
  BY <1>3

LEMMA TruncarSinLugarNiega ==
  ASSUME Inv, Sano, NEW f \in Archivos, NEW tam \in Tamanios, TruncarSinLugar(f, tam)
  PROVE  SeNiegaSinLugar
<1> DEFINE S == DOMAIN lista
           viejos == [g \in S |-> OcupadosDe(g)]
           nuevos == [g \in S |-> IF g = f THEN Partes(tam) ELSE OcupadosDe(g)]
           marcados == {b \in Bloques : bitmap[b]}
           U == UNION {DeEntrada(lista[g]) : g \in S}
<1>1. /\ f \in S /\ ~(Cardinality(LibresEnDisco) + OcupadosDe(f) >= Partes(tam))
      /\ Partes(tam) \in Nat /\ \A g \in S : OcupadosDe(g) \in Nat
  <2>1. f \in S /\ ~(Cardinality(LibresEnDisco) + OcupadosDe(f) >= Partes(tam))
    BY DEF TruncarSinLugar, SinHueco, Crece, Tiene, Alcanzan
  <2>2. Partes(tam) \in Nat
    BY ConstantesDialFS, OcupaAlguno
  <2> QED
    BY <2>1, <2>2, DentroDelDisco
<1>2. IsFiniteSet(S)
  BY ConstantesDialFS, FS_Subset DEF Inv, TypeOK
<1>3. IsFiniteSet(Bloques) /\ Cardinality(Bloques) = BLOCK_COUNT
  BY DiscoPositivo, FS_Interval DEF Bloques
<1>4. /\ Cardinality(LibresEnDisco) \in Nat /\ Cardinality(marcados) \in Nat
      /\ Cardinality(LibresEnDisco) + Cardinality(marcados) = BLOCK_COUNT
  <2>1. LibresEnDisco = Bloques \ marcados /\ marcados \in SUBSET Bloques /\ Bloques \cap marcados = marcados
    BY DEF LibresEnDisco
  <2>2. IsFiniteSet(marcados)
    BY <1>3, <2>1, FS_Subset
  <2>3. /\ IsFiniteSet(Bloques \ marcados)
        /\ Cardinality(Bloques \ marcados) = Cardinality(Bloques) - Cardinality(Bloques \cap marcados)
    BY <1>3, FS_Difference
  <2>4. Cardinality(marcados) \in Nat /\ Cardinality(Bloques \ marcados) \in Nat
    BY <2>2, <2>3, FS_CardinalityType
  <2> HIDE DEF marcados
  <2>5. /\ Cardinality(LibresEnDisco) = Cardinality(Bloques \ marcados)
        /\ Cardinality(Bloques \cap marcados) = Cardinality(marcados)
    BY <2>1
  <2>6. Cardinality(LibresEnDisco) = BLOCK_COUNT - Cardinality(marcados)
    BY <1>3, <2>3, <2>5
  <2>7. BLOCK_COUNT \in Int
    BY DiscoPositivo
  <2> QED
    BY <2>4, <2>5, <2>6, <2>7
<1>5. IsFiniteSet(U) /\ Cardinality(U) <= SumFunction(viejos)
  <2>1. S \in SUBSET DOMAIN lista
    OBVIOUS
  <2> QED
    BY <2>1, CuentaDeBloques
<1>6. Cardinality(marcados) <= Cardinality(U) /\ Cardinality(U) \in Nat
  <2>1. marcados \in SUBSET U
    BY DEF Inv, SinFugas
  <2> HIDE DEF marcados, U
  <2> QED
    BY <1>5, <2>1, FS_Subset, FS_CardinalityType
<1>7. /\ viejos \in [S -> Nat] /\ nuevos \in [S -> Nat] /\ \A g \in S \ {f} : nuevos[g] = viejos[g]
      /\ viejos[f] = OcupadosDe(f) /\ nuevos[f] = Partes(tam)
  BY <1>1
<1> HIDE DEF viejos, nuevos, U, marcados, S
<1>8. /\ SumFunction(viejos) \in Nat /\ SumFunction(nuevos) \in Nat
      /\ SumFunction(nuevos) + viejos[f] = SumFunction(viejos) + nuevos[f]
  BY <1>1, <1>2, <1>7, SumaCambia
<1>9. OcupadosDe(f) \in Nat
  BY <1>1
<1>10. SumFunction(nuevos) > BLOCK_COUNT
  BY <1>1, <1>4, <1>5, <1>6, <1>7, <1>8, <1>9, DiscoPositivo
<1>11. sin_respuesta'[1] = f /\ sin_respuesta'[2] = tam
  BY DEF TruncarSinLugar
<1> QED
  BY <1>1, <1>10, <1>11 DEF SeNiegaSinLugar, BloquesCon, nuevos, S

LEMMA SeNiegaPaso == Inv /\ [Next]_vars => SeNiegaSinLugar
<1> SUFFICES ASSUME Inv, [Next]_vars, sin_respuesta' \notin {sin_respuesta, Nada} PROVE SeNiegaSinLugar
  BY DEF SeNiegaSinLugar
<1>1. ~Reiniciar /\ ~UNCHANGED vars
  BY DEF Reiniciar, vars
<1>2. Atiende /\ \E f \in Archivos :
             \/ Crear(f) \/ CrearSinLugar(f) \/ Borrar(f) \/ UsarSinClaves(f)
             \/ \E tam \in Tamanios : Truncar(f, tam)
             \/ \E i \in Bloques : Escribir(f, i)
  BY <1>1 DEF Next
<1>3. PICK f \in Archivos :
             \/ Crear(f) \/ CrearSinLugar(f) \/ Borrar(f) \/ UsarSinClaves(f)
             \/ \E tam \in Tamanios : Truncar(f, tam)
             \/ \E i \in Bloques : Escribir(f, i)
  BY <1>2
<1>4. /\ ~Crear(f) /\ ~CrearSinLugar(f) /\ ~Borrar(f) /\ ~UsarSinClaves(f)
      /\ \A i \in Bloques : ~Escribir(f, i)
  BY DEF Crear, CrearSinLugar, Borrar, UsarSinClaves, Escribir
<1>5. PICK tam \in Tamanios : Truncar(f, tam)
  BY <1>3, <1>4
<1>6. TruncarSinLugar(f, tam)
  BY <1>5 DEF Truncar, Achicar, MismosBloques, AgrandarEnLugar, Mover, Compactar
<1> QED
  BY <1>2, <1>6, TruncarSinLugarNiega DEF Atiende

\* IO_FS_TRUNCATE is left without an answer only if the files, with the new size, take
\* more blocks than the disk has: the compaction is tried before (instrucciones_io.c:
\* procesar_truncate_archivo).
THEOREM SiempreSoloSinLugar == Spec => SoloSinLugar
  BY InvSiempre, SeNiegaPaso, PTL DEF Spec, SoloSinLugar
=============================================================================
