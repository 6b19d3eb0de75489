------------------------------- MODULE DialFS -------------------------------
(***************************************************************************)
(* The DialFS interface: files of consecutive blocks, their metadata, the  *)
(* list of files kept in memory and the bitmap of blocks in use.           *)
(*                                                                         *)
(* The interface serves one request at a time, so a handler is an action.  *)
(* A block holds what was last written to it: <<f, i>> is a write to part  *)
(* i (a block's worth) of file f.  Requests about a file nobody created    *)
(* are left out, and so are those the code answers without doing anything. *)
(***************************************************************************)
EXTENDS Integers, FiniteSets, SequencesExt

CONSTANTS
  Archivos,     \* file names
  BLOCK_COUNT,  \* of a bitmap of whole bytes (BLOCK_COUNT / 8)
  BLOCK_SIZE,
  Tamanios,     \* the sizes programs ask IO_FS_TRUNCATE for
  NoExiste,     \* no metadata file
  SinClaves,    \* an empty metadata file
  MaxEscritos   \* bound: blocks that hold something when a new write starts

ASSUME ConstantesDialFS ==
  /\ BLOCK_COUNT \in Nat \ {0} /\ BLOCK_COUNT % 8 = 0 /\ BLOCK_SIZE \in Nat \ {0}
  /\ Tamanios \subseteq Nat /\ MaxEscritos \in Nat
  /\ IsFiniteSet(Archivos)
  /\ NoExiste \notin [bloque_inicial : Nat, tamanio : Nat]
  /\ SinClaves \notin [bloque_inicial : Nat, tamanio : Nat]

VARIABLES
  bitmap, bloques,  \* bitmap.dat and bloques.dat
  metadata,         \* the metadata files
  lista,            \* ARCHIVOS_EN_FS, by name
  sin_respuesta,    \* history: the truncation just left without an answer
  caida             \* the interface is gone

disco == <<bitmap, bloques, metadata>>
vars == <<disco, lista, sin_respuesta, caida>>

Bloques == 0 .. BLOCK_COUNT - 1
Nada == <<>>

Init ==
  /\ bitmap = [b \in Bloques |-> FALSE] /\ bloques = [b \in Bloques |-> Nada]
  /\ metadata = [f \in Archivos |-> NoExiste]
  /\ lista = [f \in {} |-> Nada]
  /\ sin_respuesta = Nada /\ caida = FALSE

Partes(tam)   == (tam + BLOCK_SIZE - 1) \div BLOCK_SIZE
\* obtener_bloques_ocupados
Ocupados(tam) == IF tam = 0 THEN 1 ELSE Partes(tam)

Entrada(b, tam) == [bloque_inicial |-> b, tamanio |-> tam]
DeEntrada(e) == e.bloque_inicial .. e.bloque_inicial + Ocupados(e.tamanio) - 1
Tiene(f)     == f \in DOMAIN lista

\* Files have blocks of the disk, marked and of their own.  What the code does
\* once they do not is the damage of some file: the model stops there.
Sano == \A f \in DOMAIN lista :
  /\ \A b \in DeEntrada(lista[f]) : b \in Bloques /\ bitmap[b]
  /\ \A g \in DOMAIN lista \ {f} : DeEntrada(lista[f]) \cap DeEntrada(lista[g]) = {}

Atiende == ~caida /\ Sano

Marcar(bs, S) == [b \in Bloques |-> b \in S \/ bs[b]]
Liberar(bs, S) == [b \in Bloques |-> b \notin S /\ bs[b]]
\* memmove of n blocks
Copiar(bs, de, a, n) == [b \in Bloques |-> IF b - a \in 0 .. n - 1 THEN bs[de + (b - a)] ELSE bs[b]]

\* actualizar_tamanio_archivo and actualizar_archivo_en_lista: the metadata's block stays
AnotarTamanio(f, tam) ==
  /\ lista' = [lista EXCEPT ![f] = Entrada(lista[f].bloque_inicial, tam)]
  /\ metadata' = [metadata EXCEPT ![f].tamanio = tam]

\* ... and actualizar_bloque_inicial
Anotar(f, b, tam) ==
  /\ lista' = [lista EXCEPT ![f] = Entrada(b, tam)]
  /\ metadata' = [metadata EXCEPT ![f] = Entrada(b, tam)]

-----------------------------------------------------------------------------
(* CREATE and DELETE.                                                       *)

\* encontrar_bloque_libre
LibresEnDisco == {b \in Bloques : ~bitmap[b]}

Crear(f) ==
  /\ metadata[f] = NoExiste /\ LibresEnDisco # {}
  /\ LET b == Min(LibresEnDisco)
     IN  /\ bitmap' = Marcar(bitmap, {b})
         /\ metadata' = [metadata EXCEPT ![f] = Entrada(b, 0)]
         /\ lista' = [g \in DOMAIN lista \cup {f} |-> IF g = f THEN Entrada(b, 0) ELSE lista[g]]
  /\ sin_respuesta' = Nada /\ UNCHANGED <<bloques, caida>>

\* Mutant: the block found is not compared with -1.
CrearSinLugar_SinMirar(f) ==
  /\ metadata[f] = NoExiste /\ LibresEnDisco = {}
  /\ metadata' = [metadata EXCEPT ![f] = Entrada(-1, 0)]
  /\ lista' = [g \in DOMAIN lista \cup {f} |-> IF g = f THEN Entrada(-1, 0) ELSE lista[g]]
  /\ sin_respuesta' = Nada /\ UNCHANGED <<bitmap, bloques, caida>>

\* The metadata file was opened before a block was looked for.
CrearSinLugar(f) ==
  /\ metadata[f] = NoExiste /\ LibresEnDisco = {}
  /\ metadata' = [metadata EXCEPT ![f] = SinClaves]
  /\ sin_respuesta' = Nada /\ UNCHANGED <<bitmap, bloques, lista, caida>>

\* Mutant: the blocks are rounded down.
Borrar_Truncado(f) ==
  /\ Tiene(f)
  /\ LET e == metadata[f]
     IN  bitmap' = Liberar(bitmap, {e.bloque_inicial} \cup
                     (e.bloque_inicial .. e.bloque_inicial + e.tamanio \div BLOCK_SIZE - 1))
  /\ metadata' = [metadata EXCEPT ![f] = NoExiste]
  /\ lista' = [g \in DOMAIN lista \ {f} |-> lista[g]]
  /\ sin_respuesta' = Nada /\ UNCHANGED <<bloques, caida>>

Borrar(f) ==
  /\ Tiene(f)
  /\ bitmap' = Liberar(bitmap, DeEntrada(metadata[f]))
  /\ metadata' = [metadata EXCEPT ![f] = NoExiste]
  /\ lista' = [g \in DOMAIN lista \ {f} |-> lista[g]]
  /\ sin_respuesta' = Nada /\ UNCHANGED <<bloques, caida>>

\* DELETE, TRUNCATE, READ or WRITE of a file whose CREATE found no block: a key
\* that is not there is read, or block -1.
UsarSinClaves(f) ==
  /\ metadata[f] = SinClaves
  /\ caida' = TRUE
  /\ UNCHANGED <<disco, lista>> /\ sin_respuesta' = Nada

-----------------------------------------------------------------------------
(* TRUNCATE of f to tam bytes.                                              *)

Inicial(f)   == lista[f].bloque_inicial
OcupadosDe(f) == Ocupados(metadata[f].tamanio)

Achicar(f, tam) ==
  /\ Tiene(f) /\ Partes(tam) < OcupadosDe(f)
  /\ LET sobran == Inicial(f) + Partes(tam) .. Inicial(f) + OcupadosDe(f) - 1
     IN  /\ bitmap' = Liberar(bitmap, sobran)
         /\ bloques' = [b \in Bloques |-> IF b \in sobran THEN Nada ELSE bloques[b]]
  /\ AnotarTamanio(f, tam)
  /\ sin_respuesta' = Nada /\ UNCHANGED caida

MismosBloques(f, tam) ==
  /\ Tiene(f) /\ Partes(tam) = OcupadosDe(f)
  /\ AnotarTamanio(f, tam)
  /\ sin_respuesta' = Nada /\ UNCHANGED <<bitmap, bloques, caida>>

\* ocupados_truncate
Contados(f) == IF OcupadosDe(f) = 1 THEN 0 ELSE OcupadosDe(f)

\* encontrar_bloques_libres_contiguos_top, 1: the loop starts one block further than
\* the file's end, and bits past the disk's end read as zero.
LugarDetras(f, n) == \A b \in Inicial(f) + Contados(f) + 1 .. Inicial(f) + n : b \in Bloques => ~bitmap[b]

\* 2: n blocks anywhere, the file's own among them
Huecos(f, n) ==
  {b \in 0 .. BLOCK_COUNT - n : \A c \in b .. b + n - 1 :
     ~bitmap[c] \/ c \in Inicial(f) .. Inicial(f) + Contados(f) - 1}

Crece(f, tam) == Tiene(f) /\ Partes(tam) > OcupadosDe(f)

AgrandarEnLugar(f, tam) ==
  /\ Crece(f, tam)
  /\ LugarDetras(f, Partes(tam)) \/ (Huecos(f, Partes(tam)) # {} /\ Min(Huecos(f, Partes(tam))) = Inicial(f))
  /\ bitmap' = Marcar(bitmap, Inicial(f) .. Inicial(f) + Partes(tam) - 1)
  /\ Anotar(f, Inicial(f), tam)
  /\ sin_respuesta' = Nada /\ UNCHANGED <<bloques, caida>>

Mover(f, tam) ==
  /\ Crece(f, tam) /\ ~LugarDetras(f, Partes(tam)) /\ Huecos(f, Partes(tam)) # {}
  /\ LET b == Min(Huecos(f, Partes(tam)))
     IN  /\ b # Inicial(f)
         /\ bitmap' = Marcar(Liberar(bitmap, Inicial(f) .. Inicial(f) + OcupadosDe(f) - 1),
                             b .. b + Partes(tam) - 1)
         /\ bloques' = Copiar(bloques, Inicial(f), b, OcupadosDe(f))
         /\ Anotar(f, b, tam)
  /\ sin_respuesta' = Nada /\ UNCHANGED caida

SinHueco(f, tam) == Crece(f, tam) /\ ~LugarDetras(f, Partes(tam)) /\ Huecos(f, Partes(tam)) = {}

\* Mutant: the file's own blocks are not counted.
Alcanzan_SinPropios(f, tam) == Cardinality(LibresEnDisco) >= Partes(tam)

Alcanzan(f, tam) == Cardinality(LibresEnDisco) + OcupadosDe(f) >= Partes(tam)

\* list_sort by first block
Ordenados(S) ==
  CHOOSE s \in [1 .. Cardinality(S) -> S] :
    \A i, j \in 1 .. Cardinality(S) : i < j => Inicial(s[i]) < Inicial(s[j])

\* Mutant: the comparison is the other way round.
OrdenCompactado_AlReves(f) == Append(Reverse(Ordenados(DOMAIN lista \ {f})), f)

\* ordenar_lista_archivos_por_bloque_inicial: f goes last
OrdenCompactado(f) == Append(Ordenados(DOMAIN lista \ {f}), f)

\* Where the k-th file of the list goes: after the whole blocks of those before.
PartesDe(f) == Partes(lista[f].tamanio)
InicioCompactado(orden, k) == SumFunction([j \in 1 .. k - 1 |-> PartesDe(orden[j])])

TamanioTotal == SumFunction([f \in DOMAIN lista |-> lista[f].tamanio])

\* The blocks once the first k files of orden have been moved, one memmove after the other.
Mudados(orden) ==
  LET m[k \in 0 .. Len(orden) - 1] ==
        IF k = 0 THEN bloques
        ELSE Copiar(m[k - 1], Inicial(orden[k]), InicioCompactado(orden, k), PartesDe(orden[k]))
  IN  m

\* The last one goes in from the copy made before.
BloquesCompactados(orden) ==
  LET ultimo == orden[Len(orden)]
      a      == InicioCompactado(orden, Len(orden))
      otros  == Mudados(orden)[Len(orden) - 1]
  IN  [b \in Bloques |-> IF b - a \in 0 .. PartesDe(ultimo) - 1
                         THEN bloques[Inicial(ultimo) + (b - a)] ELSE otros[b]]

\* Mutant: the metadata of the files that moved is not saved.
Reubicado_SinGuardar(orden, tam) ==
  LET b(k) == InicioCompactado(orden, k)
      t(k) == IF k = Len(orden) THEN tam ELSE lista[orden[k]].tamanio
      k(f) == CHOOSE j \in DOMAIN orden : orden[j] = f
  IN  /\ lista' = [f \in DOMAIN lista |-> Entrada(b(k(f)), t(k(f)))]
      /\ metadata' = [metadata EXCEPT ![orden[Len(orden)]] = Entrada(b(Len(orden)), tam)]

\* actualizar_lista_archivos_compactados changes the blocks; then the last one has a new size
Reubicado(orden, tam) ==
  LET b(k) == InicioCompactado(orden, k)
      t(k, e) == IF k = Len(orden) THEN tam ELSE e.tamanio
      k(f) == CHOOSE j \in DOMAIN orden : orden[j] = f
  IN  /\ lista' = [f \in DOMAIN lista |-> Entrada(b(k(f)), t(k(f), lista[f]))]
      /\ metadata' = [f \in Archivos |->
           IF Tiene(f) THEN Entrada(b(k(f)), t(k(f), metadata[f])) ELSE metadata[f]]

Compactar(f, tam) ==
  /\ SinHueco(f, tam) /\ Alcanzan(f, tam)
  /\ LET orden == OrdenCompactado(f)
         a     == InicioCompactado(orden, Len(orden))
     IN  /\ bloques' = BloquesCompactados(orden)
         /\ bitmap' = [b \in Bloques |-> b < Partes(TamanioTotal) \/ b \in a .. a + Partes(tam) - 1]
         /\ Reubicado(orden, tam)
  /\ sin_respuesta' = Nada /\ UNCHANGED caida

\* The handler returns without enviar_dialfs_terminado.
TruncarSinLugar(f, tam) ==
  /\ SinHueco(f, tam) /\ ~Alcanzan(f, tam)
  /\ sin_respuesta' = <<f, tam>>
  /\ UNCHANGED <<disco, lista, caida>>

-----------------------------------------------------------------------------
(* WRITE within the file, and a new start of the interface.                 *)

PuedeEscribir == Cardinality({b \in Bloques : bloques[b] # Nada}) < MaxEscritos

\* escribir_dato_archivo
Escribir(f, i) ==
  /\ PuedeEscribir /\ Tiene(f) /\ i < Partes(lista[f].tamanio)
  /\ bloques' = [bloques EXCEPT ![Inicial(f) + i] = <<f, i>>]
  /\ sin_respuesta' = Nada /\ UNCHANGED <<bitmap, metadata, lista, caida>>

\* actualizar_lista_archivos_en_fs; a metadata file without its keys ends it again.
Reiniciar ==
  /\ \A f \in Archivos : metadata[f] # SinClaves
  /\ caida' = FALSE
  /\ lista' = [f \in {g \in Archivos : metadata[g] # NoExiste} |-> metadata[f]]
  /\ UNCHANGED disco /\ sin_respuesta' = Nada

Truncar(f, tam) == \/ Achicar(f, tam) \/ MismosBloques(f, tam) \/ AgrandarEnLugar(f, tam)
                   \/ Mover(f, tam) \/ Compactar(f, tam) \/ TruncarSinLugar(f, tam)

Next == \/ Atiende /\ \E f \in Archivos :
             \/ Crear(f) \/ CrearSinLugar(f) \/ Borrar(f) \/ UsarSinClaves(f)
             \/ \E tam \in Tamanios : Truncar(f, tam)
             \/ \E i \in Bloques : Escribir(f, i)
        \/ Reiniciar

Spec == Init /\ [][Next]_vars

-----------------------------------------------------------------------------
(* Properties                                                                *)

Entradas == [bloque_inicial : Bloques, tamanio : Nat]

TypeOK ==
  /\ bitmap \in [Bloques -> BOOLEAN]
  /\ bloques \in [Bloques -> {Nada} \cup (Archivos \X Bloques)]
  /\ DOMAIN lista \subseteq Archivos /\ lista \in [DOMAIN lista -> Entradas]
  /\ metadata \in [Archivos -> {NoExiste, SinClaves} \cup Entradas]
  /\ sin_respuesta \in {Nada} \cup (Archivos \X Tamanios) /\ caida \in BOOLEAN

\* No block is lost: one that is marked belongs to some file.
SinFugas == \A b \in Bloques : bitmap[b] => \E f \in DOMAIN lista : b \in DeEntrada(lista[f])

\* The list and the metadata, of which the handlers read now one and now the
\* other, agree: a restart changes nothing.
ListaAlDia == ~caida => \A f \in Archivos :
  IF Tiene(f) THEN metadata[f] = lista[f] ELSE metadata[f] \in {NoExiste, SinClaves}

NoDania == Sano =>
  \A f \in DOMAIN lista \cap DOMAIN lista' : \A i \in 0 .. BLOCK_COUNT - 1 :
    i < Partes(lista[f].tamanio) /\ i < Partes(lista'[f].tamanio) =>
      bloques'[lista'[f].bloque_inicial + i] \in {bloques[Inicial(f) + i], <<f, i>>}

\* What a file holds survives what is done to the others, and to itself other than
\* by writing: moves, compactions, restarts.
ContenidoIntacto == [][NoDania]_vars

\* The blocks of the files, whole ones each, if f had tam bytes.
BloquesCon(f, tam) == SumFunction([g \in DOMAIN lista |-> IF g = f THEN Partes(tam) ELSE OcupadosDe(g)])

SeNiegaSinLugar == sin_respuesta' \notin {sin_respuesta, Nada} =>
  LET f   == sin_respuesta'[1]
      tam == sin_respuesta'[2]
  IN  f \in DOMAIN lista /\ BloquesCon(f, tam) > BLOCK_COUNT

\* A file is refused a new size only if the files would not fit with that file of that size.
SoloSinLugar == [][SeNiegaSinLugar]_vars

=============================================================================
