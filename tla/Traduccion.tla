----------------------------- MODULE Traduccion -----------------------------
(***************************************************************************)
(* The CPU's address translation and the bytes of memory, on top of the    *)
(* memory server: traducir_direccion turns a logical address into a list of*)
(* physical fragments, page by page, with the TLB or a PEDIDO_MARCO for    *)
(* each, and MOV_IN or MOV_OUT sends the list to memory.  Here the list    *)
(* has the physical address of each byte of the fragments, in order.       *)
(*                                                                         *)
(* MOV_OUT is not answered: the CPU goes on, and may even give the process *)
(* back, before the server's thread writes.                                *)
(***************************************************************************)
EXTENDS Memoria

CONSTANTS
  ConfiguracionesTLB,  \* ALGORITMO_TLB and CANTIDAD_ENTRADAS_TLB
  Datos,               \* what programs write
  PuedeEncoger,        \* programs may ask RESIZE for less than they have
  MaxReloj,            \* bound: seconds that pass
  MaxAccesos           \* bound: MOV_IN and MOV_OUT

ASSUME ConstantesTraduccion ==
  /\ ConfiguracionesTLB \subseteq [algoritmo : {"FIFO", "LRU"}, size_tlb : Nat]
  /\ MaxReloj \in Nat /\ MaxAccesos \in Nat
  /\ Datos \subseteq Seq(Nat)
  /\ PuedeEncoger \in BOOLEAN

VARIABLES
  tlb,             \* [algoritmo, size_tlb, entradas]
  reloj,           \* time(NULL)
  memoriaUsuario,
  acceso,          \* the access under way and the bytes translated so far
  escritura,       \* the PEDIDO_MOV_OUT memory has not served
  accesos,         \* how many there have been
  registro         \* what the last access, a MOV_IN, read

traduccion == <<tlb, reloj, memoriaUsuario, acceso, escritura, accesos, registro>>
todo == <<vars, traduccion>>

SinAcceso == [op |-> "ninguna", dir |-> 0, datos |-> <<>>, hechos |-> 0, lista |-> <<>>]
SinEscritura == [pid |-> NULL, acceso |-> SinAcceso]

InitTraduccion ==
  /\ Init
  /\ \E c \in ConfiguracionesTLB :
       tlb = [algoritmo |-> c.algoritmo, size_tlb |-> c.size_tlb, entradas |-> <<>>]
  /\ reloj = 0
  /\ memoriaUsuario = [b \in 0 .. CANT_MARCOS * TAM_PAGINA - 1 |-> 0]
  /\ acceso = SinAcceso /\ escritura = SinEscritura
  /\ accesos = 0 /\ registro = <<>>

-----------------------------------------------------------------------------
(* The TLB.                                                                 *)

\* Only LRU reads the time.
Entrada(p, n, m) == [pid |-> p, pagina |-> n, marco |-> m,
                     tiempo |-> IF tlb.algoritmo = "LRU" THEN reloj ELSE 0]

\* Mutant: the process is not compared.
Aciertos_SinPid(p, n) == {i \in DOMAIN tlb.entradas : tlb.entradas[i].pagina = n}

\* buscar_en_tlb: the entry of page n of p, if there is one
Aciertos(p, n) == {i \in DOMAIN tlb.entradas : tlb.entradas[i].pid = p /\ tlb.entradas[i].pagina = n}

\* reemplazo_algoritmo_LRU: the first of those used in the oldest second
MenosUsada == CHOOSE i \in DOMAIN tlb.entradas : \A j \in DOMAIN tlb.entradas :
                \/ tlb.entradas[i].tiempo < tlb.entradas[j].tiempo
                \/ tlb.entradas[i].tiempo = tlb.entradas[j].tiempo /\ i <= j

\* Mutant: the victim keeps its frame.
Agregar_SinMarco(e) ==
  IF tlb.size_tlb = 0 THEN <<>>
  ELSE IF Len(tlb.entradas) < tlb.size_tlb THEN Append(tlb.entradas, e)
  ELSE IF tlb.algoritmo = "FIFO"
       THEN Append(Tail(tlb.entradas), [e EXCEPT !.marco = Head(tlb.entradas).marco])
  ELSE [tlb.entradas EXCEPT ![MenosUsada] = [e EXCEPT !.marco = tlb.entradas[MenosUsada].marco]]

\* actualizar_TLB; with no entries the TLB is not used.
Agregar(e) ==
  IF tlb.size_tlb = 0 THEN <<>>
  ELSE IF Len(tlb.entradas) < tlb.size_tlb THEN Append(tlb.entradas, e)
  ELSE IF tlb.algoritmo = "FIFO" THEN Append(Tail(tlb.entradas), e)
  ELSE [tlb.entradas EXCEPT ![MenosUsada] = e]

PasaSegundo ==
  /\ reloj < MaxReloj /\ reloj' = reloj + 1
  /\ UNCHANGED <<vars, tlb, memoriaUsuario, acceso, escritura, accesos, registro>>

-----------------------------------------------------------------------------
(* traducir_direccion                                                       *)

Traduciendo == Vivo /\ cpu.pc = "ejecutar" /\ acceso.op # "ninguna" /\ acceso.hechos < Len(acceso.datos)

\* _mov_in, _mov_out: an access within the process
IniciarAcceso(op, dir, datos) ==
  /\ Vivo /\ cpu.pc = "ejecutar" /\ acceso.op = "ninguna"
  /\ accesos < MaxAccesos /\ accesos' = accesos + 1
  /\ dir + Len(datos) <= tamanio[cpu.pid]
  /\ acceso' = [op |-> op, dir |-> dir, datos |-> datos, hechos |-> 0, lista |-> <<>>]
  /\ registro' = <<>>
  /\ UNCHANGED <<vars, tlb, reloj, memoriaUsuario, escritura>>

Direccion == acceso.dir + acceso.hechos
Pagina    == Direccion \div TAM_PAGINA

\* The bytes of the access that are in the page of Direccion.
EnPagina == LET hasta == TAM_PAGINA - (Direccion % TAM_PAGINA)
                faltan == Len(acceso.datos) - acceso.hechos
            IN  IF hasta < faltan THEN hasta ELSE faltan

\* One more fragment, in frame m.
Fragmento(m) ==
  acceso' = [acceso EXCEPT
    !.hechos = @ + EnPagina,
    !.lista = @ \o [k \in 1 .. EnPagina |-> m * TAM_PAGINA + (Direccion % TAM_PAGINA) + k - 1]]

AciertoTLB ==
  /\ Traduciendo /\ cpu.op # "MARCO"
  /\ \E i \in Aciertos(cpu.pid, Pagina) :
       /\ tlb' = [tlb EXCEPT !.entradas[i] = Entrada(cpu.pid, Pagina, @.marco)]
       /\ Fragmento(tlb.entradas[i].marco)
  /\ UNCHANGED <<vars, reloj, memoriaUsuario, escritura, accesos, registro>>

FallaTLB ==
  /\ Traduciendo /\ cpu.op # "MARCO" /\ Aciertos(cpu.pid, Pagina) = {}
  /\ PedirMarco(Pagina)
  /\ UNCHANGED traduccion

RecibirMarco ==
  /\ Traduciendo /\ cpu.op = "MARCO"
  /\ tlb' = [tlb EXCEPT !.entradas = Agregar(Entrada(cpu.pid, Pagina, cpu.arg))]
  /\ Fragmento(cpu.arg)
  /\ cpu' = [cpu EXCEPT !.op = "INSTRUCCION", !.arg = 0]
  /\ UNCHANGED <<paginas, proceso_memoria, kernel, vida, hiloKernel, hiloCPU, mezclado, caida>>
  /\ UNCHANGED <<reloj, memoriaUsuario, escritura, accesos, registro>>

-----------------------------------------------------------------------------
(* The access itself.                                                       *)

Traducido(op) == Vivo /\ cpu.pc = "ejecutar" /\ acceso.op = op /\ acceso.hechos = Len(acceso.datos)

\* The memory once the bytes of valor are at those addresses.
escribir_memoria(direcciones, valor) ==
  [b \in DOMAIN memoriaUsuario |->
     IF b \in Range(direcciones)
     THEN valor[CHOOSE k \in DOMAIN direcciones : direcciones[k] = b]
     ELSE memoriaUsuario[b]]

leer_memoria(direcciones) == [k \in DOMAIN direcciones |-> memoriaUsuario[direcciones[k]]]

\* enviar_valor_mov_out_cpu
EnviarMovOut ==
  /\ Traducido("MOV_OUT") /\ escritura = SinEscritura
  /\ escritura' = [pid |-> cpu.pid, acceso |-> acceso]
  /\ acceso' = SinAcceso
  /\ SinPedido
  /\ UNCHANGED <<tlb, reloj, memoriaUsuario, accesos, registro>>

\* case PEDIDO_MOV_OUT
EscribirMemoria ==
  /\ Vivo /\ escritura # SinEscritura
  /\ memoriaUsuario' = escribir_memoria(escritura.acceso.lista, escritura.acceso.datos)
  /\ escritura' = SinEscritura
  /\ UNCHANGED <<vars, tlb, reloj, acceso, accesos, registro>>

\* PEDIDO_MOV_IN and its answer, after what the CPU sent before
LeerMemoria ==
  /\ Traducido("MOV_IN") /\ escritura = SinEscritura
  /\ registro' = leer_memoria(acceso.lista)
  /\ acceso' = SinAcceso
  /\ SinPedido
  /\ UNCHANGED <<tlb, reloj, memoriaUsuario, escritura, accesos>>

-----------------------------------------------------------------------------
\* (A process is not finished while the CPU executes it here: MatarProceso is not taken,
\* nor any step after which mezclado holds.)
Servidor == \/ HiloKernel
            \/ HiloCPU /\ escritura = SinEscritura

Programas == \/ \E p \in Pids : CrearProceso(p) \/ TerminarProceso(p) \/ PedirInstruccion(p)
             \/ /\ acceso = SinAcceso
                /\ \/ SinPedido
                   \/ \E t \in Tamanios : /\ PedirResize(t)
                                          /\ PuedeEncoger \/ t >= tamanio[cpu.pid]

NextTraduccion ==
  \/ (Servidor \/ Programas) /\ ~mezclado' /\ UNCHANGED traduccion
  \/ PasaSegundo
  \/ \E op \in {"MOV_IN", "MOV_OUT"}, dir \in DOMAIN memoriaUsuario, d \in Datos : IniciarAcceso(op, dir, d)
  \/ AciertoTLB \/ FallaTLB \/ RecibirMarco
  \/ EnviarMovOut \/ EscribirMemoria \/ LeerMemoria

SpecTraduccion == InitTraduccion /\ [][NextTraduccion]_todo

-----------------------------------------------------------------------------
(* Properties                                                                *)

\* What the TLB says of a process that has not ended is what its page table says.
TLBAlDia == \A i \in DOMAIN tlb.entradas :
  LET e == tlb.entradas[i]
  IN  vida[e.pid] # "fin" =>
        e.pagina < Len(tabla[e.pid]) /\ tabla[e.pid][e.pagina + 1] = e.marco

\* Where the page table of p puts its byte i.
Fisica(p, i) == tabla[p][(i - 1) \div TAM_PAGINA + 1] * TAM_PAGINA + ((i - 1) % TAM_PAGINA)

\* Its bytes, with the write that is on its way to memory.
Bytes(p) == [i \in 1 .. tamanio[p] |->
  IF escritura.pid = p /\ i - escritura.acceso.dir \in DOMAIN escritura.acceso.datos
  THEN escritura.acceso.datos[i - escritura.acceso.dir]
  ELSE memoriaUsuario[Fisica(p, i)]]

Espacio == [p \in Pids |-> IF struct[p] = "listo" /\ vida[p] # "fin" THEN Bytes(p) ELSE <<>>]

Orden == IF acceso = SinAcceso THEN [pid |-> NULL, op |-> "ninguna", dir |-> 0, datos |-> <<>>]
         ELSE [pid |-> cpu.pid, op |-> acceso.op, dir |-> acceso.dir, datos |-> acceso.datos]

Logico == INSTANCE EspacioLogico WITH espacio <- Espacio, orden <- Orden

\* Each program sees an array of bytes of its own: a MOV_OUT writes where its
\* program says and nowhere else, although it goes through the TLB, in fragments,
\* and reaches memory after the CPU has gone on; a MOV_IN reads what was written.
EspacioPropio == Logico!Spec
=============================================================================
