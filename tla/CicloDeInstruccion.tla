-------------------------- MODULE CicloDeInstruccion --------------------------
(***************************************************************************)
(* A program's instructions, from the CPU that executes them to the memory *)
(* server, the kernel and the interfaces that serve them, and the messages *)
(* that go between the four.                                               *)
(*                                                                         *)
(* The CPU fetches an instruction from memory, executes it and looks for   *)
(* an interrupt.  MOV_IN waits for memory, MOV_OUT and COPY_STRING do not. *)
(* An I/O instruction ends the CPU's turn: the request goes to the kernel  *)
(* with the process, the kernel keeps it in global variables and passes it *)
(* on to an interface, and the interface exchanges the data with memory on *)
(* a connection of its own.                                                *)
(*                                                                         *)
(* Page tables are fixed (RESIZE is in Memoria, the TLB in Traduccion) and *)
(* every interface stays connected (Interfaces).  Queues, semaphores and   *)
(* resources are in Planificador, the interrupt thread in Despacho, block  *)
(* allocation in DialFS: here the files have space, and every operation on *)
(* them but IO_FS_WRITE and IO_FS_READ is only answered.                   *)
(***************************************************************************)
EXTENDS Mensajes, Registros, FiniteSets

CONSTANTS
  Pids,
  NULL,
  Programas,           \* the scripts each process may be given
  TipoDe,              \* the interfaces and their types
  TAM_PAGINA,
  Marcos,              \* each process's page table
  Textos,              \* what the user may type
  TAM_ARCHIVO,         \* bytes of the file
  MaxInterrupciones,   \* bound: ends of quantum
  InterrumpeLlamadas   \* one may come between a syscall's reason and its request

ASSUME ConstantesCiclo ==
  /\ IsFiniteSet(Pids) /\ NULL \notin Pids
  /\ "CPU" \notin DOMAIN TipoDe
  /\ TAM_PAGINA \in Nat \ {0} /\ MaxInterrupciones \in Nat
  /\ InterrumpeLlamadas \in BOOLEAN
  /\ \A i \in DOMAIN TipoDe : TipoDe[i] \in {"GENERICA", "STDIN", "STDOUT", "DIALFS"}
  /\ Marcos \in [Pids -> Seq(Nat)]
  /\ \A p, q \in Pids : p # q => Range(Marcos[p]) \cap Range(Marcos[q]) = {}

\* Each page of a process has a frame of its own; texts and files are of bytes.
ASSUME ConstantesMaquina ==
  /\ \A p \in Pids : \A j, k \in DOMAIN Marcos[p] : Marcos[p][j] = Marcos[p][k] => j = k
  /\ Textos \subseteq Seq(Nat) /\ TAM_ARCHIVO \in Nat

Interfaces == DOMAIN TipoDe
Clientes   == Interfaces \cup {"CPU"}

VARIABLES
  programa,       \* memory: the instructions parsed from each process's script
  listo,          \* kernel: the ready queue
  ejecutando,     \* the process lent to the CPU
  pcb,
  bloqueados, terminados,
  g,              \* nombre_interfaz, direcciones_fisicas and the rest of a request
  dispatch, respuesta,        \* kernel to CPU and back
  cpu,            \* control point and instruction of procesar_conexion_dispatch
  pcb_actual,
  interrupcion,   \* hayInterrupciones
  aMemoria, deMemoria,        \* each client's connection to memory
  memoriaUsuario,
  copia,          \* what the thread that serves COPY_STRING has read
  aInterfaz, deInterfaz,      \* the kernel's connection to each interface
  interfaz,       \* control point and request of each interface
  archivo,        \* the bytes of the file
  interrupciones, \* how many interrupts there have been
  pedido,         \* history: the last I/O each process asked for
  entradas        \* history: its inputs on their way

kernel   == <<listo, ejecutando, pcb, bloqueados, terminados, g>>
procesador == <<cpu, pcb_actual, interrupcion>>
memoria  == <<memoriaUsuario, copia>>
canalesM == <<aMemoria, deMemoria>>
canalesI == <<aInterfaz, deInterfaz>>
io       == <<interfaz, archivo>>
historia == <<interrupciones, pedido, entradas>>
vars == <<programa, kernel, dispatch, respuesta, procesador, canalesM, memoria, canalesI, io,
          historia>>

PCBNuevo(p) == [pid |-> p, registros |-> RegistrosNulos, motivo_desalojo |-> "SIN_MOTIVO"]
GlobalesNulas == [nombre_interfaz |-> NULL, instruccion |-> NULL, unidades_de_trabajo |-> 0,
                  direcciones |-> <<>>, nombre_archivo |-> NULL, tamanio |-> 0, puntero |-> NULL]
Ociosa == [pc |-> "recv", cop |-> NULL, m |-> NULL]
SinCopia == [escritura |-> <<>>, dato |-> <<>>]

Init ==
  /\ programa \in Programas
  /\ listo = SetToSeq(Pids) /\ ejecutando = NULL
  /\ pcb = [p \in Pids |-> PCBNuevo(p)]
  /\ bloqueados = {} /\ terminados = {}
  /\ g = GlobalesNulas
  /\ dispatch = <<>> /\ respuesta = <<>>
  /\ cpu = [pc |-> "recv", instr |-> NULL]
  /\ pcb_actual = PCBNuevo(NULL)
  /\ interrupcion = FALSE
  /\ aMemoria = [c \in Clientes |-> <<>>] /\ deMemoria = [c \in Clientes |-> <<>>]
  /\ memoriaUsuario = [b \in {m * TAM_PAGINA + k : m \in UNION {Range(Marcos[p]) : p \in Pids},
                                                   k \in 0 .. TAM_PAGINA - 1} |-> 0]
  /\ copia = SinCopia
  /\ aInterfaz = [i \in Interfaces |-> <<>>] /\ deInterfaz = [i \in Interfaces |-> <<>>]
  /\ interfaz = [i \in Interfaces |-> Ociosa]
  /\ archivo = [b \in 1 .. TAM_ARCHIVO |-> 0]
  /\ interrupciones = 0
  /\ pedido = [p \in Pids |-> NULL] /\ entradas = [p \in Pids |-> 0]

Mandar(canal, c, paquete) == [canal EXCEPT ![c] = Append(@, paquete)]

-----------------------------------------------------------------------------
(* Kernel: the short-term scheduler                                         *)

\* ejecutar_PCB
Despachar ==
  /\ ejecutando = NULL /\ listo # <<>>
  /\ ejecutando' = Head(listo) /\ listo' = Tail(listo)
  /\ dispatch' = Append(dispatch, enviar_pcb(pcb[Head(listo)]))
  /\ UNCHANGED <<programa, pcb, bloqueados, terminados, g, respuesta, procesador, canalesM,
                 memoria, canalesI, io, historia>>

\* recibir_pcb_CPU: the process that came back and the globals after it.
recibir_pcb_CPU(p) ==
  CASE p.cop = "PCB" -> [pcb |-> deserializar_pcb(p.stream), g |-> g]
    [] p.cop = "ENVIAR_INTERFAZ" -> deserializar_pcb_para_interfaz(g, p.stream)
    [] p.cop \in {"ENVIAR_INTERFAZ_STDIN", "ENVIAR_INTERFAZ_STDOUT"} ->
         deserializar_pcb_para_interfaz_stdin(g, p.stream)
    [] p.cop = "FS_CREATE_DELETE" -> deserializar_pcb_fs_create_delete(g, p.stream)
    [] p.cop = "FS_TRUNCATE" -> deserializar_pcb_fs_truncate(g, p.stream)
    [] p.cop = "FS_WRITE_READ" -> deserializar_pcb_fs_write_read(g, p.stream)

InstruccionesDialFS == {"IO_FS_CREATE", "IO_FS_DELETE", "IO_FS_TRUNCATE", "IO_FS_WRITE", "IO_FS_READ"}

\* The switch of ejecutar_intruccion_io: what an interface of each type can do.
Sabe(tipo) ==
  CASE tipo = "GENERICA" -> {"IO_GEN_SLEEP"}
    [] tipo = "STDIN"    -> {"IO_STDIN_READ"}
    [] tipo = "STDOUT"   -> {"IO_STDOUT_WRITE"}
    [] tipo = "DIALFS"   -> InstruccionesDialFS

enviar_InterfazDialFS(m) ==
  CASE m.instruccion \in {"IO_FS_CREATE", "IO_FS_DELETE"} -> enviar_interfaz_dialFS_create_delete(m)
    [] m.instruccion = "IO_FS_TRUNCATE" -> enviar_interfaz_dialFS_truncate(m)
    [] OTHER -> enviar_interfaz_dialFS_write_read(m)

Enviar(tipo, m) ==
  CASE tipo = "GENERICA" -> enviar_InterfazGenerica(m)
    [] tipo = "STDIN"    -> enviar_InterfazStdin(m)
    [] tipo = "STDOUT"   -> enviar_InterfazStdout(m)
    [] tipo = "DIALFS"   -> enviar_InterfazDialFS(m)

EsEntrada(instr) == instr \in {"IO_STDIN_READ", "IO_FS_READ"}
Bajar(p, si) == entradas' = IF si THEN [entradas EXCEPT ![p] = @ - 1] ELSE entradas

\* desalojo_cpu: the process comes back with the reason it left the CPU for.
Vuelto == recibir_pcb_CPU(Head(respuesta))
Volver(motivo) ==
  /\ respuesta # <<>> /\ Vuelto.pcb.motivo_desalojo = motivo
  /\ respuesta' = Tail(respuesta) /\ ejecutando' = NULL
  /\ pcb' = [pcb EXCEPT ![ejecutando] = Vuelto.pcb]
  /\ UNCHANGED <<programa, dispatch, procesador, canalesM, memoria, deInterfaz, io,
                 interrupciones, pedido>>

\* A request whose reason an interrupt has overwritten is forgotten, and its globals stay.
FinDeQuantum ==
  /\ Volver("INTERRUPCION_FIN_QUANTUM")
  /\ listo' = Append(listo, ejecutando)
  /\ g' = Vuelto.g
  /\ Bajar(ejecutando, Head(respuesta).cop # "PCB" /\ EsEntrada(Vuelto.g.instruccion))
  /\ UNCHANGED <<bloqueados, terminados, aInterfaz>>

Finalizar ==
  /\ Volver("FINALIZACION")
  /\ terminados' = terminados \cup {ejecutando}
  /\ UNCHANGED <<listo, bloqueados, g, aInterfaz, entradas>>

\* Mutant: the addresses stay in the list.
EjecutarIO_SinLimpiar ==
  /\ Volver("INTERRUPCION_BLOQUEO")
  /\ LET i == Vuelto.g.nombre_interfaz IN
       /\ i \in Interfaces /\ Vuelto.g.instruccion \in Sabe(TipoDe[i])
       /\ aInterfaz' = Mandar(aInterfaz, i, Enviar(TipoDe[i], Junto(Vuelto.g, [pid |-> ejecutando])))
       /\ g' = Vuelto.g
  /\ bloqueados' = bloqueados \cup {ejecutando}
  /\ UNCHANGED <<listo, terminados, entradas>>

\* ejecutar_intruccion_io, with an interface that exists and can do it: the addresses are
\* erased once they are sent.
EjecutarIO ==
  /\ Volver("INTERRUPCION_BLOQUEO")
  /\ LET i == Vuelto.g.nombre_interfaz IN
       /\ i \in Interfaces /\ Vuelto.g.instruccion \in Sabe(TipoDe[i])
       /\ aInterfaz' = Mandar(aInterfaz, i, Enviar(TipoDe[i], Junto(Vuelto.g, [pid |-> ejecutando])))
       /\ g' = [Vuelto.g EXCEPT !.direcciones = IF TipoDe[i] = "GENERICA" THEN @ ELSE <<>>]
  /\ bloqueados' = bloqueados \cup {ejecutando}
  /\ UNCHANGED <<listo, terminados, entradas>>

\* INVALID_INTERFACE, or an instruction the interface does not know: nothing is erased.
RechazarIO ==
  /\ Volver("INTERRUPCION_BLOQUEO")
  /\ LET i == Vuelto.g.nombre_interfaz
     IN  i \in Interfaces => Vuelto.g.instruccion \notin Sabe(TipoDe[i])
  /\ terminados' = terminados \cup {ejecutando}
  /\ g' = Vuelto.g
  /\ Bajar(ejecutando, EsEntrada(Vuelto.g.instruccion))
  /\ UNCHANGED <<listo, bloqueados, aInterfaz>>

\* The readers of the four FINALIZACION_INTERFAZ*: the process whose I/O has ended.
PidDe(p) ==
  CASE p.cop = "FINALIZACION_INTERFAZ" -> deserializar_InterfazGenerica(p.stream).pid
    [] p.cop = "FINALIZACION_INTERFAZ_STDIN" -> deserializar_InterfazStdin(p.stream).pid
    [] p.cop = "FINALIZACION_INTERFAZ_STDOUT" -> deserializar_InterfazStdout(p.stream).pid
    [] p.cop = "FINALIZACION_INTERFAZ_DIALFS" -> deserializar_InterfazDialfs_terminada(p.stream).pid

\* FINALIZACION_INTERFAZ*: desbloquear_proceso
Desbloquear(i) ==
  /\ deInterfaz[i] # <<>>
  /\ deInterfaz' = [deInterfaz EXCEPT ![i] = Tail(@)]
  /\ LET p == PidDe(Head(deInterfaz[i])) IN
       /\ p \in bloqueados
       /\ bloqueados' = bloqueados \ {p} /\ listo' = Append(listo, p)
  /\ UNCHANGED <<programa, ejecutando, pcb, terminados, g, dispatch, respuesta, procesador,
                 canalesM, memoria, aInterfaz, io, historia>>

-----------------------------------------------------------------------------
(* CPU                                                                      *)

RecibirPCB ==
  /\ cpu.pc = "recv" /\ dispatch # <<>>
  /\ pcb_actual' = deserializar_pcb(Head(dispatch).stream)
  /\ dispatch' = Tail(dispatch)
  /\ cpu' = [cpu EXCEPT !.pc = "ciclo"]
  /\ UNCHANGED <<programa, kernel, respuesta, interrupcion, canalesM, memoria, canalesI, io, historia>>

\* fetch
Fetch ==
  /\ cpu.pc = "ciclo" /\ ~interrupcion
  /\ aMemoria' = Mandar(aMemoria, "CPU",
       pedir_instruccion_memoria(pcb_actual.pid, pcb_actual.registros["PC"]))
  /\ cpu' = [cpu EXCEPT !.pc = "fetch"]
  /\ UNCHANGED <<programa, kernel, dispatch, respuesta, pcb_actual, interrupcion, deMemoria,
                 memoria, canalesI, io, historia>>

\* traducir_direccion: the fragments of tam bytes from logical address dl, page by page.
traducir_direccion(p, dl, tam) ==
  LET primera == dl \div TAM_PAGINA
      fin     == dl + tam
      Pagina(k) == primera + k - 1
      Desde(k)  == IF k = 1 THEN dl ELSE Pagina(k) * TAM_PAGINA
      Hasta(k)  == IF fin < (Pagina(k) + 1) * TAM_PAGINA THEN fin ELSE (Pagina(k) + 1) * TAM_PAGINA
      Cantidad  == IF tam = 0 THEN 1 ELSE (fin - 1) \div TAM_PAGINA - primera + 1
  IN  [k \in 1 .. Cantidad |->
         [direccion_fisica |-> (Marcos[p][Pagina(k) + 1] * TAM_PAGINA) + (Desde(k) % TAM_PAGINA),
          tamanio |-> Hasta(k) - Desde(k)]]

\* The instruction memory has sent, and the process's registers once the PC has moved.
Instruccion == deserializar_instruccion(Head(deMemoria["CPU"]).stream)
Avanzados   == sumar_pc(pcb_actual.registros)

Ejecutar(nombres) ==
  /\ cpu.pc = "fetch" /\ deMemoria["CPU"] # <<>> /\ Instruccion[1] \in nombres
  /\ deMemoria' = [deMemoria EXCEPT !["CPU"] = Tail(@)]
  /\ UNCHANGED <<programa, kernel, dispatch, respuesta, interrupcion, memoria, canalesI, io,
                 interrupciones>>

Seguir(pc, i) == cpu' = [pc |-> pc, instr |-> i]

EjecutarAritmetica ==
  /\ Ejecutar(Aritmeticas)
  /\ pcb_actual' = [pcb_actual EXCEPT !.registros = Operar(Avanzados, Instruccion)]
  /\ Seguir("ciclo", NULL)
  /\ UNCHANGED <<aMemoria, pedido, entradas>>

\* The three instructions that use memory send it a request with physical addresses.
UsarMemoria(nombre, paquete) ==
  /\ Ejecutar({nombre})
  /\ aMemoria' = Mandar(aMemoria, "CPU", paquete)
  /\ pcb_actual' = [pcb_actual EXCEPT !.registros = Avanzados]
  /\ UNCHANGED <<pedido, entradas>>

Traducir(r, tam) == traducir_direccion(pcb_actual.pid, Avanzados[r], tam)

\* _mov_in, up to its request
EjecutarMovIn ==
  /\ UsarMemoria("MOV_IN", enviar_valor_mov_in_cpu(
       Traducir(Instruccion[3], obtener_tamanio_registro(Instruccion[2])), pcb_actual.pid))
  /\ Seguir("mov_in", Instruccion)

\* _mov_out
EjecutarMovOut ==
  /\ LET r == Instruccion[3]
         w == obtener_tamanio_registro(r)
     IN  UsarMemoria("MOV_OUT", enviar_valor_mov_out_cpu(
           Traducir(Instruccion[2], w), Bytes(Avanzados[r], w), pcb_actual.pid, revisar_registro(r)))
  /\ Seguir("ciclo", NULL)

\* _copy_string
EjecutarCopyString ==
  /\ UsarMemoria("COPY_STRING", enviar_datos_copy_string(
       [escritura |-> Traducir("DI", Instruccion[2]), lectura |-> Traducir("SI", Instruccion[2]),
        tamanio |-> Instruccion[2], pid |-> pcb_actual.pid]))
  /\ Seguir("ciclo", NULL)

\* What an I/O instruction asks for: its operands are registers, but for the names and the
\* pointer of the file, which goes as it is written.
PedidoIO(reg, i) ==
  LET Dirs(k) == traducir_direccion(pcb_actual.pid, reg[i[k]], reg[i[k + 1]])
  IN CASE i[1] = "IO_GEN_SLEEP" ->
            [instruccion |-> i[1], nombre_interfaz |-> i[2], unidades_de_trabajo |-> i[3]]
       [] i[1] \in {"IO_STDIN_READ", "IO_STDOUT_WRITE"} ->
            [instruccion |-> i[1], nombre_interfaz |-> i[2], direcciones |-> Dirs(3)]
       [] i[1] \in {"IO_FS_CREATE", "IO_FS_DELETE"} ->
            [instruccion |-> i[1], nombre_interfaz |-> i[2], nombre_archivo |-> i[3]]
       [] i[1] = "IO_FS_TRUNCATE" ->
            [instruccion |-> i[1], nombre_interfaz |-> i[2], nombre_archivo |-> i[3],
             tamanio |-> reg[i[4]]]
       [] i[1] \in {"IO_FS_WRITE", "IO_FS_READ"} ->
            [instruccion |-> i[1], nombre_interfaz |-> i[2], nombre_archivo |-> i[3],
             direcciones |-> Dirs(4), tamanio |-> reg[i[5]], puntero |-> i[6]]

InstruccionesIO == {"IO_GEN_SLEEP", "IO_STDIN_READ", "IO_STDOUT_WRITE"} \cup InstruccionesDialFS

\* execute: an I/O instruction writes the reason...
EjecutarIOCPU ==
  /\ Ejecutar(InstruccionesIO)
  /\ pcb_actual' = [pcb_actual EXCEPT !.registros = Avanzados, !.motivo_desalojo = "INTERRUPCION_BLOQUEO"]
  /\ Seguir("llamar", Instruccion)
  /\ pedido' = [pedido EXCEPT ![pcb_actual.pid] = PedidoIO(Avanzados, Instruccion)]
  /\ entradas' = IF EsEntrada(Instruccion[1]) THEN [entradas EXCEPT ![pcb_actual.pid] = @ + 1]
                 ELSE entradas
  /\ UNCHANGED aMemoria

\* ... and then sends the process with the request.
EnviarIO(m) ==
  CASE m.instruccion = "IO_GEN_SLEEP" -> enviar_interfaz_IO(m)
    [] m.instruccion = "IO_STDIN_READ" -> enviar_interfaz_IO_stdin(m)
    [] m.instruccion = "IO_STDOUT_WRITE" -> enviar_interfaz_IO_stdout(m)
    [] m.instruccion \in {"IO_FS_CREATE", "IO_FS_DELETE"} -> enviar_fs_create_delete(m)
    [] m.instruccion = "IO_FS_TRUNCATE" -> enviar_fs_truncate(m)
    [] m.instruccion \in {"IO_FS_WRITE", "IO_FS_READ"} -> enviar_interfaz_fs_write_read(m)

\* The CPU's turn ends: limpiar_interrupciones.
Llamar ==
  /\ cpu.pc = "llamar"
  /\ respuesta' = Append(respuesta, EnviarIO(Junto(pcb_actual, PedidoIO(pcb_actual.registros, cpu.instr))))
  /\ Seguir("recv", NULL) /\ interrupcion' = FALSE
  /\ UNCHANGED <<programa, kernel, dispatch, pcb_actual, canalesM, memoria, canalesI, io, historia>>

EjecutarExit ==
  /\ Ejecutar({"EXIT"})
  /\ pcb_actual' = [pcb_actual EXCEPT !.motivo_desalojo = "FINALIZACION"]
  /\ Seguir("devolver", NULL)
  /\ UNCHANGED <<aMemoria, pedido, entradas>>

\* The end of _mov_in
RecibirMovIn ==
  /\ cpu.pc = "mov_in" /\ deMemoria["CPU"] # <<>>
  /\ LET b == deserializar_dato_movIN(Head(deMemoria["CPU"]).stream)
     IN  pcb_actual' = [pcb_actual EXCEPT !.registros[cpu.instr[2]] = Valor(b)]
  /\ deMemoria' = [deMemoria EXCEPT !["CPU"] = Tail(@)]
  /\ Seguir("ciclo", NULL)
  /\ UNCHANGED <<programa, kernel, dispatch, respuesta, interrupcion, aMemoria, memoria, canalesI,
                 io, historia>>

\* Mutant: the interrupts are not cleared.
Devolver_SinLimpiar ==
  /\ cpu.pc = "devolver" \/ (cpu.pc = "ciclo" /\ interrupcion)
  /\ respuesta' = Append(respuesta, enviar_pcb(pcb_actual))
  /\ Seguir("recv", NULL) /\ UNCHANGED interrupcion
  /\ UNCHANGED <<programa, kernel, dispatch, pcb_actual, canalesM, memoria, canalesI, io, historia>>

\* The loop ends without a request.
Devolver ==
  /\ cpu.pc = "devolver" \/ (cpu.pc = "ciclo" /\ interrupcion)
  /\ respuesta' = Append(respuesta, enviar_pcb(pcb_actual))
  /\ Seguir("recv", NULL) /\ interrupcion' = FALSE
  /\ UNCHANGED <<programa, kernel, dispatch, pcb_actual, canalesM, memoria, canalesI, io, historia>>

\* The end of the quantum, while the CPU has the process: recibir_interrupciones
Interrumpir ==
  /\ interrupciones < MaxInterrupciones /\ ~interrupcion
  /\ \/ cpu.pc \in {"ciclo", "fetch", "mov_in", "devolver"}
     \/ cpu.pc = "llamar" /\ InterrumpeLlamadas
  /\ interrupcion' = TRUE
  /\ pcb_actual' = [pcb_actual EXCEPT !.motivo_desalojo = "INTERRUPCION_FIN_QUANTUM"]
  /\ interrupciones' = interrupciones + 1
  /\ UNCHANGED <<programa, kernel, dispatch, respuesta, cpu, canalesM, memoria, canalesI, io,
                 pedido, entradas>>

-----------------------------------------------------------------------------
(* Memory: one thread per connection, each reading or writing the user's    *)
(* space in one critical section                                            *)

Fisicas(lista) ==
  LET Tramo(i) == [k \in 1 .. lista[i].tamanio |-> lista[i].direccion_fisica + k - 1]
      f[n \in 0 .. Len(lista)] == IF n = 0 THEN <<>> ELSE f[n - 1] \o Tramo(n)
  IN  f[Len(lista)]

leer_memoria(mem, lista) ==
  LET f == Fisicas(lista) IN [k \in DOMAIN f |-> mem[f[k]]]

\* What there is of the value goes to the fragments, in order.
escribir_memoria(mem, lista, dato) ==
  LET f == Fisicas(lista)
      n == IF Len(dato) < Len(f) THEN Len(dato) ELSE Len(f)
      Van(b) == {k \in 1 .. n : f[k] = b}
  IN  [b \in DOMAIN mem |-> IF Van(b) = {} THEN mem[b]
                            ELSE dato[CHOOSE k \in Van(b) : \A j \in Van(b) : j <= k]]

\* The next request on a client's connection, whose thread is not in the middle of a copy.
Pedido(c) == Head(aMemoria[c])
Atender(c, cop) ==
  /\ aMemoria[c] # <<>> /\ Pedido(c).cop = cop
  /\ c = "CPU" => copia = SinCopia
  /\ aMemoria' = [aMemoria EXCEPT ![c] = Tail(@)]
  /\ UNCHANGED <<programa, kernel, dispatch, respuesta, procesador, canalesI, io, interrupciones, pedido>>

\* Mutant: a fetch overtakes the requests in front of it.
AtenderInstruccion_Adelantada ==
  \E k \in DOMAIN aMemoria["CPU"] :
    /\ aMemoria["CPU"][k].cop = "PEDIDO_INSTRUCCION"
    /\ LET m == deserializar_pedido_instruccion(aMemoria["CPU"][k].stream)
       IN  deMemoria' = Mandar(deMemoria, "CPU", enviar_instruccion(programa[m.pid][m.pc + 1]))
    /\ aMemoria' = [aMemoria EXCEPT !["CPU"] = RemoveAt(@, k)]
    /\ UNCHANGED <<programa, kernel, dispatch, respuesta, procesador, memoria, canalesI, io, historia>>

\* PEDIDO_INSTRUCCION: no answer if the process has no such instruction.
AtenderInstruccion ==
  /\ Atender("CPU", "PEDIDO_INSTRUCCION")
  /\ LET m == deserializar_pedido_instruccion(Pedido("CPU").stream)
     IN  deMemoria' = IF m.pc + 1 \in DOMAIN programa[m.pid]
                      THEN Mandar(deMemoria, "CPU", enviar_instruccion(programa[m.pid][m.pc + 1]))
                      ELSE deMemoria
  /\ UNCHANGED <<memoria, entradas>>

\* PEDIDO_MOV_IN
AtenderMovIn ==
  /\ Atender("CPU", "PEDIDO_MOV_IN")
  /\ LET lista == deserializar_datos_mov_in(Pedido("CPU")).direcciones
         Trozo(i) == leer_memoria(memoriaUsuario, <<lista[i]>>)
     IN  deMemoria' = Mandar(deMemoria, "CPU",
           enviar_dato_movIn([i \in DOMAIN lista |-> Trozo(i)], leer_memoria(memoriaUsuario, lista)))
  /\ UNCHANGED <<memoria, entradas>>

\* PEDIDO_MOV_OUT: nothing is answered.
AtenderMovOut ==
  /\ Atender("CPU", "PEDIDO_MOV_OUT")
  /\ LET m == deserializar_datos_mov_out(Pedido("CPU"))
     IN  memoriaUsuario' = escribir_memoria(memoriaUsuario, m.direcciones, m.valor)
  /\ UNCHANGED <<deMemoria, copia, entradas>>

\* PEDIDO_COPY_STRING: leer_memoria...
CopyLeer ==
  /\ Atender("CPU", "PEDIDO_COPY_STRING")
  /\ LET m == deserializar_datos_copystring(Pedido("CPU").stream)
     IN  copia' = [escritura |-> m.escritura, dato |-> leer_memoria(memoriaUsuario, m.lectura)]
  /\ UNCHANGED <<deMemoria, memoriaUsuario, entradas>>

\* ... and escribir_memoria, with the mutex free in between.
CopyEscribir ==
  /\ copia # SinCopia
  /\ memoriaUsuario' = escribir_memoria(memoriaUsuario, copia.escritura, copia.dato)
  /\ copia' = SinCopia
  /\ UNCHANGED <<programa, kernel, dispatch, respuesta, procesador, canalesM, canalesI, io, historia>>

\* PEDIDO_ESCRIBIR_DATO_STDIN: nothing is answered.
EscribirStdin(c) ==
  /\ Atender(c, "PEDIDO_ESCRIBIR_DATO_STDIN")
  /\ LET m == deserializar_dato_interfaz_STDIN(Pedido(c).stream) IN
       /\ memoriaUsuario' = escribir_memoria(memoriaUsuario, m.direcciones, m.dato)
       /\ Bajar(m.pid, TRUE)
  /\ UNCHANGED <<deMemoria, copia>>

\* PEDIDO_A_LEER_DATO_STDOUT
LeerStdout(c) ==
  /\ Atender(c, "PEDIDO_A_LEER_DATO_STDOUT")
  /\ LET m == deserializar_direcciones_de_stdout(Pedido(c).stream)
     IN  deMemoria' = Mandar(deMemoria, c,
           enviar_dato_leido(leer_memoria(memoriaUsuario, m.direcciones)))
  /\ UNCHANGED <<memoria, entradas>>

-----------------------------------------------------------------------------
(* Interfaces: one request at a time                                        *)

\* The reader of each PEDIDO_IO_*.
LeerPedido(p) ==
  CASE p.cop = "PEDIDO_IO_GEN_SLEEP" -> deserializar_InterfazGenerica(p.stream)
    [] p.cop = "PEDIDO_IO_STDIN_READ" -> deserializar_InterfazStdin(p.stream)
    [] p.cop = "PEDIDO_IO_STDOUT_WRITE" -> deserializar_InterfazStdout(p.stream)
    [] OTHER -> deserializar_InterfazDialfs(p.cop, p.stream)

RecibirPedido(i) ==
  /\ interfaz[i].pc = "recv" /\ aInterfaz[i] # <<>>
  /\ LET p == Head(aInterfaz[i])
     IN  interfaz' = [interfaz EXCEPT ![i] = [pc |-> "trabajar", cop |-> p.cop, m |-> LeerPedido(p)]]
  /\ aInterfaz' = [aInterfaz EXCEPT ![i] = Tail(@)]
  /\ UNCHANGED <<programa, kernel, dispatch, respuesta, procesador, canalesM, memoria, deInterfaz,
                 archivo, historia>>

Fin(cop, m) ==
  CASE cop = "PEDIDO_IO_GEN_SLEEP" -> enviar_InterfazGenericaConCodigoOP(m)
    [] cop = "PEDIDO_IO_STDIN_READ" -> enviar_InterfazStdinConCodigoOPaKernel(m)
    [] cop = "PEDIDO_IO_STDOUT_WRITE" -> enviar_InterfazStdoutConCodigoOPaKernel(m)
    [] OTHER -> enviar_dialfs_terminado(m)

Responder(i) ==
  /\ interfaz' = [interfaz EXCEPT ![i] = Ociosa]
  /\ deInterfaz' = Mandar(deInterfaz, i, Fin(interfaz[i].cop, interfaz[i].m))

Trabaja(i, cops) ==
  /\ interfaz[i].pc = "trabajar" /\ interfaz[i].cop \in cops
  /\ UNCHANGED <<programa, kernel, dispatch, respuesta, procesador, deMemoria, memoria, aInterfaz,
                 archivo, historia>>

TamanioTotal(lista) == Len(Fisicas(lista))

\* atoi of the puntero, which is the name of a register.
Atoi(nombre) == 0

\* IO_GEN_SLEEP, and the files' directory (DialFS).
procesar_sleep(i) ==
  /\ Trabaja(i, {"PEDIDO_IO_GEN_SLEEP", "PEDIDO_IO_FS_CREATE", "PEDIDO_IO_FS_DELETE", "PEDIDO_IO_FS_TRUNCATE"})
  /\ Responder(i)
  /\ UNCHANGED aMemoria

\* The kernel is told at once: memory may write the text later.
EnviarEntrada(i, dato) ==
  /\ aMemoria' = Mandar(aMemoria, i, enviar_dato_stdin(Junto(interfaz[i].m, [dato |-> dato])))
  /\ Responder(i)

\* procesarIngresoUsuario asks until the text is not longer than the space for it.
procesar_stdin(i) ==
  /\ Trabaja(i, {"PEDIDO_IO_STDIN_READ"})
  /\ \E t \in Textos :
       /\ Len(t) <= TamanioTotal(interfaz[i].m.direcciones)
       /\ EnviarEntrada(i, t)

procesar_dialfs_read(i) ==
  /\ Trabaja(i, {"PEDIDO_IO_FS_READ"})
  /\ LET p == Atoi(interfaz[i].m.puntero)
     IN  EnviarEntrada(i, SubSeq(archivo, p + 1, p + interfaz[i].m.tamanio))

\* STDOUT and IO_FS_WRITE ask memory for the bytes...
PedirDato(i) ==
  /\ Trabaja(i, {"PEDIDO_IO_STDOUT_WRITE", "PEDIDO_IO_FS_WRITE"})
  /\ aMemoria' = Mandar(aMemoria, i, enviar_direcciones_stdout(interfaz[i].m))
  /\ interfaz' = [interfaz EXCEPT ![i].pc = "esperar"]
  /\ UNCHANGED deInterfaz

\* ... and when they come they are printed, or written in the file.
RecibirDato(i) ==
  /\ interfaz[i].pc = "esperar" /\ deMemoria[i] # <<>>
  /\ deMemoria' = [deMemoria EXCEPT ![i] = Tail(@)]
  /\ LET dato == deserializar_dato_interfaz_STDOUT(Head(deMemoria[i]).stream)
         p    == Atoi(interfaz[i].m.puntero)
     IN  archivo' = IF interfaz[i].cop = "PEDIDO_IO_STDOUT_WRITE" THEN archivo
                    ELSE [b \in DOMAIN archivo |-> IF b - p \in DOMAIN dato THEN dato[b - p] ELSE archivo[b]]
  /\ Responder(i)
  /\ UNCHANGED <<programa, kernel, dispatch, respuesta, procesador, aMemoria, memoria, aInterfaz, historia>>

-----------------------------------------------------------------------------
CPU == \/ RecibirPCB \/ Fetch \/ EjecutarAritmetica \/ EjecutarMovIn \/ EjecutarMovOut
       \/ EjecutarCopyString \/ EjecutarIOCPU \/ Llamar \/ EjecutarExit \/ RecibirMovIn \/ Devolver

Kernel == Despachar \/ FinDeQuantum \/ Finalizar \/ EjecutarIO \/ RechazarIO

MemoriaCPU == AtenderInstruccion \/ AtenderMovIn \/ AtenderMovOut \/ CopyLeer \/ CopyEscribir

Interfaz(i) == \/ RecibirPedido(i) \/ procesar_sleep(i) \/ procesar_stdin(i)
               \/ procesar_dialfs_read(i) \/ PedirDato(i) \/ RecibirDato(i)

Sistema ==
  \/ CPU \/ Kernel \/ MemoriaCPU
  \/ \E i \in Interfaces : Interfaz(i) \/ Desbloquear(i) \/ EscribirStdin(i) \/ LeerStdout(i)

Next == Sistema \/ Interrumpir

Spec == Init /\ [][Next]_vars

\* Some thread goes on while one can; nothing makes the quantum end.
Justicia == WF_vars(Sistema)

SpecJusta == Spec /\ Justicia

-----------------------------------------------------------------------------
(* Properties                                                               *)

\* The code of operation of the request for each instruction.
CodigoDe(instruccion) ==
  CASE instruccion = "IO_GEN_SLEEP"    -> "PEDIDO_IO_GEN_SLEEP"
    [] instruccion = "IO_STDIN_READ"   -> "PEDIDO_IO_STDIN_READ"
    [] instruccion = "IO_STDOUT_WRITE" -> "PEDIDO_IO_STDOUT_WRITE"
    [] instruccion = "IO_FS_CREATE"    -> "PEDIDO_IO_FS_CREATE"
    [] instruccion = "IO_FS_DELETE"    -> "PEDIDO_IO_FS_DELETE"
    [] instruccion = "IO_FS_TRUNCATE"  -> "PEDIDO_IO_FS_TRUNCATE"
    [] instruccion = "IO_FS_WRITE"     -> "PEDIDO_IO_FS_WRITE"
    [] instruccion = "IO_FS_READ"      -> "PEDIDO_IO_FS_READ"

\* An interface works on what the process asked for in its program, with no more, fewer
\* or other addresses: the request has crossed the CPU's packet, the kernel's global
\* variables and the kernel's packet, and another process's may have been left in them.
LlegaLoPedido ==
  \A i \in Interfaces : interfaz[i].pc # "recv" =>
    LET m == interfaz[i].m
        p == pedido[m.pid]
    IN /\ interfaz[i].cop = CodigoDe(p.instruccion)
       /\ \A c \in DOMAIN m \ {"pid"} : m[c] = p[c]

\* What an interface reads or writes is memory of the process that asked for it.
SoloSuMemoria ==
  \A i \in Interfaces : interfaz[i].pc # "recv" =>
    LET m == interfaz[i].m
    IN  "direcciones" \in DOMAIN m =>
          \A b \in Range(Fisicas(m.direcciones)) : b \div TAM_PAGINA \in Range(Marcos[m.pid])

\* The memory there will be when the CPU's requests have been served.
Aplicar(mem, paquete) ==
  CASE paquete.cop = "PEDIDO_MOV_OUT" ->
         LET m == deserializar_datos_mov_out(paquete) IN escribir_memoria(mem, m.direcciones, m.valor)
    [] paquete.cop = "PEDIDO_COPY_STRING" ->
         LET m == deserializar_datos_copystring(paquete.stream)
         IN  escribir_memoria(mem, m.escritura, leer_memoria(mem, m.lectura))
    [] OTHER -> mem

MemoriaFutura ==
  LET q == aMemoria["CPU"]
      m[n \in 0 .. Len(q)] == IF n = 0 THEN escribir_memoria(memoriaUsuario, copia.escritura, copia.dato)
                              ELSE Aplicar(m[n - 1], q[n])
  IN  m[Len(q)]

\* A process's bytes, by logical address from 0 on, as its instructions have left them.
Espacio(p) ==
  LET m == MemoriaFutura
  IN  [d \in 1 .. Len(Marcos[p]) * TAM_PAGINA |->
         m[(Marcos[p][((d - 1) \div TAM_PAGINA) + 1] * TAM_PAGINA) + ((d - 1) % TAM_PAGINA)]]

\* The registers of the CPU are the process's while it is there.  A MOV_IN has been
\* executed when memory serves it.
EnCPU ==
  CASE cpu.pc = "mov_in" /\ deMemoria["CPU"] = <<>> ->
         [pcb_actual.registros EXCEPT !["PC"] = (@ - 1) % Modulo("PC")]
    [] cpu.pc = "mov_in" /\ deMemoria["CPU"] # <<>> ->
         [pcb_actual.registros EXCEPT ![cpu.instr[2]] =
            Valor(deserializar_dato_movIN(Head(deMemoria["CPU"]).stream))]
    [] OTHER -> pcb_actual.registros

Ideal == INSTANCE Maquina WITH
  registros <- [p \in Pids |-> IF ejecutando = p /\ dispatch = <<>> THEN EnCPU ELSE pcb[p].registros],
  espacio   <- [p \in Pids |-> Espacio(p)],
  pendiente <- [p \in Pids |-> entradas[p] > 0],
  fin       <- [p \in Pids |-> p \in terminados]

\* Refinement: the CPU's cycle, the packets, the context switches and the page tables
\* together are a machine that executes each process's instructions, in order, one at a
\* time, on registers and memory that nobody else changes.
CadaUnoSuMaquina == Ideal!Spec

\* When an interface asks memory for the bytes to print or to put in a file, memory has
\* already written all that the process wrote and copied: the CPU does not wait for its
\* writes, and the interface's request comes on another connection.
SalidaAlDia ==
  \A i \in Interfaces : \A k \in DOMAIN aMemoria[i] :
    aMemoria[i][k].cop = "PEDIDO_A_LEER_DATO_STDOUT" =>
      LET lista == deserializar_direcciones_de_stdout(aMemoria[i][k].stream).direcciones
      IN  leer_memoria(memoriaUsuario, lista) = leer_memoria(MemoriaFutura, lista)

\* Every program ends: no answer is lost and nobody waits for another in a circle.
Termina == <>(terminados = Pids)

-----------------------------------------------------------------------------
(* What the theorems ask of the programs                                    *)

\* The instructions that carry addresses are asked of an interface that is there and can
\* do them: a request that is refused leaves its addresses in the kernel's list.
ConDirecciones == {"IO_STDIN_READ", "IO_STDOUT_WRITE", "IO_FS_WRITE", "IO_FS_READ"}
PidenLoQueHay ==
  \A prog \in Programas, p \in Pids : \A n \in DOMAIN prog[p] :
    LET i == prog[p][n]
    IN  i[1] \in ConDirecciones => i[2] \in Interfaces /\ i[1] \in Sabe(TipoDe[i[2]])

\* The address and the size of each access of an instruction to the process's memory...
Accesos(reg, i) ==
  CASE i[1] = "MOV_IN"  -> {<<reg[i[3]], obtener_tamanio_registro(i[2])>>}
    [] i[1] = "MOV_OUT" -> {<<reg[i[2]], obtener_tamanio_registro(i[3])>>}
    [] i[1] = "COPY_STRING" -> {<<reg["DI"], i[2]>>, <<reg["SI"], i[2]>>}
    [] i[1] \in {"IO_STDIN_READ", "IO_STDOUT_WRITE"} -> {<<reg[i[3]], reg[i[4]]>>}
    [] i[1] \in {"IO_FS_WRITE", "IO_FS_READ"} -> {<<reg[i[4]], reg[i[5]]>>}
    [] OTHER -> {}

\* ... of the instruction the CPU is about to execute are within the process's pages.
EnSuEspacio ==
  cpu.pc = "fetch" /\ deMemoria["CPU"] # <<>> =>
    \A a \in Accesos(Avanzados, Instruccion) :
      LET espacio == Len(Marcos[pcb_actual.pid]) * TAM_PAGINA
      IN  a[1] \in 0 .. espacio - 1 /\ a[2] \in Nat /\ a[1] + a[2] <= espacio

\* A program is shorter than what the PC can count; what is written in it as a number is
\* one, and as a register is one, of those with a width where a value is moved.
BienEscritos ==
  \A prog \in Programas, p \in Pids :
    /\ DOMAIN prog[p] \subseteq 1 .. Modulo("PC") - 1
    /\ \A n \in DOMAIN prog[p] :
         LET i == prog[p][n]
         IN  /\ i[1] \in {"SET", "JNZ"} => i[2] \in Registros /\ i[3] \in Nat
             /\ i[1] \in {"SUM", "SUB"} => i[2] \in Registros /\ i[3] \in Registros
             /\ i[1] = "MOV_IN"  => i[2] \in DeDatos /\ i[3] \in Registros
             /\ i[1] = "MOV_OUT" => i[2] \in Registros /\ i[3] \in DeDatos
             /\ i[1] \in {"IO_STDIN_READ", "IO_STDOUT_WRITE"} => i[3] \in Registros /\ i[4] \in Registros
             /\ i[1] = "IO_FS_TRUNCATE" => i[4] \in Registros
             /\ i[1] \in {"IO_FS_WRITE", "IO_FS_READ"} => i[4] \in Registros /\ i[5] \in Registros

\* A read of the file that the CPU is about to ask for is within the file.
EnSuArchivo ==
  cpu.pc = "fetch" /\ deMemoria["CPU"] # <<>> /\ Instruccion[1] = "IO_FS_READ" =>
    Avanzados[Instruccion[5]] \in 0 .. TAM_ARCHIVO

=============================================================================
