# Verification of the SistemasOperativos2024 kernel, CPU, memory and I/O

This directory holds TLA+ specifications of the system in `src/`, TLC
configurations that check them on small instances, and TLAPS proofs of theorems
that hold for every value of the parameters.  Definitions keep the names of the
source (Spanish) and each is mapped to its lines in `PROJECT.json`.

Contents: 1 the system · 2 the modules and the code · 3 what the runs check ·
4 fairness · 5 what is proved · 6 disagreements found · 7 what is not modelled ·
8 plan.

## 1. The system

Four programs, each a separate process, speak over TCP (`src/README.md`).  They
simulate an operating system: the *kernel* schedules processes, the *CPU*
executes one of them at a time, the *memory* keeps their pages and their
scripts, and any number of *I/O interfaces* (generic, STDIN, STDOUT and the
DialFS file system) serve the kernel's requests.

| Component | State | Operations | Talks to | Hard behaviour | What makes it correct |
|---|---|---|---|---|---|
| Kernel: process scheduler (`kernel/src/planificador.c`, `consola.c`, `main.c`) | queues NEW, READY, READY+, EXEC, BLOCKED, EXIT; the pcbs; semaphores `semNew`, `semReady`, `semMultiprogramacion`, `semPlanificadorLargoPlazo`, `semPlanificadorCortoPlazo`; `PLANIFICACION_DETENIDA`; `GRADO_MULTIPROGRAMACION`; `pcb_ejecutandose`, `pcb_a_finalizar` | long-term and short-term scheduler threads; console: INICIAR_PROCESO, FINALIZAR_PROCESO, DETENER/INICIAR_PLANIFICACION, MULTIPROGRAMACION; return of the CPU; quantum thread | CPU (dispatch, interrupt), memory, interfaces | seven kinds of thread share queues that are locked one operation at a time; tests made without the lock; semaphores used as counters and as gates | a process is in one queue; no wake-up and no slot is lost; every ready process runs; stop/resume keeps its promise |
| Kernel: resources (`manejar_recurso` … `encontrar_recurso`) | `instancias`, queue of waiters, `recursos_asignados` of each pcb | WAIT, SIGNAL, release at the end of a process | scheduler | test without the lock; release while walking a list that shrinks; a woken waiter and the next WAIT compete | no instance vanishes; a waiter waits for somebody; exclusion |
| Kernel: interface server (`kernel/src/comunicaciones.c`) | list of connected interfaces, queue of waiters of each, the node being filled (`interfaz_aux`), the request in course (globals of `planificador.c`) | connection, disconnection, end of I/O | interfaces, scheduler | one global node shared by the threads; an end of I/O after a kill or a disconnection | queue and outstanding requests advance together |
| CPU: dispatch and interrupts (`cpu/src/comunicaciones.c`) | `pcb_actual` with `motivo_desalojo`, set of interrupts, flags `esSyscall`, `envioPcb` | receive a process, receive an interrupt, run a cycle, give the process back | kernel | two threads write the same reason; an interrupt outlives its process | one answer per dispatch, with the reason that holds |
| CPU: instruction cycle and ALU (`utils_cpu.c`, `instrucciones.c`) | registers, program counter | fetch, decode, execute the 20 instructions | memory, kernel | widths 8 and 32, writes nobody acknowledges, an interrupt at any point | each program runs as on a machine of its own |
| CPU: TLB and translation (`tlb.c`) | entries ⟨pid, page, frame⟩, order of use | lookup, insertion with FIFO or LRU victim, address → list of physical fragments | memory | no entry is ever invalidated | translation agrees with the page table |
| Memory: paging (`manejo_memoria.c`) | frames in use, page table of each process | create, resize, free, read, write | – | growth that does not fit; a byte range across pages | a frame belongs to one page; reads return what was written |
| Memory: server (`memoria/src/comunicaciones.c`) | `proceso_memoria`, list of processes | INICIALIZAR_PROCESO, FINALIZAR_PROCESO, PEDIDO_INSTRUCCION, RESIZE, MOV_IN/OUT, COPY_STRING, STDIN/STDOUT, MARCO | kernel, CPU, interfaces | one thread per client assigns the same global | an answer concerns the process that was asked for |
| I/O: generic, STDIN, STDOUT (`entradasalida/src`) | the request in course, the two connections | sleep, read, write; SIGINT | kernel, memory | data goes to memory on one connection and the answer to the kernel on another; SIGINT at any point | one answer per request, to what was asked; what is printed is what was written |
| I/O: DialFS (`dialfs.c`, `instrucciones_io.c`) | bitmap, file metadata, blocks | create, delete, truncate with compaction, read, write | kernel, memory | contiguous allocation, compaction, no space | files do not overlap; the bitmap agrees with them; contents survive |
| Utils (`utils/`) | – | sockets, serialisers, configuration, log | all | – | what is deserialised is what was serialised |

How they interact.  The kernel dispatches a pcb to the CPU over one connection
(`ejecutar_PCB`) and waits there for its return (`recibir_pcb_CPU`); a second
connection carries interrupts (quantum expired, killed by the console) to a
second thread of the CPU.  A returned process is handled according to its
reason (`desalojo_cpu`): made ready, blocked at a resource or an interface, or
finished.  An interface tells the kernel, over its own connection and thread,
when an operation ends.  The kernel tells memory when a process starts and ends;
the CPU and the interfaces read and write it.

Every behaviour that is hard to test is listed, at its line, under `hazards` in
`PROJECT.json`, with the properties that would catch it going wrong.

## 2. The modules and the code

### Planificador

The kernel's scheduler, resources and the kernel side of the interfaces.  One
control variable per thread:

| Variable | Thread | Code |
|---|---|---|
| `largo` | long-term scheduler | `chequear_grado_de_multiprogramacion` |
| `corto` | short-term scheduler, dispatch and return | `planificar_PCB_cortoPlazo`, `ejecutar_PCB`, `desalojo_cpu` |
| `consola` | console | `ejecutar_comando` and the commands |
| `hiloIO[i]` | connection thread of interface `i` | cases `FINALIZACION_INTERFAZ*` of `procesar_conexion_kernel` |
| `det[d]`, `rea[d]` | detached threads of DETENER/INICIAR_PLANIFICACION | `detener_planificadores`, `iniciar_planificadores` |
| `marco[h]` | activation of `finalizar_proceso`, `liberar_recurso` or the WAIT case in thread `h` | `liberar_recursos`, `manejar_recurso` |

A thread is cut into actions at each blocking call and wherever the code reads
something another thread writes and acts on it later, because that is where the
interleavings that tests miss are: the test that NEW is not empty and the pop
after `sem_wait(&semMultiprogramacion)` (`LargoVacia`, `LargoSemMulti`,
`LargoSacar`/`LargoCae`), that pop and `proceso_listo` (`LargoListo`), the size of READY
and its pop (`CortoElegir`, `CortoDespachar`/`CortoCae`), the search, the switch, the
removal, the second reading of `estado` and the end of FINALIZAR_PROCESO
(`FinalizarBuscar`, `FinalizarCaso`, `FinalizarQuitar`, `FinalizarDecidir`,
`FinalizarTerminar`), the
test of `instancias` and the push of the waiter (`DesalojoWaitBloquea`,
`EsperarRecurso`), the test of the waiters and the pop (`liberar_recurso`,
`Despertar`), one turn of the loop of `liberar_recursos` (`LiberarSiguiente`),
unblocking and popping after an end of I/O (`FinDeIO`, `SacarDeInterfaz`), each
`sem_wait` of `detener_planificadores` (`DetDrenar`).  `pcb_a_mover` is the process that
is in no queue between the pop and `proceso_listo`.  Between two cuts the code holds a
mutex, touches state of its own, or only writes, and is one action.

A NULL dereference is the variable `caida`: the kernel is gone and nothing
follows.  Semaphores are natural numbers (`Post`, `Wait`).  `interrupcion` is the
console's interrupt while the CPU has not consumed it; any return of the CPU may
consume it, since the CPU clears what it received.

The CPU is its answer: `Retornos` names the reasons a run allows
(`Desalojo*`, one action for each branch of `desalojo_cpu` with the call it
makes).  VRR's burst is any value up to `MaxTiempo`.  `squeue_exec` is a set: it
is pushed before dispatch and popped blind on return, and holds one process.

The definitions whose names end in `_Algo` and whose comment starts with
*Mutant* are not part of the specification: each is a plausible mistake in the
definition above or below it, which the corresponding property must detect.

### UsoRecursos

`Planificador` with the programs' view of the resources beside the kernel's:
`usa[p][r]` counts the WAITs of `p` on `r` that succeeded, immediately or by
being woken up, and that no SIGNAL has undone.  Programs do what they like, but
`EsperaPorAlguien` is about disciplined ones, which take a resource once, never SIGNAL
one they are not using and exit outside every use: a program that signals what it does
not hold breaks it by itself.  `abuso` records that one was not, and the uses are not
followed from there.

### Prestamo and Despacho

`Despacho` is the pair of connections between the kernel and the CPU.
`Planificador` leaves the CPU out and takes the answer to a dispatch as an input;
`Despacho` is the other half: it keeps of the queues only which one holds each
process and shows where the answers come from.

| Variables | Thread | Code |
|---|---|---|
| `corto`, `cola`, `motivo`, `pcb_ejecutandose` | kernel, short-term scheduler | `ejecutar_PCB`, `recibir_pcb_CPU`, `desalojo_cpu` |
| `hilo_quantum` | kernel, quantum thread | `atender_quantum`, cancelled by `desalojo_cpu` |
| `muertes` | kernel, console | `finalizar_proceso_consola` for the process on the CPU |
| `dispatch`, `respuesta`, `interrupt` | the two connections | – |
| `cpu`, `esSyscall`, `envioPcb` | CPU, dispatch thread | `procesar_conexion_dispatch`, `execute` |
| `interrupciones`, `hiloInterrupt` | CPU, interrupt thread | `recibir_interrupciones` |
| `pcb_actual` | shared by the CPU's threads | |

`recibir_interrupciones` raises its flag and then writes the reason, and the
dispatch thread reads both without `mutex_pcb_actual`: two actions
(`RecibirInterrupcion`, `EscribirMotivo`).  The mutex keeps only `recibir_pcb` out
of the two, and that is the guard of `RecibirProceso`.  `execute` sets the reason
and the flags before it calls what sends the request (`EjecutarSyscall`, `Pedir`):
an interrupt can be received between them.  `cola` is `"ninguna"` for a process
that `desalojo_cpu` gives to no queue.  `pedido` and `interferida` are history.

`Prestamo` is what the pair promises: one process at a time is lent, comes back
once, as itself, and only then is another one lent.

### Memoria

The memory server: frames (`marcos`, which is `marcosPaginas`), the
`t_proceso_memoria` structures by pid (`struct` their state, `tabla` and `tamanio`
their fields), the list `procesos_totales` and the global `proceso_memoria`.

| Variables | Thread | Code |
|---|---|---|
| `hiloKernel`, `kernel`, `vida` | connection of the kernel | INICIALIZAR_PROCESO, FINALIZAR_PROCESO |
| `hiloCPU`, `cpu` | connection of the CPU | PEDIDO_INSTRUCCION, PEDIDO_RESIZE, PEDIDO_MARCO |
| `proceso_memoria`, `marcos`, `tabla` | shared, no lock | – |

A handler is cut where it goes from assigning `proceso_memoria` to using it, and at
each turn of the loops that take frames (`TomarMarco`), give them back one by one
from the end (`SoltarMarco`) or free them all (`LiberarPagina`).  The search of the CPU's
thread begins with its request (`RecibirPedido`) and ends with the assignment
(`BuscarProceso`): it holds `mutex_procesos`, but `liberar_estructura_proceso_memoria`
removes from the list without it (`LiberarFin`), and a search that was going through the
list by then may find the process or not, find it freed, or read freed memory
(`"roto"`, `BuscarLiberado`).  `MatarProceso` is the kernel that finishes a process it
found LISTO and has dispatched meanwhile (`consola.c:214-262`), so that memory frees what
the CPU executes.

`mezclado` is history: a thread assigned `proceso_memoria` while the other was about to
use it, a process left the list during a search, or the kernel finished a process it had
dispatched.  After that the code can initialise a process twice, free the wrong one, use
one that is freed, or answer nobody: the properties that break are stated for `~mezclado`,
those that hold all the same (`MarcoUnico`, `SiempreHayMarco`) without it.  `caida` says why the
server is gone: a freed structure is used, `list_get(-1)`, a page the table does not
have, a table that is not there yet.  A program asks for pages within its size
(`PedirMarco`): what the CPU does with another address is its own business.

### EspacioLogico and Traduccion

`Traduccion` extends `Memoria` with the CPU's `traducir_direccion` and the bytes:
`acceso` is the access under way with the fragments translated so far, page by page,
each from the TLB (`AciertoTLB`) or through a PEDIDO_MARCO (`FallaTLB`,
`RecibirMarco`); `EnviarMovOut`/`EscribirMemoria` and `LeerMemoria` are the two
accesses.  MOV_OUT has no answer, so `escritura` is what the CPU has sent and memory
has not written; the two steps are apart, and the CPU may give the process back in
between.  It restricts `Memoria` to the behaviours where the threads do not meet and no
process is finished while it is dispatched (`~mezclado'`), which `Memoria` covers.

`EspacioLogico` is what the pair promises a program: an array of bytes of its own.
The refinement mapping reads the bytes of a process through its page table and puts
the write that is on its way on top of them.

### DialFS

The file system interface serves one request at a time, so a handler is an action;
TRUNCATE is one action for each of its branches (`Achicar`, `MismosBloques`,
`AgrandarEnLugar`, `Mover`, `Compactar`, `TruncarSinLugar`).  `bitmap`, `bloques` and
`metadata` are the files on disk, `lista` is `ARCHIVOS_EN_FS`; the handlers read the
first block from the list and the size from the metadata, and so do the actions.  A
block holds the part of the file last written to it, which is enough to see a part
lost or another file's block in its place.  `Compactar` moves the files in the order
that `list_sort` gives (`Ordenados`, the file that grows last), each `memmove` on the
result of the one before (`Mudados`), and marks in the bitmap the blocks that the sum of
the sizes fills, as the code does.

The model stops (`Sano`) once two files overlap, or a file has a block that is not
marked or not on the disk: from there on the code writes over other files and no
property is promised.  It does get there, in five ways (section 6): the steps into
those states are part of the model, the steps after them are not.

### Interfaces

The connections between the kernel and the interfaces, which `Planificador` takes as
given: programs that start, announce themselves, serve and leave on SIGINT.

| Variables | Thread | Code |
|---|---|---|
| `interfaz`, `nombre`, `trabajo` | the interface program of each connection | `iniciar_conexiones`, `procesar_conexion_IO`, `manejador_signals` |
| `hilo[c]` | kernel, thread of connection `c` | `procesar_conexion_kernel` |
| `corto` | kernel, short-term scheduler | `ejecutar_intruccion_io`: lookup, queue, send |
| `interfaz_aux`, `nodo`, `interfaces_conectadas` | shared by the kernel's threads | the global, the `t_interfaz_recibida` of the heap, the list |
| `pedidos`, `avisos`, `roto` | the sockets, each way | – |

A node has the identity of the thread that allocated it.  A thread puts its node in the
global (`Iniciar`), fills whatever the global points to when the name arrives
(`Completar`) and adds whatever it points to by then (`Agregar`): between any two, another
connection may have replaced it, which is `pisado`.  The scheduler keeps a pointer from
the lookup (`Buscar`) to the queue (`Bloquear`) and from there to the `send` (`Enviar`),
without the list's mutex; a node freed in between is `"libre"`, and what comes of using
it is a choice among the outcomes (`BloquearLiberado`, `EnviarPerdido`).  So does the
thread that ends an I/O, between the search (`BuscarNodo`, which leaves what it found in
`hallado`) and the `squeue_pop` (`Sacar`).  A socket whose program has gone takes one more
message and raises SIGPIPE at the next (`roto`).  `colgado` says that a freed node or a
closed socket has been used.  An interface that is started again
announces the same name while the kernel may still have the last messages of its earlier
run to handle, and the threads find nodes by name: one may unblock, pop or free with the
other's node, which is `cruzado`.

### Registros, Mensajes, CicloDeInstruccion and Maquina

`CicloDeInstruccion` is the whole path of an instruction: the CPU that fetches and
executes it, memory, the kernel that keeps an I/O request in global variables, the
interfaces, and every message between them.

| Variables | Where | Code |
|---|---|---|
| `cpu`, `pcb_actual`, `interrupcion` | CPU | `procesar_conexion_dispatch`, `fetch`, `decode`, `execute`, `check_interrupt` |
| `listo`, `ejecutando`, `pcb`, `bloqueados`, `terminados`, `g` | kernel | `recibir_pcb_CPU`, `desalojo_cpu`, `ejecutar_intruccion_io`, `procesar_conexion_kernel`; `g` is `nombre_interfaz`, `direcciones_fisicas`, … |
| `programa`, `memoriaUsuario`, `copia` | memory | one thread per connection; `copia` is between COPY_STRING's read and its write |
| `interfaz`, `archivo` | interfaces | `procesar_*` of `instrucciones_io.c` |
| `dispatch`, `respuesta`, `aMemoria`, `deMemoria`, `aInterfaz`, `deInterfaz` | connections | – |

`Registros` is the registers and the instructions that only change them (widths, wrapping,
the refusal to add registers of different widths).  `Mensajes` is `IO.c` and the
serialisers of `pcb.c`: a message is the sequence of its fields in the order of its
writer, and its reader takes them in its own order, so that two that disagree would
exchange fields.  Where a list has no count (MOV_IN, MOV_OUT) the reader derives it from
the packet's size, and so does the model.  The readers of the kernel leave what they
read in the globals and append the addresses to those that were there (`Guardar`).

`Maquina` is what all of it promises a program: registers and a memory of its own,
changed by its instructions in order, one step each, and by the inputs it has asked for.
In the refinement mapping a process's memory is its pages after the writes the CPU has
sent and memory has not served (`MemoriaFutura`), a MOV_IN is executed when memory
serves it (`EnCPU`), and an input is pending until memory has written it (`entradas`):
the interface answers the kernel without waiting for memory, so the process may run,
and even end, before.

### Proofs

| Module | Theorems of |
|---|---|
| `PlanificadorProofs` | `Planificador` and `UsoRecursos`: types, wake-ups, queues and states, slots, instances, waits, the stop of planning, the crashes |
| `DespachoProofs` | `Despacho`, and that it implements `Prestamo` |
| `MemoriaProofs` | `Memoria`; `Traduccion`, and that it implements `EspacioLogico` |
| `DialFSProofs` | `DialFS` |
| `InterfacesProofs` | `Interfaces`: types, requests, queues of the nodes, blocked processes, the crashes |
| `CicloProofs` | `CicloDeInstruccion`: requests, addresses and writes on their way |
| `MaquinaProofs` | `CicloDeInstruccion`, that it implements `Maquina` |
| `ListasProofs` | lemmas about what the models are built from: `RemoveFirst`, `Append`, `Tail` on lists without repetitions, how many times an element is in a list, two lists one behind the other, and `SumFunction` |

## 3. What the runs check

Each run takes from a few seconds to two minutes.

| Run | Instance | Checks |
|---|---|---|
| Planificador | VRR, 2 processes, degree 2, quantum 2, bursts 0..2, one resource with one instance, one interface, no kill; the uses of `UsoRecursos` beside it | `TypeOK`, `UnLugar`, `EsperaUnica`, `EsperaPorAlguien` |
| Reanudar | RR, 3 processes, degree 1, two commands among stop, resume and a change of the degree to 0, 1 or 2, fair | `CuposExactos`, `NuncaCae`, `DetencionEfectiva`, `AdmiteSiHayCupo`, `ListoEjecuta` |
| Finalizar | RR, 2 processes, two commands among kill, stop, resume, with WAIT, SIGNAL and I/O, and every way a process can end | `AvisosReady`, `CuposNoPerdidos`, `InstanciasNoPerdidas`, up to the crash some of the races lead to |
| Despacho | RR, 2 processes, one kill, fair | `TypeOK`, `RespuestaUnica`, `PedidoAtendido`, `CumplePrestamo`, `SiempreVuelve` |
| Memoria | 2 processes, 3 frames of 2 bytes, sizes 0, 2, 4, fair | `TypeOK`, `MarcoUnico`, `SiempreHayMarco`, `SinFugas`, `PaginasAlcanzan`, `NuncaCae`, `Contesta` |
| Traduccion | 2 processes, 4 frames of 2 bytes, size 3, accesses of 1 and 2 bytes, no TLB, FIFO of 1 entry, LRU of 2 | `TLBAlDia`, `EspacioPropio` |
| DialFS | 3 files, 8 blocks of 2 bytes, sizes 1 and 7 | `TypeOK`, `SinFugas`, `ListaAlDia`, `ContenidoIntacto`, `SoloSinLugar` |
| Interfaces | 2 processes, 2 connections of two interfaces or of one started twice, fair | `LlegaALaPedida`, `NuncaCae`, `Contesta` |
| Reinicios | 2 processes, 3 runs of one interface | `ColaAlDia`, `BloqueadoPorAlguien` |
| CicloDeInstruccion | 2 processes with four pairs of programs, pages of 2 bytes, one end of quantum at any instruction, fair | `LlegaLoPedido`, `SalidaAlDia`, `CadaUnoSuMaquina`, `Termina` |

The properties, in words.

*Scheduler.*  `UnLugar`: a process is in the queue of its state, once, or on the CPU.
`EsperaUnica`: a blocked process waits for one thing that can wake it.  `CuposExactos`:
free slots, plus processes admitted, plus slots in flight, is the degree, also while the
console waits to lower it; `CuposNoPerdidos` is the half of it that survives kills, with
one exception, which `perdidos` counts (section 6): a process that the console ends as one
in NEW while the long-term scheduler is making it ready.
`AvisosReady`: no wake-up of the short-term scheduler is lost.  `InstanciasNoPerdidas`:
the free and assigned instances are never fewer than those configured.
`DetencionEfectiva`: a parked short-term scheduler dispatches nothing until it is
resumed.  `NuncaCae`: no scheduler pops an empty queue, although stopping and resuming
leaves tokens for processes that are not there.  `AdmiteSiHayCupo`: nobody stays in NEW
with a free slot.  `ListoEjecuta`: round robin starves nobody, unless planning is stopped.
`EsperaPorAlguien`: a waiter waits for a process that uses the resource or for a release
under way.

*Dispatch.*  `RespuestaUnica`: a process that was lent is in exactly one place, and the
answer names it.  `PedidoAtendido`: a process no interrupt disturbed reaches
`desalojo_cpu` with the reason of its last instruction, although the field is never
cleaned.  `CumplePrestamo`: the refinement of `Prestamo`.  `SiempreVuelve`: no program
keeps the CPU.

*Memory.*  The first two hold through every race of the model, the rest until the
threads meet (`mezclado`).  `MarcoUnico`: a frame is one page of one process, and `marcosPaginas` names
it.  `SiempreHayMarco`: a growth that was accepted finds every frame it counted.
`SinFugas`: a frame that is not free is in its owner's table.  `PaginasAlcanzan`: a table
has exactly the pages its size needs.  `NuncaCae`: programs that stay within their size
do not bring the server down by themselves.  `Contesta`: a request about a known process is answered.
`TLBAlDia`: an entry says what the page table says.  `EspacioPropio`: the refinement of
`EspacioLogico`.

*DialFS.*  `SinFugas`: a marked block belongs to a file.  `ListaAlDia`: the list and the
metadata agree, so that a restart changes nothing.  `ContenidoIntacto`: moves, compactions
and restarts keep what the files hold.  `SoloSinLugar`: TRUNCATE fails only when the files
would not fit with the refused one of the size it was refused.

*Interfaces.*  `ColaAlDia`: the queue in an interface's node, which is popped without
looking at whom the answer is for, is the processes it owes an answer, in that order.
`BloqueadoPorAlguien`: the request of a blocked process, or its answer, is in exactly one
place.  `LlegaALaPedida`: a request reaches the interface that was named.  `Contesta`: an
interface that stays connected answers.  All hold while no two connections start at once
(`pisado`); `ColaAlDia` also while no thread works on the node of another run of its
interface (`cruzado`), `BloqueadoPorAlguien` and `Contesta` while no freed node or closed
connection is used (`colgado`).  `NuncaCae` says that the kernel dies of nothing but
`pisado` and `colgado`.

*Instruction cycle.*  `LlegaLoPedido`: an interface works on exactly what the program
asked for, through three packets and the kernel's globals.  (`SoloSuMemoria`, which says
that the physical addresses it was given are in the pages of the process that asked, is
what run DireccionesViejas finds violated; without that window it is the theorem
`CadaUnoLoSuyo`.)  `SalidaAlDia`: when an interface asks memory for bytes to print or
store, memory has served every write the process has made.  Nobody acknowledges those writes and the two connections are served
by different threads: it holds because the CPU fetches the I/O instruction on the same
connection, behind the writes.  `CadaUnoSuMaquina`: the refinement of `Maquina`.
`Termina`: every program ends.

Bounds, all of them constants.

*Scheduler.*  `MaxPid` processes, `MaxOrdenes` console commands other than
INICIAR_PROCESO, `MaxInstancias` (to which SIGNAL raises a resource and how many
instances a process accumulates), `MaxTiempo`, one thread per kind for `Detenedores` and
`Reanudadores`.  Two processes are enough for the races above, which involve one process
and two threads or two processes competing for one slot, one instance or one queue head;
three are used where one must remain in NEW while the degree is raised and lowered
(Reanudar).  With two, a resource of one instance has a user, a waiter, and a release that
has popped the waiter; the order among several waiters is in no property.  Two commands allow a
stop and a resume, a raise and a lowering, a change while planning is stopped, or a kill
of the process being moved.  A quantum of 2 with bursts 0..2 has a burst shorter than,
equal to and, after a first burst of 1, longer than what is left.  In Despacho,
`MaxInterrupciones` = 1 is the interrupts in the socket; the thread that receives them
holds another, so that the quantum's and the console's can be under way together and
outlive the dispatch they were meant for, and with two processes reach the wrong one.

*Memory.*  Three frames and sizes of one and two pages let both processes compete for
the last frame, fail to grow, and grow while the other is being freed.  The sizes are
multiples of the page because the code breaks `PaginasAlcanzan` for others (section 6).
Traduccion: a size of 3 has a last page that is half used and accesses that cross it;
`MaxAccesos` = 2 is a write and what reads it, or two that evict each other's entry;
`MaxReloj` = 1 gives LRU entries of the same and of different seconds; programs do not
shrink (`PuedeEncoger`), because nothing invalidates the TLB when they do.  The processes
are symmetric: nothing orders pids.

*DialFS.*  Files of one and four blocks on a disk of eight fragment it, fill it and force
moves and compactions with other files on both sides; `BLOCK_COUNT` = 8 is the smallest
bitmap of whole bytes; `MaxEscritos` = 1 is one tagged block at a time, followed through
any number of operations (what happens to one block does not depend on what the others
hold); the files are symmetric.

*Interfaces.*  The two connections overlap, come one after the other, or are one
interface that leaves and returns while the scheduler holds a pointer to its old node;
two processes give a queue an order.  Three runs of one interface let
a thread work on another run's node, or free it, while a third run is in the list and
serves (Reinicios); there the processes and the connections are symmetric.  A process asks again after it is served, any number
of times.  A connection is never reused, as in the code.

*CicloDeInstruccion.*  A byte has four values (`BYTE`), a wide register two bytes
(`ANCHO`) and a page two, which is the least that tells the widths and the order of the
bytes apart and makes an access of a register cross a page; the three pages of each
process are not contiguous and not in order.  The programs (`MCCicloDeInstruccion`)
use every instruction but WAIT, SIGNAL, RESIZE and IO_FS_DELETE, and each pair brings two of them
together: an input and an output, two files, a loop and an interface that does not exist.
`MaxInterrupciones` = 1 puts the end of the quantum at every point of the cycle but one,
which `InterrumpeLlamadas` adds (section 6).

TLC is told not to report deadlock because the system does stop: all the processes end,
the operator types nothing more and the schedulers wait on their semaphores; every
interface has gone; or `caida` holds.

## 4. Fairness

`SpecJusta` assumes weak fairness of each kernel thread: every thread is a
pthread the operating system schedules, and a blocked `sem_wait` whose semaphore
is positive is served.  It assumes it of the return for the end of a quantum
(`DesalojoFinQuantum`), because under RR and VRR the quantum thread interrupts the
CPU, which gives the process back; and of an interface that was sent a request.
It does not assume that the operator types anything, that a program ever exits,
signals, or does I/O, nor that the CPU returns at all under FIFO: the commands
under way are continued, no new ones are promised.

`Despacho!SpecJusta` assumes weak fairness of the kernel's scheduler, of the
quantum thread and of the two threads of the CPU, and nothing of the programs,
which may run forever and ask for nothing, nor of the console.  `SiempreVuelve`
then holds under RR, which is what `Planificador` assumes of
`DesalojoFinQuantum`.  It needs `QuantumLargo`: the sleep of `atender_quantum`, in
milliseconds, outlasts the CPU's way back from `enviar_pcb` through
`limpiar_interrupciones` to the next `recv`.  Without it TLC finds that the
interrupt of a quantum so short that it ends before the CPU has received its
process is wiped out by `limpiar_interrupciones` for the previous one, and a
program that asks for nothing keeps the CPU.  The invariants, the refinement and
the theorems need no such assumption: the theorems hold for both values of
`QuantumLargo`.

`Memoria!SpecJusta` assumes weak fairness of each of the two threads of the server,
which is what `Contesta` needs, and nothing of the kernel or of the CPU.  `Traduccion`
and `DialFS` state safety only.

`Interfaces!SpecJusta` assumes weak fairness of the kernel's threads (`EjecutarIO`,
`Atender`) and of an interface's work (`Trabajar`: a user who is asked for a text types
one).  Nothing makes a process ask for I/O, an interface connect, or one leave.

`CicloDeInstruccion!SpecJusta` assumes weak fairness of `Sistema` as a whole: while some
thread of the four programs can go on, one does.  That is weaker than fairness of each
thread, and enough because the instances have no busy waiting and finite programs.
Nothing makes a quantum end.

## 5. What is proved

By TLAPS, for every number of processes, resources and interfaces, every degree,
quantum and algorithm, under `ConstantesValidas`:

* `TipoCorrecto`: `Spec => []TypeOK`.  `TypeOK` is not inductive: that the head of
  a queue is a process is in the types, but the actions apply functions to
  `corto.pid`, `marco[h].pid` and `consola.pid`, which the types allow to be
  `NULL`.  The invariant `Inv == TypeOK /\ Punteros` adds that each is a process
  at the control points that use it.  One lemma per action.
* `SinAvisosPerdidos`: `Spec => []AvisosReady`, whatever the algorithm and whatever
  the console does, kills included.  The invariant is
  `InvAvisos == Inv /\ SinPlus /\ AvisosReady`.  `SinPlus` (READY+ stays empty unless
  the algorithm is VRR) is needed because `CortoNadaListo` drops a token after
  looking at READY only.  The lemma `ListoAvisa` (a push comes with its token)
  carries the actions that make a process ready, `AvisosQuietos` those that touch
  neither; the remaining ones take a token and remember it in `corto.pc`, or
  remove a process and leave its token (a surplus, which is why the invariant is
  an inequality and why the scheduler must cope with finding nothing).
* `CuposSiempre`: `Spec => []CuposNoPerdidos`, kills included.  `Saldo` is the free
  slots, the processes admitted, the ends under way that will give a slot back and the
  change the console is making, less the degree.  No step lowers it, and a step in which
  whoever works on a process finds it in the state its queue names (`Derecho`) keeps it
  (`Cuenta`): that is the invariant, and why kills break the equality and not the
  inequality.  `Saldo` counts `perdidos` too, the slots of the processes the console ended as
  in NEW after they were made ready, which is the one way the code has of losing one.  It
  rests on `InvPasos`: a process in NEW is there once and nobody else holds it, and the one
  the long-term scheduler has popped is in no queue, so that each is admitted once.
* `InstanciasSiempre`: `Spec => []InstanciasNoPerdidas`, kills and SIGNALs of what is
  not held included.  `Posesion(r)` sums over the processes how many times each has
  `r`; a step changes the term of one process.
* `LugarSiempre` and `CuposExactosSiempre`: `UnLugar` and `CuposExactos`, if
  FINALIZAR_PROCESO is not among the commands and the CPU gives no unknown reason.
  Both hypotheses are about the code: a kill races with the other threads for the
  process (section 6), and `desalojo_cpu` puts a process with an unknown reason in no
  queue.  The invariant is `InvLugar == InvPasos /\ SinMatar /\ UnLugar /\ EnCPU`:
  without kills only the short-term scheduler ends processes (`SinMatar`), and its
  process is EJECUTANDO exactly until it has been put somewhere (`EnCPU`).  `InvLugar`
  gives `Derecho`, and with it `Saldo = 0` is kept.
* `EsperaSiempre`: `EsperaUnica` under the same hypotheses, by adding that a process in
  a resource's queue is blocked (`InvEspera`).
* `KernelEnPie`: `NuncaCae` if FINALIZAR_PROCESO is not among the commands and no
  program names a resource that does not exist, each of which brings the kernel down.
  `EnPie`: what a thread saw (a process in NEW, in READY, in READY+, a waiter) is still
  there when it pops it, since nobody else pops from that queue.  The stop, the resume and
  the change of the degree may be used at will.
* `DetencionSiempre`: `DetencionEfectiva`, an action property, if FINALIZAR_PROCESO is not
  among the commands and there is at most one thread of each of DETENER_PLANIFICACION and
  INICIAR_PLANIFICACION.  TLC finds the property violated without each of the three
  (section 6).  The invariant is `InvDetencion`: `semReady` counts the ready processes
  exactly (`AvisosJustos`), so that the short-term scheduler never finds its queue empty
  and never posts its own semaphore; and what a stop has drained is not posted again until
  a resume does (`Fases`).
* `EsperaSiemprePorAlguien`: `UsoSpec => []EsperaPorAlguien`, if FINALIZAR_PROCESO is not
  among the commands, no return is of an unknown reason and every resource has an
  instance.  With kills TLC finds it violated; the unknown reason is excluded because the
  proof goes through `UnLugar`.  The invariant is `InvUso`: the instances that are not free
  are in use (`Cubiertos`), counting what a woken waiter took; a resource with a queue has a
  user or the waiter just popped (`Atendidos`); who has finished uses nothing (`Sueltos`).

Of `Despacho`, for any set of processes, any number of interrupts under way,
any algorithm and both values of `QuantumLargo`:

* `UnaRespuestaPorDespacho`: `Spec => []RespuestaUnica`.  The invariant is
  `Inv == TypeOK /\ HiloDelQuantum /\ Banderas /\ RespuestaUnica`.  `Banderas` ties
  `envioPcb` and `esSyscall` to the control point of the CPU: that they are down
  when it receives a process is why `Responder` owes an answer exactly when no
  request was sent.  `HiloDelQuantum` is needed for the type of an interrupt's pid,
  read from `pcb_ejecutandose`, which may be NULL at other times.
* `DespachoImplementaPrestamo`: `Spec => Prestamo!Spec`.  `Despachar` maps to
  `Prestar`, `Pedir` and the `Responder` that sends to `Devolver`,
  `RecibirRespuesta` to `Recuperar`, every other action to a stutter.
* `PedidosAtendidos`: `Spec => []PedidoAtendido`, from `Inv /\ Fidelidad`: while no
  interrupt disturbs the dispatch the reason of the pcb, wherever it is, is the one
  the last instruction asked for.
* `TipoCorrecto`: `Spec => []TypeOK`, from the same invariant.

Of `Memoria`, for any number of processes and frames, any page size and any sizes:

* `TipoCorrecto`: `Spec => []TypeOK`, from `Inv == TypeOK /\ CPUEspera` (the CPU waits
  while the thread works for it).  That the frame a growth takes exists rests on
  `PrimerLibreEsLibre`: the search finds a free frame when there is one.
* `MarcosSinCompartir`: `Spec => []MarcoUnico`, through the race for
  `proceso_memoria` too.  Only four steps touch tables or frames
  (`LasDemasNoTocan`); the two that free one share the lemma `UnicoAlSoltar`, and the
  one that takes a frame takes a free one, which no table has.
* `MarcoParaCadaPagina`: `Spec => []SiempreHayMarco`.  The counts are cardinalities of
  the free frames: the kernel's thread can only raise it (`LibresAlSoltar`), a turn
  of the loop lowers both sides by one (`LibresAlTomar`).
* `MarcosNoPerdidos`: `Spec => []SinFugas`.  The property speaks of behaviours
  up to the first time the threads meet at `proceso_memoria` or at `procesos_totales`, or
  the kernel finishes a process it has dispatched, and what orders them is `Ordenado`: the kernel asks
  for each process once and for its end after that (`Cola`), a process goes once through
  its states (`Etapas`), the list has it from one to the other (`Listados`), and the CPU's
  thread works on the process the CPU runs (`DeLaCPU`), whose search nothing disturbs
  (`LiberarSinBusqueda`).
* `TablasCubren` and `ServidorEnPie`: `PaginasAlcanzan` and `NuncaCae` if the sizes are
  whole pages (`TamaniosEnteros`), which the code needs (section 6).  The invariant adds
  `Justas`: while a loop runs, the pages of the table and the turns that are left make up
  the size.

Of `Traduccion`, for any number of processes, frames, page sizes, sizes of the processes
(whole pages or not), data and TLB configurations, if no program shrinks (`~PuedeEncoger`,
since nothing invalidates the TLB):

* `TLBFiel`: `SpecTraduccion => []TLBAlDia`.  An entry is right when it is made and the
  table it came from only grows while its process lives (`Conserva`).
* `TraduccionImplementaEspacioLogico`: `SpecTraduccion => Logico!Spec`.  The invariant
  (`InvTraduccion`) adds that the fragments translated so far are where the page table
  puts those bytes (`AccesoFiel`), that tables cover the sizes (`Cubren`), and that the
  write on its way goes to the pages of its process and to no page of another, even when
  its process has ended and its frames were taken (`EscrituraFiel`): the server serves
  the CPU's next request after it.  `EnviarMovOut` maps to `MovOut`, `LeerMemoria` to
  `MovIn`, `IniciarAcceso` to `Ordenar`, growth and end to `Redimensionar`, every step of
  the translation and `EscribirMemoria` to a stutter: `BytesDe` says which byte of memory
  each byte of a process is, and `MarcoUnico` that no two are the same.

Of `DialFS`, for any number of files, blocks, bytes per block and sizes, from the
invariant `Inv == TypeOK /\ Concuerdan /\ SinFugas` (`Concuerdan` is `ListaAlDia` also
while the interface is down, which the restart needs):

* `TiposSiempre`, `SinFugasSiempre`, `ListaSiempreAlDia`: the three invariants of the run.
  All handlers but the compaction touch one file.  For the compaction: the sorted order
  exists (`SePuedenOrdenar`, by the least number of files that could not be sorted);
  every file but the last goes to a place not after the one it had (`VanAntes`: those
  before it in the order have that many blocks of their own on the disk); the last one
  ends within the disk because there was room (`UltimoCabe`); and the blocks that the
  rounded total marks are within what the files, rounded one by one, take (`TotalCabe`),
  each of which is of some file (`BloqueDeAlguno`).
* `ContenidoSiempreIntacto`: `ContenidoIntacto`.  `Mudanza(orden, j)` says what the disk
  holds after `j` moves: the first `j` files are in their new place and the others where
  they were.  A move goes backwards, over blocks of files that have already been moved or
  over its own (`MudanzaPaso`); the last file is put back from the copy.
* `SiempreSoloSinLugar`: `SoloSinLugar`.  A refusal counts free blocks; marked blocks are
  of some file (`SinFugas`), and files have at most the blocks they are counted with
  (`CuentaDeBloques`), so the refused size of the refused file, which `sin_respuesta`
  keeps, does not fit.

All five are of behaviours in which requests are served while no two files overlap
(`Sano`), which is where the model stops: what a file holds is promised up to the request
that leads to an overlap and not after (section 6).

Of `Interfaces`, for any number of processes, connections, names and types:

* `TipoCorrecto`: `Spec => []TypeOK` (the types are stated with the proofs).  A thread
  that has started has left something in `interfaz_aux`, which is `Comienzo`.
* `PedidosALaNombrada`: `Spec => []LlegaALaPedida`, through restarts, freed nodes and
  closed connections.  The invariant has four parts besides the types and `Comienzo`.
  `NodoPropio`: while nothing is `pisado`, `interfaz_aux` is the thread's own node until it
  is in the list, so that a node leads to the connection that announced its name.
  `NodoBuscado`: the node the scheduler holds was of the interface the process named, or
  has been freed; a new connection never takes it up again.  `UnaVez` and `Espera`: a
  process has at most one request or answer on its way, and waits for it, so that neither
  its next request nor the end of another changes what it asked for.  The lemmas
  `Mensajes*` say what each step does to the messages, on top of four about queues
  (`EnAppend`, `EnTail`, `UnaVezAppend`, `UnaVezTail`).

* `KernelSigue`: `Spec => []NuncaCae`.  A thread that ends an I/O finds a node of its name,
  although it may be another run's, and although that one may be freed before the pop, which
  is the use of a node that has gone (`colgado`).  `Presencia`: for every name the list has as many live
  nodes as threads serve connections of it.  A thread frees the first node of its name and
  ends: one less of each.  It is a count and not a correspondence, because with restarts
  nodes are freed by other runs' threads.

* `ColaComoLoQueSeDebe`: `Spec => []ColaAlDia`.  Besides `Presencia`: while no thread has
  worked on another run's node, a node in the list is served by the thread that allocated
  it, whose queue was empty when it entered (`Servidas`), and the requests, the work, the answers and the thread's last pop
  make up its queue, part by part (`Colas`).  Each step moves the head of a part to the end
  of the next, or takes the first of all.
* `BloqueadoYAtendido`: `Spec => []BloqueadoPorAlguien`.  Who is blocked is owed an answer by
  the connection it was sent to (`Debida`, which is `Espera` the other way round); that it
  is in one place only is `UnaVez`, counted over the parts of `EnCurso` one behind the
  other (`CuentaUna` of `ListasProofs`).

Of `CicloDeInstruccion`, for any number of processes, page tables that share no frame, any
set of interfaces, any widths, texts, file sizes and scripts, three theorems of the form
`Spec /\ []EnSuEspacio => []P`, and the refinement, further on:

* `PedidosLlegan`: `LlegaLoPedido`.  `CadaUnoLoSuyo`: `SoloSuMemoria`.
* `SaleLoEscrito`: `SalidaAlDia`.

Their hypotheses are about the programs and the clock (last section of the module):

* `~InterrumpeLlamadas`: the quantum does not end between the reason of an I/O instruction
  and its request.  Run DireccionesViejas is what happens when it does.
* `PidenLoQueHay`: an instruction that carries addresses is asked of an interface that is
  there and can do it.  A request that is refused leaves its addresses in the kernel's list
  for whoever comes next (section 6).  IO_GEN_SLEEP, IO_FS_CREATE, IO_FS_DELETE and IO_FS_TRUNCATE
  may be asked of anybody.
* `EnSuEspacio`, of each state: the instruction about to be executed uses addresses within
  the pages of its process.  A hypothesis of the behaviour and not of the scripts, because
  addresses are computed in registers and read from memory.

The instance of run CicloDeInstruccion satisfies them: `ProgramasValidos` in
`MCCicloDeInstruccion` is evaluated there, and an access out of the pages would apply
`Marcos[p]` out of its domain, which TLC reports.

None of the three properties is inductive.  `InvCiclo` follows a request along its way:

* `Prestado`: the process on the CPU is in one place, with the reason it comes back for;
  the packet of an I/O is the one its pcb and its request make.  That is where
  `~InterrumpeLlamadas` is used: with the reason changed by an interrupt the packet and the
  reason part.
* `Turnos`: who is blocked is not ready or running, so that its request (`pedido`) does not
  change while it waits; the kernel's list of addresses is empty between answers.
* `Pedidos`: for each interface, the requests in front of it, the one it works on and the
  answers behind it (`Camino`) name processes that wait for it, each once, and carry what
  they asked for (`Fiel`).
* `Conexion`: the CPU's connection with memory holds the writes nobody answers and, behind
  them, at most one request that is, which the CPU waits for; what comes back for a fetch is an
  instruction of the process's program.

The serialisers are part of it: `LeeDelCPU`, `LeeDelKernel`, `LeeMovOut` and `LeeCopyString`
say, packet by packet, that what each reader takes is what its writer put.  `Traducido`: the
fragments of an access within the process's pages are of those pages (`De`).

`InvSalida` adds `Escrituras`, that every write on its way, in the socket or half done by a
COPY_STRING, is of a process that waits for no interface, and `Lecturas`, that an interface
waits for one answer, to the addresses it is working on.  `Escrituras` rests on the order of
one socket: once the CPU has the instruction that asks for I/O, memory has served all that
was in front of that fetch (`TrasSusEscrituras => SinEscrituras`).  The property follows
because writes of other processes do not touch the bytes (`AplicaLejos`, `NadaEnComun`): the
induction along the queue of `MemoriaFutura` is on the length of a prefix
(`MemoriaDeQuienEspera`).

`MaquinaPropia`: `Spec /\ []EnSuEspacio /\ []EnSuArchivo => CadaUnoSuMaquina`, the
refinement of `Maquina`.  It asks two things more, which the same instance satisfies:
`BienEscritos`, that a script writes numbers and registers where its instructions take
them, data registers (AX to DX, EAX to EDX) in MOV_IN and MOV_OUT, whose width is −1 for SI,
DI and PC (`obtener_tamanio_registro`), and is shorter than what the PC can count (evaluated with `ProgramasValidos`), and
`EnSuArchivo`, that a read of the file is not longer than the file (a longer one would make
TLC apply the file out of its domain).  Of the constants, `ConstantesMaquina` asks that the
pages of a process have different frames, and `PotenciasDeByte` states that the powers of
`BYTE` are numbers, which is true and the provers do not compute.

* The mapping.  `Tras(base, q)` is memory after the requests of a queue, `MemoriaFutura` that of
  the CPU's queue.  `EspacioEn(mem, p)` is process p's bytes in a memory; `LeeEspacio` and
  `EscribeEspacio` say that reading or writing the fragments that `traducir_direccion` cuts
  is reading or writing those bytes one behind the other.  `Iguales(x, y, p)`, two memories
  that agree on p's pages, is kept by whatever arrives (`TrasIguales`), because what is on
  its way goes from pages of one process to pages of the same (`DeUno`).
* The steps (`IdealPaso`).  An arithmetic instruction is a step of `Maquina` when the CPU
  executes it; MOV_OUT and COPY_STRING when the CPU *sends* them, an I/O instruction when it
  is asked for; MOV_IN when memory *serves* it, because until then an input may still change
  what it will read; an end, when the kernel takes it; an input, when memory writes it, which
  changes the bytes of its process and nobody else's (`EspacioEntrada`).  Everything else is
  a stutter: memory serving a write moves it from the queue to the bytes, and `MemoriaFutura`
  counted it already (`EspacioDeMemoria`); a context switch moves the registers between the
  CPU and the PCB (`VolverIgual`).
* The invariant is `InvMaquina == InvSalida /\ Rumbo /\ Vivos /\ Numeros /\ Pendientes`.
  `Rumbo`: where the CPU is in its program, that is, which instruction each request and
  answer is about; who comes back to wait for an interface has executed an I/O instruction and who comes
  back to end has an EXIT in front.  `Vivos`: who has ended is nowhere else.
  `Numeros`: registers, bytes and the data of the packets are numbers.  `Pendientes`: the
  inputs on their way to a process (`Fichas`: the one it waits for and those that are in
  memory's queues) are no more than `entradas` counts, so that when bytes arrive the
  machine has an input pending.  They are counted with an injection (`Caben`), which each
  step extends, narrows or permutes; a cardinality would be an induction each time.

`ListasProofs` states once what removing, appending and taking the head of a list do to its
type, length and elements, how many times an element is in it (`Cuantas`), and what
`SumFunction` is: a sum changes by the term that changes (`SumaCambia`), is that of a part
and a term (`SumaSinUno`), covers each term (`SumaCubre`).  Those facts would be inductions
over finite sets; the fold's own definition gives the sum of all but one element, and the
argument by the least cardinal for which the fact fails does the rest.

Only model-checked:

* liveness under fairness and ENABLED, out of the prover's reach: `AdmiteSiHayCupo`,
  `ListoEjecuta`, `SiempreVuelve`, the `Contesta` of `Memoria` and of `Interfaces`,
  `Termina`;
* what recursive functions compute for every input, where it would need an induction over
  data with an operator as a parameter.

## 6. Disagreements between the code and what it says

Each has a run TLC finds violated by the behaviour of the code and an entry under
`findings` in `PROJECT.json` with the quoted line.

| Run | Property | What happens |
|---|---|---|
| ProcesoPerdido | `MotivoConocido` | the flag of an interrupt is raised before its reason is written: the CPU may return the process with no reason, and no queue receives it |
| DireccionesViejas | `SoloSuMemoria` | the end of the quantum comes between the reason of an I/O instruction and its request: `desalojo_cpu` makes the process ready and forgets the request, but the addresses the reader appended to `direcciones_fisicas` stay, and the next process's I/O reads or writes them too |

Others were met while modelling and have no run of their own; each is a behaviour
of the models, or the reason for a bound, as said.

Scheduler (`Planificador`, `UsoRecursos`):

* A process killed while blocked in an I/O is finished by the console
  (`consola.c:262`) and again at the end of its I/O (`comunicaciones.c:70-73`): its
  slot comes back twice and the degree of multiprogramming is exceeded.
* FINALIZAR_PROCESO reads `estado` again after the removal (`consola.c:252`): a process the
  long-term scheduler has popped and not yet made ready looks NUEVO, is ended as one that
  holds no slot, and the slot it was admitted with never comes back (`perdidos`).
* `iniciar_planificadores` posts the planners' semaphores (`planificador.c:391-393`)
  before it clears `PLANIFICACION_DETENIDA` (396): the short-term scheduler can run
  a round in between, see the flag and sleep on a semaphore nobody posts.
* `detener_planificadores` waits for a token it has read (365); after a resume the
  short-term scheduler may take it: the thread sleeps with one planner drained and
  the flag unset, and INICIAR_PLANIFICACION refuses to resume.
* Nothing keeps the operator from typing DETENER_PLANIFICACION or INICIAR_PLANIFICACION
  again while the thread of the first is under way.  With two threads of either kind, and
  also when a FINALIZAR_PROCESO takes a process from READY and leaves its token, TLC finds
  `DetencionEfectiva` violated: a scheduler that was stopped dispatches.
* `liberar_recursos` (702) walks by index a list that shrinks: every second resource of
  a finished process stays assigned.
* `liberar_recurso` (691) wakes the first waiter without giving it the instance: the
  next WAIT takes it and two processes use a resource of one instance.
* WAIT or SIGNAL on an unknown resource dereferences NULL in the trace at line 632,
  before the branch that handles it (`DesalojoRecursoInexistente`, in run Finalizar).

Dispatch (`Despacho`): the pid of an interrupt is never looked at.  The interrupt of
one process may reach the next, which leaves the CPU for a reason that is not its
own; a FINALIZAR_PROCESO may be overwritten by the reason of the instruction under
way.  This is what `interferida` excludes from `PedidoAtendido`.

Interfaces (`Interfaces`):

* Two connections that start at once share `interfaz_aux`: one thread's name is
  written in the other's node, one node enters the list twice and the other never, and
  its requests go to the wrong program (`pisado`).
* Nobody clears the queue of an interface that leaves: the node is freed with the
  processes in it, which stay blocked (`comunicaciones.c:46-49`).
* `ejecutar_intruccion_io` uses the node it found after another thread may have freed it
  (`BloquearLiberado`, `EnviarPerdido`), and a `send` to a program that has gone is lost
  or kills the kernel with SIGPIPE.
* An interface that is started again before the kernel has handled the last messages of
  its earlier run has two nodes with one name: an end of I/O unblocks its process and pops
  the queue of the first node of the name (`comunicaciones.c:61-68`), a disconnection
  frees it (`comunicaciones.c:49`, 233), and it may be the other run's (`cruzado`); it may
  do so between the search and the pop, which share no lock (`colgado`).
* DESCONEXION compares names ignoring case, the lookup does not; the model's names differ
  in more than their case.

I/O and the instruction cycle (`CicloDeInstruccion`, `Mensajes`):

* `direcciones_fisicas` is left dirty also by a request that is refused for a missing
  interface or one of another type (`RechazarIO`).  The run's programs that ask for such
  an interface ask for IO_GEN_SLEEP, which carries no addresses.
* The pointer of IO_FS_WRITE and IO_FS_READ is never read from its register: the name of
  the register travels as text and the interface takes its `atoi`, which is 0 for any
  name (`Atoi`; the scripts `script_dialfs` and `script_dialfs_1` name EDX).
* What STDIN and IO_FS_READ write to memory is not acknowledged: the process may be made
  ready, and end, before memory has it.  `Maquina` promises no more (`Entrada`).
* Data read from or written to memory by an interface ends at its first zero byte, since
  the messages are built with `strlen` (`HastaCero`).
* `obtener_tamanio_registro` is −1 for SI, DI and PC, which MOV_IN and MOV_OUT take for the
  number of bytes: the programs move data registers only (`BienEscritos`).
* A write in a file is not bounded by the size of the file.

Memory (`Memoria`, `Traduccion`):

* Both branches of RESIZE count the pages of the difference in bytes
  (`manejo_memoria.c:128`; the comment at 119-120 says the pages that are left over are
  freed): from 4 bytes to 3, with pages of 2, a page in use is freed, and the next access
  to it uses a NULL page.  The instances' sizes are multiples of the page.
* `proceso_memoria` is shared by the threads of the kernel and of the CPU: a request
  taken up between the assignment and the use works on the other's process
  (`mezclado`).
* `liberar_estructura_proceso_memoria` removes from `procesos_totales` without the mutex
  under which the CPU's thread walks it (`manejo_memoria.c:30`, `utils_memoria.c:62`).
* A process that FINALIZAR_PROCESO found LISTO may be dispatched before it is finished:
  memory frees it while the CPU executes it, and its next request is dropped or uses freed
  memory (`MatarProceso`).
* INICIALIZAR_PROCESO is not acknowledged (the note at `planificador.c:479` says it
  should be): the CPU's first request may arrive before the process is known, and is
  never answered (`PedidoDesconocido`).
* The TLB is never invalidated: with `PuedeEncoger` TRUE and sizes of one and two pages
  TLC finds `TLBAlDia` violated, a page given back and taken again with another frame.

DialFS:

* TRUNCATE without space returns without answering (`instrucciones_io.c:338-348`),
  although the comment at 193 says it tells: the kernel keeps the process blocked
  (`TruncarSinLugar`).
* The search for room behind a file (`dialfs.c:520`) starts one block too far, though the
  comment at 510 says it looks from the block after the file: a growing file takes the
  first block of its neighbour, and the model stops there.
* Growth in place may run past the end of the disk, since the bits there read as
  zero; a truncation to 0 bytes frees the only block of a file that still counts
  one; compaction puts empty files on the first block of the next one, and marks in
  the bitmap the blocks of the sum of the sizes, fewer than the files occupy when
  their last blocks are not full.  All of these end in states that are not `Sano`.
* CREATE on a full disk leaves a metadata file with no keys, and the next operation
  on it, or the next start, reads a key that is not there (`UsarSinClaves`,
  `Reiniciar`).
* `DIALFS.config` has BLOCK_COUNT=15 and the bitmap BLOCK_COUNT / 8 = 1 byte; the model
  assumes a multiple of 8 (`ConstantesDialFS`).

## 7. What is not modelled, and why

* Logging, configuration, the text of the console's messages, script parsing and the
  bytes of a field of a message: no property is about them.  The fields and their order
  are modelled.
* Process contents in the scheduler: the reason of the return is all it looks at.  They
  are in `CicloDeInstruccion`, whose kernel is a queue and the globals of the I/O requests.
* RESIZE, the TLB and the growth of the page tables in `CicloDeInstruccion` (they are in
  `Memoria` and `Traduccion`), FINALIZAR_PROCESO during an I/O in `Interfaces` (it is in
  `Planificador`), a truncation without space in both (it is in `DialFS`).
* Sockets: TCP delivers in order and without loss on a connection; a broken
  connection ends the program that notices it, and nothing is retried.
* `pcb_ejecutandose` read twice by the console while the scheduler clears it
  (`consola.c:214`): what the two reads yield is the build's choice; the model
  reads it once.
* An interface killed in the middle of a DialFS handler: the handlers write bitmap,
  blocks and metadata one after the other and promise nothing about it.
* Requests for DialFS files that nobody created, and accesses of a program outside its
  size.

## 8. Plan

In this order; each module is written to be proved about as well as checked
(constants with named assumptions, one action per operation, invariants as
conjunctions of named parts, no RECURSIVE operator).

1. `Planificador`, `UsoRecursos`: done, with ten theorems.
2. `Despacho`, refining `Prestamo`: done, with four theorems.
3. `Memoria`: done, with six theorems.
4. `Traduccion`, refining `EspacioLogico`: done, with two theorems.
5. `DialFS`: done, with five theorems.
6. `Interfaces`: done, with five theorems.
7. `Registros`, `Mensajes` and `CicloDeInstruccion`, refining `Maquina`: done, with four
   theorems.

A module still worth adding is the five-state life cycle with the degree and a single
running process, as an abstract specification of `Planificador`.
