------------------------------ MODULE Memoria ------------------------------
(***************************************************************************)
(* The memory server: frames, page tables and the requests of the kernel   *)
(* and of the CPU, each served by a thread of its own.                     *)
(*                                                                         *)
(* Both threads put the process a request is about in the same global,     *)
(* proceso_memoria, and read it back; nothing guards that global, nor      *)
(* marcosPaginas, nor the page tables.  A handler is cut there, and at each *)
(* turn of the loops that take and give back frames.                       *)
(*                                                                         *)
(* Two races the code runs are taken as far as their outcomes: the thread   *)
(* of the kernel removes a process from procesos_totales with no lock,     *)
(* also while the other thread is searching that list, and the kernel may  *)
(* finish a process that the CPU is executing.                             *)
(*                                                                         *)
(* A t_proceso_memoria is named by its pid: the kernel creates each pid    *)
(* once.  Scripts and the bytes of memoriaUsuario are left out (the bytes  *)
(* are in Traduccion).                                                     *)
(***************************************************************************)
EXTENDS Integers, FiniteSets, SequencesExt

CONSTANTS
  Pids,
  NULL,         \* no process; -1 in t_marco.pid
  CANT_MARCOS,  \* TAM_MEMORIA / TAM_PAGINA
  TAM_PAGINA,
  Tamanios      \* the sizes programs ask RESIZE for

ASSUME ConstantesMemoria ==
  /\ NULL \notin Pids
  /\ CANT_MARCOS \in Nat /\ TAM_PAGINA \in Nat \ {0}
  /\ Tamanios \subseteq Nat

VARIABLES
  marcos,           \* marcosPaginas: owner of each frame
  struct,           \* state of each t_proceso_memoria
  tabla, tamanio,   \* its tabla_paginas and tamanio
  procesos_totales,
  proceso_memoria,  \* the global
  kernel,           \* requests on the kernel's connection
  vida,             \* what the kernel made of each process
  hiloKernel,       \* thread of the kernel's connection
  cpu,              \* what the CPU executes, and its request under way
  hiloCPU,          \* thread of the CPU's connection
  mezclado,         \* history: the threads were both at proceso_memoria or at procesos_totales,
                    \* or the kernel finished a process it has dispatched
  caida             \* why the server is gone: "no", "liberado", "sin_marco", "sin_pagina", "sin_tabla"

paginas == <<marcos, struct, tabla, tamanio, procesos_totales>>
vars == <<paginas, proceso_memoria, kernel, vida, hiloKernel, cpu, hiloCPU, mezclado, caida>>

Marcos == 0 .. CANT_MARCOS - 1
Libres == {m \in Marcos : marcos[m] = NULL}

\* Pages for n bytes (the division both resizes do by hand).
Paginas(n) == (n + TAM_PAGINA - 1) \div TAM_PAGINA

HiloEnRecv == [pc |-> "recv", pid |-> NULL, restan |-> 0]
CPULibre == [pc |-> "libre", pid |-> NULL, op |-> "INSTRUCCION", arg |-> 0]

Init ==
  /\ marcos = [m \in Marcos |-> NULL]
  /\ struct = [p \in Pids |-> "no"]
  /\ tabla = [p \in Pids |-> <<>>] /\ tamanio = [p \in Pids |-> 0]
  /\ procesos_totales = <<>>
  /\ proceso_memoria = NULL
  /\ kernel = <<>> /\ vida = [p \in Pids |-> "no"]
  /\ hiloKernel = [pc |-> "recv", pid |-> NULL]
  /\ cpu = CPULibre
  /\ hiloCPU = HiloEnRecv
  /\ mezclado = FALSE /\ caida = "no"

Vivo == caida = "no"

-----------------------------------------------------------------------------
(* The clients.                                                             *)

ClienteQuieto == UNCHANGED <<paginas, proceso_memoria, hiloKernel, hiloCPU, mezclado, caida>>

\* enviar_proceso_a_memoria (nobody waits for an answer)
CrearProceso(p) ==
  /\ Vivo /\ vida[p] = "no"
  /\ vida' = [vida EXCEPT ![p] = "creado"]
  /\ kernel' = Append(kernel, [op |-> "INICIALIZAR_PROCESO", pid |-> p])
  /\ UNCHANGED cpu /\ ClienteQuieto

\* finalizar_proceso, of a process the CPU has given back
TerminarProceso(p) ==
  /\ Vivo /\ vida[p] \in {"creado", "matado", "sin_memoria"} /\ cpu.pid # p
  /\ vida' = [vida EXCEPT ![p] = "fin"]
  /\ kernel' = Append(kernel, [op |-> "FINALIZAR_PROCESO", pid |-> p])
  /\ UNCHANGED cpu /\ ClienteQuieto

\* finalizar_proceso_consola, that found p LISTO as the short-term scheduler was
\* taking it: p is finished and dispatched all the same.
MatarProceso(p) ==
  /\ Vivo /\ vida[p] = "creado"
  /\ vida' = [vida EXCEPT ![p] = "matado"]
  /\ kernel' = Append(kernel, [op |-> "FINALIZAR_PROCESO", pid |-> p])
  /\ mezclado' = TRUE
  /\ UNCHANGED <<paginas, proceso_memoria, hiloKernel, cpu, hiloCPU, caida>>

\* fetch, of the process the kernel dispatched
PedirInstruccion(p) ==
  /\ Vivo /\ cpu.pc = "libre" /\ vida[p] \in {"creado", "matado"}
  /\ cpu' = [pc |-> "espera", pid |-> p, op |-> "INSTRUCCION", arg |-> 0]
  /\ UNCHANGED <<kernel, vida>> /\ ClienteQuieto

\* An instruction that asks nothing of memory, or the return of the process.
SinPedido ==
  /\ Vivo /\ cpu.pc = "ejecutar"
  /\ cpu' = CPULibre
  /\ UNCHANGED <<kernel, vida>> /\ ClienteQuieto

\* _resize
PedirResize(t) ==
  /\ Vivo /\ cpu.pc = "ejecutar"
  /\ cpu' = [cpu EXCEPT !.pc = "espera", !.op = "RESIZE", !.arg = t]
  /\ UNCHANGED <<kernel, vida>> /\ ClienteQuieto

\* traducir_direccion asks for the frame of a page, by a program that stays
\* within the size it was given.
PedirMarco(n) ==
  /\ Vivo /\ cpu.pc = "ejecutar" /\ n * TAM_PAGINA < tamanio[cpu.pid]
  /\ cpu' = [cpu EXCEPT !.pc = "espera", !.op = "MARCO", !.arg = n]
  /\ UNCHANGED <<kernel, vida>> /\ ClienteQuieto

-----------------------------------------------------------------------------
(* Thread of the kernel's connection.                                       *)

\* obtener_proceso_pid
Obtener(p) == IF p \in Range(procesos_totales) THEN p ELSE NULL

Caer(causa) == /\ caida' = causa
               /\ UNCHANGED <<paginas, proceso_memoria, kernel, vida, hiloKernel, cpu, hiloCPU, mezclado>>

HiloKernelQuieto == UNCHANGED <<vida, cpu, hiloCPU, caida>>

\* The CPU's thread may be between obtener_proceso_pid and the use of its result.
MezclarConCPU == mezclado' = (mezclado \/ hiloCPU.pc = "usar")

\* case INICIALIZAR_PROCESO: recibir_proceso_memoria
RecibirInicializar ==
  /\ Vivo /\ hiloKernel.pc = "recv" /\ kernel # <<>> /\ Head(kernel).op = "INICIALIZAR_PROCESO"
  /\ MezclarConCPU
  /\ kernel' = Tail(kernel)
  /\ proceso_memoria' = Head(kernel).pid
  /\ struct' = [struct EXCEPT ![Head(kernel).pid] = "nuevo"]
  /\ hiloKernel' = [pc |-> "path", pid |-> NULL]
  /\ UNCHANGED <<marcos, tabla, tamanio, procesos_totales>> /\ HiloKernelQuieto

\* iniciar_proceso_path(proceso_memoria): whichever process the global names now
IniciarPath ==
  /\ Vivo /\ hiloKernel.pc = "path"
  /\ IF proceso_memoria = NULL \/ struct[proceso_memoria] = "libre"
     THEN Caer("liberado")
     ELSE /\ procesos_totales' = Append(procesos_totales, proceso_memoria)
          /\ hiloKernel' = [pc |-> "estructura", pid |-> proceso_memoria]
          /\ UNCHANGED <<marcos, struct, tabla, tamanio, proceso_memoria, kernel, mezclado>>
          /\ HiloKernelQuieto

\* iniciar_estructura_proceso_memoria, and the assignment of what was returned
IniciarEstructura ==
  /\ Vivo /\ hiloKernel.pc = "estructura" /\ MezclarConCPU
  /\ tabla' = [tabla EXCEPT ![hiloKernel.pid] = <<>>]
  /\ tamanio' = [tamanio EXCEPT ![hiloKernel.pid] = 0]
  /\ struct' = [struct EXCEPT ![hiloKernel.pid] = "listo"]
  /\ proceso_memoria' = hiloKernel.pid
  /\ hiloKernel' = [pc |-> "recv", pid |-> NULL]
  /\ UNCHANGED <<marcos, procesos_totales, kernel>> /\ HiloKernelQuieto

\* case FINALIZAR_PROCESO: obtener_proceso_pid
RecibirFinalizar ==
  /\ Vivo /\ hiloKernel.pc = "recv" /\ kernel # <<>> /\ Head(kernel).op = "FINALIZAR_PROCESO"
  /\ MezclarConCPU
  /\ kernel' = Tail(kernel)
  /\ proceso_memoria' = Obtener(Head(kernel).pid)
  /\ hiloKernel' = [pc |-> "finalizar", pid |-> NULL]
  /\ UNCHANGED paginas /\ HiloKernelQuieto

\* A process that was added twice and freed once is still in the list: a search
\* reads freed memory, and may or may not survive it.  So does the search that was
\* going through the list when a node of it was freed.
BuscarLiberado ==
  /\ Vivo
  /\ \/ /\ \E p \in Range(procesos_totales) : struct[p] = "libre"
        /\ \/ hiloKernel.pc = "recv" /\ kernel # <<>> /\ Head(kernel).op = "FINALIZAR_PROCESO"
           \/ hiloCPU.pc = "buscar"
     \/ hiloCPU.pc = "roto"
  /\ Caer("liberado")

\* liberar_estructura_proceso_memoria(proceso_memoria), or nothing for NULL
Liberar ==
  /\ Vivo /\ hiloKernel.pc = "finalizar"
  /\ IF proceso_memoria # NULL /\ struct[proceso_memoria] # "listo"
     THEN Caer("liberado")
     ELSE /\ hiloKernel' = IF proceso_memoria = NULL THEN [pc |-> "recv", pid |-> NULL]
                           ELSE [pc |-> "liberando", pid |-> proceso_memoria]
          /\ UNCHANGED <<paginas, proceso_memoria, kernel, mezclado>> /\ HiloKernelQuieto

\* Mutant: the page leaves the table and its frame is not freed.
LiberarPagina_SinLiberar ==
  /\ Vivo /\ hiloKernel.pc = "liberando" /\ tabla[hiloKernel.pid] # <<>>
  /\ tabla' = [tabla EXCEPT ![hiloKernel.pid] = Tail(@)]
  /\ UNCHANGED <<marcos, struct, tamanio, procesos_totales, proceso_memoria, kernel, hiloKernel, mezclado>>
  /\ HiloKernelQuieto

\* One turn of its loop: the first page of the table.
LiberarPagina ==
  /\ Vivo /\ hiloKernel.pc = "liberando" /\ tabla[hiloKernel.pid] # <<>>
  /\ marcos' = [marcos EXCEPT ![Head(tabla[hiloKernel.pid])] = NULL]
  /\ tabla' = [tabla EXCEPT ![hiloKernel.pid] = Tail(@)]
  /\ UNCHANGED <<struct, tamanio, procesos_totales, proceso_memoria, kernel, hiloKernel, mezclado>>
  /\ HiloKernelQuieto

\* The process leaves the list, without mutex_procesos, and is freed: a search the
\* other thread has begun may be standing on it.
LiberarFin ==
  /\ Vivo /\ hiloKernel.pc = "liberando" /\ tabla[hiloKernel.pid] = <<>>
  /\ procesos_totales' = RemoveFirst(procesos_totales, hiloKernel.pid)
  /\ struct' = [struct EXCEPT ![hiloKernel.pid] = "libre"]
  /\ hiloKernel' = [pc |-> "recv", pid |-> NULL]
  /\ hiloCPU' = [hiloCPU EXCEPT !.pc = IF @ = "buscar" THEN "roto" ELSE @]
  /\ mezclado' = (mezclado \/ hiloCPU.pc = "buscar")
  /\ UNCHANGED <<marcos, tabla, tamanio, proceso_memoria, kernel, vida, cpu, caida>>

-----------------------------------------------------------------------------
(* Thread of the CPU's connection.                                          *)

HiloCPUQuieto == UNCHANGED <<kernel, hiloKernel, mezclado, caida>>

\* PEDIDO_INSTRUCCION, PEDIDO_RESIZE and PEDIDO_MARCO: the search begins.
RecibirPedido ==
  /\ Vivo /\ hiloCPU.pc = "recv" /\ cpu.pc = "espera"
  /\ hiloCPU' = [hiloCPU EXCEPT !.pc = "buscar"]
  /\ UNCHANGED <<paginas, proceso_memoria, vida, cpu>> /\ HiloCPUQuieto

\* What the search can find; one that lost its place may end early, or find what
\* has just been freed.
Encontrados ==
  IF hiloCPU.pc = "buscar" THEN {Obtener(cpu.pid)}
  ELSE {NULL, Obtener(cpu.pid)} \cup {p \in {cpu.pid} : struct[p] = "libre"}

\* The assignment of what obtener_proceso_pid returns
BuscarProceso ==
  /\ Vivo /\ hiloCPU.pc \in {"buscar", "roto"}
  /\ mezclado' = (mezclado \/ hiloKernel.pc \in {"path", "estructura", "finalizar"})
  /\ proceso_memoria' \in Encontrados
  /\ hiloCPU' = [hiloCPU EXCEPT !.pc = "usar"]
  /\ UNCHANGED <<paginas, kernel, hiloKernel, vida, cpu, caida>>

\* The CPU gets its answer: the instruction to execute, or that it is done.
ContestarInstruccion == cpu' = [cpu EXCEPT !.pc = "ejecutar"] /\ hiloCPU' = HiloEnRecv
ContestarResize == cpu' = CPULibre /\ hiloCPU' = HiloEnRecv

\* No process: the error is logged and nobody answers the CPU.
PedidoDesconocido ==
  /\ Vivo /\ hiloCPU.pc = "usar" /\ proceso_memoria = NULL
  /\ hiloCPU' = [hiloCPU EXCEPT !.pc = "mudo"]
  /\ UNCHANGED <<paginas, proceso_memoria, vida, cpu>> /\ HiloCPUQuieto

PedidoLiberado ==
  /\ Vivo /\ hiloCPU.pc = "usar" /\ proceso_memoria # NULL
  /\ struct[proceso_memoria] # "listo" /\ (cpu.op = "INSTRUCCION" => struct[proceso_memoria] = "libre")
  /\ Caer(IF struct[proceso_memoria] = "libre" THEN "liberado" ELSE "sin_tabla")

Usar(op) == /\ Vivo /\ hiloCPU.pc = "usar" /\ cpu.op = op /\ proceso_memoria # NULL
            /\ struct[proceso_memoria] = "listo" \/ (op = "INSTRUCCION" /\ struct[proceso_memoria] = "nuevo")

PedidoInstruccion ==
  /\ Usar("INSTRUCCION")
  /\ ContestarInstruccion
  /\ UNCHANGED <<paginas, proceso_memoria, vida>> /\ HiloCPUQuieto

\* obtener_marco_de_pagina
PedidoMarco ==
  /\ Usar("MARCO")
  /\ IF cpu.arg >= Len(tabla[proceso_memoria]) THEN Caer("sin_pagina")
     ELSE /\ cpu' = [cpu EXCEPT !.pc = "ejecutar", !.arg = tabla[proceso_memoria][cpu.arg + 1]]
          /\ hiloCPU' = HiloEnRecv
          /\ UNCHANGED <<paginas, proceso_memoria, vida>> /\ HiloCPUQuieto

\* Mutant: MISMO_TAMANIO is not sent.
ResizeIgual_SinRespuesta ==
  /\ Usar("RESIZE") /\ cpu.arg = tamanio[proceso_memoria]
  /\ hiloCPU' = HiloEnRecv
  /\ UNCHANGED <<paginas, proceso_memoria, vida, cpu>> /\ HiloCPUQuieto

\* resize_proceso_memoria for the size the process has
ResizeIgual ==
  /\ Usar("RESIZE") /\ cpu.arg = tamanio[proceso_memoria]
  /\ ContestarResize
  /\ UNCHANGED <<paginas, proceso_memoria, vida>> /\ HiloCPUQuieto

\* aumentar_tamanio_proceso_memoria: the frames are counted, then taken one by one.
Aumento == Paginas(cpu.arg - tamanio[proceso_memoria])

\* Mutant: the frames are not counted first.
ResizeAumentar_SinContar ==
  /\ Usar("RESIZE") /\ cpu.arg > tamanio[proceso_memoria]
  /\ hiloCPU' = [pc |-> "tomar", pid |-> proceso_memoria, restan |-> Aumento]
  /\ UNCHANGED <<paginas, proceso_memoria, vida, cpu>> /\ HiloCPUQuieto

ResizeAumentar ==
  /\ Usar("RESIZE") /\ cpu.arg > tamanio[proceso_memoria]
  /\ Cardinality(Libres) >= Aumento
  /\ hiloCPU' = [pc |-> "tomar", pid |-> proceso_memoria, restan |-> Aumento]
  /\ UNCHANGED <<paginas, proceso_memoria, vida, cpu>> /\ HiloCPUQuieto

\* OUT_OF_MEMORY: _resize ends the process.
ResizeSinMemoria ==
  /\ Usar("RESIZE") /\ cpu.arg > tamanio[proceso_memoria]
  /\ Cardinality(Libres) < Aumento
  /\ vida' = [vida EXCEPT ![cpu.pid] = "sin_memoria"]
  /\ ContestarResize
  /\ UNCHANGED <<paginas, proceso_memoria>> /\ HiloCPUQuieto

\* Mutant: the index at which the search ended, had it found nothing.
PrimerLibre_FinDelCiclo == CANT_MARCOS

\* obtener_nro_marco_disponible: the first free frame
PrimerLibre == CHOOSE m \in Libres : \A n \in Libres : m <= n

TomarMarco ==
  /\ Vivo /\ hiloCPU.pc = "tomar" /\ hiloCPU.restan > 0
  /\ IF struct[hiloCPU.pid] = "libre" THEN Caer("liberado")
     ELSE IF Libres = {} THEN Caer("sin_marco")
     ELSE /\ marcos' = [marcos EXCEPT ![PrimerLibre] = hiloCPU.pid]
          /\ tabla' = [tabla EXCEPT ![hiloCPU.pid] = Append(@, PrimerLibre)]
          /\ hiloCPU' = [hiloCPU EXCEPT !.restan = @ - 1]
          /\ UNCHANGED <<struct, tamanio, procesos_totales, proceso_memoria, vida, cpu>>
          /\ HiloCPUQuieto

\* Mutant: one turn too many.
ResizeDisminuir_UnaMas ==
  /\ Usar("RESIZE") /\ cpu.arg < tamanio[proceso_memoria]
  /\ hiloCPU' = [pc |-> "soltar", pid |-> proceso_memoria,
                 restan |-> Paginas(tamanio[proceso_memoria] - cpu.arg) + 1]
  /\ UNCHANGED <<paginas, proceso_memoria, vida, cpu>> /\ HiloCPUQuieto

\* Mutant: the pages that remain are counted, not those that go.
ResizeDisminuir_PaginasNuevas ==
  /\ Usar("RESIZE") /\ cpu.arg < tamanio[proceso_memoria]
  /\ hiloCPU' = [pc |-> "soltar", pid |-> proceso_memoria, restan |-> Paginas(cpu.arg)]
  /\ UNCHANGED <<paginas, proceso_memoria, vida, cpu>> /\ HiloCPUQuieto

\* disminuir_tamanio_proceso_memoria counts the pages of the difference.
ResizeDisminuir ==
  /\ Usar("RESIZE") /\ cpu.arg < tamanio[proceso_memoria]
  /\ hiloCPU' = [pc |-> "soltar", pid |-> proceso_memoria,
                 restan |-> Paginas(tamanio[proceso_memoria] - cpu.arg)]
  /\ UNCHANGED <<paginas, proceso_memoria, vida, cpu>> /\ HiloCPUQuieto

Ultimo(s) == s[Len(s)]
\* Mutant: the first element is dropped.
Anteriores_Primero(s) == Tail(s)

Anteriores(s) == SubSeq(s, 1, Len(s) - 1)

SoltarMarco ==
  /\ Vivo /\ hiloCPU.pc = "soltar" /\ hiloCPU.restan > 0
  /\ IF struct[hiloCPU.pid] = "libre" THEN Caer("liberado")
     ELSE IF tabla[hiloCPU.pid] = <<>> THEN Caer("sin_pagina")
     ELSE /\ marcos' = [marcos EXCEPT ![Ultimo(tabla[hiloCPU.pid])] = NULL]
          /\ tabla' = [tabla EXCEPT ![hiloCPU.pid] = Anteriores(@)]
          /\ hiloCPU' = [hiloCPU EXCEPT !.restan = @ - 1]
          /\ UNCHANGED <<struct, tamanio, procesos_totales, proceso_memoria, vida, cpu>>
          /\ HiloCPUQuieto

\* The loop is over: the size is set and the CPU is answered.
ResizeFin ==
  /\ Vivo /\ hiloCPU.pc \in {"tomar", "soltar"} /\ hiloCPU.restan = 0
  /\ IF struct[hiloCPU.pid] = "libre" THEN Caer("liberado")
     ELSE /\ tamanio' = [tamanio EXCEPT ![hiloCPU.pid] = cpu.arg]
          /\ ContestarResize
          /\ UNCHANGED <<marcos, struct, tabla, procesos_totales, proceso_memoria, vida>>
          /\ HiloCPUQuieto

-----------------------------------------------------------------------------
HiloKernel == \/ RecibirInicializar \/ IniciarPath \/ IniciarEstructura
              \/ RecibirFinalizar \/ BuscarLiberado \/ Liberar \/ LiberarPagina \/ LiberarFin
HiloCPU == \/ RecibirPedido \/ BuscarProceso \/ PedidoDesconocido \/ PedidoLiberado \/ PedidoInstruccion
           \/ PedidoMarco \/ ResizeIgual \/ ResizeAumentar \/ ResizeSinMemoria \/ TomarMarco
           \/ ResizeDisminuir \/ SoltarMarco \/ ResizeFin

Clientes == \/ \E p \in Pids : \/ CrearProceso(p) \/ TerminarProceso(p)
                                \/ MatarProceso(p) \/ PedirInstruccion(p)
            \/ SinPedido
            \/ \E t \in Tamanios : PedirResize(t)
            \/ \E n \in Marcos : PedirMarco(n)

Next == Clientes \/ HiloKernel \/ HiloCPU

Spec == Init /\ [][Next]_vars

SpecJusta == Spec /\ WF_vars(HiloKernel) /\ WF_vars(HiloCPU)

-----------------------------------------------------------------------------
(* Properties                                                                *)

\* Every variable stays in its type.
TypeOK ==
  /\ marcos \in [Marcos -> Pids \cup {NULL}]
  /\ struct \in [Pids -> {"no", "nuevo", "listo", "libre"}]
  /\ tabla \in [Pids -> Seq(Marcos)] /\ tamanio \in [Pids -> Nat]
  /\ procesos_totales \in Seq(Pids)
  /\ proceso_memoria \in Pids \cup {NULL}
  /\ kernel \in Seq([op : {"INICIALIZAR_PROCESO", "FINALIZAR_PROCESO"}, pid : Pids])
  /\ vida \in [Pids -> {"no", "creado", "matado", "sin_memoria", "fin"}]
  /\ hiloKernel \in [pc : {"recv", "path", "estructura", "finalizar", "liberando"},
                     pid : Pids \cup {NULL}]
  /\ hiloKernel.pc \in {"estructura", "liberando"} => hiloKernel.pid \in Pids
  /\ cpu \in [pc : {"libre", "espera", "ejecutar"}, pid : Pids \cup {NULL},
              op : {"INSTRUCCION", "RESIZE", "MARCO"}, arg : Nat]
  /\ cpu.pc # "libre" => cpu.pid \in Pids
  /\ hiloCPU \in [pc : {"recv", "buscar", "roto", "usar", "tomar", "soltar", "mudo"},
                  pid : Pids \cup {NULL}, restan : Nat]
  /\ hiloCPU.pc \in {"tomar", "soltar"} => hiloCPU.pid \in Pids
  /\ mezclado \in BOOLEAN
  /\ caida \in {"no", "liberado", "sin_marco", "sin_pagina", "sin_tabla"}

\* A frame is a page of one process, once, and of the process that marcosPaginas
\* says owns it, although two threads take and give back frames with no lock.
MarcoUnico ==
  \A p \in Pids : \A i \in DOMAIN tabla[p] :
    /\ marcos[tabla[p][i]] = p
    /\ \A j \in DOMAIN tabla[p] : tabla[p][i] = tabla[p][j] => i = j

\* A growth that passed the test finds the frames it counted, one turn at a time,
\* whatever the kernel's thread does meanwhile (obtener_nro_marco_disponible would
\* return -1, and list_get(marcosPaginas, -1) NULL).
SiempreHayMarco ==
  hiloCPU.pc = "tomar" => Cardinality(Libres) >= hiloCPU.restan

\* What follows is promised until one of these happens: a thread assigns
\* proceso_memoria between the other's assignment and its use (a process may then be
\* initialised twice, or the wrong one freed), a process is removed from the list
\* during the other thread's search, or the kernel finishes a process it has
\* dispatched (which memory may free under the CPU).

\* No frame is lost: one that is not free is in the table of its owner.
SinFugas == ~mezclado => \A m \in Marcos : marcos[m] # NULL => m \in Range(tabla[marcos[m]])

EnObra(p) == \/ hiloCPU.pc \in {"tomar", "soltar"} /\ hiloCPU.pid = p
             \/ hiloKernel.pc = "liberando" /\ hiloKernel.pid = p

\* The table of a process covers its size, growth after growth and cut after cut:
\* every byte within the size has a frame and no page is left over.
PaginasAlcanzan ==
  ~mezclado => \A p \in Pids : struct[p] = "listo" /\ ~EnObra(p) => Len(tabla[p]) = Paginas(tamanio[p])

\* Programs that stay within their size do not bring the server down by themselves: no
\* growth, cut or page they ask for does, whatever other processes the kernel creates
\* and ends meanwhile.
NuncaCae == ~mezclado => caida = "no"

\* A request about a process the server knows is answered, however many turns its
\* loop takes and whatever other processes the kernel creates and ends meanwhile.
Contesta == cpu.pc = "espera" /\ hiloCPU.pc = "recv" /\ cpu.pid \in Range(procesos_totales)
            ~> cpu.pc # "espera" \/ mezclado
=============================================================================
