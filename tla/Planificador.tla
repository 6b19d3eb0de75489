---------------------------- MODULE Planificador ----------------------------
(***************************************************************************)
(* The process scheduler of the kernel (kernel/src/planificador.c, the     *)
(* console commands of kernel/src/consola.c and the end-of-I/O handlers of *)
(* kernel/src/comunicaciones.c).                                           *)
(*                                                                         *)
(* Threads, as in the code: the long-term and the short-term scheduler,    *)
(* the console, one connection thread per interface, and the detached      *)
(* threads that stop and resume planning.  A thread is cut into actions at *)
(* its blocking calls (sem_wait) and wherever it reads state that another  *)
(* thread writes and acts on it later; what lies between two cuts is one   *)
(* action.                                                                 *)
(*                                                                         *)
(* The CPU is its answer: dispatch is followed by any return the CPU can   *)
(* give (Retornos).  Process data, logging and the contents of the         *)
(* requests are left out.                                                  *)
(***************************************************************************)
EXTENDS Integers, FiniteSets, SequencesExt

CONSTANTS
  MaxPid,          \* bound: how many processes the operator creates
  Recursos,        \* RECURSOS of the configuration
  Instancias,      \* INSTANCIAS_RECURSOS: instances configured for each
  Interfaces,      \* names of the connected I/O interfaces
  ALGORITMO,       \* ALGORITMO_PLANIFICACION
  GRADO,           \* GRADO_MULTIPROGRAMACION at start
  QUANTUM,         \* QUANTUM of the configuration
  MaxTiempo,       \* bound: longest CPU burst temporal_gettime reports
  Comandos,        \* console commands the operator uses
  Grados,          \* arguments the operator gives to MULTIPROGRAMACION
  Retornos,        \* the ways the CPU gives a process back
  MaxOrdenes,      \* bound: commands other than INICIAR_PROCESO
  MaxInstancias,   \* bound: instances SIGNAL raises a resource to, and WAIT gives a process
  Detenedores,     \* bound: threads running detener_planificadores
  Reanudadores,    \* bound: threads running iniciar_planificadores
  Nada             \* no resource, no command

Pids == 1 .. MaxPid
NULL == 0

TodosLosComandos == {"INICIAR_PROCESO", "FINALIZAR_PROCESO", "DETENER_PLANIFICACION",
                     "INICIAR_PLANIFICACION", "MULTIPROGRAMACION"}

\* Reasons of desalojo_cpu, split by the operation that follows.
TodosLosRetornos == {"FIN_QUANTUM", "WAIT", "SIGNAL", "IO", "IO_INVALIDA", "FINALIZACION",
                     "FINALIZACION_CONSOLA", "OUT_OF_MEMORY", "RECURSO_INEXISTENTE", "DESCONOCIDO"}

\* Threads that can run finalizar_proceso or liberar_recurso.
Hilos == {"corto", "consola"} \cup Interfaces

ASSUME ConstantesValidas ==
  /\ MaxPid \in Nat \ {0} /\ MaxOrdenes \in Nat /\ MaxInstancias \in Nat /\ MaxTiempo \in Nat
  /\ Instancias \in [Recursos -> Nat]
  /\ IsFiniteSet(Recursos) /\ Nada \notin Recursos
  /\ "corto" \notin Interfaces /\ "consola" \notin Interfaces
  /\ IsFiniteSet(Interfaces)
  /\ ALGORITMO \in {"FIFO", "RR", "VRR"}
  /\ GRADO \in Nat /\ Grados \subseteq Nat
  /\ QUANTUM \in Nat \ {0}
  /\ Comandos \subseteq TodosLosComandos
  /\ Retornos \subseteq TodosLosRetornos

VARIABLES
  pidGlobal,         \* PID_GLOBAL
  estado,            \* pcb->estado ("SIN_CREAR" before crear_pcb)
  quantum,           \* pcb->quantum
  tiempoQ,           \* pcb->tiempo_q
  squeue_new, squeue_ready, squeue_readyPlus,   \* queues served in order
  squeue_exec,       \* popped blind; holds at most the process on the CPU
  squeue_blocked,    \* a list searched by pid
  salidas,           \* how many times each process was pushed to squeue_exit
  sem,               \* the semaphores
  detenida,          \* PLANIFICACION_DETENIDA
  grado,             \* GRADO_MULTIPROGRAMACION
  instancias,        \* recurso->instancias
  colaRecurso,       \* recurso->cola_procesos_bloqueados
  asignados,         \* pcb->recursos_asignados
  colaInterfaz,      \* interfaz->cola_procesos_bloqueados
  pedidos,           \* requests sent to an interface whose end is not yet received
  pcb_ejecutandose, pcb_a_finalizar,
  interrupcion,      \* an INTERRUPCION_FINALIZACION the CPU has not consumed
  largo,             \* control point of chequear_grado_de_multiprogramacion
  pcb_a_mover,       \* its local: the process popped and not yet made ready
  corto,             \* control point and pcb of planificar_PCB_cortoPlazo
  consola,           \* control point and locals of the console thread
  hiloIO,            \* control point of each interface's connection thread
  det, rea,          \* detener_planificadores and iniciar_planificadores threads
  marco,             \* activation of finalizar_proceso / liberar_recurso per thread
  ordenes,           \* commands given so far (bounded by MaxOrdenes)
  perdidos,          \* history: slots of admitted processes ended as if they were in NEW
  caida              \* the kernel dereferenced a NULL pcb or resource

procesos   == <<estado, quantum, tiempoQ>>
colas      == <<squeue_new, squeue_ready, squeue_readyPlus, squeue_exec, squeue_blocked, salidas>>
listas     == <<squeue_ready, squeue_readyPlus>>
recursos   == <<instancias, colaRecurso, asignados>>
interfaces == <<colaInterfaz, pedidos>>
punteros   == <<pcb_ejecutandose, pcb_a_finalizar>>
control    == <<largo, pcb_a_mover, corto, consola, hiloIO, det, rea, marco>>
vars == <<pidGlobal, procesos, colas, sem, detenida, grado, recursos, interfaces, punteros,
          interrupcion, control, ordenes, perdidos, caida>>

Estados   == {"SIN_CREAR", "NUEVO", "LISTO", "EJECUTANDO", "BLOQUEADO", "FINALIZADO"}
Semaforos == {"new", "ready", "multi", "largo", "corto"}

MarcoLibre == [op |-> "libre", pid |-> NULL, i |-> 0, recurso |-> Nada, cupo |-> FALSE]
ConsolaLibre == [pc |-> "leer", pid |-> NULL, caso |-> Nada, n |-> 0]

Init ==
  /\ pidGlobal = 1
  /\ estado  = [p \in Pids |-> "SIN_CREAR"]
  /\ quantum = [p \in Pids |-> QUANTUM]
  /\ tiempoQ = [p \in Pids |-> 0]
  /\ squeue_new = <<>> /\ squeue_ready = <<>> /\ squeue_readyPlus = <<>>
  /\ squeue_exec = {} /\ squeue_blocked = {}
  /\ salidas = [p \in Pids |-> 0]
  /\ sem = [s \in Semaforos |->
              IF s = "multi" THEN GRADO ELSE IF s \in {"largo", "corto"} THEN 1 ELSE 0]
  /\ detenida = FALSE
  /\ grado = GRADO
  /\ instancias = Instancias
  /\ colaRecurso = [r \in Recursos |-> <<>>]
  /\ asignados = [p \in Pids |-> <<>>]
  /\ colaInterfaz = [i \in Interfaces |-> <<>>]
  /\ pedidos = [i \in Interfaces |-> <<>>]
  /\ pcb_ejecutandose = NULL /\ pcb_a_finalizar = NULL
  /\ interrupcion = FALSE
  /\ largo = "semNew" /\ pcb_a_mover = NULL
  /\ corto = [pc |-> "semReady", pid |-> NULL]
  /\ consola = ConsolaLibre
  /\ hiloIO = [i \in Interfaces |-> "recv"]
  /\ det = [d \in Detenedores |-> [pc |-> "fin", largo |-> 0, corto |-> 0]]
  /\ rea = [d \in Reanudadores |-> "fin"]
  /\ marco = [h \in Hilos |-> MarcoLibre]
  /\ ordenes = 0 /\ perdidos = 0
  /\ caida = FALSE

-----------------------------------------------------------------------------
(* Semaphores and the operations every thread shares.                       *)

Post(s) == sem' = [sem EXCEPT ![s] = @ + 1]
Wait(s) == sem[s] > 0 /\ sem' = [sem EXCEPT ![s] = @ - 1]

Admitidos == {p \in Pids : estado[p] \in {"LISTO", "EJECUTANDO", "BLOQUEADO"}}
Uno(b) == IF b THEN 1 ELSE 0

\* Mutant: the push is not announced to the short-term scheduler.
proceso_listo_SinAviso(p, es_ready_plus) ==
  /\ estado' = [estado EXCEPT ![p] = "LISTO"]
  /\ squeue_readyPlus' = IF es_ready_plus THEN Append(squeue_readyPlus, p) ELSE squeue_readyPlus
  /\ squeue_ready' = IF es_ready_plus THEN squeue_ready ELSE Append(squeue_ready, p)
  /\ UNCHANGED sem

\* Mutant: the queue works as a stack.
proceso_listo_Pila(p, es_ready_plus) ==
  /\ estado' = [estado EXCEPT ![p] = "LISTO"]
  /\ squeue_readyPlus' = IF es_ready_plus THEN <<p>> \o squeue_readyPlus ELSE squeue_readyPlus
  /\ squeue_ready' = IF es_ready_plus THEN squeue_ready ELSE <<p>> \o squeue_ready
  /\ Post("ready")

proceso_listo(p, es_ready_plus) ==
  /\ estado' = [estado EXCEPT ![p] = "LISTO"]
  /\ squeue_readyPlus' = IF es_ready_plus THEN Append(squeue_readyPlus, p) ELSE squeue_readyPlus
  /\ squeue_ready' = IF es_ready_plus THEN squeue_ready ELSE Append(squeue_ready, p)
  /\ Post("ready")

bloquear_proceso(p) ==
  /\ estado' = [estado EXCEPT ![p] = "BLOQUEADO"]
  /\ squeue_blocked' = squeue_blocked \cup {p}

\* Mutant: squeue_remove_by_condition replaced by a search.
desbloquear_proceso_SinQuitar(p) ==
  \/ /\ p \in squeue_blocked
     /\ UNCHANGED <<squeue_blocked, quantum>>
     /\ proceso_listo(p, FALSE)
  \/ /\ p \notin squeue_blocked
     /\ UNCHANGED <<squeue_blocked, quantum, estado, listas, sem>>

\* Mutant: a burst as long as the quantum also goes to ready+.
desbloquear_proceso_MenorOIgual(p) ==
  \/ /\ p \in squeue_blocked
     /\ squeue_blocked' = squeue_blocked \ {p}
     /\ LET prioridad == ALGORITMO = "VRR" /\ tiempoQ[p] <= quantum[p]
        IN  /\ quantum' = IF prioridad THEN [quantum EXCEPT ![p] = @ - tiempoQ[p]] ELSE quantum
            /\ proceso_listo(p, prioridad)
  \/ /\ p \notin squeue_blocked
     /\ UNCHANGED <<squeue_blocked, quantum, estado, listas, sem>>

desbloquear_proceso(p) ==
  \/ /\ p \in squeue_blocked
     /\ squeue_blocked' = squeue_blocked \ {p}
     /\ LET prioridad == ALGORITMO = "VRR" /\ tiempoQ[p] < quantum[p]
        IN  /\ quantum' = IF prioridad THEN [quantum EXCEPT ![p] = @ - tiempoQ[p]] ELSE quantum
            /\ proceso_listo(p, prioridad)
  \/ /\ p \notin squeue_blocked
     /\ UNCHANGED <<squeue_blocked, quantum, estado, listas, sem>>

\* Mutant: finalizar_proceso without sem_post(&semMultiprogramacion).
finalizar_proceso_SinCupo(h, p, devuelveCupo) ==
  /\ estado' = [estado EXCEPT ![p] = "FINALIZADO"]
  /\ salidas' = [salidas EXCEPT ![p] = @ + 1]
  /\ marco' = [marco EXCEPT ![h] = [op |-> "finalizar", pid |-> p, i |-> 0,
                                    recurso |-> Nada, cupo |-> FALSE]]

\* finalizar_proceso up to liberar_recursos, whose loop runs in LiberarSiguiente;
\* the console's own version for a process in NEW gives no slot back.
finalizar_proceso(h, p, devuelveCupo) ==
  /\ estado' = [estado EXCEPT ![p] = "FINALIZADO"]
  /\ salidas' = [salidas EXCEPT ![p] = @ + 1]
  /\ marco' = [marco EXCEPT ![h] = [op |-> "finalizar", pid |-> p, i |-> 0,
                                    recurso |-> Nada, cupo |-> devuelveCupo]]

\* Mutant: recurso->instancias++ forgotten.
liberar_recurso_SinSumar(h, p, r, m) ==
  /\ asignados' = [asignados EXCEPT ![p] = RemoveFirst(@, r)]
  /\ marco' = [marco EXCEPT ![h] =
                [m EXCEPT !.recurso = IF instancias[r] > 0 /\ colaRecurso[r] # <<>>
                                        THEN r ELSE Nada]]
  /\ UNCHANGED instancias

\* Mutant: the instance just freed is not counted when deciding to wake a waiter.
liberar_recurso_SinAvisar(h, p, r, m) ==
  /\ instancias' = [instancias EXCEPT ![r] = @ + 1]
  /\ asignados' = [asignados EXCEPT ![p] = RemoveFirst(@, r)]
  /\ marco' = [marco EXCEPT ![h] =
                [m EXCEPT !.recurso = IF instancias[r] > 0 /\ colaRecurso[r] # <<>>
                                        THEN r ELSE Nada]]

\* liberar_recurso up to the unlocked test of the queue; the pop is Despertar.
liberar_recurso(h, p, r, m) ==
  /\ instancias' = [instancias EXCEPT ![r] = @ + 1]
  /\ asignados' = [asignados EXCEPT ![p] = RemoveFirst(@, r)]
  /\ marco' = [marco EXCEPT ![h] =
                [m EXCEPT !.recurso = IF instancias'[r] > 0 /\ colaRecurso[r] # <<>>
                                        THEN r ELSE Nada]]

-----------------------------------------------------------------------------
(* Long-term scheduler: chequear_grado_de_multiprogramacion.                *)

LargoQuieto == UNCHANGED <<pidGlobal, quantum, tiempoQ, squeue_exec, squeue_blocked, salidas,
                           detenida, grado, recursos, interfaces, punteros, interrupcion,
                           corto, consola, hiloIO, det, rea, marco, ordenes, perdidos>>
SinMover == UNCHANGED <<estado, squeue_new, listas, pcb_a_mover, caida>>

LargoSemNew ==
  /\ largo = "semNew" /\ Wait("new")
  /\ largo' = "detenida"
  /\ SinMover /\ LargoQuieto

LargoDetenida ==
  /\ largo = "detenida"
  /\ largo' = IF detenida THEN "semLargo" ELSE "vacia"
  /\ UNCHANGED sem /\ SinMover /\ LargoQuieto

LargoSemLargo ==
  /\ largo = "semLargo" /\ Wait("largo")
  /\ largo' = "reponer"
  /\ SinMover /\ LargoQuieto

LargoReponer ==
  /\ largo = "reponer"
  /\ sem' = [sem EXCEPT !["largo"] = @ + 1, !["new"] = @ + 1]
  /\ largo' = "vacia"
  /\ SinMover /\ LargoQuieto

\* Mutant: the queue is not looked at before waiting for a slot.
LargoVacia_SinMirar ==
  /\ largo = "vacia"
  /\ largo' = "semMulti"
  /\ UNCHANGED sem /\ SinMover /\ LargoQuieto

LargoVacia ==
  /\ largo = "vacia"
  /\ largo' = IF squeue_new = <<>> THEN "semNew" ELSE "semMulti"
  /\ UNCHANGED sem /\ SinMover /\ LargoQuieto

LargoSemMulti ==
  /\ largo = "semMulti" /\ Wait("multi")
  /\ largo' = "admitir"
  /\ SinMover /\ LargoQuieto

\* Planning was stopped while the thread waited for a slot: the slot is given
\* back, the token of semNew is not.
LargoRenunciar ==
  /\ largo = "admitir" /\ detenida
  /\ Post("multi")
  /\ largo' = "semNew"
  /\ SinMover /\ LargoQuieto

\* The pop; until LargoListo the process is in no queue and still NUEVO, and the
\* console may find it so.
LargoSacar ==
  /\ largo = "admitir" /\ ~detenida
  /\ squeue_new # <<>>
  /\ squeue_new' = Tail(squeue_new) /\ pcb_a_mover' = Head(squeue_new)
  /\ largo' = "listo"
  /\ UNCHANGED <<estado, listas, sem, caida>> /\ LargoQuieto

LargoListo ==
  /\ largo = "listo"
  /\ proceso_listo(pcb_a_mover, FALSE)
  /\ pcb_a_mover' = NULL
  /\ largo' = "semNew"
  /\ UNCHANGED <<squeue_new, caida>> /\ LargoQuieto

\* The queue emptied after LargoVacia looked: squeue_pop yields no pcb and
\* cambiar_estado_pcb dereferences it.
LargoCae ==
  /\ largo = "admitir" /\ ~detenida
  /\ squeue_new = <<>>
  /\ caida' = TRUE
  /\ UNCHANGED <<estado, squeue_new, listas, sem, largo, pcb_a_mover>> /\ LargoQuieto

LargoPlazo == \/ LargoSemNew \/ LargoDetenida \/ LargoSemLargo \/ LargoReponer \/ LargoVacia
              \/ LargoSemMulti \/ LargoRenunciar \/ LargoSacar \/ LargoListo \/ LargoCae

-----------------------------------------------------------------------------
(* Short-term scheduler: planificar_PCB_cortoPlazo and ejecutar_PCB.        *)

CortoQuieto == UNCHANGED <<pidGlobal, squeue_new, detenida, grado, pcb_a_finalizar,
                           largo, pcb_a_mover, consola, hiloIO, det, rea, ordenes, perdidos>>
SinDespachar == UNCHANGED <<procesos, squeue_blocked, listas, squeue_exec, salidas, recursos,
                            interfaces, pcb_ejecutandose, interrupcion, marco, caida>>

CortoSemReady ==
  /\ corto.pc = "semReady" /\ Wait("ready")
  /\ corto' = [corto EXCEPT !.pc = "detenida"]
  /\ SinDespachar /\ CortoQuieto

CortoDetenida ==
  /\ corto.pc = "detenida"
  /\ corto' = [corto EXCEPT !.pc = IF detenida THEN "semCorto" ELSE "elegir"]
  /\ UNCHANGED sem /\ SinDespachar /\ CortoQuieto

CortoSemCorto ==
  /\ corto.pc = "semCorto" /\ Wait("corto")
  /\ corto' = [corto EXCEPT !.pc = "elegir"]
  /\ SinDespachar /\ CortoQuieto

HayPrioridad == ALGORITMO = "VRR" /\ squeue_readyPlus # <<>>

CortoElegir ==
  /\ corto.pc = "elegir"
  /\ HayPrioridad \/ squeue_ready # <<>>
  /\ corto' = [corto EXCEPT !.pc = IF HayPrioridad THEN "sacarPlus" ELSE "sacar"]
  /\ UNCHANGED sem /\ SinDespachar /\ CortoQuieto

CortoNadaListo ==
  /\ corto.pc = "elegir"
  /\ ~HayPrioridad /\ squeue_ready = <<>>
  /\ Post("corto")
  /\ corto' = [corto EXCEPT !.pc = "semReady"]
  /\ SinDespachar /\ CortoQuieto

ColaElegida == IF corto.pc = "sacarPlus" THEN squeue_readyPlus ELSE squeue_ready

\* squeue_pop and ejecutar_PCB up to the wait for the CPU's answer.
CortoDespachar ==
  /\ corto.pc \in {"sacar", "sacarPlus"}
  /\ ColaElegida # <<>>
  /\ LET p == Head(ColaElegida)
     IN  /\ estado' = [estado EXCEPT ![p] = "EJECUTANDO"]
         /\ squeue_exec' = squeue_exec \cup {p}
         /\ pcb_ejecutandose' = p
         /\ corto' = [pc |-> "cpu", pid |-> p]
  /\ squeue_readyPlus' = IF corto.pc = "sacarPlus" THEN Tail(squeue_readyPlus) ELSE squeue_readyPlus
  /\ squeue_ready' = IF corto.pc = "sacar" THEN Tail(squeue_ready) ELSE squeue_ready
  /\ UNCHANGED <<quantum, tiempoQ, squeue_blocked, salidas, sem, recursos, interfaces,
                 interrupcion, marco, caida>>
  /\ CortoQuieto

CortoCae ==
  /\ corto.pc \in {"sacar", "sacarPlus"}
  /\ ColaElegida = <<>>
  /\ caida' = TRUE
  /\ UNCHANGED <<procesos, squeue_blocked, listas, squeue_exec, salidas, sem, recursos,
                 interfaces, pcb_ejecutandose, interrupcion, marco, corto>>
  /\ CortoQuieto

\* recibir_pcb_CPU and the head of desalojo_cpu: the CPU gives the process back
\* for reason m, a pending kill may or may not be cleared by the CPU meanwhile,
\* and VRR measures the burst.
Desalojo(m) ==
  /\ corto.pc = "cpu" /\ m \in Retornos
  /\ squeue_exec' = squeue_exec \ {corto.pid}
  /\ \E t \in IF ALGORITMO = "VRR" THEN 0 .. MaxTiempo ELSE {tiempoQ[corto.pid]} :
       tiempoQ' = [tiempoQ EXCEPT ![corto.pid] = t]
  /\ interrupcion' \in {FALSE, interrupcion}
  /\ corto' = [corto EXCEPT !.pc = "desalojo"]
  /\ UNCHANGED <<pcb_ejecutandose, squeue_readyPlus>>
  /\ CortoQuieto

DesalojoFinQuantum ==
  /\ Desalojo("FIN_QUANTUM") /\ ALGORITMO # "FIFO"
  /\ quantum' = [quantum EXCEPT ![corto.pid] = QUANTUM]
  /\ proceso_listo(corto.pid, FALSE)
  /\ UNCHANGED <<squeue_blocked, salidas, recursos, interfaces, marco, caida>>

\* Mutant: the test of instancias admits zero.
DesalojoWait_SinInstancia(r) ==
  /\ Desalojo("WAIT") /\ Len(asignados[corto.pid]) < MaxInstancias
  /\ instancias' = [instancias EXCEPT ![r] = @ - 1]
  /\ asignados' = [asignados EXCEPT ![corto.pid] = Append(@, r)]
  /\ proceso_listo(corto.pid, FALSE)
  /\ UNCHANGED <<quantum, squeue_blocked, salidas, colaRecurso, interfaces, marco, caida>>

\* manejar_recurso, WAIT with an instance free
DesalojoWait(r) ==
  /\ Desalojo("WAIT") /\ instancias[r] > 0 /\ Len(asignados[corto.pid]) < MaxInstancias
  /\ instancias' = [instancias EXCEPT ![r] = @ - 1]
  /\ asignados' = [asignados EXCEPT ![corto.pid] = Append(@, r)]
  /\ proceso_listo(corto.pid, FALSE)
  /\ UNCHANGED <<quantum, squeue_blocked, salidas, colaRecurso, interfaces, marco, caida>>

\* manejar_recurso, WAIT with none free: the test takes no lock and another thread
\* may release the resource before EsperarRecurso queues the process.
DesalojoWaitBloquea(r) ==
  /\ Desalojo("WAIT") /\ instancias[r] <= 0
  /\ estado' = [estado EXCEPT ![corto.pid] = "EJECUTANDO"]
  /\ marco' = [marco EXCEPT !["corto"] = [MarcoLibre EXCEPT !.op = "esperar", !.pid = corto.pid,
                                                            !.recurso = r]]
  /\ UNCHANGED <<quantum, squeue_blocked, squeue_ready, salidas, sem, recursos, interfaces, caida>>

\* manejar_recurso, SIGNAL: the process is made ready by SignalListo
DesalojoSignal(r) ==
  /\ Desalojo("SIGNAL") /\ instancias[r] < MaxInstancias
  /\ estado' = [estado EXCEPT ![corto.pid] = "EJECUTANDO"]
  /\ liberar_recurso("corto", corto.pid, r, [MarcoLibre EXCEPT !.op = "signal", !.pid = corto.pid])
  /\ UNCHANGED <<quantum, squeue_blocked, squeue_ready, salidas, sem, colaRecurso, interfaces, caida>>

\* ejecutar_intruccion_io with a connected interface of the right type
DesalojoIO(i) ==
  /\ Desalojo("IO")
  /\ bloquear_proceso(corto.pid)
  /\ colaInterfaz' = [colaInterfaz EXCEPT ![i] = Append(@, corto.pid)]
  /\ pedidos' = [pedidos EXCEPT ![i] = Append(@, corto.pid)]
  /\ UNCHANGED <<quantum, squeue_ready, salidas, sem, recursos, marco, caida>>

\* EXIT, out of memory, an interface that is unknown or of another type, or the
\* console's interrupt
DesalojoFinaliza(m) ==
  /\ Desalojo(m)
  /\ m = "FINALIZACION_CONSOLA" => interrupcion
  /\ finalizar_proceso("corto", corto.pid, TRUE)
  /\ UNCHANGED <<quantum, squeue_blocked, squeue_ready, sem, recursos, interfaces, caida>>

\* manejar_recurso logs the resource's name before testing that it exists.
DesalojoRecursoInexistente ==
  /\ Desalojo("RECURSO_INEXISTENTE")
  /\ caida' = TRUE
  /\ UNCHANGED <<estado, quantum, squeue_blocked, squeue_ready, salidas, sem, recursos, interfaces, marco>>

\* The default case of desalojo_cpu only logs: no queue receives the process.
DesalojoDesconocido ==
  /\ Desalojo("DESCONOCIDO")
  /\ estado' = [estado EXCEPT ![corto.pid] = "EJECUTANDO"]
  /\ UNCHANGED <<quantum, squeue_blocked, squeue_ready, salidas, sem, recursos, interfaces, marco, caida>>

\* Mutant: the blocked process is not queued at the resource.
EsperarRecurso_SinCola ==
  /\ marco["corto"].op = "esperar"
  /\ bloquear_proceso(corto.pid)
  /\ marco' = [marco EXCEPT !["corto"] = MarcoLibre]
  /\ UNCHANGED <<quantum, tiempoQ, squeue_exec, salidas, listas, sem, recursos, interfaces,
                 pcb_ejecutandose, interrupcion, corto, caida>>
  /\ CortoQuieto

\* The rest of the WAIT case: block the process and queue it at the resource.
EsperarRecurso ==
  LET r == marco["corto"].recurso
  IN  /\ marco["corto"].op = "esperar"
      /\ bloquear_proceso(corto.pid)
      /\ colaRecurso' = [colaRecurso EXCEPT ![r] = Append(@, corto.pid)]
      /\ marco' = [marco EXCEPT !["corto"] = MarcoLibre]
      /\ UNCHANGED <<quantum, tiempoQ, squeue_exec, salidas, listas, sem, instancias, asignados,
                     interfaces, pcb_ejecutandose, interrupcion, corto, caida>>
      /\ CortoQuieto

SignalListo ==
  /\ marco["corto"].op = "signal" /\ marco["corto"].recurso = Nada
  /\ proceso_listo(corto.pid, FALSE)
  /\ marco' = [marco EXCEPT !["corto"] = MarcoLibre]
  /\ UNCHANGED <<quantum, tiempoQ, squeue_blocked, squeue_exec, salidas, recursos, interfaces,
                 pcb_ejecutandose, interrupcion, corto, caida>>
  /\ CortoQuieto

CortoSoltar ==
  /\ corto.pc = "desalojo" /\ marco["corto"] = MarcoLibre
  /\ pcb_ejecutandose' = NULL
  /\ corto' = [pc |-> "semReady", pid |-> NULL]
  /\ UNCHANGED <<procesos, squeue_blocked, listas, squeue_exec, salidas, sem, recursos,
                 interfaces, interrupcion, marco, caida>>
  /\ CortoQuieto

CortoPlazo == \/ CortoSemReady \/ CortoDetenida \/ CortoSemCorto \/ CortoElegir \/ CortoNadaListo
              \/ CortoDespachar \/ CortoCae \/ EsperarRecurso \/ SignalListo \/ CortoSoltar
CPU == \/ DesalojoFinQuantum \/ DesalojoRecursoInexistente \/ DesalojoDesconocido
       \/ \E r \in Recursos : DesalojoWait(r) \/ DesalojoWaitBloquea(r) \/ DesalojoSignal(r)
       \/ \E i \in Interfaces : DesalojoIO(i)
       \/ \E m \in {"FINALIZACION", "OUT_OF_MEMORY", "IO_INVALIDA", "FINALIZACION_CONSOLA"} :
            DesalojoFinaliza(m)

-----------------------------------------------------------------------------
(* The loop of liberar_recursos and the end of finalizar_proceso, run by     *)
(* whichever thread h is finishing a process.                                *)

MarcoQuieto == UNCHANGED <<pidGlobal, tiempoQ, squeue_new, squeue_exec, salidas, detenida, grado,
                           interfaces, punteros, interrupcion, largo, pcb_a_mover, corto,
                           consola, hiloIO, det, rea, ordenes, perdidos>>

\* One turn of the loop: the index advances while the list it walks shrinks.
LiberarSiguiente(h) ==
  LET m == marco[h]
      p == m.pid
  IN  /\ m.op = "finalizar" /\ m.recurso = Nada
      /\ m.i < Len(asignados[p])
      /\ liberar_recurso(h, p, asignados[p][m.i + 1], [m EXCEPT !.i = @ + 1])
      /\ UNCHANGED <<estado, quantum, squeue_blocked, listas, sem, colaRecurso, caida>>
      /\ MarcoQuieto

\* The end of liberar_recurso: pop the queue seen not empty and unblock the
\* process.  Another thread may have emptied the queue in between.
Despertar(h) ==
  LET r == marco[h].recurso
  IN  /\ marco[h].op # "esperar" /\ r # Nada
      /\ marco' = [marco EXCEPT ![h].recurso = Nada]
      /\ \/ /\ colaRecurso[r] # <<>>
            /\ colaRecurso' = [colaRecurso EXCEPT ![r] = Tail(@)]
            /\ desbloquear_proceso(Head(colaRecurso[r]))
            /\ UNCHANGED caida
         \/ /\ colaRecurso[r] = <<>>
            /\ caida' = TRUE
            /\ UNCHANGED <<estado, quantum, squeue_blocked, listas, sem, colaRecurso>>
      /\ UNCHANGED <<instancias, asignados>>
      /\ MarcoQuieto

FinDeProceso(h) ==
  LET m == marco[h]
  IN  /\ m.op = "finalizar" /\ m.recurso = Nada
      /\ m.i >= Len(asignados[m.pid])
      /\ IF m.cupo THEN Post("multi") ELSE UNCHANGED sem
      /\ marco' = [marco EXCEPT ![h] = MarcoLibre]
      /\ UNCHANGED <<estado, quantum, squeue_blocked, listas, recursos, caida>>
      /\ MarcoQuieto

Liberacion == \E h \in Hilos : LiberarSiguiente(h) \/ Despertar(h) \/ FinDeProceso(h)

-----------------------------------------------------------------------------
(* Console: crear_proceso, finalizar_proceso_consola, detener_planificacion, *)
(* iniciar_planificacion and cambiar_multiprogramacion.                      *)

ConsolaQuieta == UNCHANGED <<tiempoQ, quantum, listas, squeue_exec, detenida, recursos, interfaces,
                             pcb_ejecutandose, largo, pcb_a_mover, corto, hiloIO, perdidos, caida>>

\* The console thread reads its next command, one of those the operator uses.
Orden(c) == consola = ConsolaLibre /\ marco["consola"] = MarcoLibre /\ c \in Comandos
OrdenAcotada(c) == Orden(c) /\ ordenes < MaxOrdenes /\ ordenes' = ordenes + 1

\* crear_proceso up to the message to memory
CrearProceso ==
  /\ Orden("INICIAR_PROCESO") /\ pidGlobal <= MaxPid
  /\ pidGlobal' = pidGlobal + 1
  /\ estado' = [estado EXCEPT ![pidGlobal] = "NUEVO"]
  /\ squeue_new' = Append(squeue_new, pidGlobal)
  /\ consola' = [consola EXCEPT !.pc = "avisar"]
  /\ UNCHANGED <<squeue_ready, squeue_readyPlus, squeue_blocked, salidas, sem, grado, pcb_a_finalizar,
                 interrupcion, det, rea, marco, ordenes>>
  /\ ConsolaQuieta

\* Mutant: sem_post(&semNew) forgotten.
AvisarProceso_SinPost ==
  /\ consola.pc = "avisar"
  /\ consola' = ConsolaLibre
  /\ UNCHANGED <<pidGlobal, estado, squeue_new, squeue_blocked, salidas, sem, grado, pcb_a_finalizar,
                 interrupcion, det, rea, marco, ordenes>>
  /\ ConsolaQuieta

\* enviar_proceso_a_memoria and the post that wakes the long-term scheduler
AvisarProceso ==
  /\ consola.pc = "avisar"
  /\ Post("new")
  /\ consola' = ConsolaLibre
  /\ UNCHANGED <<pidGlobal, estado, squeue_new, squeue_blocked, salidas, grado, pcb_a_finalizar,
                 interrupcion, det, rea, marco, ordenes>>
  /\ ConsolaQuieta

FinalizarEjecutando(p) ==
  /\ OrdenAcotada("FINALIZAR_PROCESO")
  /\ pcb_ejecutandose = p
  /\ interrupcion' = TRUE
  /\ UNCHANGED <<pidGlobal, estado, squeue_new, squeue_blocked, salidas, sem, grado, pcb_a_finalizar,
                 consola, det, rea, marco>>
  /\ ConsolaQuieta

\* buscar_proceso_en_colas, which looks neither in ready+ nor in exec; a process it
\* does not find is left alone.
FinalizarBuscar(p) ==
  /\ OrdenAcotada("FINALIZAR_PROCESO")
  /\ pcb_ejecutandose # p
  /\ p \in Range(squeue_new) \cup Range(squeue_ready) \cup squeue_blocked \/ salidas[p] > 0
  /\ consola' = [consola EXCEPT !.pc = "caso", !.pid = p]
  /\ UNCHANGED <<pidGlobal, estado, squeue_new, squeue_blocked, salidas, sem, grado, pcb_a_finalizar,
                 interrupcion, det, rea, marco>>
  /\ ConsolaQuieta

\* The switch on the state of the process found: finished and running ones are
\* left alone.
FinalizarCaso ==
  /\ consola.pc = "caso"
  /\ consola' = IF estado[consola.pid] \in {"NUEVO", "LISTO", "BLOQUEADO"}
                THEN [consola EXCEPT !.pc = "quitar", !.caso = estado[consola.pid]]
                ELSE ConsolaLibre
  /\ UNCHANGED <<pidGlobal, estado, squeue_new, squeue_blocked, salidas, sem, grado, pcb_a_finalizar,
                 interrupcion, det, rea, marco, ordenes>>
  /\ ConsolaQuieta

FinalizarQuieto == UNCHANGED <<pidGlobal, quantum, tiempoQ, squeue_readyPlus, squeue_exec, sem, detenida,
                               grado, recursos, interfaces, pcb_ejecutandose, interrupcion, largo,
                               pcb_a_mover, corto, hiloIO, det, rea, ordenes, caida>>

\* The removal chosen by the state read before; a process that is no longer in that
\* queue is not missed.
FinalizarQuitar ==
  LET p == consola.pid
  IN  /\ consola.pc = "quitar"
      /\ squeue_new' = IF consola.caso = "NUEVO" THEN RemoveFirst(squeue_new, p) ELSE squeue_new
      /\ squeue_ready' = IF consola.caso = "LISTO" THEN RemoveFirst(squeue_ready, p) ELSE squeue_ready
      /\ squeue_blocked' = IF consola.caso = "BLOQUEADO" THEN squeue_blocked \ {p} ELSE squeue_blocked
      /\ consola' = [consola EXCEPT !.pc = "decidir"]
      /\ FinalizarQuieto
      /\ UNCHANGED <<estado, salidas, pcb_a_finalizar, marco, perdidos>>

\* The end the process gets is chosen by the state it has now, read without a lock.
FinalizarDecidir ==
  LET p == consola.pid
  IN  /\ consola.pc = "decidir"
      /\ pcb_a_finalizar' = IF consola.caso = "BLOQUEADO" THEN p ELSE pcb_a_finalizar
      /\ consola' = [consola EXCEPT !.pc = IF estado[p] = "NUEVO" THEN "comoNuevo" ELSE "terminar"]
      /\ UNCHANGED <<pidGlobal, estado, squeue_new, squeue_blocked, salidas, sem, grado,
                     interrupcion, det, rea, marco, ordenes>>
      /\ ConsolaQuieta

\* The process ends as it was found; one admitted after it was found NUEVO gives no
\* slot back.
FinalizarTerminar ==
  LET p == consola.pid
  IN  /\ consola.pc \in {"comoNuevo", "terminar"}
      /\ finalizar_proceso("consola", p, consola.pc = "terminar")
      /\ perdidos' = perdidos + Uno(consola.pc = "comoNuevo" /\ p \in Admitidos)
      /\ consola' = ConsolaLibre
      /\ FinalizarQuieto
      /\ UNCHANGED <<squeue_new, squeue_ready, squeue_blocked, pcb_a_finalizar>>

\* GRADO_MULTIPROGRAMACION changes first, the semaphore catches up one unit at a time.
CambiarMultiprogramacion(n) ==
  /\ OrdenAcotada("MULTIPROGRAMACION")
  /\ grado' = n
  /\ consola' = IF n = grado THEN consola
                ELSE IF n > grado THEN [consola EXCEPT !.pc = "subir", !.n = n - grado]
                ELSE [consola EXCEPT !.pc = "bajar", !.n = grado - n]
  /\ UNCHANGED <<pidGlobal, estado, squeue_new, squeue_blocked, salidas, sem, pcb_a_finalizar,
                 interrupcion, det, rea, marco>>
  /\ ConsolaQuieta

\* Mutant: the semaphore is raised whatever the sign of the change.
AjustarMulti_SoloSubir ==
  /\ consola.pc \in {"subir", "bajar"} /\ Post("multi")
  /\ consola' = IF consola.n = 1 THEN ConsolaLibre ELSE [consola EXCEPT !.n = @ - 1]
  /\ UNCHANGED <<pidGlobal, estado, squeue_new, squeue_blocked, salidas, grado, pcb_a_finalizar,
                 interrupcion, det, rea, marco, ordenes>>
  /\ ConsolaQuieta

AjustarMulti ==
  /\ \/ consola.pc = "subir" /\ Post("multi")
     \/ consola.pc = "bajar" /\ Wait("multi")
  /\ consola' = IF consola.n = 1 THEN ConsolaLibre ELSE [consola EXCEPT !.n = @ - 1]
  /\ UNCHANGED <<pidGlobal, estado, squeue_new, squeue_blocked, salidas, grado, pcb_a_finalizar,
                 interrupcion, det, rea, marco, ordenes>>
  /\ ConsolaQuieta

DetenerPlanificacion(d) ==
  /\ OrdenAcotada("DETENER_PLANIFICACION") /\ ~detenida
  /\ det[d].pc = "fin"
  /\ det' = [det EXCEPT ![d].pc = "leer"]
  /\ UNCHANGED <<pidGlobal, estado, squeue_new, squeue_blocked, salidas, sem, grado, pcb_a_finalizar,
                 interrupcion, consola, rea, marco>>
  /\ ConsolaQuieta

IniciarPlanificacion(d) ==
  /\ OrdenAcotada("INICIAR_PLANIFICACION") /\ detenida
  /\ rea[d] = "fin"
  /\ rea' = [rea EXCEPT ![d] = "leer"]
  /\ UNCHANGED <<pidGlobal, estado, squeue_new, squeue_blocked, salidas, sem, grado, pcb_a_finalizar,
                 interrupcion, consola, det, marco>>
  /\ ConsolaQuieta

Consola == \/ CrearProceso \/ AvisarProceso \/ AjustarMulti
           \/ FinalizarCaso \/ FinalizarQuitar \/ FinalizarDecidir \/ FinalizarTerminar
           \/ \E p \in Pids : FinalizarEjecutando(p) \/ FinalizarBuscar(p)
           \/ \E n \in Grados : CambiarMultiprogramacion(n)
           \/ \E d \in Detenedores : DetenerPlanificacion(d)
           \/ \E d \in Reanudadores : IniciarPlanificacion(d)

-----------------------------------------------------------------------------
(* detener_planificadores and iniciar_planificadores, each a thread.         *)

PlanificadoresQuietos == UNCHANGED <<pidGlobal, procesos, colas, grado, recursos, interfaces, punteros,
                                     interrupcion, largo, pcb_a_mover, corto, consola, hiloIO, marco,
                                     ordenes, perdidos, caida>>

DetLeer(d) ==
  /\ det[d].pc = "leer"
  /\ det' = [det EXCEPT ![d] = [pc |-> "drenar", largo |-> sem["largo"], corto |-> sem["corto"]]]
  /\ UNCHANGED <<sem, detenida, rea>>

\* sem_wait and the sem_getvalue after it, for the long-term scheduler's
\* semaphore first
DetDrenar(d, s) ==
  /\ det[d].pc = "drenar"
  /\ s = "corto" => det[d].largo = 0
  /\ det[d][s] > 0
  /\ Wait(s)
  /\ det' = [det EXCEPT ![d][s] = sem'[s]]
  /\ UNCHANGED <<detenida, rea>>

\* Mutant: only the long-term scheduler's semaphore is drained.
DetMarcar_SoloLargo(d) ==
  /\ det[d].pc = "drenar" /\ det[d].largo = 0
  /\ detenida' = TRUE
  /\ det' = [det EXCEPT ![d] = [pc |-> "fin", largo |-> 0, corto |-> 0]]
  /\ UNCHANGED <<sem, rea>>

DetMarcar(d) ==
  /\ det[d].pc = "drenar" /\ det[d].largo = 0 /\ det[d].corto = 0
  /\ detenida' = TRUE
  /\ det' = [det EXCEPT ![d].pc = "fin"]
  /\ UNCHANGED <<sem, rea>>

\* Mutant: the token that replaces the one LargoRenunciar drops is not posted.
ReaPublicar_SinNew(d) ==
  /\ rea[d] = "leer"
  /\ sem' = IF sem["largo"] = 0 /\ sem["corto"] = 0
            THEN [sem EXCEPT !["largo"] = @ + 1, !["corto"] = @ + 1] ELSE sem
  /\ rea' = [rea EXCEPT ![d] = "marcar"]
  /\ UNCHANGED <<detenida, det>>

ReaPublicar(d) ==
  /\ rea[d] = "leer"
  /\ sem' = IF sem["largo"] = 0 /\ sem["corto"] = 0
            THEN [sem EXCEPT !["largo"] = @ + 1, !["corto"] = @ + 1, !["new"] = @ + 1]
            ELSE sem
  /\ rea' = [rea EXCEPT ![d] = "marcar"]
  /\ UNCHANGED <<detenida, det>>

ReaMarcar(d) ==
  /\ rea[d] = "marcar"
  /\ detenida' = FALSE
  /\ rea' = [rea EXCEPT ![d] = "fin"]
  /\ UNCHANGED <<sem, det>>

Detener(d)  == /\ DetLeer(d) \/ DetDrenar(d, "largo") \/ DetDrenar(d, "corto") \/ DetMarcar(d)
               /\ PlanificadoresQuietos
Reanudar(d) == (ReaPublicar(d) \/ ReaMarcar(d)) /\ PlanificadoresQuietos

PararYSeguir == (\E d \in Detenedores : Detener(d)) \/ (\E d \in Reanudadores : Reanudar(d))

-----------------------------------------------------------------------------
(* End of I/O: the FINALIZACION_INTERFAZ* cases of an interface's thread.    *)

IOQuieto == UNCHANGED <<pidGlobal, tiempoQ, squeue_new, squeue_exec, detenida, grado, recursos, punteros,
                        interrupcion, largo, pcb_a_mover, corto, consola, det, rea, ordenes, perdidos, caida>>

FinDeIO(i) ==
  LET p == Head(pedidos[i])
  IN  /\ hiloIO[i] = "recv" /\ marco[i] = MarcoLibre
      /\ pedidos[i] # <<>>
      /\ pedidos' = [pedidos EXCEPT ![i] = Tail(@)]
      /\ \/ /\ p # pcb_a_finalizar
            /\ desbloquear_proceso(p)
            /\ hiloIO' = [hiloIO EXCEPT ![i] = "sacar"]
            /\ UNCHANGED <<salidas, marco>>
         \/ /\ p = pcb_a_finalizar
            /\ finalizar_proceso(i, p, TRUE)
            /\ UNCHANGED <<hiloIO, quantum, squeue_blocked, listas, sem>>
      /\ UNCHANGED colaInterfaz
      /\ IOQuieto

SacarDeInterfaz(i) ==
  /\ hiloIO[i] = "sacar"
  /\ colaInterfaz[i] # <<>>
  /\ colaInterfaz' = [colaInterfaz EXCEPT ![i] = Tail(@)]
  /\ hiloIO' = [hiloIO EXCEPT ![i] = "recv"]
  /\ UNCHANGED <<estado, quantum, squeue_blocked, listas, salidas, sem, pedidos, marco>>
  /\ IOQuieto

EntradaSalida == \E i \in Interfaces : FinDeIO(i) \/ SacarDeInterfaz(i)

-----------------------------------------------------------------------------
Next == ~caida /\ (LargoPlazo \/ CortoPlazo \/ CPU \/ Liberacion \/ Consola \/ PararYSeguir \/ EntradaSalida)

Spec == Init /\ [][Next]_vars

\* Every thread of the kernel keeps running; the operator need not type
\* anything and only a command already given goes on.  Under RR and VRR the
\* quantum thread interrupts the CPU, which gives the process back.
Equidad ==
  /\ WF_vars(~caida /\ LargoPlazo)
  /\ WF_vars(~caida /\ CortoPlazo)
  /\ WF_vars(~caida /\ DesalojoFinQuantum)
  /\ \A h \in Hilos : WF_vars(~caida /\ (LiberarSiguiente(h) \/ Despertar(h) \/ FinDeProceso(h)))
  /\ WF_vars(~caida /\ (\/ AvisarProceso \/ AjustarMulti
                       \/ FinalizarCaso \/ FinalizarQuitar \/ FinalizarDecidir \/ FinalizarTerminar))
  /\ \A d \in Detenedores : WF_vars(~caida /\ Detener(d))
  /\ \A d \in Reanudadores : WF_vars(~caida /\ Reanudar(d))
  /\ \A i \in Interfaces : WF_vars(~caida /\ (FinDeIO(i) \/ SacarDeInterfaz(i)))

SpecJusta == Spec /\ Equidad

-----------------------------------------------------------------------------
(* Properties.                                                              *)

Terminando == {h \in Hilos : marco[h].op = "finalizar" /\ marco[h].cupo}
Veces(e, q) == Cardinality({k \in DOMAIN q : q[k] = e})
PlanificadoresLibres == (\A d \in Detenedores : det[d].pc = "fin") /\ (\A d \in Reanudadores : rea[d] = "fin")

PcLargo == {"semNew", "detenida", "semLargo", "reponer", "vacia", "semMulti", "admitir", "listo"}
PcCorto == {"semReady", "detenida", "semCorto", "elegir", "sacar", "sacarPlus", "cpu", "desalojo"}

TipoProcesos ==
  /\ pidGlobal \in 1 .. MaxPid + 1
  /\ estado \in [Pids -> Estados]
  /\ quantum \in [Pids -> 1 .. QUANTUM] /\ tiempoQ \in [Pids -> Nat]
  /\ salidas \in [Pids -> Nat]
TipoColas ==
  /\ squeue_new \in Seq(Pids) /\ squeue_ready \in Seq(Pids) /\ squeue_readyPlus \in Seq(Pids)
  /\ squeue_exec \subseteq Pids /\ squeue_blocked \subseteq Pids
TipoGlobales ==
  /\ sem \in [Semaforos -> Nat]
  /\ detenida \in BOOLEAN /\ grado \in Nat /\ interrupcion \in BOOLEAN
  /\ pcb_ejecutandose \in Pids \cup {NULL} /\ pcb_a_finalizar \in Pids \cup {NULL}
  /\ ordenes \in Nat /\ perdidos \in Nat /\ caida \in BOOLEAN
TipoRecursos ==
  /\ instancias \in [Recursos -> Nat]
  /\ colaRecurso \in [Recursos -> Seq(Pids)]
  /\ asignados \in [Pids -> Seq(Recursos)]
TipoInterfaces ==
  /\ colaInterfaz \in [Interfaces -> Seq(Pids)] /\ pedidos \in [Interfaces -> Seq(Pids)]
TipoPlazos ==
  /\ largo \in PcLargo /\ pcb_a_mover \in Pids \cup {NULL}
  /\ corto \in [pc : PcCorto, pid : Pids \cup {NULL}]
TipoConsola ==
  consola \in [pc : {"leer", "avisar", "caso", "quitar", "decidir", "comoNuevo", "terminar", "subir", "bajar"},
               pid : Pids \cup {NULL}, caso : {Nada, "NUEVO", "LISTO", "BLOQUEADO"}, n : Nat]
TipoHilos ==
  /\ hiloIO \in [Interfaces -> {"recv", "sacar"}]
  /\ det \in [Detenedores -> [pc : {"fin", "leer", "drenar"}, largo : Nat, corto : Nat]]
  /\ rea \in [Reanudadores -> {"fin", "leer", "marcar"}]
Marcos == [op : {"libre", "finalizar", "signal", "esperar"}, pid : Pids \cup {NULL}, i : Nat,
           recurso : Recursos \cup {Nada}, cupo : BOOLEAN]
TipoMarco == marco \in [Hilos -> Marcos]

\* Every variable stays in its type; in particular no semaphore and no count of
\* instances (manejar_recurso, asignar_recurso) goes below zero, and what VRR leaves of
\* a quantum (desbloquear_proceso) never reaches zero, which would be no sleep at all,
\* nor wraps.
TypeOK == /\ TipoProcesos /\ TipoColas /\ TipoGlobales /\ TipoRecursos /\ TipoInterfaces
          /\ TipoPlazos /\ TipoConsola /\ TipoHilos /\ TipoMarco

\* No process is lost and none is scheduled twice: a process is in the one queue
\* its state names, once, on its way from NEW to ready, or on the CPU (the pushes and pops of planificador.c
\* by the schedulers and the interface threads).
UnLugar ==
  \A p \in Pids :
    /\ Veces(p, squeue_new) + Uno(pcb_a_mover = p) = Uno(estado[p] = "NUEVO")
    /\ Veces(p, squeue_ready) + Veces(p, squeue_readyPlus) = Uno(estado[p] = "LISTO")
    /\ estado[p] = "EJECUTANDO" => corto.pid = p
    /\ p \in squeue_blocked <=> estado[p] = "BLOQUEADO"
    /\ salidas[p] = Uno(estado[p] = "FINALIZADO")

\* A blocked process is waiting for exactly one thing that can wake it up, a
\* resource or the end of an I/O, and nothing else is: the global list of blocked
\* processes agrees with the queues of resources and the requests to interfaces.
EsperaUnica ==
  \A p \in Pids :
    SumFunction([r \in Recursos |-> Veces(p, colaRecurso[r])])
      + SumFunction([i \in Interfaces |-> Veces(p, pedidos[i])])
    = Uno(p \in squeue_blocked)

\* What semMultiprogramacion counts, with the slots its users still hold.
Cupos ==
  sem["multi"] + Cardinality(Admitidos) + Cardinality(Terminando) + Uno(largo \in {"admitir", "listo"})
    + (IF consola.pc = "subir" THEN consola.n ELSE 0) - (IF consola.pc = "bajar" THEN consola.n ELSE 0)

\* Every slot of the multiprogramming degree is free or held by one admitted
\* process, also while MULTIPROGRAMACION changes the degree.
CuposExactos == Cupos = grado

\* No slot of the degree is lost (a lost slot would keep processes in NEW for ever)
\* but through one window: the console decides that a process is in NEW and the
\* long-term scheduler, which popped it before, makes it ready before the console ends
\* it (consola.c:252 and planificador.c:110).  Whatever else is typed, and whichever
\* thread ends a process, the slot comes back.
CuposNoPerdidos == Cupos + perdidos >= grado

\* Every process in ready or ready+ has a token of semReady, or the short-term
\* scheduler is on its way to take one out: no wake-up is lost.
AvisosReady ==
  sem["ready"] + Uno(corto.pc \in {"detenida", "semCorto", "elegir", "sacar", "sacarPlus"})
    >= Len(squeue_ready) + Len(squeue_readyPlus)

\* No instance of a resource vanishes: the free ones and those some process
\* holds are at least those configured.
InstanciasNoPerdidas ==
  \A r \in Recursos :
     instancias[r] + SumFunction([p \in Pids |-> Veces(r, asignados[p])]) >= Instancias[r]

\* A short-term scheduler parked by DETENER_PLANIFICACION dispatches nothing
\* before INICIAR_PLANIFICACION.
DetencionEfectiva ==
  [][detenida /\ PlanificadoresLibres /\ corto.pc = "semCorto" => corto'.pc = "semCorto"]_vars

\* A process in NEW is not left there while a slot is free and planning runs.
AdmiteSiHayCupo ==
  (squeue_new # <<>> /\ sem["multi"] > 0 /\ ~detenida)
     ~> (squeue_new = <<>> \/ sem["multi"] = 0 \/ detenida)

\* Round robin starves nobody: if nobody stops the planning, a ready process gets the
\* CPU, whatever happens to the degree of multiprogramming.
ListoEjecuta ==
  [](~detenida /\ \A d \in Detenedores : det[d].pc = "fin")
    => \A p \in Pids : estado[p] = "LISTO" ~> estado[p] = "EJECUTANDO"

\* The kernel never dereferences a NULL pcb: each scheduler that pops a queue finds
\* the process it saw there, or was promised by a semaphore.
NuncaCae == ~caida
=============================================================================
