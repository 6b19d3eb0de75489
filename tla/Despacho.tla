------------------------------ MODULE Despacho ------------------------------
(***************************************************************************)
(* The dispatch and interrupt connections between the kernel and the CPU.  *)
(*                                                                         *)
(* Kernel: the short-term scheduler lends a process to the CPU and waits   *)
(* for it (ejecutar_PCB, desalojo_cpu), the quantum thread and the console *)
(* send interrupts.  CPU: the dispatch thread runs the process, the        *)
(* interrupt thread raises a flag and overwrites the process's reason to   *)
(* leave the CPU, under a mutex that the dispatch thread takes only to     *)
(* receive a process.  The two connections are not ordered with respect to *)
(* each other.                                                             *)
(*                                                                         *)
(* Of a process only its pid and motivo_desalojo are kept, of the queues   *)
(* only which one holds each process, of an instruction only what it asks  *)
(* of the kernel.  FINALIZAR_PROCESO of a process that is not on the CPU   *)
(* is in Planificador.                                                     *)
(***************************************************************************)
EXTENDS Integers, Sequences

CONSTANTS
  Pids,
  NULL,              \* no process
  ALGORITMO,         \* ALGORITMO_PLANIFICACION
  MaxInterrupciones, \* bound: interrupts in the socket
  MaxMuertes,        \* bound: FINALIZAR_PROCESO commands
  QuantumLargo       \* usleep(quantum) outlasts the CPU's way back to recv

ASSUME ConstantesDespacho ==
  /\ NULL \notin Pids
  /\ ALGORITMO \in {"FIFO", "RR", "VRR"}
  /\ MaxInterrupciones \in Nat /\ MaxMuertes \in Nat
  /\ QuantumLargo \in BOOLEAN

Interrupciones == {"INTERRUPCION_FIN_QUANTUM", "INTERRUPCION_FINALIZACION"}
Syscalls       == {"INTERRUPCION_SYSCALL", "INTERRUPCION_BLOQUEO"}
Finales        == {"FINALIZACION", "INTERRUPCION_OUT_OF_MEMORY"}
Motivos        == {"SIN_MOTIVO"} \cup Interrupciones \cup Syscalls \cup Finales

VARIABLES
  cola,              \* kernel: where each process is
  motivo,            \* kernel: pcb->contexto_ejecucion->motivo_desalojo
  corto,             \* kernel: control point and pcb of the short-term scheduler
  pcb_ejecutandose,
  hilo_quantum,      \* kernel: the thread atender_quantum
  muertes,           \* interrupts the console sent (bounded by MaxMuertes)
  dispatch,          \* processes on their way to the CPU
  respuesta,         \* processes on their way back
  interrupt,         \* interrupts on their way to the CPU
  cpu,               \* control point of procesar_conexion_dispatch
  pcb_actual,
  esSyscall, envioPcb,
  interrupciones,    \* the flags that are raised
  hiloInterrupt,     \* the reason procesar_conexion_interrupt is about to write
  pedido,            \* history: what the process asked of the kernel since it was received
  interferida        \* history: some interrupt was under way during this dispatch

kernel == <<cola, motivo, corto, pcb_ejecutandose, hilo_quantum, muertes>>
canales == <<dispatch, respuesta, interrupt>>
procesador == <<cpu, pcb_actual, esSyscall, envioPcb, interrupciones, hiloInterrupt>>
historia == <<pedido, interferida>>
vars == <<kernel, canales, procesador, historia>>

Ninguno == "SIN_MOTIVO"

Init ==
  /\ cola = [p \in Pids |-> "listo"]
  /\ motivo = [p \in Pids |-> "SIN_MOTIVO"]
  /\ corto = [pc |-> "elegir", pid |-> NULL]
  /\ pcb_ejecutandose = NULL
  /\ hilo_quantum = "no"
  /\ muertes = 0
  /\ dispatch = <<>> /\ respuesta = <<>> /\ interrupt = <<>>
  /\ cpu = "recv"
  /\ pcb_actual = [pid |-> NULL, motivo |-> "SIN_MOTIVO"]
  /\ esSyscall = FALSE /\ envioPcb = FALSE
  /\ interrupciones = {} /\ hiloInterrupt = Ninguno
  /\ pedido = Ninguno /\ interferida = FALSE

-----------------------------------------------------------------------------
(* Kernel                                                                   *)

\* An interrupt that has not been answered or dropped yet.
HayInterrupcionEnCurso == interrupt # <<>> \/ interrupciones # {} \/ hiloInterrupt # Ninguno

\* planificar_PCB_cortoPlazo chooses p and ejecutar_PCB sends it.
Despachar(p) ==
  /\ corto.pc = "elegir" /\ cola[p] = "listo"
  /\ cola' = [cola EXCEPT ![p] = "exec"]
  /\ dispatch' = Append(dispatch, [pid |-> p, motivo |-> motivo[p]])
  /\ corto' = [pc |-> "marcar", pid |-> p]
  /\ interferida' = HayInterrupcionEnCurso
  /\ UNCHANGED <<motivo, pcb_ejecutandose, hilo_quantum, muertes, respuesta, interrupt,
                 procesador, pedido>>

\* The rest of ejecutar_PCB before it waits for the CPU.
Marcar ==
  /\ corto.pc = "marcar"
  /\ pcb_ejecutandose' = corto.pid
  /\ hilo_quantum' = IF ALGORITMO = "FIFO" THEN "no" ELSE "durmiendo"
  /\ corto' = [corto EXCEPT !.pc = "recibir"]
  /\ UNCHANGED <<cola, motivo, muertes, canales, procesador, historia>>

\* recibir_pcb_CPU: every answer carries the pcb, whatever its operation code.
RecibirRespuesta ==
  /\ corto.pc = "recibir" /\ respuesta # <<>>
  /\ motivo' = [motivo EXCEPT ![corto.pid] = Head(respuesta).motivo]
  /\ respuesta' = Tail(respuesta)
  /\ corto' = [corto EXCEPT !.pc = "desalojar"]
  /\ UNCHANGED <<cola, pcb_ejecutandose, hilo_quantum, muertes, dispatch, interrupt,
                 procesador, historia>>

\* Where the switch of desalojo_cpu may leave a process returned for reason m.
Destinos(m) ==
  CASE m = "INTERRUPCION_FIN_QUANTUM" -> {"listo"}
    [] m = "INTERRUPCION_SYSCALL" -> {"listo", "bloqueado"}
    [] m = "INTERRUPCION_BLOQUEO" -> {"bloqueado", "terminado"}
    [] m = "SIN_MOTIVO" -> {"ninguna"}
    [] OTHER -> {"terminado"}

\* Mutant: the quantum thread is not cancelled.
Desalojar_SinCancelar ==
  /\ corto.pc = "desalojar"
  /\ \E d \in Destinos(motivo[corto.pid]) : cola' = [cola EXCEPT ![corto.pid] = d]
  /\ corto' = [corto EXCEPT !.pc = "soltar"]
  /\ UNCHANGED <<motivo, hilo_quantum, pcb_ejecutandose, muertes, canales, procesador, historia>>

\* desalojo_cpu cancels the quantum thread and acts on the reason.
Desalojar ==
  /\ corto.pc = "desalojar"
  /\ hilo_quantum' = "no"
  /\ \E d \in Destinos(motivo[corto.pid]) : cola' = [cola EXCEPT ![corto.pid] = d]
  /\ corto' = [corto EXCEPT !.pc = "soltar"]
  /\ UNCHANGED <<motivo, pcb_ejecutandose, muertes, canales, procesador, historia>>

Soltar ==
  /\ corto.pc = "soltar"
  /\ pcb_ejecutandose' = NULL
  /\ corto' = [pc |-> "elegir", pid |-> NULL]
  /\ UNCHANGED <<cola, motivo, hilo_quantum, muertes, canales, procesador, historia>>

EnviarInterrupcion(m, p) ==
  /\ Len(interrupt) < MaxInterrupciones
  /\ interrupt' = Append(interrupt, [motivo |-> m, pid |-> p])
  /\ interferida' = TRUE

\* atender_quantum: the sleep ends before the thread is cancelled.
QuantumVence ==
  /\ hilo_quantum = "durmiendo"
  /\ QuantumLargo => dispatch = <<>>
  /\ EnviarInterrupcion("INTERRUPCION_FIN_QUANTUM", pcb_ejecutandose)
  /\ hilo_quantum' = "no"
  /\ UNCHANGED <<cola, motivo, corto, pcb_ejecutandose, muertes, dispatch, respuesta,
                 procesador, pedido>>

\* finalizar_proceso_consola for the process on the CPU
FinalizarEjecutando ==
  /\ pcb_ejecutandose # NULL /\ muertes < MaxMuertes
  /\ EnviarInterrupcion("INTERRUPCION_FINALIZACION", pcb_ejecutandose)
  /\ muertes' = muertes + 1
  /\ UNCHANGED <<cola, motivo, corto, pcb_ejecutandose, hilo_quantum, dispatch, respuesta,
                 procesador, pedido>>

\* The end of an I/O or the release of a resource.
Desbloquear(p) ==
  /\ cola[p] = "bloqueado"
  /\ cola' = [cola EXCEPT ![p] = "listo"]
  /\ UNCHANGED <<motivo, corto, pcb_ejecutandose, hilo_quantum, muertes, canales, procesador,
                 historia>>

-----------------------------------------------------------------------------
(* CPU, dispatch thread                                                      *)

DespachoQuieto == UNCHANGED <<kernel, interrupt, hiloInterrupt, interferida>>

\* case PCB: recibir_pcb, under the mutex that the interrupt thread holds while
\* it raises its flag and writes its reason.
RecibirProceso ==
  /\ cpu = "recv" /\ hiloInterrupt = Ninguno /\ dispatch # <<>>
  /\ pcb_actual' = Head(dispatch)
  /\ dispatch' = Tail(dispatch)
  /\ pedido' = Ninguno
  /\ cpu' = "lazo"
  /\ UNCHANGED <<respuesta, esSyscall, envioPcb, interrupciones>> /\ DespachoQuieto

\* The condition of the loop, read without the mutex.
Lazo ==
  /\ cpu = "lazo"
  /\ cpu' = IF interrupciones = {} /\ ~esSyscall THEN "ejecutar" ELSE "responder"
  /\ UNCHANGED <<dispatch, respuesta, pcb_actual, esSyscall, envioPcb, interrupciones, pedido>>
  /\ DespachoQuieto

\* ejecutar_ciclo_instruccion with an instruction that asks nothing of the kernel
EjecutarComun ==
  /\ cpu = "ejecutar"
  /\ cpu' = "lazo"
  /\ UNCHANGED <<dispatch, respuesta, pcb_actual, esSyscall, envioPcb, interrupciones, pedido>>
  /\ DespachoQuieto

\* Mutant: WAIT, SIGNAL and IO_* leave envioPcb unset.
EjecutarSyscall_SinEnvio(m) ==
  /\ cpu = "ejecutar"
  /\ pcb_actual' = [pcb_actual EXCEPT !.motivo = m]
  /\ esSyscall' = TRUE /\ UNCHANGED envioPcb
  /\ pedido' = m
  /\ cpu' = "pedir"
  /\ UNCHANGED <<dispatch, respuesta, interrupciones>> /\ DespachoQuieto

\* Mutant: the reason is left as it was.
EjecutarSyscall_SinMotivo(m) ==
  /\ cpu = "ejecutar"
  /\ esSyscall' = TRUE /\ envioPcb' = TRUE
  /\ pedido' = m
  /\ cpu' = "pedir"
  /\ UNCHANGED <<pcb_actual, dispatch, respuesta, interrupciones>> /\ DespachoQuieto

\* execute: WAIT, SIGNAL and the IO_* instructions up to the call that sends
EjecutarSyscall(m) ==
  /\ cpu = "ejecutar"
  /\ pcb_actual' = [pcb_actual EXCEPT !.motivo = m]
  /\ esSyscall' = TRUE /\ envioPcb' = TRUE
  /\ pedido' = m
  /\ cpu' = "pedir"
  /\ UNCHANGED <<dispatch, respuesta, interrupciones>> /\ DespachoQuieto

\* _wait, _signal, _io_*: the pcb goes with the request.
Pedir ==
  /\ cpu = "pedir"
  /\ respuesta' = Append(respuesta, pcb_actual)
  /\ cpu' = "lazo"
  /\ UNCHANGED <<dispatch, pcb_actual, esSyscall, envioPcb, interrupciones, pedido>> /\ DespachoQuieto

\* execute: EXIT, and RESIZE answered with OUT_OF_MEMORY
EjecutarFinal(m) ==
  /\ cpu = "ejecutar"
  /\ pcb_actual' = [pcb_actual EXCEPT !.motivo = m]
  /\ esSyscall' = TRUE
  /\ pedido' = m
  /\ cpu' = "lazo"
  /\ UNCHANGED <<dispatch, respuesta, envioPcb, interrupciones>> /\ DespachoQuieto

Responder ==
  /\ cpu = "responder"
  /\ respuesta' = IF envioPcb THEN respuesta ELSE Append(respuesta, pcb_actual)
  /\ cpu' = "limpiar"
  /\ UNCHANGED <<dispatch, pcb_actual, esSyscall, envioPcb, interrupciones, pedido>> /\ DespachoQuieto

\* Mutant: envioPcb is not reset.
Limpiar_SinEnvio ==
  /\ cpu = "limpiar"
  /\ esSyscall' = FALSE
  /\ interrupciones' = {}
  /\ cpu' = "recv"
  /\ UNCHANGED <<dispatch, respuesta, pcb_actual, envioPcb, pedido>> /\ DespachoQuieto

\* The flags are reset and limpiar_interrupciones forgets the interrupts received
\* until now, whichever process they were meant for.
Limpiar ==
  /\ cpu = "limpiar"
  /\ esSyscall' = FALSE /\ envioPcb' = FALSE
  /\ interrupciones' = {}
  /\ cpu' = "recv"
  /\ UNCHANGED <<dispatch, respuesta, pcb_actual, pedido>> /\ DespachoQuieto

-----------------------------------------------------------------------------
(* CPU, interrupt thread: recibir_interrupciones                             *)

InterrupcionQuieta == UNCHANGED <<kernel, dispatch, respuesta, cpu, esSyscall, envioPcb, historia>>

\* The flag is raised; the pid of the interrupt is not looked at.
RecibirInterrupcion ==
  /\ hiloInterrupt = Ninguno /\ interrupt # <<>>
  /\ interrupt' = Tail(interrupt)
  /\ interrupciones' = interrupciones \cup {Head(interrupt).motivo}
  /\ hiloInterrupt' = Head(interrupt).motivo
  /\ UNCHANGED pcb_actual /\ InterrupcionQuieta

\* The reason is written over whatever pcb_actual says by then.
EscribirMotivo ==
  /\ hiloInterrupt # Ninguno
  /\ pcb_actual' = [pcb_actual EXCEPT !.motivo = hiloInterrupt]
  /\ hiloInterrupt' = Ninguno
  /\ UNCHANGED <<interrupt, interrupciones>> /\ InterrupcionQuieta

-----------------------------------------------------------------------------
Kernel == \/ Marcar \/ RecibirRespuesta \/ Desalojar \/ Soltar
          \/ \E p \in Pids : Despachar(p)
CPUDispatch == \/ RecibirProceso \/ Lazo \/ EjecutarComun \/ Pedir \/ Responder \/ Limpiar
               \/ \E m \in Syscalls : EjecutarSyscall(m)
               \/ \E m \in Finales : EjecutarFinal(m)
CPUInterrupt == RecibirInterrupcion \/ EscribirMotivo

Next == \/ Kernel \/ QuantumVence \/ FinalizarEjecutando
        \/ \E p \in Pids : Desbloquear(p)
        \/ CPUDispatch \/ CPUInterrupt

Spec == Init /\ [][Next]_vars

\* Every thread keeps running and a sleep ends; the console need not kill anybody
\* and a program need not ask anything.
SpecJusta == /\ Spec
             /\ WF_vars(Kernel) /\ WF_vars(QuantumVence)
             /\ WF_vars(CPUDispatch) /\ WF_vars(CPUInterrupt)

-----------------------------------------------------------------------------
(* Properties                                                                *)

Uno(b) == IF b THEN 1 ELSE 0
Pcbs == [pid : Pids \cup {NULL}, motivo : Motivos]

\* Every variable stays in its type.
TypeOK ==
  /\ cola \in [Pids -> {"listo", "exec", "bloqueado", "terminado", "ninguna"}]
  /\ motivo \in [Pids -> Motivos]
  /\ corto \in [pc : {"elegir", "marcar", "recibir", "desalojar", "soltar"}, pid : Pids \cup {NULL}]
  /\ corto.pc # "elegir" => corto.pid \in Pids
  /\ pcb_ejecutandose \in Pids \cup {NULL}
  /\ hilo_quantum \in {"no", "durmiendo"}
  /\ muertes \in Nat
  /\ dispatch \in Seq([pid : Pids, motivo : Motivos])
  /\ respuesta \in Seq(Pcbs)
  /\ interrupt \in Seq([motivo : Interrupciones, pid : Pids])
  /\ cpu \in {"recv", "lazo", "ejecutar", "pedir", "responder", "limpiar"}
  /\ pcb_actual \in Pcbs
  /\ esSyscall \in BOOLEAN /\ envioPcb \in BOOLEAN
  /\ interrupciones \subseteq Interrupciones
  /\ hiloInterrupt \in {Ninguno} \cup Interrupciones
  /\ pedido \in {Ninguno} \cup Syscalls \cup Finales
  /\ interferida \in BOOLEAN

\* The kernel has lent a process and has not got it back.
EnCurso == corto.pc \in {"marcar", "recibir"}

\* The CPU still has to send back the process it received.
CPUDebe == (cpu \in {"lazo", "ejecutar", "responder"} /\ ~envioPcb) \/ cpu = "pedir"

\* While the kernel waits for the CPU the process is in exactly one place, on its
\* way there, on the CPU or on its way back, and it is the one the kernel lent;
\* otherwise none is (a request that was sent is not followed by the pcb, and the
\* flags that say so are reset for the next process).
RespuestaUnica ==
  /\ Len(dispatch) + Uno(CPUDebe) + Len(respuesta) = Uno(EnCurso)
  /\ dispatch # <<>> => Head(dispatch).pid = corto.pid
  /\ CPUDebe => pcb_actual.pid = corto.pid
  /\ respuesta # <<>> => Head(respuesta).pid = corto.pid

\* A process that no interrupt disturbed reaches desalojo_cpu with the reason its
\* last instruction set: a WAIT is not taken for an I/O nor an EXIT for a WAIT,
\* although the reason travels in a pcb that is never cleaned.
PedidoAtendido == corto.pc = "desalojar" /\ ~interferida => pedido # Ninguno /\ motivo[corto.pid] = pedido

\* The abstract state: who is lent, and whom the answer names.
Prestamo == INSTANCE Prestamo WITH
  fase <- IF ~EnCurso THEN "libre" ELSE IF respuesta = <<>> THEN "prestado" ELSE "devuelto",
  pid <- IF EnCurso THEN corto.pid ELSE NULL,
  devuelto <- IF respuesta = <<>> THEN NULL ELSE Head(respuesta).pid

\* The kernel and the CPU keep the promise of Prestamo: each process lent comes
\* back once, as itself, before another one is lent (ejecutar_PCB and the case PCB
\* of procesar_conexion_dispatch).
CumplePrestamo == Prestamo!Spec

\* Under RR and VRR no program keeps the CPU: the interrupt of the quantum gets
\* through and the process comes back (atender_quantum, recibir_interrupciones).
SiempreVuelve == corto.pc = "recibir" ~> corto.pc = "elegir"

\* desalojo_cpu always knows why a process left the CPU ("Desalojado por motivo
\* desconocido" is an error: no queue receives the process).
MotivoConocido == corto.pc = "desalojar" => motivo[corto.pid] # "SIN_MOTIVO"
=============================================================================
