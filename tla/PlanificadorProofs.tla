-------------------------- MODULE PlanificadorProofs --------------------------
(***************************************************************************)
(* Theorems about the scheduler: its types and the wake-ups of its          *)
(* threads, the queues, the slots of the degree of multiprogramming, the    *)
(* instances of the resources and who waits for them, and the stop of       *)
(* planning, for every number of processes, resources and interfaces and    *)
(* every configuration.                                                     *)
(***************************************************************************)
EXTENDS UsoRecursos, TLAPS, ListasProofs

\* Where the console is while it ends a process.
Matando == {"caso", "quitar", "decidir", "comoNuevo", "terminar"}
USE DEF Matando

\* What the control points promise about the locals they use: a thread that is
\* working on a process has one, and a loop that counts has something to count.
Punteros ==
  /\ \A h \in Hilos : marco[h].op # "libre" => marco[h].pid \in Pids
  /\ corto.pc \in {"cpu", "desalojo"} => corto.pid \in Pids
  /\ marco["corto"].op # "libre" => corto.pc = "desalojo"
  /\ consola.pc \in Matando => consola.pid \in Pids
  /\ consola.pc \in {"subir", "bajar"} => consola.n > 0
  /\ largo = "listo" <=> pcb_a_mover \in Pids

Inv == TypeOK /\ Punteros

-----------------------------------------------------------------------------
\* The processes are a finite set.
LEMMA PidsFinito == IsFiniteSet(Pids)
<1>1. 1 \in Int /\ MaxPid \in Int
  BY ConstantesValidas
<1> QED
  BY <1>1, FS_Interval DEF Pids

LEMMA InvInicial == Init => Inv
<1> SUFFICES ASSUME Init PROVE Inv
  OBVIOUS
<1> USE DEF Init, Pids, NULL
<1>1. TipoProcesos
  BY ConstantesValidas DEF TipoProcesos, Estados
<1>2. TipoColas
  BY DEF TipoColas
<1>3. TipoGlobales
  BY ConstantesValidas DEF TipoGlobales, Semaforos
<1>4. TipoRecursos
  BY ConstantesValidas DEF TipoRecursos
<1>5. TipoInterfaces
  BY DEF TipoInterfaces
<1>6. TipoPlazos
  BY DEF TipoPlazos, PcLargo, PcCorto
<1>7. TipoConsola
  BY DEF TipoConsola, ConsolaLibre
<1>8. TipoHilos
  BY DEF TipoHilos
<1>9. TipoMarco
  BY DEF TipoMarco, Marcos, MarcoLibre
<1>10. Punteros
  BY DEF Punteros, ConsolaLibre, MarcoLibre, Hilos
<1> QED
  BY <1>1, <1>2, <1>3, <1>4, <1>5, <1>6, <1>7, <1>8, <1>9, <1>10 DEF Inv, TypeOK

-----------------------------------------------------------------------------
(* The operations the threads share.                                        *)

LEMMA PostTipo ==
  ASSUME TipoGlobales, NEW s \in Semaforos, Post(s)
  PROVE  sem' \in [Semaforos -> Nat]
BY DEF TipoGlobales, Post

LEMMA WaitTipo ==
  ASSUME TipoGlobales, NEW s \in Semaforos, Wait(s)
  PROVE  sem' \in [Semaforos -> Nat]
BY DEF TipoGlobales, Wait

LEMMA ListoTipo ==
  ASSUME TipoProcesos, TipoColas, TipoGlobales,
         NEW p \in Pids, NEW b \in BOOLEAN, proceso_listo(p, b)
  PROVE  /\ estado' \in [Pids -> Estados]
         /\ squeue_ready' \in Seq(Pids) /\ squeue_readyPlus' \in Seq(Pids)
         /\ sem' \in [Semaforos -> Nat]
<1>1. estado' \in [Pids -> Estados]
  BY DEF proceso_listo, TipoProcesos, Estados
<1>2. squeue_ready' \in Seq(Pids) /\ squeue_readyPlus' \in Seq(Pids)
  BY AppendProperties DEF proceso_listo, TipoColas
<1>3. sem' \in [Semaforos -> Nat]
  BY PostTipo DEF proceso_listo, Semaforos
<1> QED
  BY <1>1, <1>2, <1>3

LEMMA DesbloquearTipo ==
  ASSUME TipoProcesos, TipoColas, TipoGlobales, NEW p \in Pids, desbloquear_proceso(p)
  PROVE  /\ estado' \in [Pids -> Estados] /\ quantum' \in [Pids -> 1 .. QUANTUM]
         /\ squeue_ready' \in Seq(Pids) /\ squeue_readyPlus' \in Seq(Pids)
         /\ squeue_blocked' \subseteq Pids
         /\ sem' \in [Semaforos -> Nat]
<1> DEFINE prioridad == ALGORITMO = "VRR" /\ tiempoQ[p] < quantum[p]
<1>1. CASE p \in squeue_blocked
  <2>1. /\ squeue_blocked' = squeue_blocked \ {p}
        /\ quantum' = IF prioridad THEN [quantum EXCEPT ![p] = @ - tiempoQ[p]] ELSE quantum
        /\ proceso_listo(p, prioridad)
    BY <1>1 DEF desbloquear_proceso
  <2>2. prioridad \in BOOLEAN
    OBVIOUS
  <2>3. quantum[p] \in 1 .. QUANTUM /\ tiempoQ[p] \in Nat /\ QUANTUM \in Nat
    BY ConstantesValidas DEF TipoProcesos
  <2>4. prioridad => quantum[p] - tiempoQ[p] \in 1 .. QUANTUM
    BY <2>3
  <2>5. quantum' \in [Pids -> 1 .. QUANTUM] /\ squeue_blocked' \subseteq Pids
    BY <2>1, <2>4 DEF TipoProcesos, TipoColas
  <2> HIDE DEF prioridad
  <2> QED
    BY <2>1, <2>2, <2>5, ListoTipo
<1>2. CASE p \notin squeue_blocked
  BY <1>2 DEF desbloquear_proceso, listas, TipoProcesos, TipoColas, TipoGlobales
<1> QED
  BY <1>1, <1>2

LEMMA FinalizarTipo ==
  ASSUME TipoProcesos, TipoMarco, Punteros,
         NEW h \in Hilos, NEW p \in Pids, NEW c \in BOOLEAN, finalizar_proceso(h, p, c)
  PROVE  /\ estado' \in [Pids -> Estados] /\ salidas' \in [Pids -> Nat]
         /\ TipoMarco'
         /\ \A g \in Hilos : marco'[g].op # "libre" => marco'[g].pid \in Pids
         /\ \A g \in Hilos \ {h} : marco'[g] = marco[g]
<1>1. estado' \in [Pids -> Estados] /\ salidas' \in [Pids -> Nat]
  BY DEF finalizar_proceso, TipoProcesos, Estados
<1>2. [op |-> "finalizar", pid |-> p, i |-> 0, recurso |-> Nada, cupo |-> c] \in Marcos
  BY DEF Marcos
<1> QED
  BY <1>1, <1>2 DEF finalizar_proceso, TipoMarco, Punteros

LEMMA LiberarTipo ==
  ASSUME TipoRecursos, TipoMarco, Punteros,
         NEW h \in Hilos, NEW p \in Pids, NEW r \in Recursos,
         NEW m \in Marcos, m.pid \in Pids, liberar_recurso(h, p, r, m)
  PROVE  /\ instancias' \in [Recursos -> Nat] /\ asignados' \in [Pids -> Seq(Recursos)]
         /\ TipoMarco'
         /\ \A g \in Hilos : marco'[g].op # "libre" => marco'[g].pid \in Pids
         /\ \A g \in Hilos \ {h} : marco'[g] = marco[g]
         /\ marco'[h].op = m.op
<1>1. instancias' \in [Recursos -> Nat]
  BY DEF liberar_recurso, TipoRecursos
<1>2. asignados' \in [Pids -> Seq(Recursos)]
  BY SinPrimero DEF liberar_recurso, TipoRecursos
<1>3. PICK d \in Recursos \cup {Nada} : marco' = [marco EXCEPT ![h] = [m EXCEPT !.recurso = d]]
  BY DEF liberar_recurso
<1>4. [m EXCEPT !.recurso = d] \in Marcos
  BY DEF Marcos
<1>5. [m EXCEPT !.recurso = d].pid \in Pids /\ [m EXCEPT !.recurso = d].op = m.op
  BY DEF Marcos
<1> QED
  BY <1>1, <1>2, <1>3, <1>4, <1>5 DEF TipoMarco, Punteros

-----------------------------------------------------------------------------
(* The long-term scheduler.                                                 *)

\* A step of this thread that keeps the types of what it changes keeps them all.
LEMMA LargoMarco ==
  ASSUME Inv, LargoQuieto,
         estado' \in [Pids -> Estados], squeue_new' \in Seq(Pids),
         squeue_ready' \in Seq(Pids), squeue_readyPlus' \in Seq(Pids),
         sem' \in [Semaforos -> Nat], caida' \in BOOLEAN, largo' \in PcLargo,
         pcb_a_mover' \in Pids \cup {NULL}, largo' = "listo" <=> pcb_a_mover' \in Pids
  PROVE  Inv'
<1>1. TipoProcesos' /\ TipoColas'
  BY DEF Inv, TypeOK, LargoQuieto, TipoProcesos, TipoColas
<1>2. TipoGlobales'
  BY DEF Inv, TypeOK, LargoQuieto, punteros, TipoGlobales
<1>3. TipoRecursos' /\ TipoInterfaces'
  BY DEF Inv, TypeOK, LargoQuieto, recursos, interfaces, TipoRecursos, TipoInterfaces
<1>4. TipoPlazos' /\ TipoConsola' /\ TipoMarco'
  BY DEF Inv, TypeOK, LargoQuieto, TipoPlazos, TipoConsola, TipoMarco
<1>5. TipoHilos'
  BY DEF Inv, TypeOK, LargoQuieto, TipoHilos
<1>6. Punteros'
  BY DEF Inv, LargoQuieto, Punteros
<1> QED
  BY <1>1, <1>2, <1>3, <1>4, <1>5, <1>6 DEF Inv, TypeOK

LEMMA LargoPlazoInv ==
  ASSUME Inv, LargoPlazo
  PROVE  Inv'
<1>0. /\ TipoProcesos /\ TipoColas /\ TipoGlobales /\ TipoRecursos /\ TipoInterfaces
      /\ TipoPlazos /\ TipoConsola /\ TipoHilos /\ TipoMarco /\ Punteros
  BY DEF Inv, TypeOK
<1>1. LargoQuieto
  BY DEF LargoPlazo, LargoSemNew, LargoDetenida, LargoSemLargo, LargoReponer, LargoVacia,
     LargoSemMulti, LargoRenunciar, LargoSacar, LargoListo, LargoCae
<1>2. CASE LargoSacar
  <2>1. Head(squeue_new) \in Pids /\ Tail(squeue_new) \in Seq(Pids)
    BY <1>0, <1>2, HeadTailProperties DEF LargoSacar, TipoColas
  <2>2. /\ UNCHANGED <<estado, squeue_ready, squeue_readyPlus, sem, caida>>
        /\ squeue_new' = Tail(squeue_new) /\ pcb_a_mover' = Head(squeue_new) /\ largo' = "listo"
    BY <1>2 DEF LargoSacar, listas
  <2> QED
    BY <1>0, <1>1, <2>1, <2>2, LargoMarco DEF TipoProcesos, TipoColas, TipoGlobales, PcLargo
<1>3. CASE LargoListo
  <2>1. pcb_a_mover \in Pids
    BY <1>0, <1>3 DEF LargoListo, Punteros
  <2>2. /\ proceso_listo(pcb_a_mover, FALSE) /\ squeue_new' = squeue_new
        /\ caida' = caida /\ largo' = "semNew" /\ pcb_a_mover' = NULL
    BY <1>3 DEF LargoListo
  <2>3. PICK p \in Pids : p = pcb_a_mover
    BY <2>1
  <2>4. proceso_listo(p, FALSE)
    BY <2>2, <2>3
  <2>5. /\ estado' \in [Pids -> Estados] /\ sem' \in [Semaforos -> Nat]
        /\ squeue_ready' \in Seq(Pids) /\ squeue_readyPlus' \in Seq(Pids)
    BY <1>0, <2>4, ListoTipo
  <2>6. NULL \notin Pids
    BY DEF NULL, Pids
  <2> QED
    BY <1>0, <1>1, <2>2, <2>5, <2>6, LargoMarco DEF TipoGlobales, TipoColas, PcLargo
<1>4. CASE ~LargoSacar /\ ~LargoListo
  <2>1. UNCHANGED <<estado, squeue_new, squeue_ready, squeue_readyPlus, pcb_a_mover>>
    BY <1>4 DEF LargoPlazo, LargoSemNew, LargoDetenida, LargoSemLargo, LargoReponer, LargoVacia,
       LargoSemMulti, LargoRenunciar, LargoCae, SinMover, listas
  <2>2. caida' \in BOOLEAN /\ largo' \in PcLargo
    BY <1>0, <1>4 DEF LargoPlazo, LargoSemNew, LargoDetenida, LargoSemLargo, LargoReponer, LargoVacia,
       LargoSemMulti, LargoRenunciar, LargoCae, SinMover, TipoGlobales, TipoPlazos, PcLargo
  <2>3. sem' \in [Semaforos -> Nat]
    <3>1. CASE LargoSemNew \/ LargoSemLargo \/ LargoSemMulti
      BY <1>0, <3>1, WaitTipo DEF LargoSemNew, LargoSemLargo, LargoSemMulti, Semaforos
    <3>2. CASE LargoDetenida \/ LargoVacia \/ LargoCae
      BY <1>0, <3>2 DEF LargoDetenida, LargoVacia, LargoCae, TipoGlobales
    <3>3. CASE LargoReponer
      BY <1>0, <3>3 DEF LargoReponer, TipoGlobales, Semaforos
    <3>4. CASE LargoRenunciar
      BY <1>0, <3>4, PostTipo DEF LargoRenunciar, Semaforos
    <3> QED
      BY <1>4, <3>1, <3>2, <3>3, <3>4 DEF LargoPlazo
  <2>4. /\ estado' \in [Pids -> Estados] /\ squeue_new' \in Seq(Pids)
        /\ squeue_ready' \in Seq(Pids) /\ squeue_readyPlus' \in Seq(Pids)
        /\ pcb_a_mover' \in Pids \cup {NULL}
    BY <1>0, <2>1 DEF TipoProcesos, TipoColas, TipoPlazos
  <2>5. largo # "listo" /\ largo' # "listo"
    BY <1>4 DEF LargoPlazo, LargoSemNew, LargoDetenida, LargoSemLargo, LargoReponer, LargoVacia,
       LargoSemMulti, LargoRenunciar, LargoCae
  <2>6. largo' = "listo" <=> pcb_a_mover' \in Pids
    BY <1>0, <2>1, <2>5 DEF Punteros
  <2> QED
    BY <1>1, <2>2, <2>3, <2>4, <2>6, LargoMarco
<1> QED
  BY <1>2, <1>3, <1>4

-----------------------------------------------------------------------------
(* The short-term scheduler, with the CPU's answers.                        *)

\* A step of this thread that keeps the types of what it changes keeps them all.
LEMMA CortoMarco ==
  ASSUME Inv, CortoQuieto,
         estado' \in [Pids -> Estados], quantum' \in [Pids -> 1 .. QUANTUM],
         tiempoQ' \in [Pids -> Nat], salidas' \in [Pids -> Nat],
         squeue_ready' \in Seq(Pids), squeue_readyPlus' \in Seq(Pids),
         squeue_exec' \subseteq Pids, squeue_blocked' \subseteq Pids,
         sem' \in [Semaforos -> Nat], interrupcion' \in BOOLEAN, caida' \in BOOLEAN,
         pcb_ejecutandose' \in Pids \cup {NULL},
         TipoRecursos', TipoInterfaces', TipoMarco',
         corto' \in [pc : PcCorto, pid : Pids \cup {NULL}],
         corto'.pc \in {"cpu", "desalojo"} => corto'.pid \in Pids,
         marco'["corto"].op # "libre" => corto'.pc = "desalojo",
         \A h \in Hilos : marco'[h].op # "libre" => marco'[h].pid \in Pids
  PROVE  Inv'
<1>1. TipoProcesos'
  BY DEF Inv, TypeOK, CortoQuieto, TipoProcesos
<1>2. TipoColas'
  BY DEF Inv, TypeOK, CortoQuieto, TipoColas
<1>3. TipoGlobales'
  BY DEF Inv, TypeOK, CortoQuieto, TipoGlobales
<1>4. TipoPlazos' /\ TipoConsola'
  BY DEF Inv, TypeOK, CortoQuieto, TipoPlazos, TipoConsola
<1>5. TipoHilos'
  BY DEF Inv, TypeOK, CortoQuieto, TipoHilos
<1>6. Punteros'
  BY DEF Inv, CortoQuieto, Punteros
<1> QED
  BY <1>1, <1>2, <1>3, <1>4, <1>5, <1>6 DEF Inv, TypeOK

LEMMA SinDespacharInv ==
  ASSUME Inv, CortoQuieto, SinDespachar,
         sem' \in [Semaforos -> Nat],
         corto.pc \notin {"cpu", "desalojo"},
         NEW c \in PcCorto \ {"cpu", "desalojo"}, corto' = [corto EXCEPT !.pc = c]
  PROVE  Inv'
<1>1. /\ estado' \in [Pids -> Estados] /\ quantum' \in [Pids -> 1 .. QUANTUM]
      /\ tiempoQ' \in [Pids -> Nat] /\ salidas' \in [Pids -> Nat]
  BY DEF Inv, TypeOK, SinDespachar, procesos, TipoProcesos
<1>2. /\ squeue_ready' \in Seq(Pids) /\ squeue_readyPlus' \in Seq(Pids)
      /\ squeue_exec' \subseteq Pids /\ squeue_blocked' \subseteq Pids
  BY DEF Inv, TypeOK, SinDespachar, listas, TipoColas
<1>3. interrupcion' \in BOOLEAN /\ caida' \in BOOLEAN /\ pcb_ejecutandose' \in Pids \cup {NULL}
  BY DEF Inv, TypeOK, SinDespachar, TipoGlobales
<1>4. TipoRecursos' /\ TipoInterfaces' /\ TipoMarco'
  BY DEF Inv, TypeOK, SinDespachar, recursos, interfaces, TipoRecursos, TipoInterfaces, TipoMarco
<1>5. corto' \in [pc : PcCorto, pid : Pids \cup {NULL}] /\ corto'.pc = c
  BY DEF Inv, TypeOK, TipoPlazos
<1>6. /\ marco'["corto"].op = "libre"
      /\ \A h \in Hilos : marco'[h].op # "libre" => marco'[h].pid \in Pids
  BY DEF Inv, SinDespachar, Punteros
<1> QED
  BY <1>1, <1>2, <1>3, <1>4, <1>5, <1>6, CortoMarco

\* What every answer of the CPU does before its own case.
LEMMA DesalojoTipo ==
  ASSUME Inv, NEW m, Desalojo(m)
  PROVE  /\ CortoQuieto
         /\ corto.pid \in Pids
         /\ marco["corto"].op = "libre"
         /\ tiempoQ' \in [Pids -> Nat]
         /\ squeue_readyPlus' = squeue_readyPlus
         /\ squeue_exec' \subseteq Pids
         /\ interrupcion' \in BOOLEAN
         /\ pcb_ejecutandose' \in Pids \cup {NULL}
         /\ corto' \in [pc : PcCorto, pid : Pids \cup {NULL}]
         /\ corto'.pc = "desalojo" /\ corto'.pid = corto.pid
<1>1. corto.pid \in Pids /\ marco["corto"].op = "libre"
  BY DEF Desalojo, Inv, Punteros
<1>2. tiempoQ' \in [Pids -> Nat]
  <2>1. PICK t \in IF ALGORITMO = "VRR" THEN 0 .. MaxTiempo ELSE {tiempoQ[corto.pid]} :
               tiempoQ' = [tiempoQ EXCEPT ![corto.pid] = t]
    BY DEF Desalojo
  <2>2. t \in Nat
    BY <1>1, <2>1, ConstantesValidas DEF Inv, TypeOK, TipoProcesos
  <2> QED
    BY <2>1, <2>2 DEF Inv, TypeOK, TipoProcesos
<1>3. squeue_exec' \subseteq Pids
  BY DEF Desalojo, Inv, TypeOK, TipoColas
<1>4. interrupcion' \in BOOLEAN /\ pcb_ejecutandose' \in Pids \cup {NULL}
  BY DEF Desalojo, Inv, TypeOK, TipoGlobales
<1>5. /\ corto' \in [pc : PcCorto, pid : Pids \cup {NULL}]
      /\ corto'.pc = "desalojo" /\ corto'.pid = corto.pid
  BY DEF Desalojo, Inv, TypeOK, TipoPlazos, PcCorto
<1> QED
  BY <1>1, <1>2, <1>3, <1>4, <1>5 DEF Desalojo

LEMMA CortoPlazoInv ==
  ASSUME Inv, CortoPlazo
  PROVE  Inv'
<1>0. /\ TipoProcesos /\ TipoColas /\ TipoGlobales /\ TipoRecursos /\ TipoInterfaces
      /\ TipoPlazos /\ TipoMarco /\ Punteros
  BY DEF Inv, TypeOK
<1>1. CASE CortoSemReady
  <2>1. sem' \in [Semaforos -> Nat]
    BY <1>0, <1>1, WaitTipo DEF CortoSemReady, Semaforos
  <2> QED
    BY <1>1, <2>1, SinDespacharInv DEF CortoSemReady, PcCorto
<1>2. CASE CortoDetenida
  <2>1. sem' \in [Semaforos -> Nat]
    BY <1>0, <1>2 DEF CortoDetenida, TipoGlobales
  <2> QED
    BY <1>2, <2>1, SinDespacharInv DEF CortoDetenida, PcCorto
<1>3. CASE CortoSemCorto
  <2>1. sem' \in [Semaforos -> Nat]
    BY <1>0, <1>3, WaitTipo DEF CortoSemCorto, Semaforos
  <2> QED
    BY <1>3, <2>1, SinDespacharInv DEF CortoSemCorto, PcCorto
<1>4. CASE CortoElegir
  <2>1. sem' \in [Semaforos -> Nat]
    BY <1>0, <1>4 DEF CortoElegir, TipoGlobales
  <2> QED
    BY <1>4, <2>1, SinDespacharInv DEF CortoElegir, PcCorto
<1>5. CASE CortoNadaListo
  <2>1. sem' \in [Semaforos -> Nat]
    BY <1>0, <1>5, PostTipo DEF CortoNadaListo, Semaforos
  <2> QED
    BY <1>5, <2>1, SinDespacharInv DEF CortoNadaListo, PcCorto
<1>6. CASE CortoDespachar
  <2> DEFINE p == Head(ColaElegida)
  <2>1. p \in Pids
    BY <1>0, <1>6, HeadTailProperties DEF CortoDespachar, ColaElegida, TipoColas
  <2>2. squeue_ready' \in Seq(Pids) /\ squeue_readyPlus' \in Seq(Pids)
    BY <1>0, <1>6, HeadTailProperties DEF CortoDespachar, ColaElegida, TipoColas
  <2> HIDE DEF p
  <2>3. /\ estado' = [estado EXCEPT ![p] = "EJECUTANDO"]
        /\ squeue_exec' = squeue_exec \cup {p}
        /\ pcb_ejecutandose' = p
        /\ corto' = [pc |-> "cpu", pid |-> p]
    BY <1>6 DEF CortoDespachar, p
  <2>4. /\ estado' \in [Pids -> Estados] /\ quantum' \in [Pids -> 1 .. QUANTUM]
        /\ tiempoQ' \in [Pids -> Nat] /\ salidas' \in [Pids -> Nat]
    BY <1>0, <1>6, <2>1, <2>3 DEF CortoDespachar, TipoProcesos, Estados
  <2>5. squeue_exec' \subseteq Pids /\ squeue_blocked' \subseteq Pids
    BY <1>0, <1>6, <2>1, <2>3 DEF CortoDespachar, TipoColas
  <2>6. /\ sem' \in [Semaforos -> Nat] /\ interrupcion' \in BOOLEAN /\ caida' \in BOOLEAN
        /\ pcb_ejecutandose' \in Pids \cup {NULL}
    BY <1>0, <1>6, <2>1, <2>3 DEF CortoDespachar, TipoGlobales
  <2>7. TipoRecursos' /\ TipoInterfaces' /\ TipoMarco'
    BY <1>0, <1>6 DEF CortoDespachar, recursos, interfaces, TipoRecursos, TipoInterfaces, TipoMarco
  <2>8. /\ corto' \in [pc : PcCorto, pid : Pids \cup {NULL}]
        /\ corto'.pc = "cpu" /\ corto'.pid \in Pids
    BY <2>1, <2>3 DEF PcCorto
  <2>9. /\ marco'["corto"].op = "libre"
        /\ \A h \in Hilos : marco'[h].op # "libre" => marco'[h].pid \in Pids
    BY <1>0, <1>6 DEF CortoDespachar, Punteros
  <2> QED
    BY <1>6, <2>2, <2>4, <2>5, <2>6, <2>7, <2>8, <2>9, CortoMarco DEF CortoDespachar
<1>7. CASE CortoCae
  <2>1. /\ estado' \in [Pids -> Estados] /\ quantum' \in [Pids -> 1 .. QUANTUM]
        /\ tiempoQ' \in [Pids -> Nat] /\ salidas' \in [Pids -> Nat]
    BY <1>0, <1>7 DEF CortoCae, procesos, TipoProcesos
  <2>2. /\ squeue_ready' \in Seq(Pids) /\ squeue_readyPlus' \in Seq(Pids)
        /\ squeue_exec' \subseteq Pids /\ squeue_blocked' \subseteq Pids
    BY <1>0, <1>7 DEF CortoCae, listas, TipoColas
  <2>3. /\ sem' \in [Semaforos -> Nat] /\ interrupcion' \in BOOLEAN /\ caida' \in BOOLEAN
        /\ pcb_ejecutandose' \in Pids \cup {NULL}
    BY <1>0, <1>7 DEF CortoCae, TipoGlobales
  <2>4. TipoRecursos' /\ TipoInterfaces' /\ TipoMarco'
    BY <1>0, <1>7 DEF CortoCae, recursos, interfaces, TipoRecursos, TipoInterfaces, TipoMarco
  <2>5. /\ corto' \in [pc : PcCorto, pid : Pids \cup {NULL}] /\ corto' = corto
    BY <1>0, <1>7 DEF CortoCae, TipoPlazos
  <2>6. /\ marco' = marco
    BY <1>7 DEF CortoCae
  <2> QED
    BY <1>0, <1>7, <2>1, <2>2, <2>3, <2>4, <2>5, <2>6, CortoMarco DEF CortoCae, Punteros
<1>8. CASE SignalListo
  <2>1. corto.pid \in Pids
    BY <1>0, <1>8 DEF SignalListo, Punteros
  <2>2. /\ estado' \in [Pids -> Estados] /\ sem' \in [Semaforos -> Nat]
        /\ squeue_ready' \in Seq(Pids) /\ squeue_readyPlus' \in Seq(Pids)
    BY <1>0, <1>8, <2>1, ListoTipo DEF SignalListo
  <2>3. quantum' \in [Pids -> 1 .. QUANTUM] /\ tiempoQ' \in [Pids -> Nat] /\ salidas' \in [Pids -> Nat]
    BY <1>0, <1>8 DEF SignalListo, TipoProcesos
  <2>4. squeue_exec' \subseteq Pids /\ squeue_blocked' \subseteq Pids
    BY <1>0, <1>8 DEF SignalListo, TipoColas
  <2>5. interrupcion' \in BOOLEAN /\ caida' \in BOOLEAN /\ pcb_ejecutandose' \in Pids \cup {NULL}
    BY <1>0, <1>8 DEF SignalListo, TipoGlobales
  <2>6. TipoRecursos' /\ TipoInterfaces'
    BY <1>0, <1>8 DEF SignalListo, recursos, interfaces, TipoRecursos, TipoInterfaces
  <2>7. marco' = [marco EXCEPT !["corto"] = MarcoLibre] /\ MarcoLibre \in Marcos
    BY <1>8 DEF SignalListo, MarcoLibre, Marcos
  <2>8. /\ TipoMarco' /\ marco'["corto"].op = "libre"
        /\ \A h \in Hilos : marco'[h].op # "libre" => marco'[h].pid \in Pids
    BY <1>0, <2>7 DEF TipoMarco, Punteros, Hilos, MarcoLibre
  <2>9. /\ corto' \in [pc : PcCorto, pid : Pids \cup {NULL}] /\ corto'.pid \in Pids
    BY <1>0, <1>8, <2>1 DEF SignalListo, TipoPlazos
  <2> QED
    BY <1>8, <2>2, <2>3, <2>4, <2>5, <2>6, <2>8, <2>9, CortoMarco DEF SignalListo
<1>9. CASE CortoSoltar
  <2>1. /\ estado' \in [Pids -> Estados] /\ quantum' \in [Pids -> 1 .. QUANTUM]
        /\ tiempoQ' \in [Pids -> Nat] /\ salidas' \in [Pids -> Nat]
    BY <1>0, <1>9 DEF CortoSoltar, procesos, TipoProcesos
  <2>2. /\ squeue_ready' \in Seq(Pids) /\ squeue_readyPlus' \in Seq(Pids)
        /\ squeue_exec' \subseteq Pids /\ squeue_blocked' \subseteq Pids
    BY <1>0, <1>9 DEF CortoSoltar, listas, TipoColas
  <2>3. /\ sem' \in [Semaforos -> Nat] /\ interrupcion' \in BOOLEAN /\ caida' \in BOOLEAN
        /\ pcb_ejecutandose' \in Pids \cup {NULL}
    BY <1>0, <1>9 DEF CortoSoltar, TipoGlobales
  <2>4. TipoRecursos' /\ TipoInterfaces' /\ TipoMarco'
    BY <1>0, <1>9 DEF CortoSoltar, recursos, interfaces, TipoRecursos, TipoInterfaces, TipoMarco
  <2>5. corto' \in [pc : PcCorto, pid : Pids \cup {NULL}] /\ corto'.pc = "semReady"
    BY <1>9 DEF CortoSoltar, PcCorto
  <2>6. /\ marco'["corto"].op = "libre"
        /\ \A h \in Hilos : marco'[h].op # "libre" => marco'[h].pid \in Pids
    BY <1>0, <1>9 DEF CortoSoltar, Punteros, MarcoLibre
  <2> QED
    BY <1>9, <2>1, <2>2, <2>3, <2>4, <2>5, <2>6, CortoMarco DEF CortoSoltar
<1>10. CASE EsperarRecurso
  <2>1. corto.pid \in Pids
    BY <1>0, <1>10 DEF EsperarRecurso, Punteros
  <2>2. /\ estado' \in [Pids -> Estados] /\ quantum' \in [Pids -> 1 .. QUANTUM]
        /\ tiempoQ' \in [Pids -> Nat] /\ salidas' \in [Pids -> Nat]
    BY <1>0, <1>10, <2>1 DEF EsperarRecurso, bloquear_proceso, TipoProcesos, Estados
  <2>3. /\ squeue_ready' \in Seq(Pids) /\ squeue_readyPlus' \in Seq(Pids)
        /\ squeue_exec' \subseteq Pids /\ squeue_blocked' \subseteq Pids
    BY <1>0, <1>10, <2>1 DEF EsperarRecurso, bloquear_proceso, listas, TipoColas
  <2>4. /\ sem' \in [Semaforos -> Nat] /\ interrupcion' \in BOOLEAN /\ caida' \in BOOLEAN
        /\ pcb_ejecutandose' \in Pids \cup {NULL}
    BY <1>0, <1>10 DEF EsperarRecurso, TipoGlobales
  <2>5. TipoRecursos'
    BY <1>0, <1>10, <2>1, AppendProperties DEF EsperarRecurso, TipoRecursos
  <2>6. TipoInterfaces'
    BY <1>0, <1>10 DEF EsperarRecurso, interfaces, TipoInterfaces
  <2>7. marco' = [marco EXCEPT !["corto"] = MarcoLibre] /\ MarcoLibre \in Marcos
    BY <1>10 DEF EsperarRecurso, MarcoLibre, Marcos
  <2>8. /\ TipoMarco' /\ marco'["corto"].op = "libre"
        /\ \A h \in Hilos : marco'[h].op # "libre" => marco'[h].pid \in Pids
    BY <1>0, <2>7 DEF TipoMarco, Punteros, Hilos, MarcoLibre
  <2>9. /\ corto' \in [pc : PcCorto, pid : Pids \cup {NULL}] /\ corto'.pid \in Pids
    BY <1>0, <1>10, <2>1 DEF EsperarRecurso, TipoPlazos
  <2> QED
    BY <1>10, <2>2, <2>3, <2>4, <2>5, <2>6, <2>8, <2>9, CortoMarco DEF EsperarRecurso
<1> QED
  BY <1>1, <1>2, <1>3, <1>4, <1>5, <1>6, <1>7, <1>8, <1>9, <1>10 DEF CortoPlazo

\* The conclusion shared by the cases of desalojo_cpu.
LEMMA DesalojoMarco ==
  ASSUME Inv, NEW m, Desalojo(m),
         estado' \in [Pids -> Estados], quantum' \in [Pids -> 1 .. QUANTUM], salidas' \in [Pids -> Nat],
         squeue_ready' \in Seq(Pids), squeue_blocked' \subseteq Pids,
         sem' \in [Semaforos -> Nat], caida' \in BOOLEAN,
         TipoRecursos', TipoInterfaces', TipoMarco',
         \A h \in Hilos : marco'[h].op # "libre" => marco'[h].pid \in Pids
  PROVE  Inv'
<1>1. squeue_readyPlus' \in Seq(Pids)
  BY DesalojoTipo DEF Inv, TypeOK, TipoColas
<1> QED
  BY <1>1, DesalojoTipo, CortoMarco

LEMMA CPUInv ==
  ASSUME Inv, CPU
  PROVE  Inv'
<1>0. /\ TipoProcesos /\ TipoColas /\ TipoGlobales /\ TipoRecursos /\ TipoInterfaces
      /\ TipoPlazos /\ TipoMarco /\ Punteros
  BY DEF Inv, TypeOK
<1>1. CASE DesalojoFinQuantum
  <2>1. corto.pid \in Pids /\ Desalojo("FIN_QUANTUM")
    BY <1>1, DesalojoTipo DEF DesalojoFinQuantum
  <2>2. estado' \in [Pids -> Estados] /\ sem' \in [Semaforos -> Nat] /\ squeue_ready' \in Seq(Pids)
    BY <1>0, <1>1, <2>1, ListoTipo DEF DesalojoFinQuantum
  <2>3. quantum' \in [Pids -> 1 .. QUANTUM] /\ salidas' \in [Pids -> Nat]
    BY <1>0, <1>1, <2>1, ConstantesValidas DEF DesalojoFinQuantum, TipoProcesos
  <2>4. squeue_blocked' \subseteq Pids
    BY <1>0, <1>1, <2>1 DEF DesalojoFinQuantum, TipoColas
  <2>5. caida' \in BOOLEAN
    BY <1>0, <1>1, <2>1 DEF DesalojoFinQuantum, TipoGlobales
  <2>6. TipoRecursos' /\ TipoInterfaces'
    BY <1>0, <1>1, <2>1 DEF DesalojoFinQuantum, recursos, interfaces, TipoRecursos, TipoInterfaces
  <2>7. /\ TipoMarco'
        /\ \A h \in Hilos : marco'[h].op # "libre" => marco'[h].pid \in Pids
    BY <1>0, <1>1, <2>1 DEF DesalojoFinQuantum, TipoMarco, Punteros
  <2> QED
    BY <2>1, <2>2, <2>3, <2>4, <2>5, <2>6, <2>7, DesalojoMarco
<1>2. CASE \E r \in Recursos : DesalojoWait(r)
  <2>1. corto.pid \in Pids /\ Desalojo("WAIT")
    BY <1>2, DesalojoTipo DEF DesalojoWait
  <2>2. estado' \in [Pids -> Estados] /\ sem' \in [Semaforos -> Nat] /\ squeue_ready' \in Seq(Pids)
    BY <1>0, <1>2, <2>1, ListoTipo DEF DesalojoWait
  <2>3. quantum' \in [Pids -> 1 .. QUANTUM] /\ salidas' \in [Pids -> Nat]
    BY <1>0, <1>2, <2>1 DEF DesalojoWait, TipoProcesos
  <2>4. squeue_blocked' \subseteq Pids
    BY <1>0, <1>2, <2>1 DEF DesalojoWait, TipoColas
  <2>5. caida' \in BOOLEAN
    BY <1>0, <1>2, <2>1 DEF DesalojoWait, TipoGlobales
  <2>6. TipoRecursos'
    BY <1>0, <1>2, <2>1, AppendProperties DEF DesalojoWait, TipoRecursos
  <2>7. TipoInterfaces'
    BY <1>0, <1>2, <2>1 DEF DesalojoWait, interfaces, TipoInterfaces
  <2>8. /\ TipoMarco'
        /\ \A h \in Hilos : marco'[h].op # "libre" => marco'[h].pid \in Pids
    BY <1>0, <1>2, <2>1 DEF DesalojoWait, TipoMarco, Punteros
  <2> QED
    BY <2>1, <2>2, <2>3, <2>4, <2>5, <2>6, <2>7, <2>8, DesalojoMarco
<1>3. CASE \E r \in Recursos : DesalojoWaitBloquea(r)
  <2>1. corto.pid \in Pids /\ Desalojo("WAIT")
    BY <1>3, DesalojoTipo DEF DesalojoWaitBloquea
  <2>2. estado' \in [Pids -> Estados] /\ quantum' \in [Pids -> 1 .. QUANTUM] /\ salidas' \in [Pids -> Nat]
    BY <1>0, <1>3, <2>1 DEF DesalojoWaitBloquea, TipoProcesos, Estados
  <2>3. squeue_ready' \in Seq(Pids) /\ squeue_blocked' \subseteq Pids
    BY <1>0, <1>3, <2>1 DEF DesalojoWaitBloquea, TipoColas
  <2>4. sem' \in [Semaforos -> Nat] /\ caida' \in BOOLEAN
    BY <1>0, <1>3, <2>1 DEF DesalojoWaitBloquea, TipoGlobales
  <2>5. TipoRecursos' /\ TipoInterfaces'
    BY <1>0, <1>3, <2>1 DEF DesalojoWaitBloquea, recursos, interfaces, TipoRecursos, TipoInterfaces
  <2>6. PICK r \in Recursos :
          marco' = [marco EXCEPT !["corto"] = [MarcoLibre EXCEPT !.op = "esperar", !.pid = corto.pid,
                                                                 !.recurso = r]]
    BY <1>3 DEF DesalojoWaitBloquea
  <2>7. /\ [MarcoLibre EXCEPT !.op = "esperar", !.pid = corto.pid, !.recurso = r] \in Marcos
        /\ [MarcoLibre EXCEPT !.op = "esperar", !.pid = corto.pid, !.recurso = r].pid \in Pids
    BY <2>1 DEF MarcoLibre, Marcos
  <2>8. /\ TipoMarco'
        /\ \A h \in Hilos : marco'[h].op # "libre" => marco'[h].pid \in Pids
    BY <1>0, <2>6, <2>7 DEF TipoMarco, Punteros
  <2> QED
    BY <2>1, <2>2, <2>3, <2>4, <2>5, <2>8, DesalojoMarco
<1>4. CASE \E r \in Recursos : DesalojoSignal(r)
  <2>1. corto.pid \in Pids /\ Desalojo("SIGNAL")
    BY <1>4, DesalojoTipo DEF DesalojoSignal
  <2>2. estado' \in [Pids -> Estados] /\ quantum' \in [Pids -> 1 .. QUANTUM] /\ salidas' \in [Pids -> Nat]
    BY <1>0, <1>4, <2>1 DEF DesalojoSignal, TipoProcesos, Estados
  <2>3. squeue_ready' \in Seq(Pids) /\ squeue_blocked' \subseteq Pids
    BY <1>0, <1>4, <2>1 DEF DesalojoSignal, TipoColas
  <2>4. sem' \in [Semaforos -> Nat] /\ caida' \in BOOLEAN
    BY <1>0, <1>4, <2>1 DEF DesalojoSignal, TipoGlobales
  <2>5. TipoInterfaces'
    BY <1>0, <1>4, <2>1 DEF DesalojoSignal, interfaces, TipoInterfaces
  <2>6. TipoRecursos' /\ TipoMarco'
        /\ \A h \in Hilos : marco'[h].op # "libre" => marco'[h].pid \in Pids
    <3>1. PICK r \in Recursos : DesalojoSignal(r)
      BY <1>4
    <3> DEFINE m == [MarcoLibre EXCEPT !.op = "signal", !.pid = corto.pid]
    <3>2. m \in Marcos /\ m.pid \in Pids
      BY <2>1 DEF MarcoLibre, Marcos
    <3>3. liberar_recurso("corto", corto.pid, r, m) /\ colaRecurso' = colaRecurso
      BY <3>1 DEF DesalojoSignal
    <3> HIDE DEF m
    <3> QED
      BY <1>0, <2>1, <3>2, <3>3, LiberarTipo DEF Hilos, TipoRecursos
  <2> QED
    BY <2>1, <2>2, <2>3, <2>4, <2>5, <2>6, DesalojoMarco
<1>5. CASE \E i \in Interfaces : DesalojoIO(i)
  <2>1. corto.pid \in Pids /\ Desalojo("IO")
    BY <1>5, DesalojoTipo DEF DesalojoIO
  <2>2. estado' \in [Pids -> Estados] /\ quantum' \in [Pids -> 1 .. QUANTUM] /\ salidas' \in [Pids -> Nat]
    BY <1>0, <1>5, <2>1 DEF DesalojoIO, bloquear_proceso, TipoProcesos, Estados
  <2>3. squeue_ready' \in Seq(Pids) /\ squeue_blocked' \subseteq Pids
    BY <1>0, <1>5, <2>1 DEF DesalojoIO, bloquear_proceso, TipoColas
  <2>4. sem' \in [Semaforos -> Nat] /\ caida' \in BOOLEAN
    BY <1>0, <1>5, <2>1 DEF DesalojoIO, TipoGlobales
  <2>5. TipoRecursos'
    BY <1>0, <1>5, <2>1 DEF DesalojoIO, recursos, TipoRecursos
  <2>6. TipoInterfaces'
    BY <1>0, <1>5, <2>1, AppendProperties DEF DesalojoIO, TipoInterfaces
  <2>7. /\ TipoMarco'
        /\ \A h \in Hilos : marco'[h].op # "libre" => marco'[h].pid \in Pids
    BY <1>0, <1>5, <2>1 DEF DesalojoIO, TipoMarco, Punteros
  <2> QED
    BY <2>1, <2>2, <2>3, <2>4, <2>5, <2>6, <2>7, DesalojoMarco
<1>6. ASSUME NEW m, DesalojoFinaliza(m) PROVE Inv'
  <2>1. corto.pid \in Pids /\ Desalojo(m)
    BY <1>6, DesalojoTipo DEF DesalojoFinaliza
  <2>2. estado' \in [Pids -> Estados] /\ salidas' \in [Pids -> Nat] /\ TipoMarco'
        /\ \A h \in Hilos : marco'[h].op # "libre" => marco'[h].pid \in Pids
    BY <1>0, <1>6, <2>1, FinalizarTipo DEF DesalojoFinaliza, Hilos
  <2>3. quantum' \in [Pids -> 1 .. QUANTUM]
    BY <1>0, <1>6, <2>1 DEF DesalojoFinaliza, TipoProcesos
  <2>4. squeue_ready' \in Seq(Pids) /\ squeue_blocked' \subseteq Pids
    BY <1>0, <1>6, <2>1 DEF DesalojoFinaliza, TipoColas
  <2>5. sem' \in [Semaforos -> Nat] /\ caida' \in BOOLEAN
    BY <1>0, <1>6, <2>1 DEF DesalojoFinaliza, TipoGlobales
  <2>6. TipoRecursos'
    BY <1>0, <1>6, <2>1 DEF DesalojoFinaliza, recursos, TipoRecursos
  <2>7. TipoInterfaces'
    BY <1>0, <1>6, <2>1 DEF DesalojoFinaliza, interfaces, TipoInterfaces
  <2> QED
    BY <2>1, <2>2, <2>3, <2>4, <2>5, <2>6, <2>7, DesalojoMarco
<1>7. CASE DesalojoRecursoInexistente
  <2>1. corto.pid \in Pids /\ Desalojo("RECURSO_INEXISTENTE")
    BY <1>7, DesalojoTipo DEF DesalojoRecursoInexistente
  <2>2. estado' \in [Pids -> Estados] /\ quantum' \in [Pids -> 1 .. QUANTUM] /\ salidas' \in [Pids -> Nat]
    BY <1>0, <1>7, <2>1 DEF DesalojoRecursoInexistente, TipoProcesos
  <2>3. squeue_ready' \in Seq(Pids) /\ squeue_blocked' \subseteq Pids
    BY <1>0, <1>7, <2>1 DEF DesalojoRecursoInexistente, TipoColas
  <2>4. sem' \in [Semaforos -> Nat] /\ caida' \in BOOLEAN
    BY <1>0, <1>7, <2>1 DEF DesalojoRecursoInexistente, TipoGlobales
  <2>5. TipoRecursos'
    BY <1>0, <1>7, <2>1 DEF DesalojoRecursoInexistente, recursos, TipoRecursos
  <2>6. TipoInterfaces'
    BY <1>0, <1>7, <2>1 DEF DesalojoRecursoInexistente, interfaces, TipoInterfaces
  <2>7. /\ TipoMarco'
        /\ \A h \in Hilos : marco'[h].op # "libre" => marco'[h].pid \in Pids
    BY <1>0, <1>7, <2>1 DEF DesalojoRecursoInexistente, TipoMarco, Punteros
  <2> QED
    BY <2>1, <2>2, <2>3, <2>4, <2>5, <2>6, <2>7, DesalojoMarco
<1>8. CASE DesalojoDesconocido
  <2>1. corto.pid \in Pids /\ Desalojo("DESCONOCIDO")
    BY <1>8, DesalojoTipo DEF DesalojoDesconocido
  <2>2. estado' \in [Pids -> Estados] /\ quantum' \in [Pids -> 1 .. QUANTUM] /\ salidas' \in [Pids -> Nat]
    BY <1>0, <1>8, <2>1 DEF DesalojoDesconocido, TipoProcesos, Estados
  <2>3. squeue_ready' \in Seq(Pids) /\ squeue_blocked' \subseteq Pids
    BY <1>0, <1>8, <2>1 DEF DesalojoDesconocido, TipoColas
  <2>4. sem' \in [Semaforos -> Nat] /\ caida' \in BOOLEAN
    BY <1>0, <1>8, <2>1 DEF DesalojoDesconocido, TipoGlobales
  <2>5. TipoRecursos'
    BY <1>0, <1>8, <2>1 DEF DesalojoDesconocido, recursos, TipoRecursos
  <2>6. TipoInterfaces'
    BY <1>0, <1>8, <2>1 DEF DesalojoDesconocido, interfaces, TipoInterfaces
  <2>7. /\ TipoMarco'
        /\ \A h \in Hilos : marco'[h].op # "libre" => marco'[h].pid \in Pids
    BY <1>0, <1>8, <2>1 DEF DesalojoDesconocido, TipoMarco, Punteros
  <2> QED
    BY <2>1, <2>2, <2>3, <2>4, <2>5, <2>6, <2>7, DesalojoMarco
<1> QED
  BY <1>1, <1>2, <1>3, <1>4, <1>5, <1>6, <1>7, <1>8 DEF CPU

-----------------------------------------------------------------------------
(* The release of a finished process's resources.                           *)

LEMMA LiberacionMarco ==
  ASSUME Inv, MarcoQuieto,
         estado' \in [Pids -> Estados], quantum' \in [Pids -> 1 .. QUANTUM],
         squeue_ready' \in Seq(Pids), squeue_readyPlus' \in Seq(Pids),
         squeue_blocked' \subseteq Pids,
         sem' \in [Semaforos -> Nat], caida' \in BOOLEAN,
         TipoRecursos', TipoMarco',
         \A g \in Hilos : marco'[g].op # "libre" => marco'[g].pid \in Pids,
         marco'["corto"].op # "libre" => marco["corto"].op # "libre"
  PROVE  Inv'
<1>1. TipoProcesos'
  BY DEF Inv, TypeOK, MarcoQuieto, TipoProcesos
<1>2. TipoColas'
  BY DEF Inv, TypeOK, MarcoQuieto, TipoColas
<1>3. TipoGlobales'
  BY DEF Inv, TypeOK, MarcoQuieto, punteros, TipoGlobales
<1>4. TipoInterfaces' /\ TipoPlazos' /\ TipoConsola'
  BY DEF Inv, TypeOK, MarcoQuieto, interfaces, TipoInterfaces, TipoPlazos, TipoConsola
<1>5. TipoHilos'
  BY DEF Inv, TypeOK, MarcoQuieto, TipoHilos
<1>6. Punteros'
  BY DEF Inv, MarcoQuieto, Punteros
<1> QED
  BY <1>1, <1>2, <1>3, <1>4, <1>5, <1>6 DEF Inv, TypeOK

LEMMA LiberacionInv ==
  ASSUME Inv, NEW h \in Hilos, LiberarSiguiente(h) \/ Despertar(h) \/ FinDeProceso(h)
  PROVE  Inv'
<1>0. /\ TipoProcesos /\ TipoColas /\ TipoGlobales /\ TipoRecursos /\ TipoMarco /\ Punteros
  BY DEF Inv, TypeOK
<1>1. CASE LiberarSiguiente(h)
  <2> DEFINE m == marco[h]
             r == asignados[m.pid][m.i + 1]
  <2>1. m \in Marcos /\ m.pid \in Pids /\ m.op = "finalizar" /\ m.i \in Nat
    BY <1>0, <1>1 DEF LiberarSiguiente, TipoMarco, Marcos, Punteros
  <2>2. r \in Recursos
    <3>1. asignados[m.pid] \in Seq(Recursos)
      BY <1>0, <2>1 DEF TipoRecursos
    <3>2. m.i + 1 \in 1 .. Len(asignados[m.pid])
      BY <1>1, <2>1, <3>1, LenProperties DEF LiberarSiguiente
    <3> QED
      BY <3>1, <3>2, ElementOfSeq
  <2>3. /\ [m EXCEPT !.i = @ + 1] \in Marcos
        /\ [m EXCEPT !.i = @ + 1].pid \in Pids /\ [m EXCEPT !.i = @ + 1].op = m.op
    BY <2>1 DEF Marcos
  <2>4. /\ liberar_recurso(h, m.pid, r, [m EXCEPT !.i = @ + 1])
        /\ MarcoQuieto
        /\ UNCHANGED <<estado, quantum, squeue_blocked, listas, sem, colaRecurso, caida>>
    BY <1>1 DEF LiberarSiguiente
  <2> HIDE DEF r
  <2>5. /\ instancias' \in [Recursos -> Nat] /\ asignados' \in [Pids -> Seq(Recursos)]
        /\ TipoMarco'
        /\ \A g \in Hilos : marco'[g].op # "libre" => marco'[g].pid \in Pids
        /\ \A g \in Hilos \ {h} : marco'[g] = marco[g]
        /\ marco'[h].op = m.op
    BY <1>0, <2>1, <2>2, <2>3, <2>4, LiberarTipo
  <2>6. marco'["corto"].op # "libre" => marco["corto"].op # "libre"
    BY <2>5 DEF Hilos
  <2>7. TipoRecursos'
    BY <1>0, <2>4, <2>5 DEF TipoRecursos
  <2>8. /\ estado' \in [Pids -> Estados] /\ quantum' \in [Pids -> 1 .. QUANTUM]
        /\ squeue_ready' \in Seq(Pids) /\ squeue_readyPlus' \in Seq(Pids)
        /\ squeue_blocked' \subseteq Pids
    BY <1>0, <2>4 DEF listas, TipoProcesos, TipoColas
  <2>9. sem' \in [Semaforos -> Nat] /\ caida' \in BOOLEAN
    BY <1>0, <2>4 DEF TipoGlobales
  <2> QED
    BY <2>4, <2>5, <2>6, <2>7, <2>8, <2>9, LiberacionMarco
<1>2. CASE Despertar(h)
  <2> DEFINE r == marco[h].recurso
  <2>1. r \in Recursos /\ MarcoQuieto /\ marco' = [marco EXCEPT ![h].recurso = Nada]
        /\ UNCHANGED <<instancias, asignados>>
    BY <1>0, <1>2 DEF Despertar, TipoMarco, Marcos
  <2>2. TipoMarco'
    BY <1>0, <2>1 DEF TipoMarco, Marcos
  <2>3. /\ \A g \in Hilos : marco'[g].op # "libre" => marco'[g].pid \in Pids
        /\ marco'["corto"].op # "libre" => marco["corto"].op # "libre"
    BY <1>0, <2>1 DEF TipoMarco, Marcos, Punteros, Hilos
  <2>4. CASE colaRecurso[r] # <<>>
    <3>1. /\ colaRecurso' = [colaRecurso EXCEPT ![r] = Tail(@)]
          /\ desbloquear_proceso(Head(colaRecurso[r])) /\ UNCHANGED caida
      BY <1>2, <2>4 DEF Despertar
    <3>2. Head(colaRecurso[r]) \in Pids /\ Tail(colaRecurso[r]) \in Seq(Pids)
      BY <1>0, <2>1, <2>4, HeadTailProperties DEF TipoRecursos
    <3>3. TipoRecursos'
      BY <1>0, <2>1, <3>1, <3>2 DEF TipoRecursos
    <3>4. caida' \in BOOLEAN
      BY <1>0, <3>1 DEF TipoGlobales
    <3> HIDE DEF r
    <3>5. /\ estado' \in [Pids -> Estados] /\ quantum' \in [Pids -> 1 .. QUANTUM]
          /\ squeue_ready' \in Seq(Pids) /\ squeue_readyPlus' \in Seq(Pids)
          /\ squeue_blocked' \subseteq Pids /\ sem' \in [Semaforos -> Nat]
      BY <1>0, <3>1, <3>2, DesbloquearTipo
    <3> QED
      BY <2>1, <2>2, <2>3, <3>3, <3>4, <3>5, LiberacionMarco
  <2>5. CASE colaRecurso[r] = <<>>
    <3>1. caida' = TRUE /\ UNCHANGED <<estado, quantum, squeue_blocked, listas, sem, colaRecurso>>
      BY <1>2, <2>5 DEF Despertar
    <3>2. TipoRecursos'
      BY <1>0, <2>1, <3>1 DEF TipoRecursos
    <3>3. /\ estado' \in [Pids -> Estados] /\ quantum' \in [Pids -> 1 .. QUANTUM]
          /\ squeue_ready' \in Seq(Pids) /\ squeue_readyPlus' \in Seq(Pids)
          /\ squeue_blocked' \subseteq Pids
      BY <1>0, <3>1 DEF listas, TipoProcesos, TipoColas
    <3>4. sem' \in [Semaforos -> Nat] /\ caida' \in BOOLEAN
      BY <1>0, <3>1 DEF TipoGlobales
    <3> QED
      BY <2>1, <2>2, <2>3, <3>2, <3>3, <3>4, LiberacionMarco
  <2> QED
    BY <2>4, <2>5
<1>3. CASE FinDeProceso(h)
  <2>1. /\ MarcoQuieto /\ marco' = [marco EXCEPT ![h] = MarcoLibre]
        /\ UNCHANGED <<estado, quantum, squeue_blocked, listas, recursos, caida>>
    BY <1>3 DEF FinDeProceso
  <2>2. MarcoLibre \in Marcos /\ MarcoLibre.op = "libre"
    BY DEF MarcoLibre, Marcos
  <2>3. /\ TipoMarco'
        /\ \A g \in Hilos : marco'[g].op # "libre" => marco'[g].pid \in Pids
        /\ marco'["corto"].op # "libre" => marco["corto"].op # "libre"
    BY <1>0, <2>1, <2>2 DEF TipoMarco, Punteros, Hilos
  <2>4. TipoRecursos'
    BY <1>0, <2>1 DEF recursos, TipoRecursos
  <2>5. /\ estado' \in [Pids -> Estados] /\ quantum' \in [Pids -> 1 .. QUANTUM]
        /\ squeue_ready' \in Seq(Pids) /\ squeue_readyPlus' \in Seq(Pids)
        /\ squeue_blocked' \subseteq Pids
    BY <1>0, <2>1 DEF listas, TipoProcesos, TipoColas
  <2>6. caida' \in BOOLEAN
    BY <1>0, <2>1 DEF TipoGlobales
  <2>7. sem' \in [Semaforos -> Nat]
    <3>1. Post("multi") \/ UNCHANGED sem
      BY <1>3 DEF FinDeProceso
    <3> QED
      BY <1>0, <3>1, PostTipo DEF Semaforos, TipoGlobales
  <2> QED
    BY <2>1, <2>3, <2>4, <2>5, <2>6, <2>7, LiberacionMarco
<1> QED
  BY <1>1, <1>2, <1>3

-----------------------------------------------------------------------------
(* The console.                                                             *)

\* Every command but the removal of FINALIZAR_PROCESO.
LEMMA ConsolaMarco ==
  ASSUME Inv, ConsolaQuieta,
         UNCHANGED <<squeue_blocked, salidas, marco>>,
         pcb_a_finalizar' = pcb_a_finalizar \/ pcb_a_finalizar' \in Pids,
         pidGlobal' \in 1 .. MaxPid + 1, estado' \in [Pids -> Estados],
         squeue_new' \in Seq(Pids), sem' \in [Semaforos -> Nat], grado' \in Nat,
         interrupcion' \in BOOLEAN, ordenes' \in Nat,
         TipoHilos', TipoConsola',
         consola'.pc \in Matando => consola'.pid \in Pids,
         consola'.pc \in {"subir", "bajar"} => consola'.n > 0
  PROVE  Inv'
<1>1. TipoProcesos'
  BY DEF Inv, TypeOK, ConsolaQuieta, TipoProcesos
<1>2. TipoColas'
  BY DEF Inv, TypeOK, ConsolaQuieta, listas, TipoColas
<1>3. TipoGlobales'
  BY DEF Inv, TypeOK, ConsolaQuieta, TipoGlobales
<1>4. TipoRecursos' /\ TipoInterfaces'
  BY DEF Inv, TypeOK, ConsolaQuieta, recursos, interfaces, TipoRecursos, TipoInterfaces
<1>5. TipoPlazos' /\ TipoMarco'
  BY DEF Inv, TypeOK, ConsolaQuieta, TipoPlazos, TipoMarco
<1>6. Punteros'
  BY DEF Inv, ConsolaQuieta, Punteros
<1> QED
  BY <1>1, <1>2, <1>3, <1>4, <1>5, <1>6 DEF Inv, TypeOK

LEMMA ConsolaInv ==
  ASSUME Inv, Consola
  PROVE  Inv'
<1>0. /\ TipoProcesos /\ TipoColas /\ TipoGlobales /\ TipoRecursos /\ TipoInterfaces
      /\ TipoPlazos /\ TipoConsola /\ TipoHilos /\ TipoMarco /\ Punteros
  BY DEF Inv, TypeOK
<1>1. CASE CrearProceso
  <2>1. pidGlobal \in Pids
    BY <1>0, <1>1, ConstantesValidas DEF CrearProceso, TipoProcesos, Pids
  <2>2. pidGlobal' \in 1 .. MaxPid + 1 /\ estado' \in [Pids -> Estados]
    BY SMTT(30), <1>0, <1>1, <2>1, ConstantesValidas DEF CrearProceso, TipoProcesos, Pids, Estados
  <2>3. squeue_new' \in Seq(Pids)
    BY <1>0, <1>1, <2>1, AppendProperties DEF CrearProceso, TipoColas
  <2>4. sem' \in [Semaforos -> Nat] /\ grado' \in Nat /\ interrupcion' \in BOOLEAN /\ ordenes' \in Nat
    BY <1>0, <1>1 DEF CrearProceso, ConsolaQuieta, TipoGlobales
  <2>5. TipoHilos'
    BY <1>0, <1>1 DEF CrearProceso, ConsolaQuieta, TipoHilos
  <2>6. TipoConsola' /\ consola'.pc = "avisar"
    BY <1>0, <1>1 DEF CrearProceso, TipoConsola
  <2> QED
    BY <1>1, <2>2, <2>3, <2>4, <2>5, <2>6, ConsolaMarco DEF CrearProceso
<1>2. CASE AvisarProceso
  <2>1. pidGlobal' \in 1 .. MaxPid + 1 /\ estado' \in [Pids -> Estados] /\ squeue_new' \in Seq(Pids)
    BY <1>0, <1>2 DEF AvisarProceso, TipoProcesos, TipoColas
  <2>2. sem' \in [Semaforos -> Nat]
    BY <1>0, <1>2, PostTipo DEF AvisarProceso, Semaforos
  <2>3. grado' \in Nat /\ interrupcion' \in BOOLEAN /\ ordenes' \in Nat
    BY <1>0, <1>2 DEF AvisarProceso, TipoGlobales
  <2>4. TipoHilos'
    BY <1>0, <1>2 DEF AvisarProceso, ConsolaQuieta, TipoHilos
  <2>5. TipoConsola' /\ consola'.pc = "leer"
    BY <1>2 DEF AvisarProceso, TipoConsola, ConsolaLibre
  <2> QED
    BY <1>2, <2>1, <2>2, <2>3, <2>4, <2>5, ConsolaMarco DEF AvisarProceso
<1>3. CASE \E p \in Pids : FinalizarEjecutando(p)
  <2>1. pidGlobal' \in 1 .. MaxPid + 1 /\ estado' \in [Pids -> Estados] /\ squeue_new' \in Seq(Pids)
    BY <1>0, <1>3 DEF FinalizarEjecutando, TipoProcesos, TipoColas
  <2>2. sem' \in [Semaforos -> Nat] /\ grado' \in Nat /\ interrupcion' \in BOOLEAN /\ ordenes' \in Nat
    BY <1>0, <1>3 DEF FinalizarEjecutando, OrdenAcotada, TipoGlobales
  <2>3. TipoHilos'
    BY <1>0, <1>3 DEF FinalizarEjecutando, ConsolaQuieta, TipoHilos
  <2>4. consola' = consola
    BY <1>3 DEF FinalizarEjecutando
  <2>5. TipoConsola'
    BY <1>0, <2>4 DEF TipoConsola
  <2> QED
    BY <1>0, <1>3, <2>1, <2>2, <2>3, <2>4, <2>5, ConsolaMarco DEF FinalizarEjecutando, Punteros
<1>4. CASE \E p \in Pids : FinalizarBuscar(p)
  <2>0. PICK p \in Pids : FinalizarBuscar(p)
    BY <1>4
  <2>1. pidGlobal' \in 1 .. MaxPid + 1 /\ estado' \in [Pids -> Estados] /\ squeue_new' \in Seq(Pids)
    BY <1>0, <2>0 DEF FinalizarBuscar, TipoProcesos, TipoColas
  <2>2. sem' \in [Semaforos -> Nat] /\ grado' \in Nat /\ interrupcion' \in BOOLEAN /\ ordenes' \in Nat
    BY <1>0, <2>0 DEF FinalizarBuscar, OrdenAcotada, TipoGlobales
  <2>3. TipoHilos'
    BY <1>0, <2>0 DEF FinalizarBuscar, ConsolaQuieta, TipoHilos
  <2>4. TipoConsola' /\ consola'.pc = "caso" /\ consola'.pid = p
    BY <1>0, <2>0 DEF FinalizarBuscar, TipoConsola
  <2> QED
    BY <2>0, <2>1, <2>2, <2>3, <2>4, ConsolaMarco DEF FinalizarBuscar
<1>5. CASE FinalizarQuitar \/ FinalizarDecidir \/ FinalizarTerminar
  <2> DEFINE p == consola.pid
  <2>1. p \in Pids /\ consola.pc \in Matando
    BY <1>0, <1>5 DEF FinalizarQuitar, FinalizarDecidir, FinalizarTerminar, Punteros
  <2>2. CASE FinalizarQuitar
    <3>1. squeue_new' \in Seq(Pids) /\ squeue_ready' \in Seq(Pids)
      BY <1>0, <2>2, SinPrimero DEF FinalizarQuitar, TipoColas
    <3>2. TipoColas'
      BY <1>0, <2>2, <3>1 DEF FinalizarQuitar, FinalizarQuieto, TipoColas
    <3>3. TipoProcesos' /\ TipoGlobales'
      BY <1>0, <2>2 DEF FinalizarQuitar, FinalizarQuieto, TipoProcesos, TipoGlobales
    <3>4. TipoRecursos' /\ TipoInterfaces' /\ TipoPlazos'
      BY <1>0, <2>2 DEF FinalizarQuitar, FinalizarQuieto, recursos, interfaces, TipoRecursos, TipoInterfaces,
         TipoPlazos
    <3>5. TipoHilos' /\ TipoMarco'
      BY <1>0, <2>2 DEF FinalizarQuitar, FinalizarQuieto, TipoHilos, TipoMarco
    <3>6. TipoConsola' /\ consola'.pc = "decidir" /\ consola'.pid = p
      BY <1>0, <2>2 DEF FinalizarQuitar, TipoConsola
    <3>7. Punteros'
      BY <1>0, <2>1, <2>2, <3>6 DEF FinalizarQuitar, FinalizarQuieto, Punteros
    <3> QED
      BY <3>2, <3>3, <3>4, <3>5, <3>6, <3>7 DEF Inv, TypeOK
  <2>3. CASE FinalizarDecidir
    <3>1. pidGlobal' \in 1 .. MaxPid + 1 /\ estado' \in [Pids -> Estados] /\ squeue_new' \in Seq(Pids)
      BY <1>0, <2>3 DEF FinalizarDecidir, TipoProcesos, TipoColas
    <3>2. /\ sem' \in [Semaforos -> Nat] /\ grado' \in Nat /\ interrupcion' \in BOOLEAN /\ ordenes' \in Nat
          /\ pcb_a_finalizar' = pcb_a_finalizar \/ pcb_a_finalizar' \in Pids
      BY <1>0, <2>1, <2>3 DEF FinalizarDecidir, TipoGlobales
    <3>3. TipoHilos'
      BY <1>0, <2>3 DEF FinalizarDecidir, ConsolaQuieta, TipoHilos
    <3>4. PICK c \in {"comoNuevo", "terminar"} : consola' = [consola EXCEPT !.pc = c]
      BY <2>3 DEF FinalizarDecidir
    <3>5. TipoConsola' /\ consola'.pc = c /\ consola'.pid = p
      BY <1>0, <3>4 DEF TipoConsola
    <3>6. ConsolaQuieta /\ UNCHANGED <<squeue_blocked, salidas, marco>>
      BY <2>3 DEF FinalizarDecidir
    <3>7. consola'.pc \notin {"subir", "bajar"} /\ consola'.pid \in Pids
      BY <2>1, <3>4, <3>5
    <3> QED
      BY <3>1, <3>2, <3>3, <3>5, <3>6, <3>7, ConsolaMarco
  <2>4. CASE FinalizarTerminar
    <3>1. finalizar_proceso("consola", p, consola.pc = "terminar") /\ "consola" \in Hilos
      BY <2>4 DEF FinalizarTerminar, Hilos
    <3>2. /\ estado' \in [Pids -> Estados] /\ salidas' \in [Pids -> Nat]
          /\ TipoMarco'
          /\ \A g \in Hilos : marco'[g].op # "libre" => marco'[g].pid \in Pids
          /\ \A g \in Hilos \ {"consola"} : marco'[g] = marco[g]
      <4>1. (consola.pc = "terminar") \in BOOLEAN
        OBVIOUS
      <4> QED
        BY <1>0, <2>1, <3>1, <4>1, FinalizarTipo
    <3>3. TipoProcesos' /\ TipoColas'
      BY <1>0, <2>4, <3>2 DEF FinalizarTerminar, FinalizarQuieto, TipoProcesos, TipoColas
    <3>4. perdidos' \in Nat
      BY <1>0, <2>4 DEF FinalizarTerminar, Uno, TipoGlobales
    <3>5. TipoGlobales'
      BY <1>0, <2>4, <3>4 DEF FinalizarTerminar, FinalizarQuieto, TipoGlobales
    <3>6. TipoRecursos' /\ TipoInterfaces' /\ TipoPlazos'
      BY <1>0, <2>4 DEF FinalizarTerminar, FinalizarQuieto, recursos, interfaces, TipoRecursos, TipoInterfaces,
         TipoPlazos
    <3>7. TipoHilos'
      BY <1>0, <2>4 DEF FinalizarTerminar, FinalizarQuieto, TipoHilos
    <3>8. TipoConsola' /\ consola'.pc = "leer"
      BY <2>4 DEF FinalizarTerminar, TipoConsola, ConsolaLibre
    <3>9. Punteros'
      BY <1>0, <2>4, <3>2, <3>8 DEF FinalizarTerminar, FinalizarQuieto, Punteros, Hilos
    <3> QED
      BY <3>2, <3>3, <3>5, <3>6, <3>7, <3>8, <3>9 DEF Inv, TypeOK
  <2> QED
    BY <1>5, <2>2, <2>3, <2>4
<1>6. CASE \E n \in Grados : CambiarMultiprogramacion(n)
  <2>0. PICK n \in Grados : CambiarMultiprogramacion(n)
    BY <1>6
  <2>1. pidGlobal' \in 1 .. MaxPid + 1 /\ estado' \in [Pids -> Estados] /\ squeue_new' \in Seq(Pids)
    BY <1>0, <2>0 DEF CambiarMultiprogramacion, TipoProcesos, TipoColas
  <2>2. sem' \in [Semaforos -> Nat] /\ grado' \in Nat /\ interrupcion' \in BOOLEAN /\ ordenes' \in Nat
    BY <1>0, <2>0, ConstantesValidas DEF CambiarMultiprogramacion, OrdenAcotada, TipoGlobales
  <2>3. TipoHilos'
    BY <1>0, <2>0 DEF CambiarMultiprogramacion, ConsolaQuieta, TipoHilos
  <2>4. n \in Nat /\ grado \in Nat /\ consola = ConsolaLibre
    BY <1>0, <2>0, ConstantesValidas DEF CambiarMultiprogramacion, OrdenAcotada, Orden, TipoGlobales
  <2>5. /\ consola'.pc \in {"leer", "subir", "bajar"}
        /\ consola'.pc \in {"subir", "bajar"} => consola'.n > 0
    BY <2>0, <2>4 DEF CambiarMultiprogramacion, ConsolaLibre
  <2>6. TipoConsola'
    <3>1. \/ consola' = consola
          \/ n > grado /\ consola' = [consola EXCEPT !.pc = "subir", !.n = n - grado]
          \/ n < grado /\ consola' = [consola EXCEPT !.pc = "bajar", !.n = grado - n]
      BY <2>0, <2>4 DEF CambiarMultiprogramacion
    <3>2. (n > grado => n - grado \in Nat) /\ (n < grado => grado - n \in Nat)
      BY <2>4
    <3> QED
      BY <1>0, <3>1, <3>2 DEF TipoConsola
  <2> QED
    BY <2>0, <2>1, <2>2, <2>3, <2>5, <2>6, ConsolaMarco DEF CambiarMultiprogramacion
<1>7. CASE AjustarMulti
  <2>1. pidGlobal' \in 1 .. MaxPid + 1 /\ estado' \in [Pids -> Estados] /\ squeue_new' \in Seq(Pids)
    BY <1>0, <1>7 DEF AjustarMulti, TipoProcesos, TipoColas
  <2>2. sem' \in [Semaforos -> Nat]
    BY <1>0, <1>7, PostTipo, WaitTipo DEF AjustarMulti, Semaforos
  <2>3. grado' \in Nat /\ interrupcion' \in BOOLEAN /\ ordenes' \in Nat
    BY <1>0, <1>7 DEF AjustarMulti, TipoGlobales
  <2>4. TipoHilos'
    BY <1>0, <1>7 DEF AjustarMulti, ConsolaQuieta, TipoHilos
  <2>5. consola.n \in Nat /\ consola.n > 0 /\ consola.pc \in {"subir", "bajar"}
    BY <1>0, <1>7 DEF AjustarMulti, TipoConsola, Punteros
  <2>6. consola' = IF consola.n = 1 THEN ConsolaLibre ELSE [consola EXCEPT !.n = @ - 1]
    BY <1>7 DEF AjustarMulti
  <2>7. TipoConsola' /\ consola'.pc \notin Matando /\ (consola'.pc \in {"subir", "bajar"} => consola'.n > 0)
    BY <1>0, <2>5, <2>6 DEF TipoConsola, ConsolaLibre
  <2> QED
    BY <1>7, <2>1, <2>2, <2>3, <2>4, <2>7, ConsolaMarco DEF AjustarMulti
<1>8. CASE \E d \in Detenedores : DetenerPlanificacion(d)
  <2>1. pidGlobal' \in 1 .. MaxPid + 1 /\ estado' \in [Pids -> Estados] /\ squeue_new' \in Seq(Pids)
    BY <1>0, <1>8 DEF DetenerPlanificacion, TipoProcesos, TipoColas
  <2>2. sem' \in [Semaforos -> Nat] /\ grado' \in Nat /\ interrupcion' \in BOOLEAN /\ ordenes' \in Nat
    BY <1>0, <1>8 DEF DetenerPlanificacion, OrdenAcotada, TipoGlobales
  <2>3. TipoHilos'
    BY <1>0, <1>8 DEF DetenerPlanificacion, ConsolaQuieta, TipoHilos
  <2>4. TipoConsola' /\ consola' = consola
    BY <1>0, <1>8 DEF DetenerPlanificacion, TipoConsola
  <2> QED
    BY <1>0, <1>8, <2>1, <2>2, <2>3, <2>4, ConsolaMarco DEF DetenerPlanificacion, Punteros
<1>9. CASE \E d \in Reanudadores : IniciarPlanificacion(d)
  <2>1. pidGlobal' \in 1 .. MaxPid + 1 /\ estado' \in [Pids -> Estados] /\ squeue_new' \in Seq(Pids)
    BY <1>0, <1>9 DEF IniciarPlanificacion, TipoProcesos, TipoColas
  <2>2. sem' \in [Semaforos -> Nat] /\ grado' \in Nat /\ interrupcion' \in BOOLEAN /\ ordenes' \in Nat
    BY <1>0, <1>9 DEF IniciarPlanificacion, OrdenAcotada, TipoGlobales
  <2>3. TipoHilos'
    BY <1>0, <1>9 DEF IniciarPlanificacion, ConsolaQuieta, TipoHilos
  <2>4. TipoConsola' /\ consola' = consola
    BY <1>0, <1>9 DEF IniciarPlanificacion, TipoConsola
  <2> QED
    BY <1>0, <1>9, <2>1, <2>2, <2>3, <2>4, ConsolaMarco DEF IniciarPlanificacion, Punteros
<1>10. CASE FinalizarCaso
  <2>1. pidGlobal' \in 1 .. MaxPid + 1 /\ estado' \in [Pids -> Estados] /\ squeue_new' \in Seq(Pids)
    BY <1>0, <1>10 DEF FinalizarCaso, TipoProcesos, TipoColas
  <2>2. sem' \in [Semaforos -> Nat] /\ grado' \in Nat /\ interrupcion' \in BOOLEAN /\ ordenes' \in Nat
    BY <1>0, <1>10 DEF FinalizarCaso, TipoGlobales
  <2>3. TipoHilos'
    BY <1>0, <1>10 DEF FinalizarCaso, ConsolaQuieta, TipoHilos
  <2>4. consola.pid \in Pids
    BY <1>0, <1>10 DEF FinalizarCaso, Punteros
  <2>5. \/ /\ estado[consola.pid] \in {"NUEVO", "LISTO", "BLOQUEADO"}
           /\ consola' = [consola EXCEPT !.pc = "quitar", !.caso = estado[consola.pid]]
        \/ consola' = ConsolaLibre
    BY <1>10 DEF FinalizarCaso
  <2>6. /\ TipoConsola' /\ consola'.pc \in {"leer", "quitar"}
        /\ consola'.pc = "quitar" => consola'.pid \in Pids
    <3>1. CASE consola' = ConsolaLibre
      BY <3>1 DEF TipoConsola, ConsolaLibre
    <3>2. CASE consola' # ConsolaLibre
      <4> DEFINE e == estado[consola.pid]
      <4>1. e \in {"NUEVO", "LISTO", "BLOQUEADO"}
            /\ consola' = [consola EXCEPT !.pc = "quitar", !.caso = e]
        BY <2>5, <3>2
      <4> HIDE DEF e
      <4> QED
        BY <1>0, <2>4, <4>1 DEF TipoConsola
    <3> QED
      BY <3>1, <3>2
  <2> QED
    BY <1>10, <2>1, <2>2, <2>3, <2>6, ConsolaMarco DEF FinalizarCaso
<1> QED
  BY <1>1, <1>2, <1>3, <1>4, <1>5, <1>6, <1>7, <1>8, <1>9, <1>10 DEF Consola

-----------------------------------------------------------------------------
(* Stopping and resuming planning.                                          *)

LEMMA PararYSeguirInv ==
  ASSUME Inv, PararYSeguir
  PROVE  Inv'
<1>0. TipoGlobales /\ TipoHilos
  BY DEF Inv, TypeOK
<1>1. PlanificadoresQuietos
  BY DEF PararYSeguir, Detener, Reanudar
<1>2. sem' \in [Semaforos -> Nat] /\ detenida' \in BOOLEAN
  <2>1. ASSUME NEW d \in Detenedores, Detener(d)
        PROVE  sem' \in [Semaforos -> Nat] /\ detenida' \in BOOLEAN
    BY <1>0, <2>1, WaitTipo DEF Detener, DetLeer, DetDrenar, DetMarcar, TipoGlobales, Semaforos
  <2>2. ASSUME NEW d \in Reanudadores, Reanudar(d)
        PROVE  sem' \in [Semaforos -> Nat] /\ detenida' \in BOOLEAN
    <3>1. sem["largo"] + 1 \in Nat /\ sem["corto"] + 1 \in Nat /\ sem["new"] + 1 \in Nat
      BY <1>0 DEF TipoGlobales, Semaforos
    <3>2. \/ sem' = [sem EXCEPT !["largo"] = @ + 1, !["corto"] = @ + 1, !["new"] = @ + 1]
          \/ sem' = sem
      BY <2>2 DEF Reanudar, ReaPublicar, ReaMarcar
    <3>3. detenida' \in BOOLEAN
      BY <1>0, <2>2 DEF Reanudar, ReaPublicar, ReaMarcar, TipoGlobales
    <3> QED
      BY <1>0, <3>1, <3>2, <3>3 DEF TipoGlobales
  <2> QED
    BY <2>1, <2>2 DEF PararYSeguir
<1>3. det' \in [Detenedores -> [pc : {"fin", "leer", "drenar"}, largo : Nat, corto : Nat]]
  <2>1. ASSUME NEW d \in Detenedores, DetLeer(d) \/ DetMarcar(d)
        PROVE  det' \in [Detenedores -> [pc : {"fin", "leer", "drenar"}, largo : Nat, corto : Nat]]
    BY <1>0, <2>1 DEF DetLeer, DetMarcar, TipoGlobales, TipoHilos, Semaforos
  <2>2. ASSUME NEW d \in Detenedores, DetDrenar(d, "largo")
        PROVE  det' \in [Detenedores -> [pc : {"fin", "leer", "drenar"}, largo : Nat, corto : Nat]]
    BY <1>0, <1>2, <2>2 DEF DetDrenar, TipoHilos, Semaforos
  <2>3. ASSUME NEW d \in Detenedores, DetDrenar(d, "corto")
        PROVE  det' \in [Detenedores -> [pc : {"fin", "leer", "drenar"}, largo : Nat, corto : Nat]]
    BY <1>0, <1>2, <2>3 DEF DetDrenar, TipoHilos, Semaforos
  <2>4. ASSUME NEW d \in Reanudadores, Reanudar(d)
        PROVE  det' \in [Detenedores -> [pc : {"fin", "leer", "drenar"}, largo : Nat, corto : Nat]]
    BY <1>0, <2>4 DEF Reanudar, ReaPublicar, ReaMarcar, TipoHilos
  <2> QED
    BY <2>1, <2>2, <2>3, <2>4 DEF PararYSeguir, Detener
<1>4. rea' \in [Reanudadores -> {"fin", "leer", "marcar"}]
  BY <1>0 DEF PararYSeguir, Detener, Reanudar, DetLeer, DetDrenar, DetMarcar, ReaPublicar, ReaMarcar,
     TipoHilos
<1>5. TipoProcesos'
  BY <1>1 DEF Inv, TypeOK, PlanificadoresQuietos, procesos, colas, TipoProcesos
<1>6. TipoColas'
  BY <1>1 DEF Inv, TypeOK, PlanificadoresQuietos, colas, TipoColas
<1>7. TipoGlobales'
  BY <1>1, <1>2 DEF Inv, TypeOK, PlanificadoresQuietos, punteros, TipoGlobales
<1>8. TipoRecursos' /\ TipoInterfaces'
  BY <1>1 DEF Inv, TypeOK, PlanificadoresQuietos, recursos, interfaces, TipoRecursos, TipoInterfaces
<1>9. TipoPlazos' /\ TipoConsola' /\ TipoMarco'
  BY <1>1 DEF Inv, TypeOK, PlanificadoresQuietos, TipoPlazos, TipoConsola, TipoMarco
<1>10. TipoHilos'
  BY <1>0, <1>1, <1>3, <1>4 DEF PlanificadoresQuietos, TipoHilos
<1>11. Punteros'
  BY <1>1 DEF Inv, PlanificadoresQuietos, Punteros
<1> QED
  BY <1>5, <1>6, <1>7, <1>8, <1>9, <1>10, <1>11 DEF Inv, TypeOK

-----------------------------------------------------------------------------
(* End of I/O.                                                              *)

LEMMA EntradaSalidaMarco ==
  ASSUME Inv, IOQuieto,
         estado' \in [Pids -> Estados], quantum' \in [Pids -> 1 .. QUANTUM], salidas' \in [Pids -> Nat],
         squeue_ready' \in Seq(Pids), squeue_readyPlus' \in Seq(Pids),
         squeue_blocked' \subseteq Pids,
         sem' \in [Semaforos -> Nat],
         TipoInterfaces', TipoMarco', hiloIO' \in [Interfaces -> {"recv", "sacar"}],
         \A g \in Hilos : marco'[g].op # "libre" => marco'[g].pid \in Pids,
         marco'["corto"] = marco["corto"]
  PROVE  Inv'
<1>1. TipoProcesos'
  BY DEF Inv, TypeOK, IOQuieto, TipoProcesos
<1>2. TipoColas'
  BY DEF Inv, TypeOK, IOQuieto, TipoColas
<1>3. TipoGlobales'
  BY DEF Inv, TypeOK, IOQuieto, punteros, TipoGlobales
<1>4. TipoRecursos' /\ TipoPlazos' /\ TipoConsola'
  BY DEF Inv, TypeOK, IOQuieto, recursos, TipoRecursos, TipoPlazos, TipoConsola
<1>5. TipoHilos'
  BY DEF Inv, TypeOK, IOQuieto, TipoHilos
<1>6. Punteros'
  BY DEF Inv, IOQuieto, Punteros
<1> QED
  BY <1>1, <1>2, <1>3, <1>4, <1>5, <1>6 DEF Inv, TypeOK

LEMMA EntradaSalidaInv ==
  ASSUME Inv, NEW i \in Interfaces, FinDeIO(i) \/ SacarDeInterfaz(i)
  PROVE  Inv'
<1>0. /\ TipoProcesos /\ TipoColas /\ TipoGlobales /\ TipoInterfaces /\ TipoHilos
      /\ TipoMarco /\ Punteros
  BY DEF Inv, TypeOK
<1>1. i \in Hilos /\ i # "corto"
  BY ConstantesValidas DEF Hilos
<1>2. CASE FinDeIO(i)
  <2> DEFINE p == Head(pedidos[i])
  <2>1. p \in Pids /\ Tail(pedidos[i]) \in Seq(Pids)
    BY <1>0, <1>2, HeadTailProperties DEF FinDeIO, TipoInterfaces
  <2>2. IOQuieto /\ colaInterfaz' = colaInterfaz /\ pedidos' = [pedidos EXCEPT ![i] = Tail(@)]
    BY <1>2 DEF FinDeIO
  <2>3. TipoInterfaces'
    BY <1>0, <2>1, <2>2 DEF TipoInterfaces
  <2>4. CASE p # pcb_a_finalizar
    <3>1. /\ desbloquear_proceso(p) /\ hiloIO' = [hiloIO EXCEPT ![i] = "sacar"]
          /\ salidas' = salidas /\ marco' = marco
      BY <1>2, <2>4 DEF FinDeIO
    <3>2. /\ salidas' \in [Pids -> Nat] /\ TipoMarco'
          /\ \A g \in Hilos : marco'[g].op # "libre" => marco'[g].pid \in Pids
      BY <1>0, <3>1 DEF TipoProcesos, TipoMarco, Punteros
    <3>3. hiloIO' \in [Interfaces -> {"recv", "sacar"}]
      BY <1>0, <3>1 DEF TipoHilos
    <3> HIDE DEF p
    <3>4. /\ estado' \in [Pids -> Estados] /\ quantum' \in [Pids -> 1 .. QUANTUM]
          /\ squeue_ready' \in Seq(Pids) /\ squeue_readyPlus' \in Seq(Pids)
          /\ squeue_blocked' \subseteq Pids /\ sem' \in [Semaforos -> Nat]
      BY <1>0, <2>1, <3>1, DesbloquearTipo
    <3> QED
      BY <2>2, <2>3, <3>1, <3>2, <3>3, <3>4, EntradaSalidaMarco
  <2>5. CASE p = pcb_a_finalizar
    <3>1. /\ finalizar_proceso(i, p, TRUE)
          /\ UNCHANGED <<hiloIO, quantum, squeue_blocked, listas, sem>>
      BY <1>2, <2>5 DEF FinDeIO
    <3>2. /\ quantum' \in [Pids -> 1 .. QUANTUM] /\ squeue_blocked' \subseteq Pids
          /\ squeue_ready' \in Seq(Pids) /\ squeue_readyPlus' \in Seq(Pids)
      BY <1>0, <3>1 DEF listas, TipoProcesos, TipoColas
    <3>3. sem' \in [Semaforos -> Nat] /\ hiloIO' \in [Interfaces -> {"recv", "sacar"}]
      BY <1>0, <3>1 DEF TipoGlobales, TipoHilos
    <3> HIDE DEF p
    <3>4. /\ estado' \in [Pids -> Estados] /\ salidas' \in [Pids -> Nat] /\ TipoMarco'
          /\ \A g \in Hilos : marco'[g].op # "libre" => marco'[g].pid \in Pids
          /\ marco'["corto"] = marco["corto"]
      BY <1>0, <1>1, <2>1, <3>1, FinalizarTipo DEF Hilos
    <3> QED
      BY <2>2, <2>3, <3>2, <3>3, <3>4, EntradaSalidaMarco
  <2> QED
    BY <2>4, <2>5
<1>3. CASE SacarDeInterfaz(i)
  <2>1. /\ estado' \in [Pids -> Estados] /\ quantum' \in [Pids -> 1 .. QUANTUM] /\ salidas' \in [Pids -> Nat]
        /\ squeue_ready' \in Seq(Pids) /\ squeue_readyPlus' \in Seq(Pids)
        /\ squeue_blocked' \subseteq Pids
    BY <1>0, <1>3 DEF SacarDeInterfaz, listas, TipoProcesos, TipoColas
  <2>2. sem' \in [Semaforos -> Nat] /\ hiloIO' \in [Interfaces -> {"recv", "sacar"}]
    BY <1>0, <1>3 DEF SacarDeInterfaz, TipoGlobales, TipoHilos
  <2>3. TipoInterfaces'
    <3>1. Tail(colaInterfaz[i]) \in Seq(Pids)
      BY <1>0, <1>3, HeadTailProperties DEF SacarDeInterfaz, TipoInterfaces
    <3> QED
      BY <1>0, <1>3, <3>1 DEF SacarDeInterfaz, TipoInterfaces
  <2>4. /\ TipoMarco' /\ marco' = marco
        /\ \A g \in Hilos : marco'[g].op # "libre" => marco'[g].pid \in Pids
    BY <1>0, <1>3 DEF SacarDeInterfaz, TipoMarco, Punteros
  <2> QED
    BY <1>3, <2>1, <2>2, <2>3, <2>4, EntradaSalidaMarco DEF SacarDeInterfaz
<1> QED
  BY <1>2, <1>3

-----------------------------------------------------------------------------
LEMMA InvInductivo == Inv /\ [Next]_vars => Inv'
<1> SUFFICES ASSUME Inv, [Next]_vars PROVE Inv'
  OBVIOUS
<1>1. CASE Next
  BY <1>1, LargoPlazoInv, CortoPlazoInv, CPUInv, LiberacionInv, ConsolaInv, PararYSeguirInv,
     EntradaSalidaInv DEF Next, Liberacion, EntradaSalida
<1>2. CASE UNCHANGED vars
  <2>1. TypeOK'
    <3>1. (TipoProcesos /\ TipoColas)'
      BY <1>2 DEF Inv, TypeOK, vars, procesos, colas, TipoProcesos, TipoColas
    <3>2. (TipoGlobales /\ TipoRecursos /\ TipoInterfaces)'
      BY <1>2 DEF Inv, TypeOK, vars, recursos, interfaces, punteros, TipoGlobales, TipoRecursos, TipoInterfaces
    <3>3. (TipoPlazos /\ TipoConsola /\ TipoMarco)'
      BY <1>2 DEF Inv, TypeOK, vars, control, TipoPlazos, TipoConsola, TipoMarco
    <3>4. TipoHilos'
      BY <1>2 DEF Inv, TypeOK, vars, control, TipoHilos
    <3> QED
      BY <3>1, <3>2, <3>3, <3>4 DEF TypeOK
  <2>2. Punteros'
    BY <1>2 DEF Inv, vars, control, Punteros
  <2> QED
    BY <2>1, <2>2 DEF Inv
<1> QED
  BY <1>1, <1>2

\* Every variable keeps its type in every execution; in particular no semaphore
\* and no count of free instances of a resource (asignar_recurso) goes negative.
THEOREM TipoCorrecto == Spec => []TypeOK
<1>1. Inv => TypeOK
  BY DEF Inv
<1> QED
  BY InvInicial, InvInductivo, <1>1, PTL DEF Spec

-----------------------------------------------------------------------------
(* No wake-up of the short-term scheduler is lost.  AvisosReady is inductive *)
(* once ready+ is known to be empty unless the algorithm is VRR: the         *)
(* scheduler drops a token when it looks only at ready (CortoNadaListo).     *)

SinPlus == ALGORITMO # "VRR" => squeue_readyPlus = <<>>

Listos == Len(squeue_ready) + Len(squeue_readyPlus)
EnMano == corto.pc \in {"detenida", "semCorto", "elegir", "sacar", "sacarPlus"}

InvAvisos == Inv /\ SinPlus /\ AvisosReady

LEMMA ListosNat == Inv => /\ Listos \in Nat /\ sem["ready"] \in Nat
                          /\ Len(squeue_ready) \in Nat /\ Len(squeue_readyPlus) \in Nat
BY LenProperties DEF Inv, TypeOK, TipoColas, TipoGlobales, Semaforos, Listos

\* A push comes with its token.
LEMMA ListoAvisa ==
  ASSUME Inv, NEW p \in Pids, NEW b \in BOOLEAN, proceso_listo(p, b)
  PROVE  /\ sem'["ready"] = sem["ready"] + 1 /\ Listos' = Listos + 1
         /\ ~b => squeue_readyPlus' = squeue_readyPlus
<1>1. sem'["ready"] = sem["ready"] + 1
  BY DEF proceso_listo, Post, Inv, TypeOK, TipoGlobales, Semaforos
<1>2. squeue_ready \in Seq(Pids) /\ squeue_readyPlus \in Seq(Pids)
  BY DEF Inv, TypeOK, TipoColas
<1>3. /\ Len(Append(squeue_ready, p)) = Len(squeue_ready) + 1
      /\ Len(Append(squeue_readyPlus, p)) = Len(squeue_readyPlus) + 1
  BY <1>2, AppendProperties
<1>4. Len(squeue_ready) \in Nat /\ Len(squeue_readyPlus) \in Nat
  BY ListosNat
<1>5. Listos' = Listos + 1
  BY <1>3, <1>4 DEF proceso_listo, Listos
<1> QED
  BY <1>1, <1>5 DEF proceso_listo

LEMMA DesbloquearAvisa ==
  ASSUME Inv, SinPlus, NEW p \in Pids, desbloquear_proceso(p)
  PROVE  /\ sem'["ready"] + Listos = sem["ready"] + Listos' /\ Listos' \in Nat
         /\ SinPlus'
<1>0. Listos \in Nat /\ sem["ready"] \in Nat
  BY ListosNat
<1> DEFINE prioridad == ALGORITMO = "VRR" /\ tiempoQ[p] < quantum[p]
<1>1. CASE p \in squeue_blocked
  <2>1. proceso_listo(p, prioridad) /\ prioridad \in BOOLEAN
    BY <1>1 DEF desbloquear_proceso
  <2>2. ALGORITMO # "VRR" => ~prioridad
    OBVIOUS
  <2> HIDE DEF prioridad
  <2>3. /\ sem'["ready"] = sem["ready"] + 1 /\ Listos' = Listos + 1
        /\ ~prioridad => squeue_readyPlus' = squeue_readyPlus
    BY <2>1, ListoAvisa
  <2> QED
    BY <1>0, <2>2, <2>3 DEF SinPlus
<1>2. CASE p \notin squeue_blocked
  BY <1>0, <1>2 DEF desbloquear_proceso, listas, Listos, SinPlus
<1> QED
  BY <1>1, <1>2

\* A step that adds as many tokens as processes, at least, away from the
\* short-term scheduler's own pops.
LEMMA AvisosConservados ==
  ASSUME InvAvisos, sem'["ready"] \in Nat, Listos' \in Nat,
         sem'["ready"] + Listos >= sem["ready"] + Listos', EnMano => EnMano'
  PROVE  AvisosReady'
<1>1. Listos \in Nat /\ sem["ready"] \in Nat
  BY ListosNat DEF InvAvisos
<1>2. sem["ready"] + Uno(EnMano) >= Listos
  BY DEF InvAvisos, AvisosReady, EnMano, Listos
<1>3. sem'["ready"] + Uno(EnMano)' >= Listos'
  <2>1. CASE EnMano /\ EnMano'
    BY <1>1, <1>2, <2>1 DEF Uno
  <2>2. CASE ~EnMano /\ EnMano'
    BY <1>1, <1>2, <2>2 DEF Uno
  <2>3. CASE ~EnMano /\ ~EnMano'
    BY <1>1, <1>2, <2>3 DEF Uno
  <2> QED
    BY <2>1, <2>2, <2>3
<1> QED
  BY <1>3 DEF AvisosReady, EnMano, Listos

LEMMA AvisosQuietos ==
  ASSUME InvAvisos, sem'["ready"] = sem["ready"], UNCHANGED listas, EnMano => EnMano'
  PROVE  SinPlus' /\ AvisosReady'
<1>1. Listos' = Listos /\ SinPlus'
  BY DEF InvAvisos, SinPlus, Listos, listas
<1>2. Listos \in Nat /\ sem["ready"] \in Nat
  BY ListosNat DEF InvAvisos
<1> QED
  BY <1>1, <1>2, AvisosConservados

LEMMA AvisosListo ==
  ASSUME InvAvisos, NEW p \in Pids, proceso_listo(p, FALSE), EnMano => EnMano'
  PROVE  SinPlus' /\ AvisosReady'
<1>1. Listos \in Nat /\ sem["ready"] \in Nat
  BY ListosNat DEF InvAvisos
<1>2. /\ sem'["ready"] = sem["ready"] + 1 /\ Listos' = Listos + 1
      /\ squeue_readyPlus' = squeue_readyPlus
  BY ListoAvisa DEF InvAvisos
<1>3. SinPlus'
  BY <1>2 DEF SinPlus, InvAvisos
<1> QED
  BY <1>1, <1>2, <1>3, AvisosConservados

LEMMA AvisosDesbloquear ==
  ASSUME InvAvisos, NEW p \in Pids, desbloquear_proceso(p), EnMano => EnMano'
  PROVE  SinPlus' /\ AvisosReady'
<1>1. Listos \in Nat /\ sem["ready"] \in Nat
  BY ListosNat DEF InvAvisos
<1>2. sem'["ready"] + Listos = sem["ready"] + Listos' /\ Listos' \in Nat /\ SinPlus'
  BY DesbloquearAvisa DEF InvAvisos
<1>3. sem'["ready"] \in Nat
  <2>1. sem' \in [Semaforos -> Nat]
    BY DesbloquearTipo DEF InvAvisos, Inv, TypeOK
  <2> QED
    BY <2>1 DEF Semaforos
<1> QED
  BY <1>1, <1>2, <1>3, AvisosConservados

\* Semaphores other than semReady.
LEMMA OtroSemaforo ==
  ASSUME Inv, NEW s \in Semaforos \ {"ready"}, Post(s) \/ Wait(s)
  PROVE  sem'["ready"] = sem["ready"]
BY DEF Inv, TypeOK, TipoGlobales, Semaforos, Post, Wait

LEMMA LargoPlazoAvisos ==
  ASSUME InvAvisos, LargoPlazo
  PROVE  SinPlus' /\ AvisosReady'
<1>0. corto' = corto /\ (EnMano => EnMano')
  BY DEF LargoPlazo, LargoSemNew, LargoDetenida, LargoSemLargo, LargoReponer, LargoVacia,
     LargoSemMulti, LargoRenunciar, LargoSacar, LargoListo, LargoCae, LargoQuieto, EnMano
<1>1. CASE LargoListo
  <2>1. PICK p \in Pids : p = pcb_a_mover
    BY <1>1 DEF LargoListo, InvAvisos, Inv, Punteros
  <2>2. proceso_listo(p, FALSE)
    BY <1>1, <2>1 DEF LargoListo
  <2> QED
    BY <1>0, <2>2, AvisosListo
<1>2. CASE ~LargoListo
  <2>1. UNCHANGED listas
    BY <1>2 DEF LargoPlazo, LargoSemNew, LargoDetenida, LargoSemLargo, LargoReponer, LargoVacia,
       LargoSemMulti, LargoRenunciar, LargoSacar, LargoCae, SinMover
  <2>2. CASE LargoReponer
    BY <1>0, <2>1, <2>2, AvisosQuietos
       DEF LargoReponer, InvAvisos, Inv, TypeOK, TipoGlobales, Semaforos
  <2>3. CASE ~LargoReponer
    <3>1. \/ UNCHANGED sem
          \/ Wait("new") \/ Wait("largo") \/ Wait("multi") \/ Post("multi")
      BY <1>2, <2>3 DEF LargoPlazo, LargoSemNew, LargoDetenida, LargoSemLargo, LargoVacia,
         LargoSemMulti, LargoRenunciar, LargoSacar, LargoCae
    <3>2. sem'["ready"] = sem["ready"]
      BY <3>1, OtroSemaforo DEF InvAvisos, Semaforos
    <3> QED
      BY <1>0, <2>1, <3>2, AvisosQuietos
  <2> QED
    BY <2>2, <2>3
<1> QED
  BY <1>1, <1>2

LEMMA CortoPlazoAvisos ==
  ASSUME InvAvisos, CortoPlazo
  PROVE  SinPlus' /\ AvisosReady'
<1>0. /\ TipoColas /\ TipoGlobales /\ TipoPlazos /\ Punteros
      /\ sem["ready"] + Uno(EnMano) >= Listos /\ SinPlus
  BY DEF InvAvisos, Inv, TypeOK, AvisosReady, EnMano, Listos
<1>a. /\ Listos \in Nat /\ sem["ready"] \in Nat
      /\ Len(squeue_ready) \in Nat /\ Len(squeue_readyPlus) \in Nat
  BY ListosNat DEF InvAvisos
<1>1. CASE CortoSemReady
  <2>1. corto.pc = "semReady" /\ corto'.pc = "detenida"
    BY <1>0, <1>1 DEF CortoSemReady, TipoPlazos
  <2>2. ~EnMano /\ EnMano' /\ Listos' = Listos /\ SinPlus'
    BY <1>0, <1>1, <2>1 DEF CortoSemReady, SinDespachar, listas, EnMano, Listos, SinPlus
  <2>3. sem'["ready"] = sem["ready"] - 1
    BY <1>0, <1>1 DEF CortoSemReady, Wait, TipoGlobales, Semaforos
  <2>4. sem'["ready"] + Uno(EnMano)' >= Listos'
    BY <1>0, <1>a, <2>2, <2>3 DEF Uno
  <2> QED
    BY <2>2, <2>4 DEF AvisosReady, EnMano, Listos
<1>2. CASE CortoDetenida
  <2>1. EnMano' /\ UNCHANGED listas /\ sem' = sem
    BY <1>0, <1>2 DEF CortoDetenida, SinDespachar, TipoPlazos, EnMano
  <2> QED
    BY <2>1, AvisosQuietos
<1>3. CASE CortoSemCorto
  <2>1. EnMano' /\ UNCHANGED listas
    BY <1>0, <1>3 DEF CortoSemCorto, SinDespachar, TipoPlazos, EnMano
  <2>2. sem'["ready"] = sem["ready"]
    BY <1>3, OtroSemaforo DEF CortoSemCorto, InvAvisos, Semaforos
  <2> QED
    BY <2>1, <2>2, AvisosQuietos
<1>4. CASE CortoElegir
  <2>1. EnMano' /\ UNCHANGED listas /\ sem' = sem
    BY <1>0, <1>4 DEF CortoElegir, SinDespachar, TipoPlazos, EnMano
  <2> QED
    BY <2>1, AvisosQuietos
<1>5. CASE CortoNadaListo
  <2>1. squeue_ready = <<>> /\ squeue_readyPlus = <<>>
    BY <1>0, <1>5 DEF CortoNadaListo, HayPrioridad, SinPlus
  <2>2. UNCHANGED listas
    BY <1>5 DEF CortoNadaListo, SinDespachar
  <2>3. Listos' = 0 /\ SinPlus'
    BY <2>1, <2>2 DEF Listos, SinPlus, listas
  <2>4. sem'["ready"] \in Nat
    <3>1. sem'["ready"] = sem["ready"]
      BY <1>5, OtroSemaforo DEF CortoNadaListo, InvAvisos, Semaforos
    <3> QED
      BY <1>a, <3>1
  <2>5. sem'["ready"] + Uno(EnMano)' >= Listos'
    BY <2>3, <2>4 DEF Uno
  <2> QED
    BY <2>3, <2>5 DEF AvisosReady, EnMano, Listos
<1>6. CASE CortoDespachar
  <2>1. EnMano /\ ~EnMano' /\ sem' = sem
    BY <1>6 DEF CortoDespachar, EnMano
  <2>2. Listos' = Listos - 1 /\ SinPlus'
    <3>1. CASE corto.pc = "sacarPlus"
      <4>1. /\ squeue_readyPlus # <<>> /\ squeue_readyPlus' = Tail(squeue_readyPlus)
            /\ squeue_ready' = squeue_ready
        BY <1>6, <3>1 DEF CortoDespachar, ColaElegida
      <4>2. Len(squeue_readyPlus') = Len(squeue_readyPlus) - 1
        BY <1>0, <4>1, HeadTailProperties DEF TipoColas
      <4> QED
        BY <1>0, <1>a, <4>1, <4>2 DEF Listos, SinPlus
    <3>2. CASE corto.pc = "sacar"
      <4>1. /\ squeue_ready # <<>> /\ squeue_ready' = Tail(squeue_ready)
            /\ squeue_readyPlus' = squeue_readyPlus
        BY <1>6, <3>2 DEF CortoDespachar, ColaElegida
      <4>2. Len(squeue_ready') = Len(squeue_ready) - 1
        BY <1>0, <4>1, HeadTailProperties DEF TipoColas
      <4> QED
        BY <1>0, <1>a, <4>1, <4>2 DEF Listos, SinPlus
    <3> QED
      BY <1>6, <3>1, <3>2 DEF CortoDespachar
  <2>3. sem'["ready"] + Uno(EnMano)' >= Listos'
    BY <1>0, <1>a, <2>1, <2>2 DEF Uno
  <2> QED
    BY <2>2, <2>3 DEF AvisosReady, EnMano, Listos
<1>7. CASE CortoCae
  <2>1. (EnMano => EnMano') /\ UNCHANGED listas /\ sem' = sem
    BY <1>7 DEF CortoCae, EnMano
  <2> QED
    BY <2>1, AvisosQuietos
<1>8. CASE SignalListo
  <2>1. corto.pid \in Pids /\ proceso_listo(corto.pid, FALSE) /\ (EnMano => EnMano')
    BY <1>0, <1>8 DEF SignalListo, Punteros, EnMano
  <2> QED
    BY <2>1, AvisosListo
<1>9. CASE CortoSoltar
  <2>1. ~EnMano /\ UNCHANGED listas /\ sem' = sem
    BY <1>9 DEF CortoSoltar, EnMano
  <2> QED
    BY <2>1, AvisosQuietos
<1>10. CASE EsperarRecurso
  <2>1. (EnMano => EnMano') /\ UNCHANGED listas /\ sem' = sem
    BY <1>10 DEF EsperarRecurso, EnMano
  <2> QED
    BY <2>1, AvisosQuietos
<1> QED
  BY <1>1, <1>2, <1>3, <1>4, <1>5, <1>6, <1>7, <1>8, <1>9, <1>10 DEF CortoPlazo

LEMMA CPUAvisos ==
  ASSUME InvAvisos, CPU
  PROVE  SinPlus' /\ AvisosReady'
<1>1. PICK m : Desalojo(m)
  BY DEF CPU, DesalojoFinQuantum, DesalojoWait, DesalojoWaitBloquea, DesalojoSignal, DesalojoIO,
     DesalojoFinaliza, DesalojoRecursoInexistente, DesalojoDesconocido
<1>2. ~EnMano /\ corto.pid \in Pids /\ squeue_readyPlus' = squeue_readyPlus
  BY <1>1 DEF Desalojo, EnMano, InvAvisos, Inv, Punteros
<1>3. \/ proceso_listo(corto.pid, FALSE)
      \/ squeue_ready' = squeue_ready /\ sem' = sem
  BY DEF CPU, DesalojoFinQuantum, DesalojoWait, DesalojoWaitBloquea, DesalojoSignal, DesalojoIO,
     DesalojoFinaliza, DesalojoRecursoInexistente, DesalojoDesconocido
<1> QED
  BY <1>2, <1>3, AvisosListo, AvisosQuietos DEF listas

LEMMA LiberacionAvisos ==
  ASSUME InvAvisos, NEW h \in Hilos, LiberarSiguiente(h) \/ Despertar(h) \/ FinDeProceso(h)
  PROVE  SinPlus' /\ AvisosReady'
<1>0. EnMano => EnMano'
  BY DEF LiberarSiguiente, Despertar, FinDeProceso, MarcoQuieto, EnMano
<1>1. CASE LiberarSiguiente(h)
  <2>1. UNCHANGED listas /\ sem' = sem
    BY <1>1 DEF LiberarSiguiente
  <2> QED
    BY <1>0, <2>1, AvisosQuietos
<1>2. CASE Despertar(h)
  <2> DEFINE r == marco[h].recurso
  <2>1. r \in Recursos
    BY <1>2 DEF Despertar, InvAvisos, Inv, TypeOK, TipoMarco, Marcos
  <2>2. \/ colaRecurso[r] # <<>> /\ desbloquear_proceso(Head(colaRecurso[r]))
        \/ UNCHANGED listas /\ sem' = sem
    BY <1>2 DEF Despertar
  <2>3. colaRecurso[r] # <<>> => Head(colaRecurso[r]) \in Pids
    BY <2>1, HeadTailProperties DEF InvAvisos, Inv, TypeOK, TipoRecursos
  <2> HIDE DEF r
  <2> QED
    BY <1>0, <2>2, <2>3, AvisosDesbloquear, AvisosQuietos
<1>3. CASE FinDeProceso(h)
  <2>1. UNCHANGED listas /\ (Post("multi") \/ sem' = sem)
    BY <1>3 DEF FinDeProceso
  <2>2. sem'["ready"] = sem["ready"]
    BY <2>1, OtroSemaforo DEF InvAvisos, Semaforos
  <2> QED
    BY <1>0, <2>1, <2>2, AvisosQuietos
<1> QED
  BY <1>1, <1>2, <1>3

LEMMA ConsolaAvisos ==
  ASSUME InvAvisos, Consola
  PROVE  SinPlus' /\ AvisosReady'
<1>1. CASE FinalizarQuitar
  <2>0. Listos \in Nat /\ sem["ready"] \in Nat /\ Len(squeue_ready) \in Nat /\ Len(squeue_readyPlus) \in Nat
    BY ListosNat DEF InvAvisos
  <2>1. /\ (EnMano => EnMano') /\ sem' = sem /\ squeue_readyPlus' = squeue_readyPlus
        /\ squeue_ready' \in {RemoveFirst(squeue_ready, consola.pid), squeue_ready}
    BY <1>1 DEF FinalizarQuitar, FinalizarQuieto, EnMano
  <2>2. /\ RemoveFirst(squeue_ready, consola.pid) \in Seq(Pids)
        /\ Len(RemoveFirst(squeue_ready, consola.pid)) <= Len(squeue_ready)
    BY SinPrimero DEF InvAvisos, Inv, TypeOK, TipoColas
  <2>3. Len(RemoveFirst(squeue_ready, consola.pid)) \in Nat
    BY <2>2, LenProperties
  <2>4. Len(squeue_ready') \in Nat /\ Len(squeue_ready') <= Len(squeue_ready)
    BY <2>0, <2>1, <2>2, <2>3
  <2>5. Listos' \in Nat /\ Listos' <= Listos
    BY <2>0, <2>1, <2>4 DEF Listos
  <2>6. SinPlus'
    BY <2>1 DEF InvAvisos, SinPlus
  <2> QED
    BY <2>0, <2>1, <2>5, <2>6, AvisosConservados
<1>2. CASE ~FinalizarQuitar
  <2>1. UNCHANGED <<corto, squeue_ready, squeue_readyPlus>>
    BY <1>2 DEF Consola, CrearProceso, AvisarProceso, FinalizarEjecutando, FinalizarBuscar, FinalizarCaso,
       FinalizarDecidir, FinalizarTerminar, FinalizarQuieto, CambiarMultiprogramacion, AjustarMulti,
       DetenerPlanificacion, IniciarPlanificacion, ConsolaQuieta, listas
  <2>2. UNCHANGED sem \/ Post("new") \/ Post("multi") \/ Wait("multi")
    BY <1>2 DEF Consola, CrearProceso, AvisarProceso, FinalizarEjecutando, FinalizarBuscar, FinalizarCaso,
       FinalizarDecidir, FinalizarTerminar, FinalizarQuieto, CambiarMultiprogramacion, AjustarMulti,
       DetenerPlanificacion, IniciarPlanificacion
  <2>3. sem'["ready"] = sem["ready"]
    BY <2>2, OtroSemaforo DEF InvAvisos, Semaforos
  <2> QED
    BY SMTT(30), <2>1, <2>3, AvisosQuietos DEF listas, EnMano
<1> QED
  BY <1>1, <1>2

LEMMA PararYSeguirAvisos ==
  ASSUME InvAvisos, PararYSeguir
  PROVE  SinPlus' /\ AvisosReady'
<1>1. PlanificadoresQuietos
  BY DEF PararYSeguir, Detener, Reanudar
<1>2. UNCHANGED listas /\ (EnMano => EnMano')
  BY <1>1 DEF PlanificadoresQuietos, colas, listas, EnMano
<1>3. sem'["ready"] = sem["ready"]
  <2>1. \/ UNCHANGED sem \/ Wait("largo") \/ Wait("corto")
        \/ sem' = [sem EXCEPT !["largo"] = @ + 1, !["corto"] = @ + 1, !["new"] = @ + 1]
    BY DEF PararYSeguir, Detener, Reanudar, DetLeer, DetDrenar, DetMarcar, ReaPublicar, ReaMarcar
  <2>2. sem \in [Semaforos -> Nat]
    BY DEF InvAvisos, Inv, TypeOK, TipoGlobales
  <2> QED
    BY <2>1, <2>2, OtroSemaforo DEF InvAvisos, Semaforos
<1> QED
  BY <1>2, <1>3, AvisosQuietos

LEMMA EntradaSalidaAvisos ==
  ASSUME InvAvisos, NEW i \in Interfaces, FinDeIO(i) \/ SacarDeInterfaz(i)
  PROVE  SinPlus' /\ AvisosReady'
<1>1. EnMano => EnMano'
  BY DEF FinDeIO, SacarDeInterfaz, IOQuieto, EnMano
<1>2. \/ pedidos[i] # <<>> /\ desbloquear_proceso(Head(pedidos[i]))
      \/ UNCHANGED listas /\ sem' = sem
  BY DEF FinDeIO, SacarDeInterfaz
<1>3. pedidos[i] # <<>> => Head(pedidos[i]) \in Pids
  BY HeadTailProperties DEF InvAvisos, Inv, TypeOK, TipoInterfaces
<1> QED
  BY <1>1, <1>2, <1>3, AvisosDesbloquear, AvisosQuietos

\* No wake-up is lost in any execution, whatever the console, the CPU and the
\* interfaces do: every process in ready or ready+ has its token of semReady.
THEOREM SinAvisosPerdidos == Spec => []AvisosReady
<1>1. Init => InvAvisos
  <2> SUFFICES ASSUME Init PROVE InvAvisos
    OBVIOUS
  <2>1. SinPlus /\ AvisosReady
    BY DEF Init, SinPlus, AvisosReady, Uno, Semaforos
  <2> QED
    BY <2>1, InvInicial DEF InvAvisos
<1>2. InvAvisos /\ [Next]_vars => InvAvisos'
  <2> SUFFICES ASSUME InvAvisos, [Next]_vars PROVE InvAvisos'
    OBVIOUS
  <2>1. Inv'
    BY InvInductivo DEF InvAvisos
  <2>2. CASE Next
    BY <2>1, <2>2, LargoPlazoAvisos, CortoPlazoAvisos, CPUAvisos, LiberacionAvisos, ConsolaAvisos,
       PararYSeguirAvisos, EntradaSalidaAvisos DEF Next, Liberacion, EntradaSalida, InvAvisos
  <2>3. CASE UNCHANGED vars
    <3>1. UNCHANGED listas /\ sem' = sem /\ (EnMano => EnMano')
      BY <2>3 DEF vars, colas, listas, control, EnMano
    <3> QED
      BY <2>1, <3>1, AvisosQuietos DEF InvAvisos
  <2> QED
    BY <2>2, <2>3
<1>3. InvAvisos => AvisosReady
  BY DEF InvAvisos
<1> QED
  BY <1>1, <1>2, <1>3, PTL DEF Spec

-----------------------------------------------------------------------------
(* Where a process has been: created, still in NEW or on its way out of it,  *)
(* or past it for good.                                                      *)

Creados == 1 .. pidGlobal - 1
Adentro == {p \in Creados : ~En(squeue_new, p) /\ p # pcb_a_mover}

\* A process in NEW is there once and nothing but the long-term scheduler and the
\* console works on it, also while the former carries it to ready; whoever else holds a
\* process holds one that left NEW.
Nuevos ==
  /\ UnaVezEn(squeue_new, Pids)
  /\ \A p \in Pids : En(squeue_new, p) => p \in Creados /\ estado[p] = "NUEVO"
  /\ \A p \in Pids : p \notin Creados => estado[p] = "SIN_CREAR"
  /\ pcb_a_mover \in Pids => /\ pcb_a_mover \in Creados /\ ~En(squeue_new, pcb_a_mover)
                             /\ estado[pcb_a_mover] \in {"NUEVO", "FINALIZADO"}
Pasados ==
  /\ \A p \in Pids : En(squeue_ready, p) \/ En(squeue_readyPlus, p) => p \in Adentro
  /\ squeue_blocked \subseteq Adentro
  /\ corto.pc \in {"cpu", "desalojo"} => corto.pid \in Adentro
  /\ pcb_a_finalizar \in Adentro \cup {NULL}
\* The console ends as admitted only what was admitted, and as new what it took out of NEW
\* or found out of it.
Consolas ==
  /\ \A p \in Pids : salidas[p] > 0 => p \in Creados
  /\ consola.pc \in Matando => consola.pid \in Creados
  /\ consola.pc \in {"quitar", "decidir"} =>
       consola.pid \in Adentro \/ (consola.caso = "NUEVO" /\ estado[consola.pid] = "NUEVO")
  /\ consola.pc \in {"decidir", "comoNuevo"} => ~En(squeue_new, consola.pid)
  /\ consola.pc = "terminar" => consola.pid \in Adentro
  /\ consola.pc # "leer" => marco["consola"].op = "libre"

InvPasos == Inv /\ Nuevos /\ Pasados /\ Consolas

\* What a removal and a push leave in a list.
LEMMA EnSinPrimero ==
  ASSUME NEW S, NEW s \in Seq(S), NEW e, NEW x, En(RemoveFirst(s, e), x)
  PROVE  En(s, x)
<1>1. RemoveFirst(s, e) \in Seq(S)
  BY SinPrimero
<1>2. Cuantas(RemoveFirst(s, e), x) > 0 /\ Cuantas(RemoveFirst(s, e), x) \in Nat
  BY <1>1, CuantasEn, DondeFinito
<1>3. /\ Cuantas(s, x) = Cuantas(RemoveFirst(s, e), x) + SiNo(e = x /\ En(s, e))
      /\ Cuantas(s, x) \in Nat
  BY CuantasSinPrimero, DondeFinito
<1>4. Cuantas(s, x) > 0
  BY <1>2, <1>3 DEF SiNo
<1> QED
  BY <1>4, CuantasEn

LEMMA Listas == Inv => /\ squeue_new \in Seq(Pids) /\ squeue_ready \in Seq(Pids)
                       /\ squeue_readyPlus \in Seq(Pids)
BY DEF Inv, TypeOK, TipoColas

\* A step that creates nothing, admits nothing and changes no state outside Adentro.
LEMMA SinEntrar ==
  ASSUME InvPasos, UNCHANGED <<pidGlobal, squeue_new, pcb_a_mover>>,
         \A p \in Pids \ Adentro : estado'[p] = estado[p]
  PROVE  Nuevos' /\ Adentro' = Adentro /\ Creados' = Creados
<1>1. Adentro' = Adentro /\ Creados' = Creados
  BY DEF Adentro, Creados
<1>2. \A p \in Pids : En(squeue_new, p) \/ p \notin Creados \/ p = pcb_a_mover => p \notin Adentro
  BY DEF Adentro
<1> QED
  BY <1>1, <1>2 DEF InvPasos, Nuevos

\* A step of a thread other than the console that admits nothing.
LEMMA PasoAjeno ==
  ASSUME InvPasos, Inv', UNCHANGED <<pidGlobal, squeue_new, pcb_a_mover, pcb_a_finalizar, consola>>,
         \A p \in Pids \ Adentro : estado'[p] = estado[p],
         \A p \in Pids : En(squeue_ready', p) \/ En(squeue_readyPlus', p) => p \in Adentro,
         squeue_blocked' \subseteq Adentro,
         corto'.pc \in {"cpu", "desalojo"} => corto'.pid \in Adentro,
         \A p \in Pids : salidas'[p] > 0 => p \in Creados,
         marco["consola"].op = "libre" => marco'["consola"].op = "libre"
  PROVE  InvPasos'
<1>1. Nuevos' /\ Adentro' = Adentro /\ Creados' = Creados
  BY SinEntrar
<1>2. Pasados'
  BY <1>1 DEF InvPasos, Pasados
<1>3. consola.pc \in Matando => consola.pid \in Pids
  BY DEF InvPasos, Inv, Punteros
<1>4. Consolas'
  BY <1>1, <1>3 DEF InvPasos, Consolas
<1> QED
  BY <1>1, <1>2, <1>4 DEF InvPasos

LEMMA ListoPasa ==
  ASSUME InvPasos, NEW p \in Adentro, p \in Pids, NEW b \in BOOLEAN, proceso_listo(p, b)
  PROVE  /\ \A q \in Pids \ Adentro : estado'[q] = estado[q]
         /\ \A q \in Pids : En(squeue_ready', q) \/ En(squeue_readyPlus', q) => q \in Adentro
<1>1. \A q \in Pids \ Adentro : estado'[q] = estado[q]
  BY DEF proceso_listo, InvPasos, Inv, TypeOK, TipoProcesos
<1>2. /\ \A q : En(Append(squeue_ready, p), q) <=> En(squeue_ready, q) \/ q = p
      /\ \A q : En(Append(squeue_readyPlus, p), q) <=> En(squeue_readyPlus, q) \/ q = p
  BY Listas, EnAppend DEF InvPasos
<1> QED
  BY <1>1, <1>2 DEF proceso_listo, InvPasos, Pasados

LEMMA DesbloquearPasa ==
  ASSUME InvPasos, NEW p \in Pids, desbloquear_proceso(p)
  PROVE  /\ \A q \in Pids \ Adentro : estado'[q] = estado[q]
         /\ \A q \in Pids : En(squeue_ready', q) \/ En(squeue_readyPlus', q) => q \in Adentro
         /\ squeue_blocked' \subseteq Adentro
<1> DEFINE prioridad == ALGORITMO = "VRR" /\ tiempoQ[p] < quantum[p]
<1>1. CASE p \in squeue_blocked
  <2>1. proceso_listo(p, prioridad) /\ squeue_blocked' = squeue_blocked \ {p}
    BY <1>1 DEF desbloquear_proceso
  <2>2. prioridad \in BOOLEAN
    OBVIOUS
  <2>3. p \in Adentro
    BY <1>1 DEF InvPasos, Pasados
  <2> HIDE DEF prioridad
  <2> QED
    BY <2>1, <2>2, <2>3, ListoPasa DEF InvPasos, Pasados
<1>2. CASE p \notin squeue_blocked
  BY <1>2 DEF desbloquear_proceso, listas, InvPasos, Pasados
<1> QED
  BY <1>1, <1>2

LEMMA FinalizarPasa ==
  ASSUME InvPasos, NEW h \in Hilos, NEW p \in Adentro, p \in Pids, NEW c \in BOOLEAN,
         finalizar_proceso(h, p, c)
  PROVE  /\ \A q \in Pids \ Adentro : estado'[q] = estado[q]
         /\ \A q \in Pids : salidas'[q] > 0 => q \in Creados
         /\ h # "consola" => marco'["consola"] = marco["consola"]
<1>1. p \in Creados
  BY DEF Adentro
<1>2. "consola" \in Hilos
  BY DEF Hilos
<1> QED
  BY <1>1, <1>2 DEF finalizar_proceso, InvPasos, Inv, TypeOK, TipoProcesos, TipoMarco, Consolas

LEMMA LargoPlazoPasos ==
  ASSUME InvPasos, Inv', LargoPlazo
  PROVE  InvPasos'
<1>0. LargoQuieto
  BY DEF LargoPlazo, LargoSemNew, LargoDetenida, LargoSemLargo, LargoReponer, LargoVacia,
     LargoSemMulti, LargoRenunciar, LargoSacar, LargoListo, LargoCae
<1>1. UNCHANGED <<pidGlobal, squeue_blocked, salidas, pcb_a_finalizar, corto, consola, marco>>
  BY <1>0 DEF LargoQuieto, punteros
<1>a. consola.pc \in Matando => consola.pid \in Pids
  BY DEF InvPasos, Inv, Punteros
<1>2. CASE ~LargoSacar /\ ~LargoListo
  <2>1. UNCHANGED <<estado, squeue_new, squeue_ready, squeue_readyPlus, pcb_a_mover>>
    BY <1>2 DEF LargoPlazo, LargoSemNew, LargoDetenida, LargoSemLargo, LargoReponer, LargoVacia,
       LargoSemMulti, LargoRenunciar, LargoCae, SinMover, listas
  <2> QED
    BY <1>1, <2>1, PasoAjeno DEF InvPasos, Pasados, Consolas
<1>3. CASE LargoSacar
  <2> DEFINE p == Head(squeue_new)
  <2>1. squeue_new \in Seq(Pids) /\ squeue_new # <<>> /\ squeue_new' = Tail(squeue_new)
    BY <1>3, Listas DEF LargoSacar, InvPasos
  <2>2. pcb_a_mover' = p /\ UNCHANGED <<estado, squeue_ready, squeue_readyPlus>>
    BY <1>3 DEF LargoSacar, listas
  <2>3. /\ \A q : En(squeue_new, q) <=> En(squeue_new', q) \/ q = p
        /\ UnaVezEn(squeue_new', Pids) /\ (p \in Pids => ~En(squeue_new', p))
    BY <2>1, EnTail, UnaVezTail DEF InvPasos, Nuevos
  <2>4. p \in Pids
    BY <2>1, HeadTailProperties
  <2> HIDE DEF p
  <2>5. p \in Creados /\ ~En(squeue_new', p) /\ estado[p] = "NUEVO"
    BY <2>3, <2>4 DEF InvPasos, Nuevos
  <2>6. pcb_a_mover \notin Pids
    BY <1>3 DEF LargoSacar, InvPasos, Inv, Punteros
  <2>7. Creados' = Creados /\ Creados \subseteq Pids
    <3>1. pidGlobal \in 1 .. MaxPid + 1 /\ MaxPid \in Nat
      BY ConstantesValidas DEF InvPasos, Inv, TypeOK, TipoProcesos
    <3> QED
      BY <1>1, <3>1 DEF Creados, Pids
  <2>8. Adentro' = Adentro
    BY <2>2, <2>3, <2>6, <2>7 DEF Adentro
  <2>9. Nuevos'
    BY <2>2, <2>3, <2>4, <2>5, <2>7 DEF InvPasos, Nuevos
  <2>10. Pasados'
    BY <1>1, <2>2, <2>8 DEF InvPasos, Pasados
  <2>11. Consolas'
    BY <1>1, <1>a, <2>2, <2>3, <2>7, <2>8 DEF InvPasos, Consolas
  <2> QED
    BY <2>9, <2>10, <2>11 DEF InvPasos
<1>4. CASE LargoListo
  <2>1. PICK p \in Pids : p = pcb_a_mover
    BY <1>4 DEF LargoListo, InvPasos, Inv, Punteros
  <2>2. proceso_listo(p, FALSE) /\ pcb_a_mover' = NULL /\ squeue_new' = squeue_new
    BY <1>4, <2>1 DEF LargoListo
  <2>3. p \in Creados /\ ~En(squeue_new', p)
    BY <2>1, <2>2 DEF InvPasos, Nuevos
  <2>4. NULL \notin Creados /\ NULL \notin Pids
    BY DEF NULL, Creados, Pids
  <2>5. Creados' = Creados /\ Adentro' = Adentro \cup {p}
    BY <1>1, <2>1, <2>2, <2>3, <2>4 DEF Creados, Adentro
  <2>6. \A q \in Pids : q # p => estado'[q] = estado[q]
    BY <2>2 DEF proceso_listo, InvPasos, Inv, TypeOK, TipoProcesos
  <2>7. Nuevos'
    BY <2>1, <2>2, <2>3, <2>4, <2>5, <2>6 DEF InvPasos, Nuevos
  <2>8. \A q : En(squeue_ready', q) => En(squeue_ready, q) \/ q = p
    <3>1. squeue_ready' = Append(squeue_ready, p) /\ squeue_ready \in Seq(Pids)
      BY <2>2, Listas DEF proceso_listo, InvPasos
    <3> QED
      BY <3>1, EnAppend
  <2>9. squeue_readyPlus' = squeue_readyPlus
    BY <2>2 DEF proceso_listo
  <2>10. Pasados'
    BY <1>1, <2>5, <2>8, <2>9 DEF InvPasos, Pasados
  <2>11. Consolas'
    BY <1>1, <1>a, <2>2, <2>5, <2>6 DEF InvPasos, Consolas
  <2> QED
    BY <2>7, <2>10, <2>11 DEF InvPasos
<1> QED
  BY <1>2, <1>3, <1>4

LEMMA CortoPlazoPasos ==
  ASSUME InvPasos, Inv', CortoPlazo
  PROVE  InvPasos'
<1>0. /\ UNCHANGED <<pidGlobal, squeue_new, pcb_a_mover, pcb_a_finalizar, consola>>
      /\ UNCHANGED salidas
  BY DEF CortoPlazo, CortoSemReady, CortoDetenida, CortoSemCorto, CortoElegir, CortoNadaListo,
     CortoDespachar, CortoCae, EsperarRecurso, SignalListo, CortoSoltar, CortoQuieto, SinDespachar
<1>1. \A p \in Pids : salidas'[p] > 0 => p \in Creados
  BY <1>0 DEF InvPasos, Consolas
<1>2. CASE \/ CortoSemReady \/ CortoDetenida \/ CortoSemCorto \/ CortoElegir \/ CortoNadaListo
           \/ CortoCae \/ CortoSoltar
  <2>1. /\ UNCHANGED <<estado, squeue_ready, squeue_readyPlus, squeue_blocked, marco>>
        /\ corto'.pc \in {"cpu", "desalojo"} => corto' = corto
    BY <1>2 DEF CortoSemReady, CortoDetenida, CortoSemCorto, CortoElegir, CortoNadaListo, CortoCae,
       CortoSoltar, SinDespachar, procesos, listas, InvPasos, Inv, TypeOK, TipoPlazos
  <2> QED
    BY <1>0, <1>1, <2>1, PasoAjeno DEF InvPasos, Pasados
<1>3. CASE CortoDespachar
  <2> DEFINE p == Head(ColaElegida)
  <2>1. ColaElegida \in Seq(Pids) /\ ColaElegida # <<>>
    BY <1>3, Listas DEF CortoDespachar, ColaElegida, InvPasos
  <2>2. p \in Pids /\ \A q : En(ColaElegida, q) <=> En(Tail(ColaElegida), q) \/ q = p
    BY <2>1, EnTail, HeadTailProperties
  <2>3. p \in Adentro
    BY <2>2 DEF ColaElegida, InvPasos, Pasados
  <2>4. \A q \in Pids : En(squeue_ready', q) \/ En(squeue_readyPlus', q) => q \in Adentro
    BY <1>3, <2>2 DEF CortoDespachar, ColaElegida, InvPasos, Pasados
  <2>5. \A q \in Pids \ Adentro : estado'[q] = estado[q]
    <3>1. estado' = [estado EXCEPT ![p] = "EJECUTANDO"]
      BY <1>3 DEF CortoDespachar
    <3> HIDE DEF p
    <3> QED
      BY <2>3, <3>1 DEF InvPasos, Inv, TypeOK, TipoProcesos
  <2>6. corto'.pid = p /\ UNCHANGED <<squeue_blocked, marco>>
    BY <1>3 DEF CortoDespachar
  <2> HIDE DEF p
  <2> QED
    BY <1>0, <1>1, <2>3, <2>4, <2>5, <2>6, PasoAjeno DEF InvPasos, Pasados
<1>4. CASE EsperarRecurso \/ SignalListo
  <2>1. corto.pid \in Adentro /\ corto.pid \in Pids
    <3>1. marco["corto"].op # "libre"
      BY <1>4 DEF EsperarRecurso, SignalListo
    <3>2. corto.pc = "desalojo"
      BY <3>1 DEF InvPasos, Inv, Punteros
    <3> QED
      BY <3>2 DEF InvPasos, Inv, Punteros, Pasados
  <2>2. UNCHANGED corto /\ marco' = [marco EXCEPT !["corto"] = MarcoLibre]
    BY <1>4 DEF EsperarRecurso, SignalListo
  <2>3. marco'["consola"] = marco["consola"]
    BY <2>2 DEF InvPasos, Inv, TypeOK, TipoMarco, Hilos
  <2>4. /\ \A q \in Pids \ Adentro : estado'[q] = estado[q]
        /\ \A q \in Pids : En(squeue_ready', q) \/ En(squeue_readyPlus', q) => q \in Adentro
        /\ squeue_blocked' \subseteq Adentro
    <3>1. CASE EsperarRecurso
      BY <2>1, <3>1 DEF EsperarRecurso, bloquear_proceso, listas, InvPasos, Inv, TypeOK, TipoProcesos, Pasados
    <3>2. CASE SignalListo
      BY <2>1, <3>2, ListoPasa DEF SignalListo, InvPasos, Pasados
    <3> QED
      BY <1>4, <3>1, <3>2
  <2> QED
    BY <1>0, <1>1, <2>1, <2>2, <2>3, <2>4, PasoAjeno
<1> QED
  BY <1>2, <1>3, <1>4 DEF CortoPlazo

LEMMA CPUPasos ==
  ASSUME InvPasos, Inv', CPU
  PROVE  InvPasos'
<1>0. PICK m : Desalojo(m)
  BY DEF CPU, DesalojoFinQuantum, DesalojoWait, DesalojoWaitBloquea, DesalojoSignal, DesalojoIO,
     DesalojoFinaliza, DesalojoRecursoInexistente, DesalojoDesconocido
<1>1. /\ UNCHANGED <<pidGlobal, squeue_new, pcb_a_mover, pcb_a_finalizar, consola, squeue_readyPlus>>
      /\ corto.pid \in Pids /\ corto.pid \in Adentro /\ corto'.pid = corto.pid
  BY <1>0, DesalojoTipo DEF Desalojo, CortoQuieto, InvPasos, Pasados
<1>2. CASE DesalojoFinQuantum \/ \E r \in Recursos : DesalojoWait(r)
  <2>1. proceso_listo(corto.pid, FALSE) /\ UNCHANGED <<squeue_blocked, salidas, marco>>
    BY <1>2 DEF DesalojoFinQuantum, DesalojoWait
  <2>2. /\ \A q \in Pids \ Adentro : estado'[q] = estado[q]
        /\ \A q \in Pids : En(squeue_ready', q) \/ En(squeue_readyPlus', q) => q \in Adentro
    BY <1>1, <2>1, ListoPasa
  <2> QED
    BY <1>1, <2>1, <2>2, PasoAjeno DEF InvPasos, Pasados, Consolas
<1>3. CASE \/ \E r \in Recursos : DesalojoWaitBloquea(r) \/ DesalojoSignal(r)
           \/ \E i \in Interfaces : DesalojoIO(i)
           \/ DesalojoRecursoInexistente \/ DesalojoDesconocido
  <2>1. /\ UNCHANGED <<squeue_ready, salidas>>
        /\ squeue_blocked' \in {squeue_blocked, squeue_blocked \cup {corto.pid}}
        /\ \/ estado' = estado
           \/ \E e \in Estados : estado' = [estado EXCEPT ![corto.pid] = e]
        /\ \/ marco' = marco
           \/ \E f : marco' = [marco EXCEPT !["corto"] = f]
    BY <1>3 DEF DesalojoWaitBloquea, DesalojoSignal, DesalojoIO, DesalojoRecursoInexistente,
       DesalojoDesconocido, bloquear_proceso, liberar_recurso, Estados
  <2>2. marco'["consola"] = marco["consola"]
    BY <2>1 DEF InvPasos, Inv, TypeOK, TipoMarco, Hilos
  <2>3. \A q \in Pids \ Adentro : estado'[q] = estado[q]
    BY <1>1, <2>1 DEF InvPasos, Inv, TypeOK, TipoProcesos
  <2> QED
    BY <1>1, <2>1, <2>2, <2>3, PasoAjeno DEF InvPasos, Pasados, Consolas
<1>4. CASE \E f \in {"FINALIZACION", "OUT_OF_MEMORY", "IO_INVALIDA", "FINALIZACION_CONSOLA"} :
             DesalojoFinaliza(f)
  <2>1. finalizar_proceso("corto", corto.pid, TRUE) /\ UNCHANGED <<squeue_ready, squeue_blocked>>
    BY <1>4 DEF DesalojoFinaliza
  <2>2. "corto" \in Hilos /\ "corto" # "consola" /\ TRUE \in BOOLEAN
    BY DEF Hilos
  <2>3. /\ \A q \in Pids \ Adentro : estado'[q] = estado[q]
        /\ \A q \in Pids : salidas'[q] > 0 => q \in Creados
        /\ marco'["consola"] = marco["consola"]
    BY <1>1, <2>1, <2>2, FinalizarPasa
  <2> QED
    BY <1>1, <2>1, <2>3, PasoAjeno DEF InvPasos, Pasados
<1> QED
  BY <1>2, <1>3, <1>4 DEF CPU

LEMMA LiberacionPasos ==
  ASSUME InvPasos, Inv', NEW h \in Hilos, LiberarSiguiente(h) \/ Despertar(h) \/ FinDeProceso(h)
  PROVE  InvPasos'
<1>0. UNCHANGED <<pidGlobal, squeue_new, pcb_a_mover, pcb_a_finalizar, consola, corto, salidas>>
  BY DEF LiberarSiguiente, Despertar, FinDeProceso, MarcoQuieto, punteros
<1>1. /\ \A p \in Pids : salidas'[p] > 0 => p \in Creados
      /\ corto'.pc \in {"cpu", "desalojo"} => corto'.pid \in Adentro
  BY <1>0 DEF InvPasos, Consolas, Pasados
<1>2. marco["consola"].op = "libre" => marco'["consola"].op = "libre"
  <2>1. TipoMarco
    BY DEF InvPasos, Inv, TypeOK
  <2>2. CASE LiberarSiguiente(h)
    BY <2>1, <2>2 DEF LiberarSiguiente, liberar_recurso, TipoMarco
  <2>3. CASE Despertar(h)
    BY <2>1, <2>3 DEF Despertar, TipoMarco, Marcos
  <2>4. CASE FinDeProceso(h)
    BY <2>1, <2>4 DEF FinDeProceso, TipoMarco
  <2> QED
    BY <2>2, <2>3, <2>4
<1>3. CASE UNCHANGED <<estado, squeue_blocked, listas>>
  BY <1>0, <1>1, <1>2, <1>3, PasoAjeno DEF listas, InvPasos, Pasados
<1>4. CASE ~UNCHANGED <<estado, squeue_blocked, listas>>
  <2> DEFINE r == marco[h].recurso
             p == Head(colaRecurso[r])
  <2>1. colaRecurso[r] # <<>> /\ desbloquear_proceso(p) /\ r # Nada
    BY <1>4 DEF LiberarSiguiente, Despertar, FinDeProceso, listas
  <2>2. r \in Recursos
    BY <2>1 DEF InvPasos, Inv, TypeOK, TipoMarco, Marcos
  <2>3. p \in Pids
    BY <2>1, <2>2, HeadTailProperties DEF InvPasos, Inv, TypeOK, TipoRecursos
  <2> HIDE DEF p
  <2>4. /\ \A q \in Pids \ Adentro : estado'[q] = estado[q]
        /\ \A q \in Pids : En(squeue_ready', q) \/ En(squeue_readyPlus', q) => q \in Adentro
        /\ squeue_blocked' \subseteq Adentro
    BY <2>1, <2>3, DesbloquearPasa
  <2> QED
    BY <1>0, <1>1, <1>2, <2>4, PasoAjeno
<1> QED
  BY <1>3, <1>4

LEMMA PararYSeguirPasos ==
  ASSUME InvPasos, Inv', PararYSeguir
  PROVE  InvPasos'
<1>1. /\ UNCHANGED <<pidGlobal, squeue_new, pcb_a_mover, pcb_a_finalizar, consola, corto, salidas>>
      /\ UNCHANGED <<estado, squeue_ready, squeue_readyPlus, squeue_blocked, marco>>
  BY DEF PararYSeguir, Detener, Reanudar, PlanificadoresQuietos, procesos, colas, punteros
<1> QED
  BY <1>1, PasoAjeno DEF InvPasos, Pasados, Consolas

LEMMA EntradaSalidaPasos ==
  ASSUME InvPasos, Inv', NEW i \in Interfaces, FinDeIO(i) \/ SacarDeInterfaz(i)
  PROVE  InvPasos'
<1>0. UNCHANGED <<pidGlobal, squeue_new, pcb_a_mover, pcb_a_finalizar, consola, corto>>
  BY DEF FinDeIO, SacarDeInterfaz, IOQuieto, punteros
<1>1. corto'.pc \in {"cpu", "desalojo"} => corto'.pid \in Adentro
  BY <1>0 DEF InvPasos, Pasados
<1>2. CASE SacarDeInterfaz(i)
  BY <1>0, <1>1, <1>2, PasoAjeno DEF SacarDeInterfaz, listas, InvPasos, Pasados, Consolas
<1>3. CASE FinDeIO(i)
  <2> DEFINE p == Head(pedidos[i])
  <2>1. p \in Pids
    BY <1>3, HeadTailProperties DEF FinDeIO, InvPasos, Inv, TypeOK, TipoInterfaces
  <2>2. CASE p # pcb_a_finalizar
    <3>1. desbloquear_proceso(p) /\ UNCHANGED <<salidas, marco>>
      BY <1>3, <2>2 DEF FinDeIO
    <3> HIDE DEF p
    <3>2. /\ \A q \in Pids \ Adentro : estado'[q] = estado[q]
          /\ \A q \in Pids : En(squeue_ready', q) \/ En(squeue_readyPlus', q) => q \in Adentro
          /\ squeue_blocked' \subseteq Adentro
      BY <2>1, <3>1, DesbloquearPasa
    <3> QED
      BY <1>0, <1>1, <3>1, <3>2, PasoAjeno DEF InvPasos, Consolas
  <2>3. CASE p = pcb_a_finalizar
    <3>1. finalizar_proceso(i, p, TRUE) /\ UNCHANGED <<squeue_blocked, listas>>
      BY <1>3, <2>3 DEF FinDeIO
    <3>2. p \in Adentro
      BY <2>1, <2>3 DEF InvPasos, Pasados, Pids, NULL
    <3>3. i \in Hilos /\ i # "consola" /\ TRUE \in BOOLEAN
      BY ConstantesValidas DEF Hilos
    <3> HIDE DEF p
    <3>4. /\ \A q \in Pids \ Adentro : estado'[q] = estado[q]
          /\ \A q \in Pids : salidas'[q] > 0 => q \in Creados
          /\ marco'["consola"] = marco["consola"]
      BY <2>1, <3>1, <3>2, <3>3, FinalizarPasa
    <3> QED
      BY <1>0, <1>1, <3>1, <3>4, PasoAjeno DEF listas, InvPasos, Pasados
  <2> QED
    BY <2>2, <2>3
<1> QED
  BY <1>2, <1>3

LEMMA ConsolaPasos ==
  ASSUME InvPasos, Inv', Consola
  PROVE  InvPasos'
<1>1. CASE CrearProceso
  <2> DEFINE p == pidGlobal
  <2>1. p \in Pids /\ p \notin Creados /\ Creados' = Creados \cup {p}
    <3>1. p \in 1 .. MaxPid + 1 /\ p <= MaxPid /\ pidGlobal' = p + 1 /\ MaxPid \in Nat
      BY <1>1, ConstantesValidas DEF CrearProceso, InvPasos, Inv, TypeOK, TipoProcesos
    <3>2. 1 .. (p + 1) - 1 = (1 .. p - 1) \cup {p}
      BY <3>1
    <3> QED
      BY <3>1, <3>2 DEF Pids, Creados
  <2>2. squeue_new' = Append(squeue_new, p) /\ squeue_new \in Seq(Pids)
    BY <1>1, Listas DEF CrearProceso, InvPasos
  <2>3. UnaVezEn(squeue_new', Pids) /\ \A q : En(squeue_new', q) <=> En(squeue_new, q) \/ q = p
    BY <2>1, <2>2, EnAppend, UnaVezAppend DEF InvPasos, Nuevos
  <2>4. Adentro' = Adentro /\ pcb_a_mover' = pcb_a_mover
    <3>1. pcb_a_mover' = pcb_a_mover
      BY <1>1 DEF CrearProceso, ConsolaQuieta
    <3> QED
      BY <2>1, <2>3, <3>1 DEF Adentro
  <2>5. estado' = [estado EXCEPT ![p] = "NUEVO"]
    BY <1>1 DEF CrearProceso
  <2> HIDE DEF p
  <2>6. Nuevos'
    BY <2>1, <2>3, <2>4, <2>5 DEF InvPasos, Inv, TypeOK, TipoProcesos, Nuevos
  <2>7. Pasados'
    BY <1>1, <2>4 DEF CrearProceso, ConsolaQuieta, listas, InvPasos, Pasados
  <2>8. consola'.pc = "avisar" /\ UNCHANGED <<salidas, marco>> /\ marco["consola"].op = "libre"
    BY <1>1 DEF CrearProceso, Orden, MarcoLibre, InvPasos, Inv, TypeOK, TipoConsola
  <2>9. Consolas'
    BY <2>1, <2>8 DEF InvPasos, Consolas
  <2> QED
    BY <2>6, <2>7, <2>9 DEF InvPasos
<1>2. CASE FinalizarQuitar
  <2> DEFINE p == consola.pid
  <2>1. p \in Pids /\ p \in Creados /\ consola.pc = "quitar" /\ marco["consola"].op = "libre"
    BY <1>2 DEF FinalizarQuitar, InvPasos, Inv, Punteros, Consolas
  <2>2. /\ squeue_new' = IF consola.caso = "NUEVO" THEN RemoveFirst(squeue_new, p) ELSE squeue_new
        /\ squeue_ready' = IF consola.caso = "LISTO" THEN RemoveFirst(squeue_ready, p) ELSE squeue_ready
        /\ squeue_blocked' \subseteq squeue_blocked
        /\ consola' = [consola EXCEPT !.pc = "decidir"]
        /\ UNCHANGED <<pidGlobal, estado, squeue_readyPlus, corto, pcb_a_mover, pcb_a_finalizar, salidas, marco>>
    BY <1>2 DEF FinalizarQuitar, FinalizarQuieto
  <2>3. squeue_new \in Seq(Pids) /\ squeue_ready \in Seq(Pids) /\ UnaVezEn(squeue_new, Pids)
    BY Listas DEF InvPasos, Nuevos
  <2>4. p \in Adentro \/ (consola.caso = "NUEVO" /\ estado[p] = "NUEVO")
    BY <2>1 DEF InvPasos, Consolas
  <2>5. consola'.pc = "decidir" /\ consola'.pid = p /\ consola'.caso = consola.caso
    BY <2>2 DEF InvPasos, Inv, TypeOK, TipoConsola
  <2> HIDE DEF p
  <2>6. /\ UnaVezEn(squeue_new', Pids)
        /\ \A q : En(squeue_new', q) => En(squeue_new, q)
        /\ \A q : q # p => (En(squeue_new', q) <=> En(squeue_new, q))
        /\ ~En(squeue_new', p)
    <3>1. CASE consola.caso = "NUEVO"
      BY <2>2, <2>3, <3>1, SinPrimeroQuita
    <3>2. CASE consola.caso # "NUEVO"
      BY <2>2, <2>3, <2>4, <3>2 DEF Adentro
    <3> QED
      BY <3>1, <3>2
  <2>7. Creados' = Creados /\ Adentro \subseteq Adentro' /\ (p # pcb_a_mover => p \in Adentro')
    BY <2>1, <2>2, <2>6 DEF Creados, Adentro
  <2>8. Nuevos'
    BY <2>1, <2>2, <2>6, <2>7 DEF InvPasos, Nuevos
  <2>9. \A q : En(squeue_ready', q) => En(squeue_ready, q)
    BY <2>2, <2>3, EnSinPrimero
  <2>10. Pasados'
    BY <2>2, <2>7, <2>9 DEF InvPasos, Pasados
  <2>11. Consolas'
    BY <2>1, <2>2, <2>4, <2>5, <2>6, <2>7 DEF InvPasos, Consolas
  <2> QED
    BY <2>8, <2>10, <2>11 DEF InvPasos
<1>3. CASE FinalizarDecidir
  <2> DEFINE p == consola.pid
  <2>1. /\ p \in Pids /\ p \in Creados /\ consola.pc = "decidir" /\ marco["consola"].op = "libre"
        /\ ~En(squeue_new, p)
        /\ p \in Adentro \/ (consola.caso = "NUEVO" /\ estado[p] = "NUEVO")
    BY <1>3 DEF FinalizarDecidir, InvPasos, Inv, Punteros, Consolas
  <2>2. /\ UNCHANGED <<pidGlobal, estado, squeue_new, squeue_ready, squeue_readyPlus, squeue_blocked>>
        /\ UNCHANGED <<salidas, corto, marco, pcb_a_mover>>
        /\ pcb_a_finalizar' = IF consola.caso = "BLOQUEADO" THEN p ELSE pcb_a_finalizar
        /\ consola' = [consola EXCEPT !.pc = IF estado[p] = "NUEVO" THEN "comoNuevo" ELSE "terminar"]
    BY <1>3 DEF FinalizarDecidir, ConsolaQuieta, listas
  <2>3. consola'.pc = (IF estado[p] = "NUEVO" THEN "comoNuevo" ELSE "terminar") /\ consola'.pid = p
    BY <2>2 DEF InvPasos, Inv, TypeOK, TipoConsola
  <2> HIDE DEF p
  <2>4. Adentro' = Adentro /\ Nuevos' /\ Creados' = Creados
    BY <2>2, SinEntrar
  <2>5. Pasados'
    BY <2>1, <2>2, <2>4 DEF InvPasos, Pasados
  <2>6. Consolas'
    BY <2>1, <2>2, <2>3, <2>4 DEF InvPasos, Consolas
  <2> QED
    BY <2>4, <2>5, <2>6 DEF InvPasos
<1>4. CASE FinalizarTerminar
  <2> DEFINE p == consola.pid
             c == consola.pc = "terminar"
  <2>1. p \in Pids /\ p \in Creados /\ c \in BOOLEAN /\ consola.pc \in {"comoNuevo", "terminar"}
    BY <1>4 DEF FinalizarTerminar, InvPasos, Inv, Punteros, Consolas
  <2>2. /\ UNCHANGED <<pidGlobal, squeue_new, squeue_ready, squeue_readyPlus, squeue_blocked>>
        /\ UNCHANGED <<corto, pcb_a_mover, pcb_a_finalizar>>
        /\ finalizar_proceso("consola", p, c) /\ consola' = ConsolaLibre
    BY <1>4 DEF FinalizarTerminar, FinalizarQuieto
  <2>3. ~En(squeue_new, p)
    <3>1. CASE consola.pc = "comoNuevo"
      BY <3>1 DEF InvPasos, Consolas
    <3>2. CASE consola.pc = "terminar"
      BY <3>2 DEF InvPasos, Consolas, Adentro
    <3> QED
      BY <2>1, <3>1, <3>2
  <2> HIDE DEF p, c
  <2>4. Creados' = Creados /\ Adentro' = Adentro
    BY <2>2 DEF Creados, Adentro
  <2>5. /\ \A q \in Pids : q # p => estado'[q] = estado[q] /\ salidas'[q] = salidas[q]
        /\ estado'[p] = "FINALIZADO"
    BY <2>1, <2>2 DEF finalizar_proceso, InvPasos, Inv, TypeOK, TipoProcesos
  <2>6. Nuevos'
    BY <2>1, <2>2, <2>3, <2>4, <2>5 DEF InvPasos, Nuevos
  <2>7. Pasados'
    BY <2>2, <2>4 DEF InvPasos, Pasados
  <2>8. Consolas'
    BY <2>1, <2>2, <2>4, <2>5 DEF InvPasos, Consolas, ConsolaLibre
  <2> QED
    BY <2>6, <2>7, <2>8 DEF InvPasos
<1>5. CASE ~CrearProceso /\ ~FinalizarQuitar /\ ~FinalizarDecidir /\ ~FinalizarTerminar
  <2>1. /\ UNCHANGED <<pidGlobal, estado, squeue_new, squeue_ready, squeue_readyPlus, squeue_blocked>>
        /\ UNCHANGED <<salidas, pcb_a_finalizar, pcb_a_mover, corto, marco>>
    BY <1>5 DEF Consola, AvisarProceso, FinalizarCaso, AjustarMulti, FinalizarEjecutando, FinalizarBuscar,
       CambiarMultiprogramacion, DetenerPlanificacion, IniciarPlanificacion, ConsolaQuieta, listas
  <2>2. Adentro' = Adentro /\ Nuevos' /\ Creados' = Creados
    BY <2>1, SinEntrar
  <2>3. Pasados'
    BY <2>1, <2>2 DEF InvPasos, Pasados
  <2>4. Consolas'
    <3>1. CASE \E p \in Pids : FinalizarBuscar(p)
      <4>1. PICK p \in Pids : FinalizarBuscar(p)
        BY <3>1
      <4>2. /\ consola'.pc = "caso" /\ consola'.pid = p
            /\ marco["consola"].op = "libre"
            /\ p \in Range(squeue_new) \cup Range(squeue_ready) \cup squeue_blocked \/ salidas[p] > 0
        BY <4>1 DEF FinalizarBuscar, OrdenAcotada, Orden, MarcoLibre, InvPasos, Inv, TypeOK, TipoConsola
      <4>3. p \in Creados
        <5>1. squeue_new \in Seq(Pids) /\ squeue_ready \in Seq(Pids)
          BY Listas DEF InvPasos
        <5>2. p \in Range(squeue_new) => En(squeue_new, p)
          BY <5>1 DEF Range, En
        <5>3. p \in Range(squeue_ready) => En(squeue_ready, p)
          BY <5>1 DEF Range, En
        <5> QED
          BY <4>2, <5>2, <5>3 DEF InvPasos, Nuevos, Pasados, Consolas, Adentro
      <4> QED
        BY <2>1, <2>2, <4>2, <4>3 DEF InvPasos, Consolas
    <3>2. CASE FinalizarCaso
      <4>1. consola.pc = "caso" /\ consola.pid \in Creados /\ consola.pid \in Pids /\ marco["consola"].op = "libre"
        BY <3>2 DEF FinalizarCaso, InvPasos, Consolas, Inv, Punteros
      <4>2. CASE consola' = ConsolaLibre
        BY <2>1, <2>2, <4>2 DEF InvPasos, Consolas, ConsolaLibre
      <4>3. CASE consola' # ConsolaLibre
        <5> DEFINE e == estado[consola.pid]
        <5>1. consola' = [consola EXCEPT !.pc = "quitar", !.caso = e]
          BY <3>2, <4>3 DEF FinalizarCaso
        <5>2. consola.pid \in Adentro \/ e = "NUEVO"
          <6>1. e \in {"NUEVO", "LISTO", "BLOQUEADO"}
            BY <3>2, <4>3 DEF FinalizarCaso
          <6> QED
            BY <4>1, <6>1 DEF InvPasos, Nuevos, Adentro
        <5> HIDE DEF e
        <5>3. consola'.pc = "quitar" /\ consola'.pid = consola.pid /\ consola'.caso = e
          BY <5>1 DEF InvPasos, Inv, TypeOK, TipoConsola
        <5> QED
          BY <2>1, <2>2, <4>1, <5>2, <5>3 DEF InvPasos, Consolas, e
      <4> QED
        BY <4>2, <4>3
    <3>3. CASE (\E n \in Grados : CambiarMultiprogramacion(n)) \/ AjustarMulti
      <4>1. consola'.pc \in {"leer", "subir", "bajar"} /\ marco["consola"].op = "libre"
        <5>1. CASE AjustarMulti
          BY <5>1 DEF AjustarMulti, ConsolaLibre, InvPasos, Inv, TypeOK, TipoConsola, Consolas
        <5>2. CASE \E n \in Grados : CambiarMultiprogramacion(n)
          BY <5>2 DEF CambiarMultiprogramacion, OrdenAcotada, Orden, MarcoLibre, ConsolaLibre
        <5> QED
          BY <3>3, <5>1, <5>2
      <4> QED
        BY <2>1, <2>2, <4>1 DEF InvPasos, Consolas
    <3>4. CASE \/ AvisarProceso \/ \E p \in Pids : FinalizarEjecutando(p)
               \/ \E d \in Detenedores : DetenerPlanificacion(d)
               \/ \E d \in Reanudadores : IniciarPlanificacion(d)
      <4>1. consola' \in {consola, ConsolaLibre}
        BY <3>4 DEF AvisarProceso, FinalizarEjecutando, DetenerPlanificacion, IniciarPlanificacion
      <4> QED
        BY <2>1, <2>2, <4>1 DEF InvPasos, Consolas, ConsolaLibre
    <3> QED
      BY <1>5, <3>1, <3>2, <3>3, <3>4 DEF Consola
  <2> QED
    BY SMTT(30), <2>2, <2>3, <2>4 DEF InvPasos
<1> QED
  BY <1>1, <1>2, <1>3, <1>4, <1>5

LEMMA PasosInductivos == InvPasos /\ [Next]_vars => InvPasos'
<1> SUFFICES ASSUME InvPasos, [Next]_vars PROVE InvPasos'
  OBVIOUS
<1>0. Inv'
  BY InvInductivo DEF InvPasos
<1>1. CASE Next
  BY <1>0, <1>1, LargoPlazoPasos, CortoPlazoPasos, CPUPasos, LiberacionPasos, ConsolaPasos,
     PararYSeguirPasos, EntradaSalidaPasos DEF Next, Liberacion, EntradaSalida
<1>2. CASE UNCHANGED vars
  BY <1>0, <1>2, PasoAjeno DEF vars, procesos, colas, punteros, control, InvPasos, Pasados, Consolas
<1> QED
  BY <1>1, <1>2

LEMMA PasosIniciales == Init => InvPasos
<1> SUFFICES ASSUME Init PROVE InvPasos
  OBVIOUS
<1>1. Inv
  BY InvInicial
<1>2. Creados = {} /\ \A e : ~En(<<>>, e)
  BY SMTT(30), Vacia DEF Init, Creados
<1> QED
  BY <1>1, <1>2, Vacia DEF Init, InvPasos, Nuevos, Pasados, Consolas, ConsolaLibre, Pids, NULL

LEMMA PasosSiempre == Spec => []InvPasos
BY PasosIniciales, PasosInductivos, PTL DEF Spec

-----------------------------------------------------------------------------
(* The slots of the degree of multiprogramming.                              *)

Activo   == {"LISTO", "EJECUTANDO", "BLOQUEADO"}
Ocupa(f) == f.op = "finalizar" /\ f.cupo
Ajuste   == (IF consola.pc = "subir" THEN consola.n ELSE 0) - (IF consola.pc = "bajar" THEN consola.n ELSE 0)
Saldo    == sem["multi"] + Cardinality(Admitidos) + Cardinality(Terminando) + Uno(largo \in {"admitir", "listo"})
              + perdidos + Ajuste - grado

\* Whoever works on a process finds it in the state the queue it came from names.
Derecho ==
  /\ corto.pc = "cpu" \/ marco["corto"].op \in {"esperar", "signal"} => estado[corto.pid] = "EJECUTANDO"
  /\ \A p \in Pids : En(squeue_ready, p) \/ En(squeue_readyPlus, p) => estado[p] = "LISTO"
  /\ \A p \in squeue_blocked : estado[p] = "BLOQUEADO"
  /\ pcb_a_finalizar = NULL
  /\ consola.pc \notin {"comoNuevo", "terminar"}

\* A step loses no slot, and gives none twice if every process is where it should be.
Cuenta == Saldo' >= Saldo /\ (Derecho => Saldo' = Saldo)

LEMMA Numeros ==
  Inv => /\ Cardinality(Admitidos) \in Nat /\ Cardinality(Terminando) \in Nat
         /\ IsFiniteSet(Admitidos) /\ IsFiniteSet(Terminando)
         /\ sem["multi"] \in Nat /\ grado \in Nat /\ Ajuste \in Int /\ consola.n \in Nat
         /\ Saldo \in Int /\ Saldo = Cupos + perdidos - grado
         /\ perdidos \in Nat
<1> SUFFICES ASSUME Inv
             PROVE  /\ Cardinality(Admitidos) \in Nat /\ Cardinality(Terminando) \in Nat
                    /\ IsFiniteSet(Admitidos) /\ IsFiniteSet(Terminando)
                    /\ sem["multi"] \in Nat /\ grado \in Nat /\ Ajuste \in Int /\ consola.n \in Nat
                    /\ Saldo \in Int /\ Saldo = Cupos + perdidos - grado
                    /\ perdidos \in Nat
  OBVIOUS
<1>1. IsFiniteSet(Pids) /\ IsFiniteSet(Hilos)
  <2>1. IsFiniteSet(Pids)
    BY PidsFinito
  <2>2. IsFiniteSet({"corto", "consola"})
    <3>1. IsFiniteSet({}) /\ IsFiniteSet({} \cup {"corto"}) /\ IsFiniteSet(({} \cup {"corto"}) \cup {"consola"})
      BY FS_EmptySet, FS_AddElement
    <3>2. ({} \cup {"corto"}) \cup {"consola"} = {"corto", "consola"}
      OBVIOUS
    <3> QED
      BY <3>1, <3>2
  <2> QED
    BY <2>1, <2>2, FS_Union, ConstantesValidas DEF Hilos
<1>2. IsFiniteSet(Admitidos) /\ IsFiniteSet(Terminando)
  BY <1>1, FS_Subset DEF Admitidos, Terminando
<1>3. Cardinality(Admitidos) \in Nat /\ Cardinality(Terminando) \in Nat
  BY <1>2, FS_CardinalityType
<1>4. sem["multi"] \in Nat /\ grado \in Nat /\ consola.n \in Nat /\ perdidos \in Nat
  BY DEF Inv, TypeOK, TipoGlobales, TipoConsola, Semaforos
<1>5. Ajuste \in Int
  BY <1>4 DEF Ajuste
<1>6. Uno(largo \in {"admitir", "listo"}) \in Nat
  BY DEF Uno
<1>7. Saldo \in Int /\ Saldo = Cupos + perdidos - grado
  BY <1>3, <1>4, <1>5, <1>6 DEF Saldo, Cupos, Ajuste
<1> QED
  BY <1>2, <1>3, <1>4, <1>5, <1>7

\* One process changes state, one thread changes activation.
LEMMA AdmitidosCambia ==
  ASSUME Inv, NEW p \in Pids, NEW e \in Estados, estado' = [estado EXCEPT ![p] = e]
  PROVE  Cardinality(Admitidos') + Uno(estado[p] \in Activo) = Cardinality(Admitidos) + Uno(e \in Activo)
<1>1. \A q \in Pids : estado'[q] = IF q = p THEN e ELSE estado[q]
  BY DEF Inv, TypeOK, TipoProcesos
<1>2. IsFiniteSet(Admitidos) /\ Cardinality(Admitidos) \in Nat
  BY Numeros
<1>3. CASE e \in Activo
  <2>1. Admitidos' = Admitidos \cup {p} /\ (p \in Admitidos <=> estado[p] \in Activo)
    BY <1>1, <1>3 DEF Admitidos, Activo
  <2>2. Cardinality(Admitidos') = IF p \in Admitidos THEN Cardinality(Admitidos) ELSE Cardinality(Admitidos) + 1
    BY <1>2, <2>1, FS_AddElement
  <2>3. Uno(e \in Activo) = 1 /\ Uno(estado[p] \in Activo) = IF p \in Admitidos THEN 1 ELSE 0
    BY <1>3, <2>1 DEF Uno
  <2> QED
    BY <1>2, <2>2, <2>3
<1>4. CASE e \notin Activo
  <2>1. Admitidos' = Admitidos \ {p} /\ (p \in Admitidos <=> estado[p] \in Activo)
    BY <1>1, <1>4 DEF Admitidos, Activo
  <2>2. Cardinality(Admitidos') = IF p \in Admitidos THEN Cardinality(Admitidos) - 1 ELSE Cardinality(Admitidos)
    BY <1>2, <2>1, FS_RemoveElement
  <2>3. Uno(e \in Activo) = 0 /\ Uno(estado[p] \in Activo) = IF p \in Admitidos THEN 1 ELSE 0
    BY <1>4, <2>1 DEF Uno
  <2> QED
    BY <1>2, <2>2, <2>3
<1> QED
  BY <1>3, <1>4

LEMMA TerminandoCambia ==
  ASSUME Inv, NEW h \in Hilos, NEW f \in Marcos, marco' = [marco EXCEPT ![h] = f]
  PROVE  Cardinality(Terminando') + Uno(Ocupa(marco[h])) = Cardinality(Terminando) + Uno(Ocupa(f))
<1>1. \A g \in Hilos : marco'[g] = IF g = h THEN f ELSE marco[g]
  BY DEF Inv, TypeOK, TipoMarco
<1>2. IsFiniteSet(Terminando) /\ Cardinality(Terminando) \in Nat
  BY Numeros
<1>3. CASE Ocupa(f)
  <2>1. Terminando' = Terminando \cup {h} /\ (h \in Terminando <=> Ocupa(marco[h]))
    BY <1>1, <1>3 DEF Terminando, Ocupa
  <2>2. Cardinality(Terminando') = IF h \in Terminando THEN Cardinality(Terminando) ELSE Cardinality(Terminando) + 1
    BY <1>2, <2>1, FS_AddElement
  <2>3. Uno(Ocupa(f)) = 1 /\ Uno(Ocupa(marco[h])) = IF h \in Terminando THEN 1 ELSE 0
    BY <1>3, <2>1 DEF Uno
  <2> QED
    BY <1>2, <2>2, <2>3
<1>4. CASE ~Ocupa(f)
  <2>1. Terminando' = Terminando \ {h} /\ (h \in Terminando <=> Ocupa(marco[h]))
    BY <1>1, <1>4 DEF Terminando, Ocupa
  <2>2. Cardinality(Terminando') = IF h \in Terminando THEN Cardinality(Terminando) - 1 ELSE Cardinality(Terminando)
    BY <1>2, <2>1, FS_RemoveElement
  <2>3. Uno(Ocupa(f)) = 0 /\ Uno(Ocupa(marco[h])) = IF h \in Terminando THEN 1 ELSE 0
    BY <1>4, <2>1 DEF Uno
  <2> QED
    BY <1>2, <2>2, <2>3
<1> QED
  BY <1>3, <1>4

LEMMA TerminandoQuieto ==
  ASSUME \A h \in Hilos : Ocupa(marco'[h]) <=> Ocupa(marco[h])
  PROVE  Terminando' = Terminando
BY DEF Terminando, Ocupa

\* A process becomes ready, runs or blocks; nobody ends.
LEMMA ActivoCuenta ==
  ASSUME Inv, Inv', NEW p \in Pids, NEW e \in Activo, estado' = [estado EXCEPT ![p] = e],
         sem'["multi"] = sem["multi"], UNCHANGED <<largo, consola, grado, perdidos>>,
         \A h \in Hilos : Ocupa(marco'[h]) <=> Ocupa(marco[h]),
         Derecho => estado[p] \in Activo
  PROVE  Cuenta
<1>1. e \in Estados
  BY DEF Activo, Estados
<1>2. Cardinality(Admitidos') + Uno(estado[p] \in Activo) = Cardinality(Admitidos) + Uno(e \in Activo)
  BY <1>1, AdmitidosCambia
<1>3. /\ Uno(e \in Activo) = 1 /\ Uno(estado[p] \in Activo) \in {0, 1}
      /\ Derecho => Uno(estado[p] \in Activo) = 1
  BY DEF Uno
<1>4. Ajuste' = Ajuste /\ Terminando' = Terminando /\ Uno(largo \in {"admitir", "listo"}) \in Nat
  BY TerminandoQuieto DEF Ajuste, Uno
<1>5. /\ Cardinality(Admitidos) \in Nat /\ Cardinality(Admitidos') \in Nat /\ Cardinality(Terminando) \in Nat
      /\ sem["multi"] \in Nat /\ grado \in Nat /\ Ajuste \in Int /\ perdidos \in Nat
  <2>1. (Inv => Cardinality(Admitidos) \in Nat)'
    BY Numeros, PTL
  <2> QED
    BY <2>1, Numeros
<1> QED
  BY <1>2, <1>3, <1>4, <1>5 DEF Cuenta, Saldo

\* A process ends: its slot passes to the thread that runs finalizar_proceso, or is lost
\* with it.
LEMMA FinalizarCuenta ==
  ASSUME Inv, Inv', NEW h \in Hilos, NEW p \in Pids, NEW c \in BOOLEAN, finalizar_proceso(h, p, c),
         marco[h].op = "libre", perdidos' = perdidos + Uno(~c /\ estado[p] \in Activo),
         sem'["multi"] = sem["multi"], UNCHANGED <<largo, grado>>, Ajuste' = Ajuste,
         Derecho => (c <=> estado[p] \in Activo)
  PROVE  Cuenta
<1> DEFINE f == [op |-> "finalizar", pid |-> p, i |-> 0, recurso |-> Nada, cupo |-> c]
<1>1. "FINALIZADO" \in Estados /\ f \in Marcos /\ (Ocupa(f) <=> c) /\ ~Ocupa(marco[h])
  BY DEF Estados, Marcos, Ocupa
<1>2. estado' = [estado EXCEPT ![p] = "FINALIZADO"] /\ marco' = [marco EXCEPT ![h] = f]
  BY DEF finalizar_proceso
<1> HIDE DEF f
<1>3. Cardinality(Admitidos') + Uno(estado[p] \in Activo) = Cardinality(Admitidos) + Uno("FINALIZADO" \in Activo)
  BY <1>1, <1>2, AdmitidosCambia
<1>4. Cardinality(Terminando') + Uno(Ocupa(marco[h])) = Cardinality(Terminando) + Uno(Ocupa(f))
  BY <1>1, <1>2, TerminandoCambia
<1>5. /\ Uno("FINALIZADO" \in Activo) = 0 /\ Uno(Ocupa(marco[h])) = 0
      /\ Uno(estado[p] \in Activo) \in {0, 1} /\ Uno(Ocupa(f)) \in {0, 1}
      /\ Uno(~c /\ estado[p] \in Activo) \in {0, 1}
      /\ Uno(estado[p] \in Activo) <= Uno(Ocupa(f)) + Uno(~c /\ estado[p] \in Activo)
      /\ Derecho => Uno(estado[p] \in Activo) = Uno(Ocupa(f)) + Uno(~c /\ estado[p] \in Activo)
  BY <1>1 DEF Uno, Activo
<1>6. /\ Cardinality(Admitidos) \in Nat /\ Cardinality(Admitidos') \in Nat
      /\ Cardinality(Terminando) \in Nat /\ Cardinality(Terminando') \in Nat
      /\ sem["multi"] \in Nat /\ grado \in Nat /\ Ajuste \in Int /\ perdidos \in Nat
  <2>1. (Inv => Cardinality(Admitidos) \in Nat /\ Cardinality(Terminando) \in Nat)'
    BY Numeros, PTL
  <2> QED
    BY <2>1, Numeros
<1>7. Uno(largo \in {"admitir", "listo"}) \in Nat
  BY DEF Uno
<1> QED
  BY <1>3, <1>4, <1>5, <1>6, <1>7 DEF Cuenta, Saldo

\* No process and no activation changes what it counts for.
LEMMA QuietoCuenta ==
  ASSUME Inv, Inv', UNCHANGED <<estado, perdidos>>, \A h \in Hilos : Ocupa(marco'[h]) <=> Ocupa(marco[h]),
         sem'["multi"] + Uno(largo' \in {"admitir", "listo"}) + Ajuste' - grado'
           = sem["multi"] + Uno(largo \in {"admitir", "listo"}) + Ajuste - grado
  PROVE  Cuenta
<1>1. Admitidos' = Admitidos /\ Terminando' = Terminando
  BY TerminandoQuieto DEF Admitidos
<1>2. Cardinality(Admitidos) \in Nat /\ Cardinality(Terminando) \in Nat
  BY Numeros
<1>3. sem["multi"] \in Nat /\ grado \in Nat /\ Ajuste \in Int /\ Uno(largo \in {"admitir", "listo"}) \in Nat
      /\ perdidos \in Nat
  BY Numeros DEF Uno
<1>4. sem'["multi"] \in Nat /\ grado' \in Nat /\ Ajuste' \in Int /\ Uno(largo' \in {"admitir", "listo"}) \in Nat
  <2>1. (Inv => sem["multi"] \in Nat /\ grado \in Nat /\ Ajuste \in Int)'
    BY Numeros, PTL
  <2> QED
    BY <2>1 DEF Uno
<1> QED
  BY <1>1, <1>2, <1>3, <1>4 DEF Cuenta, Saldo

LEMMA ListoCuenta ==
  ASSUME Inv, Inv', NEW p \in Pids, NEW b \in BOOLEAN, proceso_listo(p, b),
         UNCHANGED <<largo, consola, grado, perdidos>>,
         \A h \in Hilos : Ocupa(marco'[h]) <=> Ocupa(marco[h]),
         Derecho => estado[p] \in Activo
  PROVE  Cuenta
<1>1. sem'["multi"] = sem["multi"]
  BY DEF proceso_listo, Post, Inv, TypeOK, TipoGlobales, Semaforos
<1>2. estado' = [estado EXCEPT ![p] = "LISTO"] /\ "LISTO" \in Activo
  BY DEF proceso_listo, Activo
<1> QED
  BY <1>1, <1>2, ActivoCuenta

LEMMA DesbloquearCuenta ==
  ASSUME Inv, Inv', NEW p \in Pids, desbloquear_proceso(p),
         UNCHANGED <<largo, consola, grado, perdidos>>,
         \A h \in Hilos : Ocupa(marco'[h]) <=> Ocupa(marco[h])
  PROVE  Cuenta
<1> DEFINE prioridad == ALGORITMO = "VRR" /\ tiempoQ[p] < quantum[p]
<1>1. CASE p \in squeue_blocked
  <2>1. proceso_listo(p, prioridad) /\ prioridad \in BOOLEAN
    BY <1>1 DEF desbloquear_proceso
  <2>2. Derecho => estado[p] \in Activo
    BY <1>1 DEF Derecho, Activo
  <2> HIDE DEF prioridad
  <2> QED
    BY <2>1, <2>2, ListoCuenta
<1>2. CASE p \notin squeue_blocked
  <2>1. UNCHANGED <<estado, sem>> /\ Ajuste' = Ajuste
    BY <1>2 DEF desbloquear_proceso, Ajuste
  <2> QED
    BY <2>1, QuietoCuenta
<1> QED
  BY <1>1, <1>2

LEMMA LargoPlazoCuenta ==
  ASSUME InvPasos, Inv', LargoPlazo
  PROVE  Cuenta
<1>0. LargoQuieto
  BY DEF LargoPlazo, LargoSemNew, LargoDetenida, LargoSemLargo, LargoReponer, LargoVacia,
     LargoSemMulti, LargoRenunciar, LargoSacar, LargoListo, LargoCae
<1>1. UNCHANGED <<consola, grado, marco, perdidos>> /\ Ajuste' = Ajuste /\ Inv /\ perdidos \in Nat
  BY <1>0, Numeros DEF LargoQuieto, Ajuste, InvPasos
<1>2. \A h \in Hilos : Ocupa(marco'[h]) <=> Ocupa(marco[h])
  BY <1>1
<1>3. sem["multi"] \in Nat /\ sem \in [Semaforos -> Nat] /\ grado \in Nat /\ Ajuste \in Int
  BY <1>1, Numeros DEF Inv, TypeOK, TipoGlobales
<1>4. CASE LargoListo
  <2>1. PICK p \in Pids : p = pcb_a_mover
    BY <1>1, <1>4 DEF LargoListo, Inv, Punteros
  <2>3. proceso_listo(p, FALSE) /\ largo = "listo" /\ largo' = "semNew"
    BY <1>4, <2>1 DEF LargoListo
  <2>4. estado[p] \notin Activo /\ estado' = [estado EXCEPT ![p] = "LISTO"] /\ "LISTO" \in Estados
    BY <2>1, <2>3 DEF InvPasos, Nuevos, proceso_listo, Estados, Activo
  <2>5. Cardinality(Admitidos') + Uno(estado[p] \in Activo) = Cardinality(Admitidos) + Uno("LISTO" \in Activo)
    BY <1>1, <2>4, AdmitidosCambia
  <2>6. Uno(estado[p] \in Activo) = 0 /\ Uno("LISTO" \in Activo) = 1
    BY <2>4 DEF Uno, Activo
  <2>7. Uno(largo \in {"admitir", "listo"}) = 1 /\ Uno(largo' \in {"admitir", "listo"}) = 0
    BY <2>3 DEF Uno
  <2>8. Terminando' = Terminando
    BY <1>2, TerminandoQuieto
  <2>9. sem'["multi"] = sem["multi"]
    BY <1>3, <2>3 DEF proceso_listo, Post, Semaforos
  <2>10. /\ Cardinality(Admitidos) \in Nat /\ Cardinality(Terminando) \in Nat
         /\ Cardinality(Admitidos') \in Nat
    <3>1. (Inv => Cardinality(Admitidos) \in Nat)'
      BY Numeros, PTL
    <3> QED
      BY <1>1, <3>1, Numeros
  <2> QED
    BY <1>1, <1>3, <2>5, <2>6, <2>7, <2>8, <2>9, <2>10 DEF Cuenta, Saldo
<1>5. CASE ~LargoListo
  <2>1. UNCHANGED estado
    BY <1>5 DEF LargoPlazo, LargoSemNew, LargoDetenida, LargoSemLargo, LargoReponer, LargoVacia,
       LargoSemMulti, LargoRenunciar, LargoSacar, LargoCae, SinMover
  <2>2. sem'["multi"] + Uno(largo' \in {"admitir", "listo"}) = sem["multi"] + Uno(largo \in {"admitir", "listo"})
    <3>1. CASE \/ LargoSemNew \/ LargoDetenida \/ LargoSemLargo \/ LargoReponer \/ LargoVacia
               \/ LargoSacar \/ LargoCae
      <4>1. sem'["multi"] = sem["multi"]
        BY <1>3, <3>1 DEF LargoSemNew, LargoDetenida, LargoSemLargo, LargoReponer, LargoVacia, LargoSacar, LargoCae,
           Wait, Semaforos
      <4>2. largo' \in {"admitir", "listo"} <=> largo \in {"admitir", "listo"}
        BY <3>1 DEF LargoSemNew, LargoDetenida, LargoSemLargo, LargoReponer, LargoVacia, LargoSacar, LargoCae
      <4> QED
        BY <4>1, <4>2 DEF Uno
    <3>2. CASE LargoSemMulti
      BY <1>3, <3>2 DEF LargoSemMulti, Wait, Semaforos, Uno
    <3>3. CASE LargoRenunciar
      BY <1>3, <3>3 DEF LargoRenunciar, Post, Semaforos, Uno
    <3> QED
      BY <1>5, <3>1, <3>2, <3>3 DEF LargoPlazo
  <2>3. sem'["multi"] \in Nat /\ Uno(largo' \in {"admitir", "listo"}) \in Nat /\ Uno(largo \in {"admitir", "listo"}) \in Nat
    BY DEF Inv, TypeOK, TipoGlobales, Semaforos, Uno
  <2>4. sem'["multi"] + Uno(largo' \in {"admitir", "listo"}) + Ajuste' - grado'
          = sem["multi"] + Uno(largo \in {"admitir", "listo"}) + Ajuste - grado
    BY <1>1, <1>3, <2>2, <2>3
  <2> QED
    BY <1>1, <1>2, <2>1, <2>4, QuietoCuenta
<1> QED
  BY <1>4, <1>5

LEMMA CortoPlazoCuenta ==
  ASSUME InvPasos, Inv', CortoPlazo
  PROVE  Cuenta
<1>0. /\ Inv /\ UNCHANGED <<largo, consola, grado, perdidos>> /\ Ajuste' = Ajuste
      /\ sem \in [Semaforos -> Nat]
  BY DEF CortoPlazo, CortoSemReady, CortoDetenida, CortoSemCorto, CortoElegir, CortoNadaListo, Ajuste,
     CortoDespachar, CortoCae, EsperarRecurso, SignalListo, CortoSoltar, CortoQuieto, InvPasos, Inv,
     TypeOK, TipoGlobales
<1>1. CASE \/ CortoSemReady \/ CortoDetenida \/ CortoSemCorto \/ CortoElegir \/ CortoNadaListo
           \/ CortoCae \/ CortoSoltar
  <2>1. UNCHANGED <<estado, marco>>
    BY <1>1 DEF CortoSemReady, CortoDetenida, CortoSemCorto, CortoElegir, CortoNadaListo, CortoCae,
       CortoSoltar, SinDespachar, procesos
  <2>2. sem'["multi"] = sem["multi"]
    BY <1>0, <1>1 DEF CortoSemReady, CortoDetenida, CortoSemCorto, CortoElegir, CortoNadaListo, CortoCae,
       CortoSoltar, Wait, Post, Semaforos
  <2> QED
    BY <1>0, <2>1, <2>2, QuietoCuenta
<1>2. CASE CortoDespachar
  <2> DEFINE p == Head(ColaElegida)
  <2>1. ColaElegida \in Seq(Pids) /\ ColaElegida # <<>>
    BY <1>2, Listas DEF CortoDespachar, ColaElegida, InvPasos
  <2>2. p \in Pids /\ En(ColaElegida, p)
    BY <2>1, EnTail, HeadTailProperties
  <2>3. estado' = [estado EXCEPT ![p] = "EJECUTANDO"] /\ UNCHANGED <<sem, marco>>
    BY <1>2 DEF CortoDespachar
  <2>4. Derecho => estado[p] \in Activo
    BY <2>2 DEF Derecho, ColaElegida, Activo
  <2>5. "EJECUTANDO" \in Activo
    BY DEF Activo
  <2> HIDE DEF p
  <2> QED
    BY <1>0, <2>2, <2>3, <2>4, <2>5, ActivoCuenta
<1>3. CASE EsperarRecurso \/ SignalListo
  <2>1. /\ marco["corto"].op \in {"esperar", "signal"}
        /\ marco' = [marco EXCEPT !["corto"] = MarcoLibre]
    BY <1>3 DEF EsperarRecurso, SignalListo
  <2>2. corto.pid \in Pids
    BY <1>0, <2>1 DEF Inv, Punteros
  <2>3. \A h \in Hilos : Ocupa(marco'[h]) <=> Ocupa(marco[h])
    BY <1>0, <2>1 DEF Inv, TypeOK, TipoMarco, Ocupa, MarcoLibre
  <2>4. Derecho => estado[corto.pid] \in Activo
    BY <2>1 DEF Derecho, Activo
  <2>5. CASE EsperarRecurso
    <3>1. estado' = [estado EXCEPT ![corto.pid] = "BLOQUEADO"] /\ sem' = sem /\ "BLOQUEADO" \in Activo
      BY <2>5 DEF EsperarRecurso, bloquear_proceso, Activo
    <3> QED
      BY <1>0, <2>2, <2>3, <2>4, <3>1, ActivoCuenta
  <2>6. CASE SignalListo
    <3>1. proceso_listo(corto.pid, FALSE)
      BY <2>6 DEF SignalListo
    <3> QED
      BY <1>0, <2>2, <2>3, <2>4, <3>1, ListoCuenta
  <2> QED
    BY <1>3, <2>5, <2>6
<1> QED
  BY <1>1, <1>2, <1>3 DEF CortoPlazo

LEMMA CPUCuenta ==
  ASSUME InvPasos, Inv', CPU
  PROVE  Cuenta
<1>0. PICK m : Desalojo(m)
  BY DEF CPU, DesalojoFinQuantum, DesalojoWait, DesalojoWaitBloquea, DesalojoSignal, DesalojoIO,
     DesalojoFinaliza, DesalojoRecursoInexistente, DesalojoDesconocido
<1>1. /\ Inv /\ UNCHANGED <<largo, consola, grado, perdidos>> /\ Ajuste' = Ajuste
      /\ corto.pid \in Pids /\ marco["corto"].op = "libre"
      /\ Derecho => estado[corto.pid] \in Activo
  BY <1>0, DesalojoTipo DEF Desalojo, CortoQuieto, InvPasos, Ajuste, Derecho, Activo
<1>2. CASE DesalojoFinQuantum \/ \E r \in Recursos : DesalojoWait(r)
  <2>1. proceso_listo(corto.pid, FALSE) /\ UNCHANGED marco
    BY <1>2 DEF DesalojoFinQuantum, DesalojoWait
  <2> QED
    BY <1>1, <2>1, ListoCuenta
<1>3. CASE \/ \E r \in Recursos : DesalojoWaitBloquea(r) \/ DesalojoSignal(r)
           \/ \E i \in Interfaces : DesalojoIO(i)
           \/ DesalojoDesconocido
  <2>1. /\ sem' = sem
        /\ \E e \in Activo : estado' = [estado EXCEPT ![corto.pid] = e]
    BY <1>3 DEF DesalojoWaitBloquea, DesalojoSignal, DesalojoIO, DesalojoDesconocido, bloquear_proceso, Activo
  <2>2. marco' = marco \/ \E f \in Marcos : ~Ocupa(f) /\ marco' = [marco EXCEPT !["corto"] = f]
    <3>1. CASE \E r \in Recursos : DesalojoWaitBloquea(r)
      <4>1. PICK r \in Recursos : DesalojoWaitBloquea(r)
        BY <3>1
      <4> DEFINE f == [MarcoLibre EXCEPT !.op = "esperar", !.pid = corto.pid, !.recurso = r]
      <4>2. marco' = [marco EXCEPT !["corto"] = f] /\ f \in Marcos /\ ~Ocupa(f)
        BY <1>1, <4>1 DEF DesalojoWaitBloquea, MarcoLibre, Marcos, Ocupa
      <4> QED
        BY <4>2
    <3>2. CASE \E r \in Recursos : DesalojoSignal(r)
      <4>1. PICK r \in Recursos : DesalojoSignal(r)
        BY <3>2
      <4> DEFINE f(x) == [[MarcoLibre EXCEPT !.op = "signal", !.pid = corto.pid] EXCEPT !.recurso = x]
      <4>2. \E x \in Recursos \cup {Nada} : marco' = [marco EXCEPT !["corto"] = f(x)]
        BY <4>1 DEF DesalojoSignal, liberar_recurso
      <4>3. \A x \in Recursos \cup {Nada} : f(x) \in Marcos /\ ~Ocupa(f(x))
        BY <1>1 DEF MarcoLibre, Marcos, Ocupa
      <4> QED
        BY <4>2, <4>3
    <3>3. CASE (\E i \in Interfaces : DesalojoIO(i)) \/ DesalojoDesconocido
      BY <3>3 DEF DesalojoIO, DesalojoDesconocido
    <3> QED
      BY <1>3, <3>1, <3>2, <3>3
  <2>3. \A h \in Hilos : Ocupa(marco'[h]) <=> Ocupa(marco[h])
    <3>1. ~Ocupa(marco["corto"])
      BY <1>1 DEF Ocupa
    <3>2. TipoMarco
      BY <1>1 DEF Inv, TypeOK
    <3> QED
      BY <2>2, <3>1, <3>2 DEF TipoMarco
  <2> QED
    BY <1>1, <2>1, <2>3, ActivoCuenta
<1>4. CASE \E f \in {"FINALIZACION", "OUT_OF_MEMORY", "IO_INVALIDA", "FINALIZACION_CONSOLA"} :
             DesalojoFinaliza(f)
  <2>1. finalizar_proceso("corto", corto.pid, TRUE) /\ sem' = sem
    BY <1>4 DEF DesalojoFinaliza
  <2>2. "corto" \in Hilos /\ TRUE \in BOOLEAN
    BY DEF Hilos
  <2>3. perdidos' = perdidos + Uno(~TRUE /\ estado[corto.pid] \in Activo)
    BY <1>1, Numeros DEF Uno
  <2> QED
    BY <1>1, <2>1, <2>2, <2>3, FinalizarCuenta
<1>5. CASE DesalojoRecursoInexistente
  <2>1. UNCHANGED <<estado, sem, marco>>
    BY <1>5 DEF DesalojoRecursoInexistente
  <2> QED
    BY <1>1, <2>1, QuietoCuenta
<1> QED
  BY <1>2, <1>3, <1>4, <1>5 DEF CPU

LEMMA LiberacionCuenta ==
  ASSUME InvPasos, Inv', NEW h \in Hilos, LiberarSiguiente(h) \/ Despertar(h) \/ FinDeProceso(h)
  PROVE  Cuenta
<1>0. /\ Inv /\ UNCHANGED <<largo, consola, grado, perdidos>> /\ Ajuste' = Ajuste
      /\ TipoMarco /\ marco[h] \in Marcos /\ sem \in [Semaforos -> Nat]
      /\ TipoRecursos
  BY DEF LiberarSiguiente, Despertar, FinDeProceso, MarcoQuieto, InvPasos, Ajuste, Inv, TypeOK, TipoMarco,
     TipoGlobales
<1>1. CASE LiberarSiguiente(h)
  <2>1. UNCHANGED <<estado, sem>>
    BY SMTT(30), <1>1 DEF LiberarSiguiente
  <2>2. PICK x : marco' = [marco EXCEPT ![h] = [[marco[h] EXCEPT !.i = @ + 1] EXCEPT !.recurso = x]]
    BY <1>1 DEF LiberarSiguiente, liberar_recurso
  <2>3. \A g \in Hilos : Ocupa(marco'[g]) <=> Ocupa(marco[g])
    BY <1>0, <2>2 DEF TipoMarco, Marcos, Ocupa
  <2> QED
    BY <1>0, <2>1, <2>3, QuietoCuenta
<1>2. CASE Despertar(h)
  <2> DEFINE r == marco[h].recurso
             p == Head(colaRecurso[r])
  <2>1. marco' = [marco EXCEPT ![h].recurso = Nada] /\ r \in Recursos
    BY <1>0, <1>2 DEF Despertar, Marcos
  <2>2. \A g \in Hilos : Ocupa(marco'[g]) <=> Ocupa(marco[g])
    BY <1>0, <2>1 DEF TipoMarco, Marcos, Ocupa
  <2>3. CASE colaRecurso[r] = <<>>
    <3>1. UNCHANGED <<estado, sem>>
      BY <1>2, <2>3 DEF Despertar
    <3> QED
      BY <1>0, <2>2, <3>1, QuietoCuenta
  <2>4. CASE colaRecurso[r] # <<>>
    <3>1. p \in Pids
      BY <1>0, <2>1, <2>4, HeadTailProperties DEF TipoRecursos
    <3>2. desbloquear_proceso(p)
      BY <1>2, <2>4 DEF Despertar
    <3> HIDE DEF p
    <3> QED
      BY <1>0, <2>2, <3>1, <3>2, DesbloquearCuenta
  <2> QED
    BY <2>3, <2>4
<1>3. CASE FinDeProceso(h)
  <2>1. /\ marco' = [marco EXCEPT ![h] = MarcoLibre] /\ estado' = estado
        /\ marco[h].op = "finalizar" /\ marco[h].cupo \in BOOLEAN
    BY <1>0, <1>3 DEF FinDeProceso, Marcos
  <2>2. MarcoLibre \in Marcos /\ ~Ocupa(MarcoLibre)
    BY DEF MarcoLibre, Marcos, Ocupa
  <2>3. Cardinality(Terminando') + Uno(Ocupa(marco[h])) = Cardinality(Terminando) + Uno(Ocupa(MarcoLibre))
    BY <1>0, <2>1, <2>2, TerminandoCambia
  <2>4. Uno(Ocupa(MarcoLibre)) = 0 /\ Uno(Ocupa(marco[h])) = IF marco[h].cupo THEN 1 ELSE 0
    BY <2>1, <2>2 DEF Ocupa, Uno
  <2>5. sem'["multi"] = IF marco[h].cupo THEN sem["multi"] + 1 ELSE sem["multi"]
    BY <1>0, <1>3 DEF FinDeProceso, Post, Semaforos
  <2>6. Admitidos' = Admitidos
    BY <2>1 DEF Admitidos
  <2>7. /\ Cardinality(Admitidos) \in Nat /\ Cardinality(Terminando) \in Nat
        /\ Cardinality(Terminando') \in Nat
        /\ sem["multi"] \in Nat /\ grado \in Nat /\ Ajuste \in Int /\ Uno(largo \in {"admitir", "listo"}) \in Nat
        /\ perdidos \in Nat
    <3>1. (Inv => Cardinality(Terminando) \in Nat)'
      BY Numeros, PTL
    <3> QED
      BY <1>0, <3>1, Numeros DEF Uno
  <2> QED
    BY <1>0, <2>3, <2>4, <2>5, <2>6, <2>7 DEF Cuenta, Saldo
<1> QED
  BY <1>1, <1>2, <1>3

LEMMA ConsolaCuenta ==
  ASSUME InvPasos, Inv', Consola
  PROVE  Cuenta
<1>0. /\ Inv /\ sem \in [Semaforos -> Nat] /\ grado \in Nat /\ consola.n \in Nat
      /\ largo' = largo /\ (~FinalizarTerminar => perdidos' = perdidos)
  BY DEF Consola, CrearProceso, AvisarProceso, FinalizarCaso, FinalizarQuitar, FinalizarDecidir,
     FinalizarTerminar, FinalizarQuieto, AjustarMulti,
     FinalizarEjecutando, FinalizarBuscar, CambiarMultiprogramacion, DetenerPlanificacion,
     IniciarPlanificacion, ConsolaQuieta, InvPasos, Inv, TypeOK, TipoGlobales, TipoConsola
<1>1. CASE CrearProceso
  <2> DEFINE p == pidGlobal
  <2>1. p \in Pids /\ p \notin Creados
    BY <1>0, <1>1, ConstantesValidas DEF CrearProceso, Inv, TypeOK, TipoProcesos, Pids, Creados
  <2>2. estado[p] = "SIN_CREAR" /\ estado' = [estado EXCEPT ![p] = "NUEVO"]
    BY <1>1, <2>1 DEF CrearProceso, InvPasos, Nuevos
  <2> HIDE DEF p
  <2>3. Admitidos' = Admitidos
    BY <1>0, <2>1, <2>2 DEF Admitidos, Inv, TypeOK, TipoProcesos
  <2>4. Terminando' = Terminando /\ UNCHANGED <<sem, grado, perdidos>>
    BY <1>1 DEF CrearProceso, ConsolaQuieta, Terminando
  <2>5. Ajuste = 0 /\ Ajuste' = 0
    BY <1>0, <1>1 DEF CrearProceso, Orden, ConsolaLibre, Ajuste, Inv, TypeOK, TipoConsola
  <2> QED
    BY <1>0, <2>3, <2>4, <2>5, Numeros DEF Cuenta, Saldo
<1>2. CASE FinalizarTerminar
  <2> DEFINE p == consola.pid
             c == consola.pc = "terminar"
  <2>1. /\ p \in Pids /\ consola.pc \in {"comoNuevo", "terminar"} /\ consola' = ConsolaLibre
        /\ finalizar_proceso("consola", p, c)
        /\ UNCHANGED <<sem, largo, grado>>
    BY <1>0, <1>2 DEF FinalizarTerminar, FinalizarQuieto, Inv, Punteros
  <2>2. "consola" \in Hilos /\ marco["consola"].op = "libre" /\ c \in BOOLEAN
    BY <2>1 DEF Hilos, InvPasos, Consolas
  <2>3. Ajuste' = Ajuste /\ ~Derecho
    BY <2>1 DEF Ajuste, ConsolaLibre, Derecho
  <2>4. perdidos' = perdidos + Uno(~c /\ estado[p] \in Activo)
    <3>1. p \in Admitidos <=> estado[p] \in Activo
      BY <2>1 DEF Admitidos, Activo
    <3>2. perdidos' = perdidos + Uno(consola.pc = "comoNuevo" /\ p \in Admitidos)
      BY <1>2 DEF FinalizarTerminar
    <3>3. consola.pc = "comoNuevo" <=> ~c
      BY <2>1
    <3> QED
      BY <3>1, <3>2, <3>3 DEF Uno
  <2> HIDE DEF p, c
  <2> QED
    BY <1>0, <2>1, <2>2, <2>3, <2>4, FinalizarCuenta
<1>3. CASE ~CrearProceso /\ ~FinalizarTerminar
  <2>1. UNCHANGED <<estado, marco>>
    BY <1>3 DEF Consola, AvisarProceso, FinalizarCaso, AjustarMulti, FinalizarEjecutando, FinalizarBuscar,
       FinalizarQuitar, FinalizarDecidir, CambiarMultiprogramacion, DetenerPlanificacion, IniciarPlanificacion
  <2>2. sem'["multi"] + Ajuste' - grado' = sem["multi"] + Ajuste - grado
    <3>1. CASE \E n \in Grados : CambiarMultiprogramacion(n)
      <4>1. PICK n \in Grados : CambiarMultiprogramacion(n)
        BY <3>1
      <4>2. n \in Nat /\ consola = ConsolaLibre /\ sem' = sem /\ grado' = n /\ Ajuste = 0
        BY <4>1, ConstantesValidas DEF CambiarMultiprogramacion, OrdenAcotada, Orden, Ajuste, ConsolaLibre
      <4>3. Ajuste' = n - grado
        <5>1. CASE n = grado
          BY <4>1, <4>2, <5>1 DEF CambiarMultiprogramacion, Ajuste, ConsolaLibre
        <5>2. CASE n > grado
          <6>1. consola' = [consola EXCEPT !.pc = "subir", !.n = n - grado]
            BY <1>0, <4>1, <4>2, <5>2 DEF CambiarMultiprogramacion
          <6> QED
            BY <1>0, <4>2, <6>1 DEF Ajuste, ConsolaLibre
        <5>3. CASE n < grado
          <6>1. consola' = [consola EXCEPT !.pc = "bajar", !.n = grado - n]
            BY <1>0, <4>1, <4>2, <5>3 DEF CambiarMultiprogramacion
          <6> QED
            BY <1>0, <4>2, <6>1 DEF Ajuste, ConsolaLibre
        <5> QED
          BY <1>0, <4>2, <5>1, <5>2, <5>3
      <4> QED
        BY <1>0, <4>2, <4>3
    <3>2. CASE AjustarMulti
      <4>1. /\ \/ consola.pc = "subir" /\ sem'["multi"] = sem["multi"] + 1
               \/ consola.pc = "bajar" /\ sem'["multi"] = sem["multi"] - 1
            /\ consola' = IF consola.n = 1 THEN ConsolaLibre ELSE [consola EXCEPT !.n = @ - 1]
            /\ grado' = grado
        BY <1>0, <3>2 DEF AjustarMulti, Post, Wait, Semaforos
      <4>2. /\ consola'.pc = IF consola.n = 1 THEN "leer" ELSE consola.pc
            /\ consola.n # 1 => consola'.n = consola.n - 1
        BY <1>0, <4>1 DEF ConsolaLibre, Inv, TypeOK, TipoConsola
      <4> QED
        BY <1>0, <4>1, <4>2 DEF Ajuste, Semaforos
    <3>3. CASE ~(\E n \in Grados : CambiarMultiprogramacion(n)) /\ ~AjustarMulti
      <4>0. \/ AvisarProceso \/ FinalizarCaso \/ FinalizarQuitar \/ FinalizarDecidir
            \/ \E p \in Pids : FinalizarEjecutando(p) \/ FinalizarBuscar(p)
            \/ \E d \in Detenedores : DetenerPlanificacion(d)
            \/ \E d \in Reanudadores : IniciarPlanificacion(d)
        BY <1>3, <3>3 DEF Consola
      <4>1. grado' = grado /\ (sem' = sem \/ Post("new"))
        BY <4>0 DEF AvisarProceso, FinalizarCaso, FinalizarQuitar, FinalizarDecidir, FinalizarQuieto,
           FinalizarEjecutando, FinalizarBuscar, DetenerPlanificacion, IniciarPlanificacion
      <4>2. sem'["multi"] = sem["multi"]
        BY <1>0, <4>1 DEF Post, Semaforos
      <4>3. /\ consola.pc \notin {"subir", "bajar"} \/ consola' = consola
            /\ consola'.pc \notin {"subir", "bajar"} \/ consola' = consola
        <5>0. TipoConsola
          BY <1>0 DEF Inv, TypeOK
        <5>1. CASE AvisarProceso \/ FinalizarCaso \/ FinalizarQuitar \/ FinalizarDecidir
          <6> DEFINE e == estado[consola.pid]
          <6>1. /\ consola.pc \in {"avisar", "caso", "quitar", "decidir"}
                /\ \/ consola' = ConsolaLibre \/ consola' = [consola EXCEPT !.pc = "quitar", !.caso = e]
                   \/ \E c \in {"decidir", "comoNuevo", "terminar"} : consola' = [consola EXCEPT !.pc = c]
            BY <5>1 DEF AvisarProceso, FinalizarCaso, FinalizarQuitar, FinalizarDecidir
          <6> HIDE DEF e
          <6>2. consola' = ConsolaLibre => consola'.pc = "leer"
            BY DEF ConsolaLibre
          <6>3. consola' = [consola EXCEPT !.pc = "quitar", !.caso = e] => consola'.pc = "quitar"
            BY <5>0 DEF TipoConsola
          <6>4. \A c : consola' = [consola EXCEPT !.pc = c] => consola'.pc = c
            BY <5>0 DEF TipoConsola
          <6> QED
            BY <6>1, <6>2, <6>3, <6>4
        <5>2. CASE \E p \in Pids : FinalizarEjecutando(p) \/ FinalizarBuscar(p)
          <6>0. PICK p \in Pids : FinalizarEjecutando(p) \/ FinalizarBuscar(p)
            BY <5>2
          <6>1. consola = ConsolaLibre
            BY <6>0 DEF FinalizarEjecutando, FinalizarBuscar, OrdenAcotada, Orden
          <6>2. consola' = consola \/ consola' = [consola EXCEPT !.pc = "caso", !.pid = p]
            BY <6>0 DEF FinalizarEjecutando, FinalizarBuscar
          <6> QED
            BY <6>1, <6>2 DEF ConsolaLibre
        <5>3. CASE \/ \E d \in Detenedores : DetenerPlanificacion(d)
                   \/ \E d \in Reanudadores : IniciarPlanificacion(d)
          BY <5>3 DEF DetenerPlanificacion, IniciarPlanificacion
        <5> QED
          BY <4>0, <5>1, <5>2, <5>3
      <4>4. Ajuste' = Ajuste
        BY <4>3 DEF Ajuste
      <4> QED
        BY <4>1, <4>2, <4>4
    <3> QED
      BY <3>1, <3>2, <3>3
  <2>3. sem["multi"] \in Nat /\ sem'["multi"] \in Nat /\ grado' \in Nat /\ Ajuste \in Int /\ Ajuste' \in Int
        /\ Uno(largo \in {"admitir", "listo"}) \in Nat
    <3>1. (Inv => sem["multi"] \in Nat /\ grado \in Nat /\ Ajuste \in Int)'
      BY Numeros, PTL
    <3> QED
      BY <1>0, <3>1, Numeros DEF Uno
  <2>4. sem'["multi"] + Uno(largo' \in {"admitir", "listo"}) + Ajuste' - grado'
          = sem["multi"] + Uno(largo \in {"admitir", "listo"}) + Ajuste - grado
    BY <1>0, <2>2, <2>3
  <2> QED
    BY SMTT(30), <1>0, <1>3, <2>1, <2>4, QuietoCuenta
<1> QED
  BY SMTT(30), <1>1, <1>2, <1>3

LEMMA PararYSeguirCuenta ==
  ASSUME InvPasos, Inv', PararYSeguir
  PROVE  Cuenta
<1>1. /\ Inv /\ sem \in [Semaforos -> Nat]
      /\ UNCHANGED <<estado, marco, largo, grado, perdidos>> /\ Ajuste' = Ajuste
  BY DEF PararYSeguir, Detener, Reanudar, PlanificadoresQuietos, procesos, Ajuste, InvPasos, Inv, TypeOK,
     TipoGlobales
<1>2. sem'["multi"] = sem["multi"]
  <2>1. ASSUME NEW d \in Detenedores, Detener(d) PROVE sem'["multi"] = sem["multi"]
    BY <1>1, <2>1 DEF Detener, DetLeer, DetDrenar, DetMarcar, Wait, Semaforos
  <2>2. ASSUME NEW d \in Reanudadores, Reanudar(d) PROVE sem'["multi"] = sem["multi"]
    BY <1>1, <2>2 DEF Reanudar, ReaPublicar, ReaMarcar, Semaforos
  <2> QED
    BY <2>1, <2>2 DEF PararYSeguir
<1> QED
  BY <1>1, <1>2, QuietoCuenta

LEMMA EntradaSalidaCuenta ==
  ASSUME InvPasos, Inv', NEW i \in Interfaces, FinDeIO(i) \/ SacarDeInterfaz(i)
  PROVE  Cuenta
<1>0. Inv /\ UNCHANGED <<largo, consola, grado, perdidos>> /\ Ajuste' = Ajuste
  BY DEF FinDeIO, SacarDeInterfaz, IOQuieto, InvPasos, Ajuste
<1>1. CASE SacarDeInterfaz(i)
  BY <1>0, <1>1, QuietoCuenta DEF SacarDeInterfaz
<1>2. CASE FinDeIO(i)
  <2> DEFINE p == Head(pedidos[i])
  <2>1. p \in Pids
    BY <1>0, <1>2, HeadTailProperties DEF FinDeIO, Inv, TypeOK, TipoInterfaces
  <2>2. CASE p # pcb_a_finalizar
    <3>1. desbloquear_proceso(p) /\ UNCHANGED marco
      BY <1>2, <2>2 DEF FinDeIO
    <3> HIDE DEF p
    <3> QED
      BY <1>0, <2>1, <3>1, DesbloquearCuenta
  <2>3. CASE p = pcb_a_finalizar
    <3>0. marco[i] = MarcoLibre /\ MarcoLibre.op = "libre"
      BY <1>2 DEF FinDeIO, MarcoLibre
    <3>1. finalizar_proceso(i, p, TRUE) /\ UNCHANGED sem /\ marco[i].op = "libre"
      BY <1>2, <2>3, <3>0 DEF FinDeIO
    <3>2. ~Derecho
      BY <2>1, <2>3 DEF Derecho, Pids, NULL
    <3>3. i \in Hilos /\ TRUE \in BOOLEAN
      BY DEF Hilos
    <3> HIDE DEF p
    <3>4. perdidos' = perdidos + Uno(~TRUE /\ estado[p] \in Activo)
      BY <1>0, Numeros DEF Uno
    <3> QED
      BY <1>0, <2>1, <3>1, <3>2, <3>3, <3>4, FinalizarCuenta
  <2> QED
    BY <2>2, <2>3
<1> QED
  BY <1>1, <1>2

LEMMA PasoCuenta ==
  ASSUME InvPasos, [Next]_vars
  PROVE  Cuenta
<1>0. Inv'
  BY InvInductivo DEF InvPasos
<1>1. CASE Next
  BY <1>0, <1>1, LargoPlazoCuenta, CortoPlazoCuenta, CPUCuenta, LiberacionCuenta, ConsolaCuenta,
     PararYSeguirCuenta, EntradaSalidaCuenta DEF Next, Liberacion, EntradaSalida
<1>2. CASE UNCHANGED vars
  <2>1. UNCHANGED <<estado, marco, sem, largo, consola, grado, perdidos>>
    BY <1>2 DEF vars, procesos, control
  <2>2. Ajuste' = Ajuste
    BY <2>1 DEF Ajuste
  <2> QED
    BY <1>0, <2>1, <2>2, QuietoCuenta DEF InvPasos
<1> QED
  BY <1>1, <1>2

LEMMA SaldoInicial == Init => Saldo = 0
<1> SUFFICES ASSUME Init PROVE Saldo = 0
  OBVIOUS
<1>1. Admitidos = {} /\ Terminando = {}
  BY DEF Init, Admitidos, Terminando, MarcoLibre
<1>2. sem["multi"] = GRADO /\ grado = GRADO /\ GRADO \in Nat /\ Uno(largo \in {"admitir", "listo"}) = 0 /\ Ajuste = 0
      /\ perdidos = 0
  BY ConstantesValidas DEF Init, Semaforos, Uno, Ajuste, ConsolaLibre
<1> QED
  BY <1>1, <1>2, FS_EmptySet DEF Saldo

\* No slot of the degree of multiprogramming is ever lost, whatever the operator types
\* and whoever ends a process, but those of the processes the console ends as NEW after
\* the long-term scheduler admitted them: semMultiprogramacion and the slots its users
\* hold cover the rest of GRADO_MULTIPROGRAMACION (the posts of finalizar_proceso and of
\* cambiar_multiprogramacion, the wait of chequear_grado_de_multiprogramacion, the
\* unlocked read of the state in finalizar_proceso_consola).
THEOREM CuposSiempre == Spec => []CuposNoPerdidos
<1>1. Init => InvPasos /\ Saldo >= 0
  BY PasosIniciales, SaldoInicial
<1>2. (InvPasos /\ Saldo >= 0) /\ [Next]_vars => (InvPasos /\ Saldo >= 0)'
  <2> SUFFICES ASSUME InvPasos, Saldo >= 0, [Next]_vars PROVE InvPasos' /\ (Saldo >= 0)'
    OBVIOUS
  <2>1. InvPasos' /\ Cuenta
    BY PasosInductivos, PasoCuenta
  <2>2. Saldo \in Int /\ Saldo' \in Int
    <3>1. (Inv => Saldo \in Int)'
      BY Numeros, PTL
    <3> QED
      BY <2>1, <3>1, Numeros DEF InvPasos
  <2> QED
    BY <2>1, <2>2 DEF Cuenta
<1>3. InvPasos /\ Saldo >= 0 => CuposNoPerdidos
  <2> SUFFICES ASSUME InvPasos, Saldo >= 0 PROVE CuposNoPerdidos
    OBVIOUS
  <2>1. /\ Cardinality(Admitidos) \in Nat /\ Cardinality(Terminando) \in Nat /\ sem["multi"] \in Nat
        /\ grado \in Nat /\ Ajuste \in Int /\ Uno(largo \in {"admitir", "listo"}) \in Nat /\ Saldo = Cupos + perdidos - grado
        /\ consola.n \in Nat /\ perdidos \in Nat
    BY Numeros DEF InvPasos, Uno
  <2>2. Cupos \in Int
    BY <2>1 DEF Cupos
  <2> QED
    BY <2>1, <2>2 DEF CuposNoPerdidos
<1> QED
  BY <1>1, <1>2, <1>3, PTL DEF Spec

-----------------------------------------------------------------------------
(* The instances of the resources.                                           *)

Posesion(r) == SumFunction([p \in Pids |-> Veces(r, asignados[p])])

LEMMA VecesCuantas ==
  ASSUME NEW S, NEW s \in Seq(S), NEW e
  PROVE  Veces(e, s) = Cuantas(s, e) /\ Veces(e, s) \in Nat
<1>1. DOMAIN s = 1 .. Len(s)
  BY LenProperties
<1>2. Veces(e, s) = Cuantas(s, e)
  BY <1>1 DEF Veces, Cuantas, Donde
<1> QED
  BY <1>2, DondeFinito

LEMMA PosesionCambia ==
  ASSUME Inv, NEW p \in Pids, NEW s \in Seq(Recursos), asignados' = [asignados EXCEPT ![p] = s],
         NEW r
  PROVE  /\ Posesion(r) \in Nat /\ Posesion(r)' \in Nat
         /\ Posesion(r)' + Veces(r, asignados[p]) = Posesion(r) + Veces(r, s)
<1> DEFINE f == [q \in Pids |-> Veces(r, asignados[q])]
           g == [q \in Pids |-> Veces(r, asignados'[q])]
<1>1. asignados \in [Pids -> Seq(Recursos)] /\ asignados' \in [Pids -> Seq(Recursos)]
  BY DEF Inv, TypeOK, TipoRecursos
<1>2. f \in [Pids -> Nat] /\ g \in [Pids -> Nat]
  BY <1>1, VecesCuantas
<1>3. f[p] = Veces(r, asignados[p]) /\ g[p] = Veces(r, s)
  BY <1>1
<1>4. \A q \in Pids \ {p} : g[q] = f[q]
  BY <1>1
<1>5. IsFiniteSet(Pids)
  BY PidsFinito
<1>6. Posesion(r) = SumFunction(f) /\ Posesion(r)' = SumFunction(g)
  BY DEF Posesion
<1> HIDE DEF f, g
<1>7. /\ SumFunction(f) \in Nat /\ SumFunction(g) \in Nat
      /\ SumFunction(g) + f[p] = SumFunction(f) + g[p]
  BY <1>2, <1>4, <1>5, SumaCambia
<1> QED
  BY <1>3, <1>6, <1>7

\* Nothing that touches the resources loses an instance.
LEMMA InstanciasPaso ==
  ASSUME Inv, InstanciasNoPerdidas,
         \/ UNCHANGED <<instancias, asignados>>
         \/ \E p \in Pids, r \in Recursos :
              /\ instancias[r] > 0
              /\ instancias' = [instancias EXCEPT ![r] = @ - 1]
              /\ asignados' = [asignados EXCEPT ![p] = Append(@, r)]
         \/ \E p \in Pids, r \in Recursos :
              /\ instancias' = [instancias EXCEPT ![r] = @ + 1]
              /\ asignados' = [asignados EXCEPT ![p] = RemoveFirst(@, r)]
  PROVE  InstanciasNoPerdidas'
<1>1. /\ asignados \in [Pids -> Seq(Recursos)] /\ instancias \in [Recursos -> Nat]
      /\ Instancias \in [Recursos -> Nat]
  BY ConstantesValidas DEF Inv, TypeOK, TipoRecursos
<1>2. \A q \in Recursos : instancias[q] + Posesion(q) >= Instancias[q]
  BY DEF InstanciasNoPerdidas, Posesion
<1>3. SUFFICES ASSUME NEW q \in Recursos PROVE instancias'[q] + Posesion(q)' >= Instancias[q]
  BY DEF InstanciasNoPerdidas, Posesion
<1>4. CASE UNCHANGED <<instancias, asignados>>
  BY <1>2, <1>4 DEF Posesion
<1>5. ASSUME NEW p \in Pids, NEW r \in Recursos, instancias[r] > 0,
             instancias' = [instancias EXCEPT ![r] = @ - 1],
             asignados' = [asignados EXCEPT ![p] = Append(@, r)]
      PROVE  instancias'[q] + Posesion(q)' >= Instancias[q]
  <2> DEFINE s == Append(asignados[p], r)
  <2>1. s \in Seq(Recursos) /\ Veces(q, s) = Veces(q, asignados[p]) + SiNo(r = q)
    <3>1. asignados[p] \in Seq(Recursos) /\ s \in Seq(Recursos)
      BY <1>1, AppendProperties
    <3>2. Cuantas(s, q) = Cuantas(asignados[p], q) + SiNo(r = q)
      BY <3>1, CuantasAppend
    <3> HIDE DEF s
    <3> QED
      BY <3>1, <3>2, VecesCuantas
  <2>2. asignados' = [asignados EXCEPT ![p] = s]
    BY <1>5
  <2> HIDE DEF s
  <2>3. /\ Posesion(q) \in Nat /\ Posesion(q)' \in Nat
        /\ Posesion(q)' + Veces(q, asignados[p]) = Posesion(q) + Veces(q, s)
    BY <2>1, <2>2, PosesionCambia
  <2>4. Veces(q, asignados[p]) \in Nat
    BY <1>1, VecesCuantas
  <2>5. instancias'[q] = instancias[q] - SiNo(r = q) /\ instancias[q] \in Nat
    BY <1>1, <1>5 DEF SiNo
  <2> QED
    BY SMTT(30), <1>1, <1>2, <2>1, <2>3, <2>4, <2>5 DEF SiNo
<1>6. ASSUME NEW p \in Pids, NEW r \in Recursos,
             instancias' = [instancias EXCEPT ![r] = @ + 1],
             asignados' = [asignados EXCEPT ![p] = RemoveFirst(@, r)]
      PROVE  instancias'[q] + Posesion(q)' >= Instancias[q]
  <2> DEFINE s == RemoveFirst(asignados[p], r)
  <2>1. /\ s \in Seq(Recursos) /\ Veces(q, s) \in Nat
        /\ Veces(q, asignados[p]) = Veces(q, s) + SiNo(r = q /\ En(asignados[p], r))
    <3>1. asignados[p] \in Seq(Recursos) /\ s \in Seq(Recursos)
      BY <1>1, SinPrimero
    <3>2. Cuantas(asignados[p], q) = Cuantas(s, q) + SiNo(r = q /\ En(asignados[p], r))
      BY <3>1, CuantasSinPrimero
    <3> HIDE DEF s
    <3> QED
      BY <3>1, <3>2, VecesCuantas
  <2>2. asignados' = [asignados EXCEPT ![p] = s]
    BY <1>6
  <2> HIDE DEF s
  <2>3. /\ Posesion(q) \in Nat /\ Posesion(q)' \in Nat
        /\ Posesion(q)' + Veces(q, asignados[p]) = Posesion(q) + Veces(q, s)
    BY <2>1, <2>2, PosesionCambia
  <2>4. SiNo(r = q /\ En(asignados[p], r)) <= SiNo(r = q) /\ SiNo(r = q /\ En(asignados[p], r)) \in {0, 1}
    BY DEF SiNo
  <2>5. instancias'[q] = instancias[q] + SiNo(r = q) /\ instancias[q] \in Nat /\ SiNo(r = q) \in {0, 1}
    BY <1>1, <1>6 DEF SiNo
  <2> QED
    BY SMTT(30), <1>1, <1>2, <2>1, <2>3, <2>4, <2>5
<1> QED
  BY <1>4, <1>5, <1>6

\* No instance of a resource is ever lost, however many times it is taken, released,
\* released without being held, or released by the end of its owner on any thread
\* (manejar_recurso, liberar_recurso and liberar_recursos of planificador.c).
THEOREM InstanciasSiempre == Spec => []InstanciasNoPerdidas
<1>1. Init => Inv /\ InstanciasNoPerdidas
  <2> SUFFICES ASSUME Init PROVE Inv /\ InstanciasNoPerdidas
    OBVIOUS
  <2>1. Inv
    BY InvInicial
  <2>2. ASSUME NEW r \in Recursos PROVE Posesion(r) \in Nat
    <3> DEFINE f == [p \in Pids |-> Veces(r, asignados[p])]
    <3>1. f \in [Pids -> Nat]
      BY <2>1, VecesCuantas DEF Inv, TypeOK, TipoRecursos
    <3>2. IsFiniteSet(Pids)
      BY PidsFinito
    <3> HIDE DEF f
    <3>3. SumFunction(f) \in Nat
      BY <3>1, <3>2, SumaNatural
    <3> QED
      BY <3>3 DEF f, Posesion
  <2>3. \A r \in Recursos : instancias[r] = Instancias[r] /\ Instancias[r] \in Nat
    BY ConstantesValidas DEF Init
  <2> QED
    BY <2>1, <2>2, <2>3 DEF InstanciasNoPerdidas, Posesion
<1>2. (Inv /\ InstanciasNoPerdidas) /\ [Next]_vars => (Inv /\ InstanciasNoPerdidas)'
  <2> SUFFICES ASSUME Inv, InstanciasNoPerdidas, [Next]_vars PROVE Inv' /\ InstanciasNoPerdidas'
    OBVIOUS
  <2>1. Inv'
    BY InvInductivo
  <2>2. CASE LargoPlazo \/ CortoPlazo \/ Consola \/ PararYSeguir \/ EntradaSalida
    <3>1. UNCHANGED <<instancias, asignados>>
      <4>1. CASE LargoPlazo
        BY <4>1 DEF LargoPlazo, LargoSemNew, LargoDetenida, LargoSemLargo, LargoReponer, LargoVacia,
           LargoSemMulti, LargoRenunciar, LargoSacar, LargoListo, LargoCae, LargoQuieto, recursos
      <4>2. CASE CortoPlazo
        BY <4>2 DEF CortoPlazo, CortoSemReady, CortoDetenida, CortoSemCorto, CortoElegir, CortoNadaListo,
           CortoDespachar, CortoCae, EsperarRecurso, SignalListo, CortoSoltar, SinDespachar, recursos
      <4>3. CASE Consola
        BY <4>3 DEF Consola, CrearProceso, AvisarProceso, FinalizarCaso, FinalizarQuitar, FinalizarDecidir,
           FinalizarTerminar, FinalizarQuieto, AjustarMulti,
           FinalizarEjecutando, FinalizarBuscar, CambiarMultiprogramacion, DetenerPlanificacion,
           IniciarPlanificacion, ConsolaQuieta, recursos
      <4>4. CASE PararYSeguir \/ EntradaSalida
        BY <4>4 DEF PararYSeguir, Detener, Reanudar, PlanificadoresQuietos, EntradaSalida, FinDeIO,
           SacarDeInterfaz, IOQuieto, recursos
      <4> QED
        BY <2>2, <4>1, <4>2, <4>3, <4>4
    <3> QED
      BY <2>1, <3>1, InstanciasPaso
  <2>3. CASE CPU
    <3>1. corto.pid \in Pids
      <4>1. PICK m : Desalojo(m)
        BY <2>3 DEF CPU, DesalojoFinQuantum, DesalojoWait, DesalojoWaitBloquea, DesalojoSignal, DesalojoIO,
           DesalojoFinaliza, DesalojoRecursoInexistente, DesalojoDesconocido
      <4> QED
        BY <4>1, DesalojoTipo
    <3>2. CASE \E r \in Recursos : DesalojoWait(r)
      BY <2>1, <3>1, <3>2, InstanciasPaso DEF DesalojoWait
    <3>3. CASE \E r \in Recursos : DesalojoSignal(r)
      BY <2>1, <3>1, <3>3, InstanciasPaso DEF DesalojoSignal, liberar_recurso
    <3>4. CASE /\ ~ \E r \in Recursos : DesalojoWait(r)
               /\ ~ \E r \in Recursos : DesalojoSignal(r)
      <4>1. UNCHANGED <<instancias, asignados>>
        BY <2>3, <3>4 DEF CPU, DesalojoFinQuantum, DesalojoWaitBloquea, DesalojoIO,
           DesalojoFinaliza, DesalojoRecursoInexistente, DesalojoDesconocido, recursos
      <4> QED
        BY <2>1, <4>1, InstanciasPaso
    <3> QED
      BY <3>2, <3>3, <3>4
  <2>4. CASE Liberacion
    <3>1. PICK h \in Hilos : LiberarSiguiente(h) \/ Despertar(h) \/ FinDeProceso(h)
      BY <2>4 DEF Liberacion
    <3>2. CASE LiberarSiguiente(h)
      <4> DEFINE m == marco[h]
                 r == asignados[m.pid][m.i + 1]
      <4>1. m \in Marcos /\ m.pid \in Pids /\ m.i \in Nat
        BY <3>2 DEF LiberarSiguiente, Inv, TypeOK, TipoMarco, Marcos, Punteros
      <4>2. r \in Recursos
        <5>1. asignados[m.pid] \in Seq(Recursos)
          BY <4>1 DEF Inv, TypeOK, TipoRecursos
        <5>2. m.i + 1 \in 1 .. Len(asignados[m.pid])
          BY <3>2, <4>1, <5>1, LenProperties DEF LiberarSiguiente
        <5> QED
          BY <5>1, <5>2, ElementOfSeq
      <4>3. /\ instancias' = [instancias EXCEPT ![r] = @ + 1]
            /\ asignados' = [asignados EXCEPT ![m.pid] = RemoveFirst(@, r)]
        BY <3>2 DEF LiberarSiguiente, liberar_recurso
      <4> HIDE DEF m, r
      <4> QED
        BY <2>1, <4>1, <4>2, <4>3, InstanciasPaso
    <3>3. CASE Despertar(h) \/ FinDeProceso(h)
      <4>1. UNCHANGED <<instancias, asignados>>
        BY <3>3 DEF Despertar, FinDeProceso, recursos
      <4> QED
        BY <2>1, <4>1, InstanciasPaso
    <3> QED
      BY <3>1, <3>2, <3>3
  <2>5. CASE UNCHANGED vars
    <3>1. UNCHANGED <<instancias, asignados>>
      BY <2>5 DEF vars, recursos
    <3> QED
      BY <2>1, <3>1, InstanciasPaso
  <2> QED
    BY <2>2, <2>3, <2>4, <2>5 DEF Next
<1> QED
  BY <1>1, <1>2, PTL DEF Spec

-----------------------------------------------------------------------------
(* Without FINALIZAR_PROCESO: only the short-term scheduler ends processes.  *)

SinMatar ==
  /\ pcb_a_finalizar = NULL /\ perdidos = 0
  /\ consola.pc \notin Matando
  /\ \A h \in Hilos \ {"corto"} : marco[h] = MarcoLibre
  /\ corto.pc \notin {"cpu", "desalojo"} => corto.pid = NULL

LEMMA NadaTermina ==
  ASSUME SinMatar
  PROVE  ~FinalizarQuitar /\ ~FinalizarDecidir /\ ~FinalizarTerminar
BY DEF SinMatar, FinalizarQuitar, FinalizarDecidir, FinalizarTerminar

\* An answer of the CPU changes no activation but the short-term scheduler's.
LEMMA CPUMarco ==
  ASSUME Inv, CPU
  PROVE  /\ \A h \in Hilos \ {"corto"} : marco'[h] = marco[h]
         /\ corto'.pc = "desalojo" /\ corto'.pid = corto.pid /\ corto.pid \in Pids
         /\ corto.pc = "cpu" /\ marco["corto"].op = "libre"
         /\ UNCHANGED <<pcb_a_finalizar, perdidos, consola, pidGlobal, squeue_new, squeue_readyPlus, largo,
                        pcb_a_mover>>
<1>0. PICK m : Desalojo(m)
  BY DEF CPU, DesalojoFinQuantum, DesalojoWait, DesalojoWaitBloquea, DesalojoSignal, DesalojoIO,
     DesalojoFinaliza, DesalojoRecursoInexistente, DesalojoDesconocido
<1>1. /\ corto'.pc = "desalojo" /\ corto'.pid = corto.pid /\ corto.pid \in Pids
      /\ corto.pc = "cpu" /\ marco["corto"].op = "libre"
      /\ UNCHANGED <<pcb_a_finalizar, perdidos, consola, pidGlobal, squeue_new, squeue_readyPlus, largo,
                     pcb_a_mover>>
  BY <1>0, DesalojoTipo DEF Desalojo, CortoQuieto
<1>2. marco' = marco \/ \E f : marco' = [marco EXCEPT !["corto"] = f]
  BY DEF CPU, DesalojoFinQuantum, DesalojoWait, DesalojoWaitBloquea, DesalojoSignal, DesalojoIO,
     DesalojoFinaliza, DesalojoRecursoInexistente, DesalojoDesconocido, finalizar_proceso, liberar_recurso
<1>3. TipoMarco
  BY DEF Inv, TypeOK
<1> QED
  BY <1>1, <1>2, <1>3 DEF TipoMarco

LEMMA LiberaCorto ==
  ASSUME SinMatar, NEW h \in Hilos, LiberarSiguiente(h) \/ Despertar(h) \/ FinDeProceso(h)
  PROVE  h = "corto"
<1>1. marco[h] # MarcoLibre
  BY DEF LiberarSiguiente, Despertar, FinDeProceso, MarcoLibre
<1> QED
  BY <1>1 DEF SinMatar

LEMMA SinMatarInductivo ==
  ASSUME "FINALIZAR_PROCESO" \notin Comandos, Inv, SinMatar, [Next]_vars
  PROVE  SinMatar'
<1>0. TipoMarco /\ TipoConsola /\ TipoPlazos /\ "corto" \in Hilos
  BY DEF Inv, TypeOK, Hilos
<1>1. CASE LargoPlazo
  <2>1. LargoQuieto
    BY <1>1 DEF LargoPlazo, LargoSemNew, LargoDetenida, LargoSemLargo, LargoReponer, LargoVacia,
       LargoSemMulti, LargoRenunciar, LargoSacar, LargoListo, LargoCae
  <2> QED
    BY <2>1 DEF LargoQuieto, punteros, SinMatar
<1>2. CASE CortoPlazo
  <2>1. UNCHANGED <<pcb_a_finalizar, perdidos, consola>>
    BY <1>2 DEF CortoPlazo, CortoSemReady, CortoDetenida, CortoSemCorto, CortoElegir, CortoNadaListo,
       CortoDespachar, CortoCae, EsperarRecurso, SignalListo, CortoSoltar, CortoQuieto
  <2>2. marco' = marco \/ marco' = [marco EXCEPT !["corto"] = MarcoLibre]
    BY <1>2 DEF CortoPlazo, CortoSemReady, CortoDetenida, CortoSemCorto, CortoElegir, CortoNadaListo,
       CortoDespachar, CortoCae, EsperarRecurso, SignalListo, CortoSoltar, SinDespachar
  <2>3. corto'.pc \notin {"cpu", "desalojo"} => corto'.pid = NULL
    <3>1. CASE CortoSemReady \/ CortoDetenida \/ CortoSemCorto \/ CortoElegir \/ CortoNadaListo
      <4>1. corto.pc \notin {"cpu", "desalojo"}
        BY <3>1 DEF CortoSemReady, CortoDetenida, CortoSemCorto, CortoElegir, CortoNadaListo
      <4>2. PICK c : corto' = [corto EXCEPT !.pc = c]
        BY <3>1 DEF CortoSemReady, CortoDetenida, CortoSemCorto, CortoElegir, CortoNadaListo
      <4>3. corto'.pid = corto.pid
        BY <1>0, <4>2 DEF TipoPlazos
      <4> QED
        BY <4>1, <4>3 DEF SinMatar
    <3>2. CASE CortoDespachar \/ CortoSoltar
      BY <3>2 DEF CortoDespachar, CortoSoltar
    <3>3. CASE CortoCae \/ EsperarRecurso \/ SignalListo
      <4>1. corto' = corto
        BY <3>3 DEF CortoCae, EsperarRecurso, SignalListo
      <4> QED
        BY <4>1 DEF SinMatar
    <3> QED
      BY <1>2, <3>1, <3>2, <3>3 DEF CortoPlazo
  <2> QED
    BY <1>0, <2>1, <2>2, <2>3 DEF SinMatar, TipoMarco
<1>3. CASE CPU
  BY <1>3, CPUMarco DEF SinMatar
<1>4. CASE Liberacion
  <2>1. PICK h \in Hilos : LiberarSiguiente(h) \/ Despertar(h) \/ FinDeProceso(h)
    BY <1>4 DEF Liberacion
  <2>2. h = "corto"
    BY <2>1, LiberaCorto
  <2>3. \E f : marco' = [marco EXCEPT ![h] = f]
    BY <2>1 DEF LiberarSiguiente, Despertar, FinDeProceso, liberar_recurso
  <2>4. UNCHANGED <<pcb_a_finalizar, perdidos, consola, corto>>
    BY <2>1 DEF LiberarSiguiente, Despertar, FinDeProceso, MarcoQuieto, punteros
  <2> QED
    BY <1>0, <2>2, <2>3, <2>4 DEF SinMatar, TipoMarco
<1>5. CASE Consola
  <2>1. \/ CrearProceso \/ AvisarProceso \/ AjustarMulti
        \/ \E n \in Grados : CambiarMultiprogramacion(n)
        \/ \E d \in Detenedores : DetenerPlanificacion(d)
        \/ \E d \in Reanudadores : IniciarPlanificacion(d)
    BY <1>5, NadaTermina DEF Consola, FinalizarCaso, FinalizarEjecutando, FinalizarBuscar, OrdenAcotada,
       Orden, SinMatar
  <2>2. UNCHANGED <<pcb_a_finalizar, perdidos, marco, corto>>
    BY <2>1 DEF CrearProceso, AvisarProceso, AjustarMulti, CambiarMultiprogramacion, DetenerPlanificacion,
       IniciarPlanificacion, ConsolaQuieta
  <2>3. consola'.pc \notin Matando
    <3>1. consola' \in {consola, ConsolaLibre} => consola'.pc \notin Matando
      BY DEF SinMatar, ConsolaLibre
    <3>2. ASSUME NEW n, consola' = [consola EXCEPT !.n = n] PROVE consola'.pc = consola.pc
      BY <1>0, <3>2 DEF TipoConsola
    <3>3. ASSUME NEW c, NEW n, consola' = [consola EXCEPT !.pc = c, !.n = n] PROVE consola'.pc = c
      BY <1>0, <3>3 DEF TipoConsola
    <3>4. CASE CrearProceso
      BY <1>0, <3>4 DEF CrearProceso, TipoConsola
    <3>5. CASE AvisarProceso \/ AjustarMulti
      BY <3>1, <3>2, <3>5 DEF AvisarProceso, AjustarMulti, SinMatar
    <3>6. CASE \E n \in Grados : CambiarMultiprogramacion(n)
      BY <3>1, <3>3, <3>6 DEF CambiarMultiprogramacion
    <3>7. CASE \/ \E d \in Detenedores : DetenerPlanificacion(d)
               \/ \E d \in Reanudadores : IniciarPlanificacion(d)
      BY <3>1, <3>7 DEF DetenerPlanificacion, IniciarPlanificacion
    <3> QED
      BY <2>1, <3>4, <3>5, <3>6, <3>7
  <2> QED
    BY <2>2, <2>3 DEF SinMatar
<1>6. CASE PararYSeguir
  BY <1>6 DEF PararYSeguir, Detener, Reanudar, PlanificadoresQuietos, punteros, SinMatar
<1>7. CASE EntradaSalida
  <2>1. PICK i \in Interfaces : FinDeIO(i) \/ SacarDeInterfaz(i)
    BY <1>7 DEF EntradaSalida
  <2>2. UNCHANGED <<pcb_a_finalizar, perdidos, consola, corto>>
    BY <2>1 DEF FinDeIO, SacarDeInterfaz, IOQuieto, punteros
  <2>3. FinDeIO(i) => Head(pedidos[i]) \in Pids
    <3> SUFFICES ASSUME FinDeIO(i) PROVE Head(pedidos[i]) \in Pids
      OBVIOUS
    <3>1. pedidos[i] \in Seq(Pids) /\ pedidos[i] # <<>>
      BY DEF FinDeIO, Inv, TypeOK, TipoInterfaces
    <3> QED
      BY <3>1, HeadTailProperties
  <2>4. marco' = marco
    <3>1. pcb_a_finalizar \notin Pids
      BY DEF SinMatar, Pids, NULL
    <3> QED
      BY <2>1, <2>3, <3>1 DEF FinDeIO, SacarDeInterfaz
  <2> QED
    BY <2>2, <2>4 DEF SinMatar
<1>8. CASE UNCHANGED vars
  BY <1>8 DEF vars, punteros, control, SinMatar
<1> QED
  BY <1>1, <1>2, <1>3, <1>4, <1>5, <1>6, <1>7, <1>8 DEF Next

\* What a thread saw before it stopped is still there when it goes on: the schedulers are
\* the only ones that pop their queues, and the short-term one the only one that pops the
\* waiters of a resource.
EnPie ==
  /\ largo \in {"semMulti", "admitir"} => squeue_new # <<>>
  /\ corto.pc = "sacar" => squeue_ready # <<>>
  /\ corto.pc = "sacarPlus" => squeue_readyPlus # <<>>
  /\ marco["corto"].recurso # Nada /\ marco["corto"].op # "esperar"
       => colaRecurso[marco["corto"].recurso] # <<>>
  /\ ~caida

LEMMA ListoCrece ==
  ASSUME Inv, NEW p \in Pids, NEW b \in BOOLEAN, proceso_listo(p, b)
  PROVE  /\ squeue_ready # <<>> => squeue_ready' # <<>>
         /\ squeue_readyPlus # <<>> => squeue_readyPlus' # <<>>
<1>1. Append(squeue_ready, p) # <<>> /\ Append(squeue_readyPlus, p) # <<>>
  BY Listas, AppendProperties
<1> QED
  BY <1>1 DEF proceso_listo

LEMMA DesbloquearCrece ==
  ASSUME Inv, NEW p \in Pids, desbloquear_proceso(p)
  PROVE  /\ squeue_ready # <<>> => squeue_ready' # <<>>
         /\ squeue_readyPlus # <<>> => squeue_readyPlus' # <<>>
<1> DEFINE prioridad == ALGORITMO = "VRR" /\ tiempoQ[p] < quantum[p]
<1>1. CASE p \in squeue_blocked
  <2>1. proceso_listo(p, prioridad) /\ prioridad \in BOOLEAN
    BY <1>1 DEF desbloquear_proceso
  <2> HIDE DEF prioridad
  <2> QED
    BY <2>1, ListoCrece
<1>2. CASE p \notin squeue_blocked
  BY <1>2 DEF desbloquear_proceso, listas
<1> QED
  BY <1>1, <1>2

LEMMA LiberarEnPie ==
  ASSUME Inv, NEW p, NEW r \in Recursos, NEW m \in Marcos, liberar_recurso("corto", p, r, m),
         UNCHANGED colaRecurso
  PROVE  marco'["corto"].recurso # Nada => colaRecurso'[marco'["corto"].recurso] # <<>>
<1>1. PICK x : /\ marco' = [marco EXCEPT !["corto"] = [m EXCEPT !.recurso = x]]
               /\ x = Nada \/ (x = r /\ colaRecurso[r] # <<>>)
  BY DEF liberar_recurso
<1>2. marco'["corto"].recurso = x
  BY <1>1 DEF Inv, TypeOK, TipoMarco, Marcos, Hilos
<1> QED
  BY <1>1, <1>2

LEMMA CPUEnPie ==
  ASSUME "RECURSO_INEXISTENTE" \notin Retornos, Inv, EnPie, CPU
  PROVE  EnPie'
<1>1. corto'.pc = "desalojo" /\ UNCHANGED <<squeue_new, largo>> /\ corto.pid \in Pids
  BY CPUMarco
<1>2. ~DesalojoRecursoInexistente
  BY DEF DesalojoRecursoInexistente, Desalojo
<1>3. caida' = caida
  BY <1>2 DEF CPU, DesalojoFinQuantum, DesalojoWait, DesalojoWaitBloquea, DesalojoSignal, DesalojoIO,
     DesalojoFinaliza, DesalojoDesconocido
<1>4. marco'["corto"].recurso # Nada /\ marco'["corto"].op # "esperar"
        => colaRecurso'[marco'["corto"].recurso] # <<>>
  <2>0. TipoMarco /\ "corto" \in Hilos
    BY DEF Inv, TypeOK, Hilos
  <2>1. CASE \E r \in Recursos : DesalojoSignal(r)
    <3>1. PICK r \in Recursos : DesalojoSignal(r)
      BY <2>1
    <3> DEFINE m == [MarcoLibre EXCEPT !.op = "signal", !.pid = corto.pid]
    <3>2. m \in Marcos
      BY <1>1 DEF MarcoLibre, Marcos
    <3>3. liberar_recurso("corto", corto.pid, r, m) /\ UNCHANGED colaRecurso
      BY <3>1 DEF DesalojoSignal
    <3> HIDE DEF m
    <3> QED
      BY <3>2, <3>3, LiberarEnPie
  <2>2. CASE \E r \in Recursos : DesalojoWaitBloquea(r)
    <3>1. PICK r \in Recursos : DesalojoWaitBloquea(r)
      BY <2>2
    <3>2. marco'["corto"].op = "esperar"
      BY <2>0, <3>1 DEF DesalojoWaitBloquea, TipoMarco, MarcoLibre
    <3> QED
      BY <3>2
  <2>3. CASE \E f \in {"FINALIZACION", "OUT_OF_MEMORY", "IO_INVALIDA", "FINALIZACION_CONSOLA"} :
               DesalojoFinaliza(f)
    <3>1. finalizar_proceso("corto", corto.pid, TRUE)
      BY <2>3 DEF DesalojoFinaliza
    <3> QED
      BY <2>0, <3>1 DEF finalizar_proceso, TipoMarco
  <2>4. CASE \/ DesalojoFinQuantum \/ DesalojoDesconocido
             \/ \E r \in Recursos : DesalojoWait(r)
             \/ \E i \in Interfaces : DesalojoIO(i)
    BY <2>4 DEF DesalojoFinQuantum, DesalojoDesconocido, DesalojoWait, DesalojoIO, recursos, EnPie
  <2> QED
    BY <1>2, <2>1, <2>2, <2>3, <2>4 DEF CPU
<1> QED
  BY <1>1, <1>3, <1>4 DEF EnPie

LEMMA LiberacionEnPie ==
  ASSUME Inv, SinMatar, EnPie, Liberacion
  PROVE  EnPie'
<1>0. PICK h \in Hilos : LiberarSiguiente(h) \/ Despertar(h) \/ FinDeProceso(h)
  BY DEF Liberacion
<1>1. h = "corto"
  BY <1>0, LiberaCorto
<1>2. UNCHANGED <<squeue_new, largo, corto>> /\ TipoMarco /\ marco["corto"] \in Marcos
  BY <1>0, <1>1 DEF LiberarSiguiente, Despertar, FinDeProceso, MarcoQuieto, Inv, TypeOK, TipoMarco
<1>3. CASE LiberarSiguiente(h)
  <2> DEFINE m == marco[h]
             r == asignados[m.pid][m.i + 1]
             n == [m EXCEPT !.i = @ + 1]
  <2>1. n \in Marcos /\ m.pid \in Pids
    BY <1>1, <1>2, <1>3 DEF LiberarSiguiente, Marcos, Inv, Punteros
  <2>2. r \in Recursos
    <3>1. asignados[m.pid] \in Seq(Recursos)
      BY <2>1 DEF Inv, TypeOK, TipoRecursos
    <3>2. m.i + 1 \in 1 .. Len(asignados[m.pid])
      BY <1>1, <1>2, <1>3, <3>1, LenProperties DEF LiberarSiguiente, Marcos
    <3> QED
      BY <3>1, <3>2, ElementOfSeq
  <2>3. /\ liberar_recurso("corto", m.pid, r, n)
        /\ UNCHANGED <<listas, colaRecurso, caida>>
    BY <1>1, <1>3 DEF LiberarSiguiente
  <2> HIDE DEF m, r, n
  <2>4. marco'["corto"].recurso # Nada => colaRecurso'[marco'["corto"].recurso] # <<>>
    BY <2>1, <2>2, <2>3, LiberarEnPie
  <2> QED
    BY <1>2, <2>3, <2>4 DEF listas, EnPie
<1>4. CASE Despertar(h)
  <2> DEFINE r == marco["corto"].recurso
             p == Head(colaRecurso[r])
  <2>1. r # Nada /\ marco["corto"].op # "esperar" /\ marco' = [marco EXCEPT !["corto"].recurso = Nada]
    BY <1>1, <1>4 DEF Despertar
  <2>2. colaRecurso[r] # <<>> /\ r \in Recursos
    BY <1>2, <2>1 DEF EnPie, Marcos
  <2>3. desbloquear_proceso(p) /\ UNCHANGED caida
    BY <1>1, <1>4, <2>2 DEF Despertar
  <2>4. p \in Pids
    BY <2>2, HeadTailProperties DEF Inv, TypeOK, TipoRecursos
  <2>5. marco'["corto"].recurso = Nada
    BY <1>1, <1>2, <2>1 DEF TipoMarco, Marcos
  <2> HIDE DEF r, p
  <2>6. /\ squeue_ready # <<>> => squeue_ready' # <<>>
        /\ squeue_readyPlus # <<>> => squeue_readyPlus' # <<>>
    BY <2>3, <2>4, DesbloquearCrece
  <2> QED
    BY <1>2, <2>3, <2>5, <2>6 DEF EnPie
<1>5. CASE FinDeProceso(h)
  <2>1. marco' = [marco EXCEPT !["corto"] = MarcoLibre] /\ UNCHANGED <<listas, caida>>
    BY <1>1, <1>5 DEF FinDeProceso
  <2>2. marco'["corto"].recurso = Nada
    BY <1>1, <1>2, <2>1 DEF TipoMarco, MarcoLibre
  <2> QED
    BY <1>2, <2>1, <2>2 DEF listas, EnPie
<1> QED
  BY <1>0, <1>3, <1>4, <1>5

LEMMA EnPieInductivo ==
  ASSUME "FINALIZAR_PROCESO" \notin Comandos, "RECURSO_INEXISTENTE" \notin Retornos,
         Inv, SinMatar, EnPie, [Next]_vars
  PROVE  EnPie'
<1>0. TipoMarco /\ TipoPlazos /\ "corto" \in Hilos
  BY DEF Inv, TypeOK, Hilos
<1>1. CASE LargoPlazo
  <2>1. LargoQuieto
    BY <1>1 DEF LargoPlazo, LargoSemNew, LargoDetenida, LargoSemLargo, LargoReponer, LargoVacia,
       LargoSemMulti, LargoRenunciar, LargoSacar, LargoListo, LargoCae
  <2>2. UNCHANGED <<corto, marco, colaRecurso>>
    BY <2>1 DEF LargoQuieto, recursos
  <2>3. CASE LargoListo
    <3>1. pcb_a_mover \in Pids
      BY <2>3 DEF LargoListo, Inv, Punteros
    <3>2. /\ proceso_listo(pcb_a_mover, FALSE) /\ largo' = "semNew" /\ caida' = caida
      BY <2>3 DEF LargoListo
    <3>3. /\ squeue_ready # <<>> => squeue_ready' # <<>>
          /\ squeue_readyPlus # <<>> => squeue_readyPlus' # <<>>
      BY <3>1, <3>2, ListoCrece
    <3> QED
      BY <2>2, <3>2, <3>3 DEF EnPie
  <2>4. CASE LargoSacar
    BY <2>2, <2>4 DEF LargoSacar, listas, EnPie
  <2>5. CASE ~LargoListo /\ ~LargoSacar
    <3>1. ~LargoCae
      BY DEF LargoCae, EnPie
    <3>2. UNCHANGED <<squeue_new, listas, caida>>
      BY <1>1, <2>5, <3>1 DEF LargoPlazo, LargoSemNew, LargoDetenida, LargoSemLargo, LargoReponer,
         LargoVacia, LargoSemMulti, LargoRenunciar, SinMover
    <3>3. largo' \in {"semMulti", "admitir"} => squeue_new # <<>>
      BY <1>1, <2>5, <3>1 DEF LargoPlazo, LargoSemNew, LargoDetenida, LargoSemLargo, LargoReponer,
         LargoVacia, LargoSemMulti, LargoRenunciar, EnPie
    <3> QED
      BY <2>2, <3>2, <3>3 DEF listas, EnPie
  <2> QED
    BY <2>3, <2>4, <2>5
<1>2. CASE CortoPlazo
  <2>1. UNCHANGED <<squeue_new, largo>>
    BY <1>2 DEF CortoPlazo, CortoSemReady, CortoDetenida, CortoSemCorto, CortoElegir, CortoNadaListo,
       CortoDespachar, CortoCae, EsperarRecurso, SignalListo, CortoSoltar, CortoQuieto
  <2>2. ~CortoCae
    BY DEF CortoCae, EnPie, ColaElegida
  <2>3. CASE CortoSemReady \/ CortoDetenida \/ CortoSemCorto \/ CortoElegir \/ CortoNadaListo \/ CortoSoltar
    <3>1. UNCHANGED <<listas, marco, recursos, caida>>
      BY <2>3 DEF CortoSemReady, CortoDetenida, CortoSemCorto, CortoElegir, CortoNadaListo, CortoSoltar,
         SinDespachar
    <3>2. /\ corto'.pc = "sacar" => squeue_ready # <<>>
          /\ corto'.pc = "sacarPlus" => squeue_readyPlus # <<>>
      <4>1. CASE CortoElegir
        BY <1>0, <4>1 DEF CortoElegir, HayPrioridad, TipoPlazos
      <4>2. CASE CortoSoltar
        BY <4>2 DEF CortoSoltar
      <4>3. CASE CortoSemReady \/ CortoDetenida \/ CortoSemCorto \/ CortoNadaListo
        BY <1>0, <4>3 DEF CortoSemReady, CortoDetenida, CortoSemCorto, CortoNadaListo, TipoPlazos
      <4> QED
        BY <2>3, <4>1, <4>2, <4>3
    <3> QED
      BY <2>1, <3>1, <3>2 DEF listas, recursos, EnPie
  <2>4. CASE CortoDespachar
    <3>1. corto'.pc = "cpu" /\ UNCHANGED <<marco, recursos, caida>>
      BY <2>4 DEF CortoDespachar
    <3> QED
      BY <2>1, <3>1 DEF recursos, EnPie
  <2>5. CASE EsperarRecurso \/ SignalListo
    <3>1. /\ marco' = [marco EXCEPT !["corto"] = MarcoLibre] /\ UNCHANGED <<corto, caida>>
          /\ marco["corto"].op # "libre"
      BY <2>5 DEF EsperarRecurso, SignalListo
    <3>2. marco'["corto"].recurso = Nada
      BY <1>0, <3>1 DEF TipoMarco, MarcoLibre
    <3>3. corto'.pc = "desalojo"
      BY <3>1 DEF Inv, Punteros
    <3> QED
      BY <2>1, <3>1, <3>2, <3>3 DEF EnPie
  <2> QED
    BY <1>2, <2>2, <2>3, <2>4, <2>5 DEF CortoPlazo
<1>3. CASE CPU
  BY <1>3, CPUEnPie
<1>4. CASE Liberacion
  BY <1>4, LiberacionEnPie
<1>5. CASE Consola
  <2>1. UNCHANGED <<largo, corto, listas, recursos, caida>>
    BY <1>5, NadaTermina DEF Consola, CrearProceso, AvisarProceso, FinalizarCaso, AjustarMulti,
       FinalizarEjecutando, FinalizarBuscar, CambiarMultiprogramacion, DetenerPlanificacion,
       IniciarPlanificacion, ConsolaQuieta
  <2>2. marco' = marco
    BY <1>5, NadaTermina DEF Consola, CrearProceso, AvisarProceso, FinalizarCaso, AjustarMulti,
       FinalizarEjecutando, FinalizarBuscar, CambiarMultiprogramacion, DetenerPlanificacion,
       IniciarPlanificacion
  <2>3. squeue_new # <<>> => squeue_new' # <<>>
    <3>1. CASE CrearProceso
      <4>1. pidGlobal \in Pids
        BY SMTT(30), <3>1, ConstantesValidas DEF CrearProceso, Inv, TypeOK, TipoProcesos, Pids
      <4> QED
        BY SMTT(30), <3>1, <4>1, Listas, AppendProperties DEF CrearProceso
    <3>2. CASE ~CrearProceso
      BY <1>5, <3>2, NadaTermina DEF Consola, AvisarProceso, FinalizarCaso, AjustarMulti,
         FinalizarEjecutando, FinalizarBuscar, CambiarMultiprogramacion, DetenerPlanificacion,
         IniciarPlanificacion
    <3> QED
      BY <3>1, <3>2
  <2> QED
    BY SMTT(30), <2>1, <2>2, <2>3 DEF listas, recursos, EnPie
<1>6. CASE PararYSeguir
  BY <1>6 DEF PararYSeguir, Detener, Reanudar, PlanificadoresQuietos, colas, recursos, EnPie
<1>7. CASE EntradaSalida
  <2>1. PICK i \in Interfaces : FinDeIO(i) \/ SacarDeInterfaz(i)
    BY <1>7 DEF EntradaSalida
  <2>2. UNCHANGED <<squeue_new, largo, corto, colaRecurso, caida>> /\ i \in Hilos /\ i # "corto"
    BY <2>1, ConstantesValidas DEF FinDeIO, SacarDeInterfaz, IOQuieto, recursos, Hilos
  <2>3. marco'["corto"] = marco["corto"]
    BY <1>0, <2>1, <2>2 DEF FinDeIO, SacarDeInterfaz, finalizar_proceso, TipoMarco
  <2>4. /\ squeue_ready # <<>> => squeue_ready' # <<>>
        /\ squeue_readyPlus # <<>> => squeue_readyPlus' # <<>>
    <3>1. CASE UNCHANGED listas
      BY <3>1 DEF listas
    <3>2. CASE ~UNCHANGED listas
      <4>1. FinDeIO(i) /\ desbloquear_proceso(Head(pedidos[i]))
        BY <2>1, <3>2 DEF FinDeIO, SacarDeInterfaz
      <4>2. Head(pedidos[i]) \in Pids
        <5>1. pedidos[i] \in Seq(Pids) /\ pedidos[i] # <<>>
          BY <4>1 DEF FinDeIO, Inv, TypeOK, TipoInterfaces
        <5> QED
          BY <5>1, HeadTailProperties
      <4> QED
        BY <4>1, <4>2, DesbloquearCrece
    <3> QED
      BY <3>1, <3>2
  <2> QED
    BY <2>2, <2>3, <2>4 DEF EnPie
<1>8. CASE UNCHANGED vars
  BY <1>8 DEF vars, colas, recursos, control, EnPie
<1> QED
  BY <1>1, <1>2, <1>3, <1>4, <1>5, <1>6, <1>7, <1>8 DEF Next

\* Unless FINALIZAR_PROCESO is used or a program names a resource that does not exist,
\* the kernel never dereferences a NULL pcb: what chequear_grado_de_multiprogramacion,
\* planificar_PCB_cortoPlazo and liberar_recurso pop is still where they saw it.
THEOREM KernelEnPie ==
  ASSUME "FINALIZAR_PROCESO" \notin Comandos, "RECURSO_INEXISTENTE" \notin Retornos
  PROVE  Spec => []NuncaCae
<1>1. Init => Inv /\ SinMatar /\ EnPie
  <2> SUFFICES ASSUME Init PROVE SinMatar /\ EnPie
    BY InvInicial
  <2>1. "corto" \in Hilos
    BY DEF Hilos
  <2> QED
    BY <2>1 DEF Init, SinMatar, EnPie, ConsolaLibre, MarcoLibre
<1>2. (Inv /\ SinMatar /\ EnPie) /\ [Next]_vars => (Inv /\ SinMatar /\ EnPie)'
  BY InvInductivo, SinMatarInductivo, EnPieInductivo
<1>3. Inv /\ SinMatar /\ EnPie => NuncaCae
  BY DEF EnPie, NuncaCae
<1> QED
  BY <1>1, <1>2, <1>3, PTL DEF Spec

-----------------------------------------------------------------------------
(* One place for each process.                                               *)

\* The part of UnLugar about one process.
Lugar(p) ==
  /\ Veces(p, squeue_new) + Uno(pcb_a_mover = p) = Uno(estado[p] = "NUEVO")
  /\ Veces(p, squeue_ready) + Veces(p, squeue_readyPlus) = Uno(estado[p] = "LISTO")
  /\ estado[p] = "EJECUTANDO" => corto.pid = p
  /\ p \in squeue_blocked <=> estado[p] = "BLOQUEADO"
  /\ salidas[p] = Uno(estado[p] = "FINALIZADO")

\* The short-term scheduler's process is EJECUTANDO until it is put somewhere, and not
\* after.
EnCPU ==
  /\ corto.pc = "cpu" \/ marco["corto"].op \in {"esperar", "signal"} => estado[corto.pid] = "EJECUTANDO"
  /\ corto.pc = "desalojo" /\ marco["corto"].op \notin {"esperar", "signal"} /\ ~caida
       => estado[corto.pid] # "EJECUTANDO"

InvLugar == InvPasos /\ SinMatar /\ UnLugar /\ EnCPU

LEMMA LugarDeTodos == UnLugar <=> \A p \in Pids : Lugar(p)
BY DEF UnLugar, Lugar

LEMMA VecesAppend ==
  ASSUME NEW S, NEW s \in Seq(S), NEW x \in S, NEW e
  PROVE  Veces(e, Append(s, x)) = Veces(e, s) + Uno(x = e) /\ Veces(e, s) \in Nat
<1> DEFINE t == Append(s, x)
<1>1. t \in Seq(S) /\ Cuantas(t, e) = Cuantas(s, e) + SiNo(x = e)
  BY AppendProperties, CuantasAppend
<1> HIDE DEF t
<1>2. Veces(e, t) = Cuantas(t, e) /\ Veces(e, s) = Cuantas(s, e) /\ Veces(e, s) \in Nat
  BY <1>1, VecesCuantas
<1> QED
  BY <1>1, <1>2 DEF t, SiNo, Uno

LEMMA VecesTail ==
  ASSUME NEW S, NEW s \in Seq(S), s # <<>>, NEW e
  PROVE  Veces(e, s) = Veces(e, Tail(s)) + Uno(Head(s) = e) /\ Veces(e, Tail(s)) \in Nat
<1> DEFINE t == Tail(s)
<1>1. t \in Seq(S) /\ Cuantas(s, e) = Cuantas(t, e) + SiNo(Head(s) = e)
  BY HeadTailProperties, CuantasTail
<1> HIDE DEF t
<1>2. Veces(e, t) = Cuantas(t, e) /\ Veces(e, s) = Cuantas(s, e) /\ Veces(e, t) \in Nat
  BY <1>1, VecesCuantas
<1> QED
  BY <1>1, <1>2 DEF t, SiNo, Uno

LEMMA VecesListas ==
  Inv => \A p : /\ Veces(p, squeue_new) \in Nat /\ Veces(p, squeue_ready) \in Nat
                /\ Veces(p, squeue_readyPlus) \in Nat
BY Listas, VecesCuantas

\* Derecho is what UnLugar gives the steps.
LEMMA LugarDerecho ==
  ASSUME InvLugar
  PROVE  Derecho
<1>1. ASSUME NEW p \in Pids, En(squeue_ready, p) \/ En(squeue_readyPlus, p) PROVE estado[p] = "LISTO"
  <2>1. squeue_ready \in Seq(Pids) /\ squeue_readyPlus \in Seq(Pids)
    BY Listas DEF InvLugar, InvPasos
  <2>2. Veces(p, squeue_ready) > 0 \/ Veces(p, squeue_readyPlus) > 0
    BY <1>1, <2>1, CuantasEn, VecesCuantas
  <2>3. Veces(p, squeue_ready) + Veces(p, squeue_readyPlus) > 0
    BY <2>1, <2>2, VecesCuantas
  <2>4. Uno(estado[p] = "LISTO") > 0
    BY <2>3 DEF InvLugar, UnLugar
  <2> QED
    BY <2>4 DEF Uno
<1>2. squeue_blocked \subseteq Pids
  BY DEF InvLugar, InvPasos, Inv, TypeOK, TipoColas
<1> QED
  BY <1>1, <1>2 DEF Derecho, InvLugar, UnLugar, EnCPU, SinMatar

\* Nothing moves and the process on the CPU stays there.
LEMMA LugarQuieto ==
  ASSUME UnLugar, UNCHANGED <<estado, squeue_new, pcb_a_mover>>,
         UNCHANGED <<squeue_ready, squeue_readyPlus, squeue_blocked, salidas>>,
         \A p \in Pids : estado[p] = "EJECUTANDO" => corto'.pid = p
  PROVE  UnLugar'
BY DEF UnLugar

\* One process moves.
LEMMA LugarCambia ==
  ASSUME Inv, UnLugar, NEW p \in Pids, NEW e \in Estados, estado' = [estado EXCEPT ![p] = e],
         \A q \in Pids \ {p} :
            /\ Veces(q, squeue_new') + Uno(pcb_a_mover' = q) = Veces(q, squeue_new) + Uno(pcb_a_mover = q)
            /\ Veces(q, squeue_ready') = Veces(q, squeue_ready)
            /\ Veces(q, squeue_readyPlus') = Veces(q, squeue_readyPlus)
            /\ estado[q] = "EJECUTANDO" => corto'.pid = q
            /\ q \in squeue_blocked' <=> q \in squeue_blocked
            /\ salidas'[q] = salidas[q],
         /\ Veces(p, squeue_new') + Uno(pcb_a_mover' = p) = Uno(e = "NUEVO")
         /\ Veces(p, squeue_ready') + Veces(p, squeue_readyPlus') = Uno(e = "LISTO")
         /\ e = "EJECUTANDO" => corto'.pid = p
         /\ p \in squeue_blocked' <=> e = "BLOQUEADO"
         /\ salidas'[p] = Uno(e = "FINALIZADO")
  PROVE  UnLugar'
<1>1. \A q \in Pids : estado'[q] = IF q = p THEN e ELSE estado[q]
  BY DEF Inv, TypeOK, TipoProcesos
<1>2. \A q \in Pids \ {p} : Lugar(q)'
  BY <1>1 DEF UnLugar, Lugar
<1>3. Lugar(p)'
  BY <1>1 DEF Lugar
<1> QED
  BY <1>2, <1>3 DEF UnLugar, Lugar

\* What a push to ready or ready+ does to the counts.
LEMMA ListoVeces ==
  ASSUME Inv, NEW p \in Pids, NEW b \in BOOLEAN, proceso_listo(p, b)
  PROVE  /\ estado' = [estado EXCEPT ![p] = "LISTO"]
         /\ \A q \in Pids \ {p} : /\ Veces(q, squeue_ready') = Veces(q, squeue_ready)
                                  /\ Veces(q, squeue_readyPlus') = Veces(q, squeue_readyPlus)
         /\ Veces(p, squeue_ready') + Veces(p, squeue_readyPlus')
              = Veces(p, squeue_ready) + Veces(p, squeue_readyPlus) + 1
<1>1. squeue_ready \in Seq(Pids) /\ squeue_readyPlus \in Seq(Pids)
  BY Listas
<1>2. \A q \in Pids : /\ Veces(q, Append(squeue_ready, p)) = Veces(q, squeue_ready) + Uno(p = q)
                      /\ Veces(q, Append(squeue_readyPlus, p)) = Veces(q, squeue_readyPlus) + Uno(p = q)
                      /\ Veces(q, squeue_ready) \in Nat /\ Veces(q, squeue_readyPlus) \in Nat
  BY <1>1, VecesAppend
<1>3. Uno(p = p) = 1 /\ \A q \in Pids \ {p} : Uno(p = q) = 0
  BY DEF Uno
<1>4. estado' = [estado EXCEPT ![p] = "LISTO"]
  BY DEF proceso_listo
<1>5. CASE b
  <2>1. squeue_readyPlus' = Append(squeue_readyPlus, p) /\ squeue_ready' = squeue_ready
    BY <1>5 DEF proceso_listo
  <2> QED
    BY <1>2, <1>3, <1>4, <2>1
<1>6. CASE ~b
  <2>1. squeue_ready' = Append(squeue_ready, p) /\ squeue_readyPlus' = squeue_readyPlus
    BY <1>6 DEF proceso_listo
  <2> QED
    BY <1>2, <1>3, <1>4, <2>1
<1> QED
  BY <1>5, <1>6

\* A process that is in no ready queue becomes ready, and was in none of the others or
\* has just left it.
LEMMA ListoLugar ==
  ASSUME Inv, UnLugar, NEW p \in Pids, NEW b \in BOOLEAN, proceso_listo(p, b), estado[p] # "LISTO",
         \A q \in Pids \ {p} : /\ Veces(q, squeue_new') + Uno(pcb_a_mover' = q)
                                    = Veces(q, squeue_new) + Uno(pcb_a_mover = q)
                               /\ estado[q] = "EJECUTANDO" => corto'.pid = q
                               /\ q \in squeue_blocked' <=> q \in squeue_blocked
                               /\ salidas'[q] = salidas[q],
         Veces(p, squeue_new') + Uno(pcb_a_mover' = p) = 0, p \notin squeue_blocked', salidas'[p] = 0
  PROVE  UnLugar'
<1>1. Veces(p, squeue_ready) + Veces(p, squeue_readyPlus) = 0
  BY DEF UnLugar, Uno
<1>2. /\ estado' = [estado EXCEPT ![p] = "LISTO"]
      /\ \A q \in Pids \ {p} : /\ Veces(q, squeue_ready') = Veces(q, squeue_ready)
                               /\ Veces(q, squeue_readyPlus') = Veces(q, squeue_readyPlus)
      /\ Veces(p, squeue_ready') + Veces(p, squeue_readyPlus') = 1
  BY <1>1, ListoVeces
<1>3. "LISTO" \in Estados
  BY DEF Estados
<1> QED
  BY <1>2, <1>3, LugarCambia DEF Uno

LEMMA DesbloquearLugar ==
  ASSUME Inv, UnLugar, NEW p \in Pids, desbloquear_proceso(p),
         UNCHANGED <<squeue_new, pcb_a_mover, salidas, corto>>
  PROVE  /\ UnLugar'
         /\ estado' = estado \/ (estado[p] = "BLOQUEADO" /\ estado' = [estado EXCEPT ![p] = "LISTO"])
<1> DEFINE prioridad == ALGORITMO = "VRR" /\ tiempoQ[p] < quantum[p]
<1>1. CASE p \in squeue_blocked
  <2>1. /\ proceso_listo(p, prioridad) /\ prioridad \in BOOLEAN
        /\ squeue_blocked' = squeue_blocked \ {p}
    BY <1>1 DEF desbloquear_proceso
  <2>2. estado[p] = "BLOQUEADO" /\ Veces(p, squeue_new) + Uno(pcb_a_mover = p) = 0 /\ salidas[p] = 0
    BY <1>1 DEF UnLugar, Uno
  <2>3. estado' = [estado EXCEPT ![p] = "LISTO"]
    BY <2>1 DEF proceso_listo
  <2>4. \A q \in Pids : estado[q] = "EJECUTANDO" => corto'.pid = q
    BY DEF UnLugar
  <2> HIDE DEF prioridad
  <2>5. UnLugar'
    BY <2>1, <2>2, <2>4, ListoLugar
  <2> QED
    BY <2>2, <2>3, <2>5
<1>2. CASE p \notin squeue_blocked
  BY <1>2, LugarQuieto DEF desbloquear_proceso, listas, UnLugar
<1> QED
  BY <1>1, <1>2

\* A step of another thread leaves the process of the short-term scheduler as it is.
LEMMA CPUQuieta ==
  ASSUME Inv, EnCPU, corto' = corto, caida' = caida \/ caida',
         marco'["corto"].op \in {"esperar", "signal"} <=> marco["corto"].op \in {"esperar", "signal"},
         \A p \in Pids : estado'[p] = "EJECUTANDO" <=> estado[p] = "EJECUTANDO"
  PROVE  EnCPU'
<1>1. corto.pc \in {"cpu", "desalojo"} \/ marco["corto"].op \in {"esperar", "signal"} => corto.pid \in Pids
  BY DEF Inv, Punteros
<1> QED
  BY <1>1 DEF EnCPU

LEMMA LargoPlazoLugar ==
  ASSUME InvLugar, LargoPlazo
  PROVE  UnLugar' /\ EnCPU'
<1>0. LargoQuieto
  BY DEF LargoPlazo, LargoSemNew, LargoDetenida, LargoSemLargo, LargoReponer, LargoVacia,
     LargoSemMulti, LargoRenunciar, LargoSacar, LargoListo, LargoCae
<1>1. /\ UNCHANGED <<squeue_blocked, salidas, corto, marco>> /\ Inv /\ UnLugar /\ EnCPU
      /\ \A q \in Pids : estado[q] = "EJECUTANDO" => corto'.pid = q
  BY <1>0 DEF LargoQuieto, InvLugar, InvPasos, UnLugar
<1>2. CASE ~LargoSacar /\ ~LargoListo
  <2>1. /\ UNCHANGED <<estado, squeue_new, pcb_a_mover, squeue_ready, squeue_readyPlus>>
        /\ caida' = caida \/ caida'
    BY <1>2 DEF LargoPlazo, LargoSemNew, LargoDetenida, LargoSemLargo, LargoReponer, LargoVacia,
       LargoSemMulti, LargoRenunciar, LargoCae, SinMover, listas
  <2> QED
    BY <1>1, <2>1, LugarQuieto, CPUQuieta
<1>3. CASE LargoSacar
  <2> DEFINE p == Head(squeue_new)
  <2>1. /\ squeue_new \in Seq(Pids) /\ squeue_new # <<>> /\ squeue_new' = Tail(squeue_new)
        /\ pcb_a_mover' = p /\ UNCHANGED <<estado, squeue_ready, squeue_readyPlus, caida>>
    BY <1>1, <1>3, Listas DEF LargoSacar, listas
  <2>2. pcb_a_mover \notin Pids
    BY <1>1, <1>3 DEF LargoSacar, Inv, Punteros
  <2>3. \A q \in Pids : Veces(q, squeue_new) = Veces(q, squeue_new') + Uno(p = q)
    BY <2>1, VecesTail
  <2> HIDE DEF p
  <2>4. \A q \in Pids : Veces(q, squeue_new) = Uno(estado[q] = "NUEVO")
    <3>1. \A q \in Pids : /\ Veces(q, squeue_new) + Uno(pcb_a_mover = q) = Uno(estado[q] = "NUEVO")
                          /\ Veces(q, squeue_new) \in Nat
      BY <1>1, VecesListas DEF UnLugar
    <3>2. \A q \in Pids : Uno(pcb_a_mover = q) = 0
      BY <2>2 DEF Uno
    <3> QED
      BY <3>1, <3>2
  <2>5. UnLugar'
    BY <1>1, <2>1, <2>3, <2>4 DEF UnLugar
  <2> QED
    BY <1>1, <2>1, <2>5, CPUQuieta
<1>4. CASE LargoListo
  <2> DEFINE p == pcb_a_mover
  <2>1. p \in Pids /\ squeue_new' = squeue_new /\ proceso_listo(p, FALSE) /\ caida' = caida
    BY <1>1, <1>4 DEF LargoListo, Inv, Punteros
  <2>1a. pcb_a_mover' \notin Pids
    BY <1>4 DEF LargoListo, NULL, Pids
  <2>2. /\ Uno(pcb_a_mover = p) = 1 /\ Uno(pcb_a_mover' = p) = 0
        /\ \A q \in Pids \ {p} : Uno(pcb_a_mover = q) = 0 /\ Uno(pcb_a_mover' = q) = 0
    BY <2>1, <2>1a DEF Uno
  <2>3. /\ Veces(p, squeue_new) + Uno(pcb_a_mover = p) = Uno(estado[p] = "NUEVO")
        /\ Uno(estado[p] = "NUEVO") \in {0, 1} /\ Veces(p, squeue_new) \in Nat
    BY <1>1, <2>1, VecesListas DEF UnLugar, Uno
  <2>4. estado[p] = "NUEVO" /\ Veces(p, squeue_new) = 0
    BY <2>2, <2>3 DEF Uno
  <2>5. p \notin squeue_blocked /\ salidas[p] = 0
    BY <1>1, <2>1, <2>4 DEF UnLugar, Uno
  <2>6. \A q \in Pids : Veces(q, squeue_new) \in Nat
    BY <1>1, VecesListas
  <2>7. /\ Veces(p, squeue_new') + Uno(pcb_a_mover' = p) = 0
        /\ \A q \in Pids \ {p} : Veces(q, squeue_new') + Uno(pcb_a_mover' = q)
                                   = Veces(q, squeue_new) + Uno(pcb_a_mover = q)
    BY <2>1, <2>2, <2>4, <2>6
  <2> HIDE DEF p
  <2>8. UnLugar'
    BY <1>1, <2>1, <2>4, <2>5, <2>7, ListoLugar
  <2>9. \A q \in Pids : estado'[q] = "EJECUTANDO" <=> estado[q] = "EJECUTANDO"
    BY <1>1, <2>1, <2>4 DEF proceso_listo, Inv, TypeOK, TipoProcesos
  <2> QED
    BY <1>1, <2>1, <2>8, <2>9, CPUQuieta
<1> QED
  BY <1>2, <1>3, <1>4

LEMMA CortoPlazoLugar ==
  ASSUME InvLugar, ~caida, CortoPlazo
  PROVE  UnLugar' /\ EnCPU'
<1>0. Inv /\ UnLugar /\ EnCPU /\ SinMatar /\ TipoMarco /\ TipoPlazos /\ TipoProcesos /\ "corto" \in Hilos
  BY DEF InvLugar, InvPasos, Inv, TypeOK, Hilos
<1>1. UNCHANGED squeue_new /\ UNCHANGED pcb_a_mover /\ UNCHANGED salidas
  BY DEF CortoPlazo, CortoSemReady, CortoDetenida, CortoSemCorto, CortoElegir, CortoNadaListo,
     CortoDespachar, CortoCae, EsperarRecurso, SignalListo, CortoSoltar, CortoQuieto, SinDespachar
<1>2. CASE CortoSemReady \/ CortoDetenida \/ CortoSemCorto \/ CortoElegir \/ CortoNadaListo
  <2>1. /\ UNCHANGED <<estado, squeue_ready, squeue_readyPlus, squeue_blocked, marco>>
        /\ corto.pc \notin {"cpu", "desalojo"}
    BY <1>2 DEF CortoSemReady, CortoDetenida, CortoSemCorto, CortoElegir, CortoNadaListo,
       SinDespachar, procesos, listas
  <2>2. PICK c \in PcCorto \ {"cpu", "desalojo"} : corto' = [corto EXCEPT !.pc = c]
    BY <1>2 DEF CortoSemReady, CortoDetenida, CortoSemCorto, CortoElegir, CortoNadaListo, PcCorto
  <2>3. corto'.pid = corto.pid /\ corto'.pc = c
    BY <1>0, <2>2 DEF TipoPlazos
  <2>4. UnLugar'
    BY <1>0, <1>1, <2>1, <2>3, LugarQuieto DEF UnLugar
  <2>5. marco'["corto"].op = "libre"
    BY <1>0, <2>1 DEF Inv, Punteros
  <2>6. EnCPU'
    BY <2>3, <2>5 DEF EnCPU
  <2> QED
    BY <2>4, <2>6
<1>3. CASE CortoCae
  <2>1. /\ UNCHANGED <<estado, squeue_ready, squeue_readyPlus, squeue_blocked, marco, corto>>
        /\ caida'
    BY <1>3 DEF CortoCae, procesos, listas
  <2>2. UnLugar'
    BY <1>0, <1>1, <2>1, LugarQuieto DEF UnLugar
  <2> QED
    BY <1>0, <2>1, <2>2, CPUQuieta
<1>4. CASE CortoSoltar
  <2>1. /\ UNCHANGED <<estado, squeue_ready, squeue_readyPlus, squeue_blocked, marco>>
        /\ corto' = [pc |-> "semReady", pid |-> NULL]
        /\ corto.pc = "desalojo" /\ marco["corto"] = MarcoLibre
    BY <1>4 DEF CortoSoltar, procesos, listas
  <2>2. marco["corto"].op = "libre"
    BY <2>1 DEF MarcoLibre
  <2>3. estado[corto.pid] # "EJECUTANDO"
    BY <1>0, <2>1, <2>2 DEF EnCPU
  <2>4. \A q \in Pids : estado[q] # "EJECUTANDO"
    BY <1>0, <2>3 DEF UnLugar
  <2>5. UnLugar'
    BY <1>0, <1>1, <2>1, <2>4, LugarQuieto
  <2>6. EnCPU'
    BY <2>1, <2>2 DEF EnCPU
  <2> QED
    BY <2>5, <2>6
<1>5. CASE CortoDespachar
  <2> DEFINE p == Head(ColaElegida)
  <2>1. squeue_ready \in Seq(Pids) /\ squeue_readyPlus \in Seq(Pids) /\ ColaElegida # <<>>
        /\ ColaElegida \in Seq(Pids)
    BY <1>0, <1>5, Listas DEF CortoDespachar, ColaElegida
  <2>2. /\ estado' = [estado EXCEPT ![p] = "EJECUTANDO"] /\ corto' = [pc |-> "cpu", pid |-> p]
        /\ UNCHANGED <<squeue_blocked, marco>>
        /\ \/ /\ ColaElegida = squeue_ready /\ squeue_ready' = Tail(ColaElegida)
              /\ squeue_readyPlus' = squeue_readyPlus
           \/ /\ ColaElegida = squeue_readyPlus /\ squeue_readyPlus' = Tail(ColaElegida)
              /\ squeue_ready' = squeue_ready
        /\ corto.pc \in {"sacar", "sacarPlus"}
    BY <1>5 DEF CortoDespachar, ColaElegida
  <2>3. p \in Pids
    BY <2>1, HeadTailProperties
  <2>4. \A q \in Pids : /\ Veces(q, ColaElegida) = Veces(q, Tail(ColaElegida)) + Uno(p = q)
                        /\ Veces(q, Tail(ColaElegida)) \in Nat
    BY <2>1, VecesTail
  <2>5. \A q \in Pids : Veces(q, squeue_ready) \in Nat /\ Veces(q, squeue_readyPlus) \in Nat
    BY <1>0, VecesListas
  <2> HIDE DEF p
  <2>6. Uno(p = p) = 1 /\ \A q \in Pids \ {p} : Uno(p = q) = 0
    BY DEF Uno
  <2>7. /\ Veces(p, squeue_ready) + Veces(p, squeue_readyPlus) = Uno(estado[p] = "LISTO")
        /\ Uno(estado[p] = "LISTO") \in {0, 1}
    BY <1>0, <2>3 DEF UnLugar, Uno
  <2>7a. \A q \in Pids :
           \/ /\ Veces(q, squeue_ready) = Veces(q, squeue_ready') + Uno(p = q)
              /\ Veces(q, squeue_readyPlus') = Veces(q, squeue_readyPlus) /\ Veces(q, squeue_ready') \in Nat
           \/ /\ Veces(q, squeue_readyPlus) = Veces(q, squeue_readyPlus') + Uno(p = q)
              /\ Veces(q, squeue_ready') = Veces(q, squeue_ready) /\ Veces(q, squeue_readyPlus') \in Nat
    <3>1. CASE /\ ColaElegida = squeue_ready /\ squeue_ready' = Tail(ColaElegida)
               /\ squeue_readyPlus' = squeue_readyPlus
      BY <2>4, <3>1
    <3>2. CASE /\ ColaElegida = squeue_readyPlus /\ squeue_readyPlus' = Tail(ColaElegida)
               /\ squeue_ready' = squeue_ready
      BY <2>4, <3>2
    <3> QED
      BY <2>2, <3>1, <3>2
  <2>8. /\ Uno(estado[p] = "LISTO") = 1
        /\ Veces(p, squeue_ready') + Veces(p, squeue_readyPlus') = 0
    BY <2>3, <2>5, <2>6, <2>7, <2>7a
  <2>9. estado[p] = "LISTO"
    BY <2>8 DEF Uno
  <2>10. /\ Veces(p, squeue_new) + Uno(pcb_a_mover = p) = 0 /\ p \notin squeue_blocked /\ salidas[p] = 0
    BY <1>0, <2>3, <2>9 DEF UnLugar, Uno
  <2>11. \A q \in Pids \ {p} : /\ Veces(q, squeue_ready') = Veces(q, squeue_ready)
                               /\ Veces(q, squeue_readyPlus') = Veces(q, squeue_readyPlus)
    BY <2>5, <2>6, <2>7a
  <2>12. \A q \in Pids : estado[q] # "EJECUTANDO"
    BY <1>0, <2>2 DEF SinMatar, UnLugar, Pids, NULL
  <2>13. "EJECUTANDO" \in Estados
    BY DEF Estados
  <2>14. UnLugar'
    BY <1>0, <1>1, <2>2, <2>3, <2>8, <2>10, <2>11, <2>12, <2>13, LugarCambia DEF Uno
  <2>15. corto'.pc = "cpu" /\ corto'.pid = p /\ estado'[p] = "EJECUTANDO"
    BY <1>0, <2>2, <2>3 DEF TipoProcesos
  <2>16. EnCPU'
    BY <2>15 DEF EnCPU
  <2> QED
    BY <2>14, <2>16
<1>6. CASE EsperarRecurso \/ SignalListo
  <2> DEFINE p == corto.pid
  <2>1. /\ marco["corto"].op \in {"esperar", "signal"} /\ corto' = corto
        /\ marco' = [marco EXCEPT !["corto"] = MarcoLibre]
    BY <1>6 DEF EsperarRecurso, SignalListo
  <2>2. p \in Pids /\ estado[p] = "EJECUTANDO" /\ corto.pc = "desalojo"
    BY <1>0, <2>1 DEF Inv, Punteros, EnCPU
  <2>3. marco'["corto"].op = "libre"
    BY <1>0, <2>1 DEF TipoMarco, MarcoLibre
  <2>4. /\ Veces(p, squeue_new) + Uno(pcb_a_mover = p) = 0 /\ p \notin squeue_blocked /\ salidas[p] = 0
        /\ Veces(p, squeue_ready) + Veces(p, squeue_readyPlus) = 0
        /\ \A q \in Pids : estado[q] = "EJECUTANDO" => corto'.pid = q
    BY <1>0, <2>1, <2>2 DEF UnLugar, Uno
  <2>5. CASE EsperarRecurso
    <3>1. /\ estado' = [estado EXCEPT ![p] = "BLOQUEADO"] /\ squeue_blocked' = squeue_blocked \cup {p}
          /\ UNCHANGED <<squeue_ready, squeue_readyPlus>>
      BY <2>5 DEF EsperarRecurso, bloquear_proceso, listas
    <3> HIDE DEF p
    <3>2. "BLOQUEADO" \in Estados
      BY DEF Estados
    <3>3. UnLugar'
      BY <1>0, <1>1, <2>2, <2>4, <3>1, <3>2, LugarCambia DEF Uno
    <3>4. estado'[p] = "BLOQUEADO"
      BY <1>0, <2>2, <3>1 DEF TipoProcesos
    <3> QED
      BY <2>1, <2>2, <2>3, <3>3, <3>4 DEF EnCPU, p
  <2>6. CASE SignalListo
    <3>1. proceso_listo(p, FALSE) /\ squeue_blocked' = squeue_blocked
      BY <2>6 DEF SignalListo
    <3> HIDE DEF p
    <3>2. UnLugar'
      BY <1>0, <1>1, <2>2, <2>4, <3>1, ListoLugar
    <3>3. estado'[p] = "LISTO"
      BY <1>0, <2>2, <3>1 DEF TipoProcesos, proceso_listo
    <3> QED
      BY <2>1, <2>2, <2>3, <3>2, <3>3 DEF EnCPU, p
  <2> QED
    BY <1>6, <2>5, <2>6
<1> QED
  BY <1>2, <1>3, <1>4, <1>5, <1>6 DEF CortoPlazo

LEMMA CPULugar ==
  ASSUME "DESCONOCIDO" \notin Retornos, InvLugar, CPU
  PROVE  UnLugar' /\ EnCPU'
<1> DEFINE p == corto.pid
<1>0. Inv /\ UnLugar /\ EnCPU /\ TipoMarco /\ TipoProcesos /\ "corto" \in Hilos
  BY DEF InvLugar, InvPasos, Inv, TypeOK, Hilos
<1>1. /\ UNCHANGED <<squeue_new, pcb_a_mover, squeue_readyPlus>> /\ p \in Pids
      /\ corto'.pc = "desalojo" /\ corto'.pid = p /\ marco["corto"].op = "libre"
      /\ estado[p] = "EJECUTANDO"
  BY <1>0, CPUMarco DEF EnCPU
<1>2. /\ Veces(p, squeue_new) + Uno(pcb_a_mover = p) = 0 /\ p \notin squeue_blocked /\ salidas[p] = 0
      /\ Veces(p, squeue_ready) + Veces(p, squeue_readyPlus) = 0
      /\ \A q \in Pids : estado[q] = "EJECUTANDO" => corto'.pid = q
  BY <1>0, <1>1 DEF UnLugar, Uno
<1>3. ~DesalojoDesconocido
  BY DEF DesalojoDesconocido, Desalojo
<1>4. CASE DesalojoFinQuantum \/ \E r \in Recursos : DesalojoWait(r)
  <2>1. proceso_listo(p, FALSE) /\ UNCHANGED <<squeue_blocked, salidas, marco>>
    BY <1>4 DEF DesalojoFinQuantum, DesalojoWait
  <2> HIDE DEF p
  <2>2. UnLugar'
    BY <1>0, <1>1, <1>2, <2>1, ListoLugar
  <2>3. estado'[p] = "LISTO"
    BY <1>0, <1>1, <2>1 DEF TipoProcesos, proceso_listo
  <2> QED
    BY <1>1, <2>1, <2>2, <2>3 DEF EnCPU
<1>5. CASE \E r \in Recursos : DesalojoWaitBloquea(r) \/ DesalojoSignal(r)
  <2>1. PICK r \in Recursos : DesalojoWaitBloquea(r) \/ DesalojoSignal(r)
    BY <1>5
  <2>2. /\ estado' = [estado EXCEPT ![p] = "EJECUTANDO"]
        /\ UNCHANGED <<squeue_ready, squeue_blocked, salidas>>
    BY <2>1 DEF DesalojoWaitBloquea, DesalojoSignal
  <2>3. marco'["corto"].op \in {"esperar", "signal"}
    <3>1. CASE DesalojoWaitBloquea(r)
      BY <1>0, <3>1 DEF DesalojoWaitBloquea, TipoMarco, MarcoLibre
    <3>2. CASE DesalojoSignal(r)
      <4> DEFINE m == [MarcoLibre EXCEPT !.op = "signal", !.pid = corto.pid]
      <4>1. PICK x : marco' = [marco EXCEPT !["corto"] = [m EXCEPT !.recurso = x]]
        BY <3>2 DEF DesalojoSignal, liberar_recurso
      <4>2. m \in Marcos /\ m.op = "signal"
        BY <1>1 DEF MarcoLibre, Marcos
      <4> HIDE DEF m
      <4> QED
        BY <1>0, <4>1, <4>2 DEF TipoMarco, Marcos
    <3> QED
      BY <2>1, <3>1, <3>2
  <2>4. estado' = estado
    BY <1>0, <1>1, <2>2 DEF TipoProcesos
  <2>5. UnLugar'
    BY <1>0, <1>1, <1>2, <2>2, <2>4, LugarQuieto
  <2> QED
    BY <1>1, <2>3, <2>4, <2>5 DEF EnCPU
<1>6. CASE \E i \in Interfaces : DesalojoIO(i)
  <2>1. /\ estado' = [estado EXCEPT ![p] = "BLOQUEADO"] /\ squeue_blocked' = squeue_blocked \cup {p}
        /\ UNCHANGED <<squeue_ready, salidas, marco>>
    BY <1>6 DEF DesalojoIO, bloquear_proceso
  <2> HIDE DEF p
  <2>2. "BLOQUEADO" \in Estados
    BY DEF Estados
  <2>3. UnLugar'
    BY <1>0, <1>1, <1>2, <2>1, <2>2, LugarCambia DEF Uno
  <2>4. estado'[p] = "BLOQUEADO"
    BY <1>0, <1>1, <2>1 DEF TipoProcesos
  <2> QED
    BY <1>1, <2>1, <2>3, <2>4 DEF EnCPU
<1>7. CASE \E f \in {"FINALIZACION", "OUT_OF_MEMORY", "IO_INVALIDA", "FINALIZACION_CONSOLA"} :
             DesalojoFinaliza(f)
  <2>1. finalizar_proceso("corto", p, TRUE) /\ UNCHANGED <<squeue_ready, squeue_blocked>>
    BY <1>7 DEF DesalojoFinaliza
  <2> HIDE DEF p
  <2>2. estado' = [estado EXCEPT ![p] = "FINALIZADO"] /\ "FINALIZADO" \in Estados
    BY <2>1 DEF finalizar_proceso, Estados
  <2>3. salidas'[p] = 1 /\ \A q \in Pids \ {p} : salidas'[q] = salidas[q]
    BY <1>0, <1>1, <1>2, <2>1 DEF finalizar_proceso, TipoProcesos
  <2>4. UnLugar'
    BY <1>0, <1>1, <1>2, <2>1, <2>2, <2>3, LugarCambia DEF Uno
  <2>5. estado'[p] = "FINALIZADO"
    BY <1>0, <1>1, <2>2 DEF TipoProcesos
  <2>6. marco'["corto"].op = "finalizar"
    BY <1>0, <2>1 DEF finalizar_proceso, TipoMarco
  <2> QED
    BY <1>1, <2>4, <2>5, <2>6 DEF EnCPU
<1>8. CASE DesalojoRecursoInexistente
  <2>1. UNCHANGED <<estado, squeue_ready, squeue_blocked, salidas, marco>> /\ caida'
    BY <1>8 DEF DesalojoRecursoInexistente
  <2>2. UnLugar'
    BY <1>0, <1>1, <1>2, <2>1, LugarQuieto
  <2> QED
    BY <1>1, <2>1, <2>2 DEF EnCPU
<1> QED
  BY <1>3, <1>4, <1>5, <1>6, <1>7, <1>8 DEF CPU

LEMMA LiberacionLugar ==
  ASSUME InvLugar, Liberacion
  PROVE  UnLugar' /\ EnCPU'
<1>0. Inv /\ UnLugar /\ EnCPU /\ SinMatar /\ TipoMarco /\ TipoProcesos /\ TipoRecursos /\ "corto" \in Hilos
  BY DEF InvLugar, InvPasos, Inv, TypeOK, Hilos
<1>1. PICK h \in Hilos : LiberarSiguiente(h) \/ Despertar(h) \/ FinDeProceso(h)
  BY DEF Liberacion
<1>2. h = "corto"
  BY <1>0, <1>1, LiberaCorto
<1>3. /\ UNCHANGED <<squeue_new, pcb_a_mover, salidas, corto>>
      /\ \A q \in Pids : estado[q] = "EJECUTANDO" => corto'.pid = q
  BY <1>0, <1>1 DEF LiberarSiguiente, Despertar, FinDeProceso, MarcoQuieto, UnLugar
<1>4. marco'["corto"].op \in {"esperar", "signal"} <=> marco["corto"].op \in {"esperar", "signal"}
  <2>1. CASE LiberarSiguiente(h)
    BY <1>0, <1>2, <2>1 DEF LiberarSiguiente, liberar_recurso, TipoMarco, Marcos
  <2>2. CASE Despertar(h)
    BY <1>0, <1>2, <2>2 DEF Despertar, TipoMarco, Marcos
  <2>3. CASE FinDeProceso(h)
    BY <1>0, <1>2, <2>3 DEF FinDeProceso, TipoMarco, MarcoLibre
  <2> QED
    BY <1>1, <2>1, <2>2, <2>3
<1>5. CASE UNCHANGED <<estado, listas, squeue_blocked>>
  <2>1. caida' = caida \/ caida'
    BY <1>1 DEF LiberarSiguiente, Despertar, FinDeProceso
  <2>2. UnLugar'
    BY <1>0, <1>3, <1>5, LugarQuieto DEF listas
  <2> QED
    BY <1>0, <1>3, <1>4, <1>5, <2>1, <2>2, CPUQuieta
<1>6. CASE ~UNCHANGED <<estado, listas, squeue_blocked>>
  <2> DEFINE r == marco[h].recurso
             p == Head(colaRecurso[r])
  <2>1. desbloquear_proceso(p) /\ caida' = caida /\ colaRecurso[r] # <<>> /\ r # Nada
    BY <1>1, <1>6 DEF LiberarSiguiente, Despertar, FinDeProceso
  <2>2. p \in Pids
    BY <1>0, <2>1, HeadTailProperties DEF TipoMarco, Marcos, TipoRecursos
  <2> HIDE DEF p
  <2>3. /\ UnLugar'
        /\ estado' = estado \/ (estado[p] = "BLOQUEADO" /\ estado' = [estado EXCEPT ![p] = "LISTO"])
    BY <1>0, <1>3, <2>1, <2>2, DesbloquearLugar
  <2>4. \A q \in Pids : estado'[q] = "EJECUTANDO" <=> estado[q] = "EJECUTANDO"
    BY <1>0, <2>2, <2>3 DEF TipoProcesos
  <2> QED
    BY <1>0, <1>3, <1>4, <2>1, <2>3, <2>4, CPUQuieta
<1> QED
  BY <1>5, <1>6

LEMMA ConsolaLugar ==
  ASSUME InvLugar, Consola
  PROVE  UnLugar' /\ EnCPU'
<1>0. Inv /\ UnLugar /\ EnCPU /\ SinMatar /\ TipoProcesos
  BY DEF InvLugar, InvPasos, Inv, TypeOK
<1>1. CASE CrearProceso
  <2> DEFINE p == pidGlobal
  <2>1. p \in Pids /\ p \notin Creados
    BY <1>0, <1>1, ConstantesValidas DEF CrearProceso, TipoProcesos, Pids, Creados
  <2>2. /\ estado' = [estado EXCEPT ![p] = "NUEVO"] /\ squeue_new' = Append(squeue_new, p)
        /\ UNCHANGED <<squeue_ready, squeue_readyPlus, squeue_blocked, salidas, corto, caida, marco>>
        /\ pcb_a_mover' = pcb_a_mover
    BY <1>1 DEF CrearProceso, ConsolaQuieta, listas
  <2> HIDE DEF p
  <2>3. estado[p] = "SIN_CREAR"
    BY <2>1 DEF InvLugar, InvPasos, Nuevos
  <2>4. /\ Veces(p, squeue_new) + Uno(pcb_a_mover = p) = 0 /\ p \notin squeue_blocked /\ salidas[p] = 0
        /\ Veces(p, squeue_ready) + Veces(p, squeue_readyPlus) = 0
        /\ \A q \in Pids : estado[q] = "EJECUTANDO" => corto'.pid = q
    BY <1>0, <2>1, <2>2, <2>3 DEF UnLugar, Uno
  <2>5. \A q \in Pids : /\ Veces(q, squeue_new') = Veces(q, squeue_new) + Uno(p = q)
                        /\ Veces(q, squeue_new) \in Nat
    BY <1>0, <2>1, <2>2, Listas, VecesAppend
  <2>6. Uno(p = p) = 1 /\ \A q \in Pids \ {p} : Uno(p = q) = 0
    BY DEF Uno
  <2>6a. \A q \in Pids : Uno(pcb_a_mover = q) \in Nat
    BY DEF Uno
  <2>7. /\ Veces(p, squeue_new') + Uno(pcb_a_mover' = p) = 1
        /\ \A q \in Pids \ {p} : Veces(q, squeue_new') = Veces(q, squeue_new)
    BY <2>1, <2>2, <2>4, <2>5, <2>6, <2>6a
  <2>8. "NUEVO" \in Estados
    BY DEF Estados
  <2>9. UnLugar'
    BY <1>0, <2>1, <2>2, <2>4, <2>7, <2>8, LugarCambia DEF Uno
  <2>10. \A q \in Pids : estado'[q] = "EJECUTANDO" <=> estado[q] = "EJECUTANDO"
    BY <1>0, <2>1, <2>2, <2>3 DEF TipoProcesos
  <2> QED
    BY <1>0, <2>2, <2>9, <2>10, CPUQuieta
<1>2. CASE ~CrearProceso
  <2>1. ~FinalizarQuitar /\ ~FinalizarDecidir /\ ~FinalizarTerminar
    BY <1>0, NadaTermina
  <2>2. /\ UNCHANGED <<estado, squeue_new, pcb_a_mover, squeue_ready, squeue_readyPlus, squeue_blocked>>
        /\ UNCHANGED <<salidas, corto, caida, marco>>
    BY <1>2, <2>1 DEF Consola, AvisarProceso, FinalizarCaso, AjustarMulti, FinalizarEjecutando,
       FinalizarBuscar, CambiarMultiprogramacion, DetenerPlanificacion, IniciarPlanificacion,
       ConsolaQuieta, listas
  <2>3. UnLugar'
    BY <1>0, <2>2, LugarQuieto DEF UnLugar
  <2> QED
    BY <1>0, <2>2, <2>3, CPUQuieta
<1> QED
  BY <1>1, <1>2

LEMMA EntradaSalidaLugar ==
  ASSUME InvLugar, EntradaSalida
  PROVE  UnLugar' /\ EnCPU'
<1>0. Inv /\ UnLugar /\ EnCPU /\ SinMatar /\ TipoProcesos /\ TipoInterfaces
  BY DEF InvLugar, InvPasos, Inv, TypeOK
<1>1. PICK i \in Interfaces : FinDeIO(i) \/ SacarDeInterfaz(i)
  BY DEF EntradaSalida
<1>2. UNCHANGED <<squeue_new, pcb_a_mover, corto, caida>>
  BY <1>1 DEF FinDeIO, SacarDeInterfaz, IOQuieto
<1>3. CASE SacarDeInterfaz(i)
  <2>1. UNCHANGED <<estado, squeue_ready, squeue_readyPlus, squeue_blocked, salidas, marco>>
    BY <1>3 DEF SacarDeInterfaz, listas
  <2>2. UnLugar'
    BY <1>0, <1>2, <2>1, LugarQuieto DEF UnLugar
  <2> QED
    BY <1>0, <1>2, <2>1, <2>2, CPUQuieta
<1>4. CASE FinDeIO(i)
  <2> DEFINE p == Head(pedidos[i])
  <2>1. p \in Pids
    <3>1. pedidos[i] \in Seq(Pids) /\ pedidos[i] # <<>>
      BY <1>0, <1>4 DEF FinDeIO, TipoInterfaces
    <3> QED
      BY <3>1, HeadTailProperties
  <2>2. p # pcb_a_finalizar
    BY <1>0, <2>1 DEF SinMatar, Pids, NULL
  <2>3. desbloquear_proceso(p) /\ UNCHANGED <<salidas, marco>>
    BY <1>4, <2>2 DEF FinDeIO
  <2> HIDE DEF p
  <2>4. /\ UnLugar'
        /\ estado' = estado \/ (estado[p] = "BLOQUEADO" /\ estado' = [estado EXCEPT ![p] = "LISTO"])
    BY <1>0, <1>2, <2>1, <2>3, DesbloquearLugar
  <2>5. \A q \in Pids : estado'[q] = "EJECUTANDO" <=> estado[q] = "EJECUTANDO"
    BY <1>0, <2>1, <2>4 DEF TipoProcesos
  <2> QED
    BY <1>0, <1>2, <2>3, <2>4, <2>5, CPUQuieta
<1> QED
  BY <1>1, <1>3, <1>4

LEMMA LugarInductivo ==
  ASSUME "FINALIZAR_PROCESO" \notin Comandos, "DESCONOCIDO" \notin Retornos
  PROVE  InvLugar /\ [Next]_vars => InvLugar'
<1> SUFFICES ASSUME InvLugar, [Next]_vars PROVE InvLugar'
  OBVIOUS
<1>1. InvPasos' /\ SinMatar'
  BY PasosInductivos, SinMatarInductivo DEF InvLugar, InvPasos
<1>2. CASE Next /\ ~PararYSeguir
  <2>1. UnLugar' /\ EnCPU'
    BY <1>2, LargoPlazoLugar, CortoPlazoLugar, CPULugar, LiberacionLugar, ConsolaLugar, EntradaSalidaLugar
       DEF Next
  <2> QED
    BY <1>1, <2>1 DEF InvLugar
<1>3. CASE PararYSeguir \/ UNCHANGED vars
  <2>1. /\ UNCHANGED <<estado, squeue_new, pcb_a_mover, squeue_ready, squeue_readyPlus, squeue_blocked>>
        /\ UNCHANGED <<salidas, corto, caida, marco>>
    BY <1>3 DEF PararYSeguir, Detener, Reanudar, PlanificadoresQuietos, vars, procesos, colas, control
  <2>2. UnLugar' /\ EnCPU'
    BY <2>1, LugarQuieto, CPUQuieta DEF InvLugar, InvPasos, UnLugar
  <2> QED
    BY <1>1, <2>2 DEF InvLugar
<1> QED
  BY <1>2, <1>3

LEMMA LugarInicial == Init => InvLugar
<1> SUFFICES ASSUME Init PROVE InvLugar
  OBVIOUS
<1>1. InvPasos
  BY PasosIniciales
<1>2. \A p : Veces(p, <<>>) = 0
  BY CuantasVacia DEF Veces, Cuantas, Donde
<1>3. "corto" \in Hilos
  BY DEF Hilos
<1>4. SinMatar
  BY <1>3 DEF Init, SinMatar, ConsolaLibre, MarcoLibre
<1>5. UnLugar
  BY <1>2 DEF Init, UnLugar, Uno, Pids, NULL
<1>6. EnCPU
  BY <1>3 DEF Init, EnCPU, MarcoLibre
<1> QED
  BY <1>1, <1>4, <1>5, <1>6 DEF InvLugar

\* Unless FINALIZAR_PROCESO is used or the CPU gives a reason the kernel does not know, no
\* process is lost and none is in two places: the queue a process is in is the one its
\* state names (the pushes and pops of planificador.c and of the connection threads).
THEOREM LugarSiempre ==
  ASSUME "FINALIZAR_PROCESO" \notin Comandos, "DESCONOCIDO" \notin Retornos
  PROVE  Spec => []UnLugar
<1>1. InvLugar => UnLugar
  BY DEF InvLugar
<1> QED
  BY <1>1, LugarInicial, LugarInductivo, PTL DEF Spec

\* Under the same conditions the account of the slots is exact: semMultiprogramacion, the
\* processes admitted and those whose end is under way add up to GRADO_MULTIPROGRAMACION,
\* also while MULTIPROGRAMACION changes it.
THEOREM CuposExactosSiempre ==
  ASSUME "FINALIZAR_PROCESO" \notin Comandos, "DESCONOCIDO" \notin Retornos
  PROVE  Spec => []CuposExactos
<1>1. Init => InvLugar /\ Saldo = 0
  BY LugarInicial, SaldoInicial
<1>2. (InvLugar /\ Saldo = 0) /\ [Next]_vars => (InvLugar /\ Saldo = 0)'
  <2> SUFFICES ASSUME InvLugar, Saldo = 0, [Next]_vars PROVE InvLugar' /\ (Saldo = 0)'
    OBVIOUS
  <2>1. InvLugar' /\ Cuenta /\ Derecho
    BY LugarInductivo, PasoCuenta, LugarDerecho DEF InvLugar
  <2> QED
    BY <2>1 DEF Cuenta
<1>3. InvLugar /\ Saldo = 0 => CuposExactos
  <2> SUFFICES ASSUME InvLugar, Saldo = 0 PROVE CuposExactos
    OBVIOUS
  <2>1. /\ Cardinality(Admitidos) \in Nat /\ Cardinality(Terminando) \in Nat /\ sem["multi"] \in Nat
        /\ grado \in Nat /\ Ajuste \in Int /\ Uno(largo \in {"admitir", "listo"}) \in Nat
        /\ Saldo = Cupos + perdidos - grado /\ consola.n \in Nat /\ perdidos = 0
    BY Numeros DEF InvLugar, InvPasos, SinMatar, Uno
  <2>2. Cupos \in Int
    BY <2>1 DEF Cupos
  <2> QED
    BY <2>1, <2>2 DEF CuposExactos
<1> QED
  BY <1>1, <1>2, <1>3, PTL DEF Spec

-----------------------------------------------------------------------------
(* What a blocked process waits for.                                         *)

EnRecursos(p) == SumFunction([r \in Recursos |-> Veces(p, colaRecurso[r])])
EnPedidos(p) == SumFunction([i \in Interfaces |-> Veces(p, pedidos[i])])

LEMMA EsperaDeTodos ==
  EsperaUnica <=> \A p \in Pids : EnRecursos(p) + EnPedidos(p) = Uno(p \in squeue_blocked)
BY DEF EsperaUnica, EnRecursos, EnPedidos

LEMMA EsperasNaturales ==
  ASSUME Inv, NEW p
  PROVE  EnRecursos(p) \in Nat /\ EnPedidos(p) \in Nat
<1> DEFINE f == [r \in Recursos |-> Veces(p, colaRecurso[r])]
           g == [i \in Interfaces |-> Veces(p, pedidos[i])]
<1>1. TipoRecursos /\ TipoInterfaces
  BY DEF Inv, TypeOK
<1>2. f \in [Recursos -> Nat]
  BY <1>1, VecesCuantas DEF TipoRecursos
<1>3. g \in [Interfaces -> Nat]
  BY <1>1, VecesCuantas DEF TipoInterfaces
<1>4. EnRecursos(p) = SumFunction(f) /\ EnPedidos(p) = SumFunction(g)
  BY DEF EnRecursos, EnPedidos
<1> HIDE DEF f, g
<1>5. IsFiniteSet(Recursos) /\ IsFiniteSet(Interfaces)
  BY ConstantesValidas
<1> QED
  BY <1>2, <1>3, <1>4, <1>5, SumaNatural

\* The queue of one resource changes.
LEMMA ColaCambia ==
  ASSUME Inv, NEW r \in Recursos, NEW s \in Seq(Pids), colaRecurso' = [colaRecurso EXCEPT ![r] = s],
         NEW p
  PROVE  /\ EnRecursos(p) \in Nat /\ EnRecursos(p)' \in Nat
         /\ EnRecursos(p)' + Veces(p, colaRecurso[r]) = EnRecursos(p) + Veces(p, s)
         /\ Veces(p, colaRecurso[r]) <= EnRecursos(p)
<1> DEFINE f == [q \in Recursos |-> Veces(p, colaRecurso[q])]
           g == [q \in Recursos |-> Veces(p, colaRecurso'[q])]
<1>1. colaRecurso \in [Recursos -> Seq(Pids)] /\ colaRecurso' \in [Recursos -> Seq(Pids)]
  BY DEF Inv, TypeOK, TipoRecursos
<1>2. f \in [Recursos -> Nat] /\ g \in [Recursos -> Nat]
  BY <1>1, VecesCuantas
<1>3. f[r] = Veces(p, colaRecurso[r]) /\ g[r] = Veces(p, s)
  BY <1>1
<1>4. \A q \in Recursos \ {r} : g[q] = f[q]
  BY <1>1
<1>5. IsFiniteSet(Recursos)
  BY ConstantesValidas
<1>6. EnRecursos(p) = SumFunction(f) /\ EnRecursos(p)' = SumFunction(g)
  BY DEF EnRecursos
<1> HIDE DEF f, g
<1>7. /\ SumFunction(f) \in Nat /\ SumFunction(g) \in Nat
      /\ SumFunction(g) + f[r] = SumFunction(f) + g[r]
  BY <1>2, <1>4, <1>5, SumaCambia
<1>8. f[r] <= SumFunction(f)
  BY <1>2, <1>5, SumaCubre
<1> QED
  BY <1>3, <1>6, <1>7, <1>8

\* The requests sent to one interface change.
LEMMA PedidosCambian ==
  ASSUME Inv, NEW i \in Interfaces, NEW s \in Seq(Pids), pedidos' = [pedidos EXCEPT ![i] = s],
         NEW p
  PROVE  /\ EnPedidos(p) \in Nat /\ EnPedidos(p)' \in Nat
         /\ EnPedidos(p)' + Veces(p, pedidos[i]) = EnPedidos(p) + Veces(p, s)
         /\ Veces(p, pedidos[i]) <= EnPedidos(p)
<1> DEFINE f == [q \in Interfaces |-> Veces(p, pedidos[q])]
           g == [q \in Interfaces |-> Veces(p, pedidos'[q])]
<1>1. pedidos \in [Interfaces -> Seq(Pids)] /\ pedidos' \in [Interfaces -> Seq(Pids)]
  BY DEF Inv, TypeOK, TipoInterfaces
<1>2. f \in [Interfaces -> Nat] /\ g \in [Interfaces -> Nat]
  BY <1>1, VecesCuantas
<1>3. f[i] = Veces(p, pedidos[i]) /\ g[i] = Veces(p, s)
  BY <1>1
<1>4. \A q \in Interfaces \ {i} : g[q] = f[q]
  BY <1>1
<1>5. IsFiniteSet(Interfaces)
  BY ConstantesValidas
<1>6. EnPedidos(p) = SumFunction(f) /\ EnPedidos(p)' = SumFunction(g)
  BY DEF EnPedidos
<1> HIDE DEF f, g
<1>7. /\ SumFunction(f) \in Nat /\ SumFunction(g) \in Nat
      /\ SumFunction(g) + f[i] = SumFunction(f) + g[i]
  BY <1>2, <1>4, <1>5, SumaCambia
<1>8. f[i] <= SumFunction(f)
  BY <1>2, <1>5, SumaCubre
<1> QED
  BY <1>3, <1>6, <1>7, <1>8

\* Nobody starts to wait, nobody stops.
LEMMA EsperaQuieta ==
  ASSUME EsperaUnica, UNCHANGED <<squeue_blocked, colaRecurso, pedidos>>
  PROVE  EsperaUnica'
BY DEF EsperaUnica

\* A process is blocked and put at the end of one queue.
LEMMA EsperaEmpieza ==
  ASSUME Inv, EsperaUnica, NEW p \in Pids, p \notin squeue_blocked,
         squeue_blocked' = squeue_blocked \cup {p},
         \/ /\ UNCHANGED pedidos
            /\ \E r \in Recursos : colaRecurso' = [colaRecurso EXCEPT ![r] = Append(@, p)]
         \/ /\ UNCHANGED colaRecurso
            /\ \E i \in Interfaces : pedidos' = [pedidos EXCEPT ![i] = Append(@, p)]
  PROVE  EsperaUnica'
<1>1. /\ \A q \in Pids : EnRecursos(q) + EnPedidos(q) = Uno(q \in squeue_blocked)
      /\ \A q \in Pids : EnRecursos(q) \in Nat /\ EnPedidos(q) \in Nat
  BY EsperaDeTodos, EsperasNaturales
<1>3. \A q \in Pids : Uno((q \in squeue_blocked)') = Uno(q \in squeue_blocked) + Uno(p = q)
  BY DEF Uno
<1>4. \A q \in Pids : Uno(p = q) \in Nat /\ Uno(q \in squeue_blocked) \in Nat
  BY DEF Uno
<1>5. ASSUME NEW q \in Pids
      PROVE  EnRecursos(q)' + EnPedidos(q)' = EnRecursos(q) + EnPedidos(q) + Uno(p = q)
  <2>0. EnRecursos(q) \in Nat /\ EnPedidos(q) \in Nat
    BY EsperasNaturales
  <2> DEFINE u == Uno(p = q)
  <2> HIDE DEF u
  <2>u. u = Uno(p = q) /\ u \in Nat
    BY DEF u, Uno
  <2>1. CASE UNCHANGED pedidos /\ \E r \in Recursos : colaRecurso' = [colaRecurso EXCEPT ![r] = Append(@, p)]
    <3>1. PICK r \in Recursos : colaRecurso' = [colaRecurso EXCEPT ![r] = Append(@, p)]
      BY <2>1
    <3> DEFINE s == Append(colaRecurso[r], p)
    <3>2. colaRecurso[r] \in Seq(Pids) /\ s \in Seq(Pids)
      BY AppendProperties DEF Inv, TypeOK, TipoRecursos
    <3>3. Veces(q, s) = Veces(q, colaRecurso[r]) + Uno(p = q) /\ Veces(q, colaRecurso[r]) \in Nat
      BY <3>2, VecesAppend
    <3>4. colaRecurso' = [colaRecurso EXCEPT ![r] = s]
      BY <3>1
    <3> HIDE DEF s
    <3>5. /\ EnRecursos(q)' + Veces(q, colaRecurso[r]) = EnRecursos(q) + Veces(q, s)
          /\ EnRecursos(q)' \in Nat
      BY <3>2, <3>4, ColaCambia
    <3>6. EnPedidos(q)' = EnPedidos(q) /\ EnPedidos(q)' \in Nat
      BY <2>0, <2>1 DEF EnPedidos
    <3>7. /\ EnRecursos(q)' + Veces(q, colaRecurso[r]) = EnRecursos(q) + Veces(q, colaRecurso[r]) + u
          /\ Veces(q, colaRecurso[r]) \in Nat /\ EnRecursos(q)' \in Nat /\ u \in Nat
      BY <2>0, <2>u, <3>3, <3>5
    <3>8. EnRecursos(q)' = EnRecursos(q) + u /\ u \in Nat
      BY SMTT(30), <2>0, <3>7
    <3>9. EnRecursos(q)' + EnPedidos(q)' = EnRecursos(q) + EnPedidos(q) + u
      BY <2>0, <3>6, <3>8
    <3> QED
      BY <2>u, <3>9
  <2>2. CASE UNCHANGED colaRecurso /\ \E i \in Interfaces : pedidos' = [pedidos EXCEPT ![i] = Append(@, p)]
    <3>1. PICK i \in Interfaces : pedidos' = [pedidos EXCEPT ![i] = Append(@, p)]
      BY <2>2
    <3> DEFINE s == Append(pedidos[i], p)
    <3>2. pedidos[i] \in Seq(Pids) /\ s \in Seq(Pids)
      BY AppendProperties DEF Inv, TypeOK, TipoInterfaces
    <3>3. Veces(q, s) = Veces(q, pedidos[i]) + Uno(p = q) /\ Veces(q, pedidos[i]) \in Nat
      BY <3>2, VecesAppend
    <3>4. pedidos' = [pedidos EXCEPT ![i] = s]
      BY <3>1
    <3> HIDE DEF s
    <3>5. /\ EnPedidos(q)' + Veces(q, pedidos[i]) = EnPedidos(q) + Veces(q, s)
          /\ EnPedidos(q)' \in Nat
      BY <3>2, <3>4, PedidosCambian
    <3>6. EnRecursos(q)' = EnRecursos(q) /\ EnRecursos(q)' \in Nat
      BY <2>0, <2>2 DEF EnRecursos
    <3>7. /\ EnPedidos(q)' + Veces(q, pedidos[i]) = EnPedidos(q) + Veces(q, pedidos[i]) + u
          /\ Veces(q, pedidos[i]) \in Nat /\ EnPedidos(q)' \in Nat /\ u \in Nat
      BY <2>0, <2>u, <3>3, <3>5
    <3>8. EnRecursos(q)' + EnPedidos(q)' = EnRecursos(q) + EnPedidos(q) + u
      BY SMTT(30), <2>0, <3>6, <3>7
    <3> QED
      BY <2>u, <3>8
  <2> QED
    BY <2>1, <2>2
<1>6. \A q \in Pids : (EnRecursos(q) + EnPedidos(q) = Uno(q \in squeue_blocked))'
  BY <1>1, <1>3, <1>5
<1> QED
  BY <1>6 DEF EsperaUnica, EnRecursos, EnPedidos

\* The first of one queue is taken and looked for among the blocked: it is there.
LEMMA EsperaTermina ==
  ASSUME Inv, EsperaUnica, NEW p \in Pids,
         squeue_blocked' = squeue_blocked \ {p},
         \/ /\ UNCHANGED pedidos
            /\ \E r \in Recursos : /\ colaRecurso[r] # <<>> /\ p = Head(colaRecurso[r])
                                   /\ colaRecurso' = [colaRecurso EXCEPT ![r] = Tail(@)]
         \/ /\ UNCHANGED colaRecurso
            /\ \E i \in Interfaces : /\ pedidos[i] # <<>> /\ p = Head(pedidos[i])
                                     /\ pedidos' = [pedidos EXCEPT ![i] = Tail(@)]
  PROVE  EsperaUnica'
<1>1. /\ \A q \in Pids : EnRecursos(q) + EnPedidos(q) = Uno(q \in squeue_blocked)
      /\ \A q \in Pids : EnRecursos(q) \in Nat /\ EnPedidos(q) \in Nat
  BY EsperaDeTodos, EsperasNaturales
<1>3. \A q \in Pids : Uno(p = q) \in Nat /\ Uno(q \in squeue_blocked) \in {0, 1} /\ Uno(p = p) = 1
  BY DEF Uno
<1>4. ASSUME NEW q \in Pids
      PROVE  /\ EnRecursos(q)' + EnPedidos(q)' + Uno(p = q) = EnRecursos(q) + EnPedidos(q)
             /\ EnRecursos(q)' \in Nat /\ EnPedidos(q)' \in Nat
  <2>0. EnRecursos(q) \in Nat /\ EnPedidos(q) \in Nat
    BY EsperasNaturales
  <2> DEFINE u == Uno(p = q)
  <2> HIDE DEF u
  <2>u. u = Uno(p = q) /\ u \in Nat
    BY DEF u, Uno
  <2>1. CASE UNCHANGED pedidos
             /\ \E r \in Recursos : /\ colaRecurso[r] # <<>> /\ p = Head(colaRecurso[r])
                                    /\ colaRecurso' = [colaRecurso EXCEPT ![r] = Tail(@)]
    <3>1. PICK r \in Recursos : /\ colaRecurso[r] # <<>> /\ p = Head(colaRecurso[r])
                                /\ colaRecurso' = [colaRecurso EXCEPT ![r] = Tail(@)]
      BY <2>1
    <3> DEFINE s == Tail(colaRecurso[r])
    <3>2. colaRecurso[r] \in Seq(Pids)
      BY DEF Inv, TypeOK, TipoRecursos
    <3>3. s \in Seq(Pids)
      BY <3>1, <3>2, HeadTailProperties
    <3>4. Veces(q, colaRecurso[r]) = Veces(q, s) + Uno(p = q) /\ Veces(q, s) \in Nat
      BY <3>1, <3>2, VecesTail
    <3>5. colaRecurso' = [colaRecurso EXCEPT ![r] = s]
      BY <3>1
    <3> HIDE DEF s
    <3>6. /\ EnRecursos(q)' + Veces(q, colaRecurso[r]) = EnRecursos(q) + Veces(q, s)
          /\ EnRecursos(q)' \in Nat
      BY <3>3, <3>5, ColaCambia
    <3>7. EnPedidos(q)' = EnPedidos(q) /\ EnPedidos(q)' \in Nat
      BY <2>0, <2>1 DEF EnPedidos
    <3>8. /\ EnRecursos(q)' + Veces(q, s) + u = EnRecursos(q) + Veces(q, s)
          /\ Veces(q, s) \in Nat /\ EnRecursos(q)' \in Nat /\ u \in Nat
      BY <2>0, <2>u, <3>4, <3>6
    <3>9. EnRecursos(q)' + u = EnRecursos(q) /\ u \in Nat /\ EnRecursos(q)' \in Nat
      BY SMTT(30), <2>0, <3>8
    <3>10. /\ EnRecursos(q)' + EnPedidos(q)' + u = EnRecursos(q) + EnPedidos(q)
          /\ EnRecursos(q)' \in Nat /\ EnPedidos(q)' \in Nat
      BY <2>0, <3>7, <3>9
    <3> QED
      BY <2>u, <3>10
  <2>2. CASE UNCHANGED colaRecurso
             /\ \E i \in Interfaces : /\ pedidos[i] # <<>> /\ p = Head(pedidos[i])
                                      /\ pedidos' = [pedidos EXCEPT ![i] = Tail(@)]
    <3>1. PICK i \in Interfaces : /\ pedidos[i] # <<>> /\ p = Head(pedidos[i])
                                  /\ pedidos' = [pedidos EXCEPT ![i] = Tail(@)]
      BY <2>2
    <3> DEFINE s == Tail(pedidos[i])
    <3>2. pedidos[i] \in Seq(Pids)
      BY DEF Inv, TypeOK, TipoInterfaces
    <3>3. s \in Seq(Pids)
      BY <3>1, <3>2, HeadTailProperties
    <3>4. Veces(q, pedidos[i]) = Veces(q, s) + Uno(p = q) /\ Veces(q, s) \in Nat
      BY <3>1, <3>2, VecesTail
    <3>5. pedidos' = [pedidos EXCEPT ![i] = s]
      BY <3>1
    <3> HIDE DEF s
    <3>6. /\ EnPedidos(q)' + Veces(q, pedidos[i]) = EnPedidos(q) + Veces(q, s)
          /\ EnPedidos(q)' \in Nat
      BY <3>3, <3>5, PedidosCambian
    <3>7. EnRecursos(q)' = EnRecursos(q) /\ EnRecursos(q)' \in Nat
      BY <2>0, <2>2 DEF EnRecursos
    <3>8. /\ EnPedidos(q)' + Veces(q, s) + u = EnPedidos(q) + Veces(q, s)
          /\ Veces(q, s) \in Nat /\ EnPedidos(q)' \in Nat /\ u \in Nat
      BY <2>0, <2>u, <3>4, <3>6
    <3>9. /\ EnRecursos(q)' + EnPedidos(q)' + u = EnRecursos(q) + EnPedidos(q)
          /\ EnRecursos(q)' \in Nat /\ EnPedidos(q)' \in Nat
      BY SMTT(30), <2>0, <3>7, <3>8
    <3> QED
      BY <2>u, <3>9
  <2> QED
    BY <2>1, <2>2
<1>5. EnRecursos(p) + EnPedidos(p) >= 1
  BY <1>1, <1>3, <1>4
<1>6. p \in squeue_blocked
  BY <1>1, <1>5 DEF Uno
<1>7. \A q \in Pids : Uno((q \in squeue_blocked)') + Uno(p = q) = Uno(q \in squeue_blocked)
  BY <1>6 DEF Uno
<1>8. \A q \in Pids : Uno((q \in squeue_blocked)') \in Nat
  BY DEF Uno
<1>9. \A q \in Pids : (EnRecursos(q) + EnPedidos(q) = Uno(q \in squeue_blocked))'
  <2> SUFFICES ASSUME NEW q \in Pids PROVE EnRecursos(q)' + EnPedidos(q)' = Uno((q \in squeue_blocked)')
    OBVIOUS
  <2>1. EnRecursos(q) + EnPedidos(q) = Uno(q \in squeue_blocked)
    BY <1>1
  <2>2. Uno((q \in squeue_blocked)') + Uno(p = q) = Uno(q \in squeue_blocked)
    BY <1>7
  <2>3. /\ Uno((q \in squeue_blocked)') \in Nat /\ Uno(p = q) \in Nat
        /\ EnRecursos(q) \in Nat /\ EnPedidos(q) \in Nat
    BY <1>1, <1>3, <1>8
  <2>4. /\ EnRecursos(q)' + EnPedidos(q)' + Uno(p = q) = EnRecursos(q) + EnPedidos(q)
        /\ EnRecursos(q)' \in Nat /\ EnPedidos(q)' \in Nat
    BY <1>4
  <2> QED
    BY SMTT(30), <2>1, <2>2, <2>3, <2>4
<1> QED
  BY <1>9 DEF EsperaUnica, EnRecursos, EnPedidos

\* Whoever is unblocked is no longer among the blocked, if it was.
LEMMA DesbloquearQuita ==
  ASSUME NEW p, desbloquear_proceso(p)
  PROVE  squeue_blocked' = squeue_blocked \ {p}
BY DEF desbloquear_proceso

\* A process about to be blocked by WAIT waits for a resource.
ConRecurso == marco["corto"].op = "esperar" => marco["corto"].recurso # Nada

LEMMA RecursoInductivo ==
  ASSUME Inv, SinMatar, ConRecurso, [Next]_vars
  PROVE  ConRecurso'
<1>0. TipoMarco /\ "corto" \in Hilos
  BY DEF Inv, TypeOK, Hilos
<1>1. CASE marco'["corto"] = marco["corto"]
  BY <1>1 DEF ConRecurso
<1>2. CASE CortoPlazo
  <2>1. marco' = marco \/ marco' = [marco EXCEPT !["corto"] = MarcoLibre]
    BY <1>2 DEF CortoPlazo, CortoSemReady, CortoDetenida, CortoSemCorto, CortoElegir, CortoNadaListo,
       CortoDespachar, CortoCae, EsperarRecurso, SignalListo, CortoSoltar, SinDespachar
  <2> QED
    BY <1>0, <1>1, <2>1 DEF TipoMarco, ConRecurso, MarcoLibre
<1>3. CASE CPU
  <2>1. CASE \E r \in Recursos : DesalojoWaitBloquea(r)
    <3>1. PICK r \in Recursos : DesalojoWaitBloquea(r)
      BY <2>1
    <3>2. marco'["corto"].recurso = r /\ r # Nada
      BY <1>0, <3>1, ConstantesValidas DEF DesalojoWaitBloquea, TipoMarco, MarcoLibre
    <3> QED
      BY <3>2 DEF ConRecurso
  <2>2. CASE \E r \in Recursos : DesalojoSignal(r)
    <3>1. PICK r \in Recursos : DesalojoSignal(r)
      BY <2>2
    <3>2. marco'["corto"].op = "signal"
      BY <1>0, <3>1 DEF DesalojoSignal, liberar_recurso, TipoMarco, MarcoLibre
    <3> QED
      BY <3>2 DEF ConRecurso
  <2>3. CASE \E m \in {"FINALIZACION", "OUT_OF_MEMORY", "IO_INVALIDA", "FINALIZACION_CONSOLA"} :
               DesalojoFinaliza(m)
    <3>1. marco'["corto"].op = "finalizar"
      BY <1>0, <2>3 DEF DesalojoFinaliza, finalizar_proceso, TipoMarco
    <3> QED
      BY <3>1 DEF ConRecurso
  <2>4. CASE marco' = marco
    BY <2>4 DEF ConRecurso
  <2> QED
    BY <1>3, <2>1, <2>2, <2>3, <2>4 DEF CPU, DesalojoFinQuantum, DesalojoRecursoInexistente,
       DesalojoDesconocido, DesalojoWait, DesalojoIO
<1>4. CASE Liberacion
  <2>1. PICK h \in Hilos : LiberarSiguiente(h) \/ Despertar(h) \/ FinDeProceso(h)
    BY <1>4 DEF Liberacion
  <2>2. h = "corto"
    BY <2>1, LiberaCorto
  <2>3. CASE LiberarSiguiente(h)
    <3>1. marco'["corto"].op = "finalizar"
      BY <1>0, <2>2, <2>3 DEF LiberarSiguiente, liberar_recurso, TipoMarco, Marcos
    <3> QED
      BY <3>1 DEF ConRecurso
  <2>4. CASE Despertar(h)
    <3>1. marco'["corto"].op = marco["corto"].op /\ marco["corto"].op # "esperar"
      BY <1>0, <2>2, <2>4 DEF Despertar, TipoMarco, Marcos
    <3> QED
      BY <3>1 DEF ConRecurso
  <2>5. CASE FinDeProceso(h)
    <3>1. marco'["corto"].op = "libre"
      BY <1>0, <2>2, <2>5 DEF FinDeProceso, TipoMarco, MarcoLibre
    <3> QED
      BY <3>1 DEF ConRecurso
  <2> QED
    BY <2>1, <2>3, <2>4, <2>5
<1>5. CASE LargoPlazo
  <2>1. LargoQuieto
    BY <1>5 DEF LargoPlazo, LargoSemNew, LargoDetenida, LargoSemLargo, LargoReponer, LargoVacia,
       LargoSemMulti, LargoRenunciar, LargoSacar, LargoListo, LargoCae
  <2> QED
    BY <1>1, <2>1 DEF LargoQuieto
<1>6. CASE Consola
  <2>1. marco' = marco
    BY <1>6, NadaTermina DEF Consola, CrearProceso, AvisarProceso, FinalizarCaso, AjustarMulti,
       FinalizarEjecutando, FinalizarBuscar, CambiarMultiprogramacion, DetenerPlanificacion,
       IniciarPlanificacion, SinMatar
  <2> QED
    BY <1>1, <2>1
<1>7. CASE PararYSeguir \/ UNCHANGED vars
  BY <1>1, <1>7 DEF PararYSeguir, Detener, Reanudar, PlanificadoresQuietos, vars, control
<1>8. CASE EntradaSalida
  <2>1. PICK i \in Interfaces : FinDeIO(i) \/ SacarDeInterfaz(i)
    BY <1>8 DEF EntradaSalida
  <2>2. i # "corto"
    BY ConstantesValidas
  <2>3. marco'["corto"] = marco["corto"]
    BY <1>0, <2>1, <2>2 DEF FinDeIO, SacarDeInterfaz, finalizar_proceso, TipoMarco
  <2> QED
    BY <1>1, <2>3
<1> QED
  BY <1>2, <1>3, <1>4, <1>5, <1>6, <1>7, <1>8 DEF Next

LEMMA CortoPlazoEspera ==
  ASSUME InvLugar, ConRecurso, EsperaUnica, CortoPlazo
  PROVE  EsperaUnica'
<1>0. Inv /\ EnCPU /\ UnLugar /\ TipoMarco /\ "corto" \in Hilos
  BY DEF InvLugar, InvPasos, Inv, TypeOK, Hilos
<1>1. CASE EsperarRecurso
  <2> DEFINE p == corto.pid
             r == marco["corto"].recurso
  <2>1. marco["corto"].op = "esperar" /\ corto.pc = "desalojo"
    BY <1>0, <1>1 DEF EsperarRecurso, Inv, Punteros
  <2>2. p \in Pids /\ p \notin squeue_blocked
    <3>1. p \in Pids /\ estado[p] = "EJECUTANDO"
      BY <1>0, <2>1 DEF Inv, Punteros, EnCPU
    <3> QED
      BY <1>0, <3>1 DEF UnLugar
  <2>3. /\ squeue_blocked' = squeue_blocked \cup {p} /\ UNCHANGED pedidos
        /\ colaRecurso' = [colaRecurso EXCEPT ![r] = Append(@, p)]
    BY <1>1 DEF EsperarRecurso, bloquear_proceso, interfaces
  <2>4. r \in Recursos
    BY <1>0, <2>1 DEF ConRecurso, TipoMarco, Marcos
  <2> QED
    BY <1>0, <2>2, <2>3, <2>4, EsperaEmpieza
<1>2. CASE ~EsperarRecurso
  <2>1. UNCHANGED <<squeue_blocked, colaRecurso, pedidos>>
    BY <1>2 DEF CortoPlazo, CortoSemReady, CortoDetenida, CortoSemCorto, CortoElegir, CortoNadaListo,
       CortoDespachar, CortoCae, SignalListo, CortoSoltar, SinDespachar, recursos, interfaces
  <2> QED
    BY <2>1, EsperaQuieta
<1> QED
  BY <1>1, <1>2

LEMMA CPUEspera ==
  ASSUME InvLugar, EsperaUnica, CPU
  PROVE  EsperaUnica'
<1> DEFINE p == corto.pid
<1>0. Inv /\ EnCPU /\ UnLugar
  BY DEF InvLugar, InvPasos
<1>1. CASE \E i \in Interfaces : DesalojoIO(i)
  <2>1. PICK i \in Interfaces : DesalojoIO(i)
    BY <1>1
  <2>2. p \in Pids /\ estado[p] = "EJECUTANDO"
    BY <1>0, CPUMarco DEF EnCPU
  <2>3. p \notin squeue_blocked
    BY <1>0, <2>2 DEF UnLugar
  <2>4. /\ squeue_blocked' = squeue_blocked \cup {p} /\ UNCHANGED colaRecurso
        /\ pedidos' = [pedidos EXCEPT ![i] = Append(@, p)]
    BY <2>1 DEF DesalojoIO, bloquear_proceso, recursos
  <2> QED
    BY <1>0, <2>2, <2>3, <2>4, EsperaEmpieza
<1>2. CASE ~ \E i \in Interfaces : DesalojoIO(i)
  <2>1. UNCHANGED <<squeue_blocked, colaRecurso, pedidos>>
    BY <1>2 DEF CPU, DesalojoFinQuantum, DesalojoWait, DesalojoWaitBloquea, DesalojoSignal,
       DesalojoFinaliza, DesalojoRecursoInexistente, DesalojoDesconocido, recursos, interfaces
  <2> QED
    BY <2>1, EsperaQuieta
<1> QED
  BY <1>1, <1>2

LEMMA LiberacionEspera ==
  ASSUME InvLugar, EsperaUnica, Liberacion
  PROVE  EsperaUnica'
<1>0. Inv /\ TipoMarco /\ TipoRecursos
  BY DEF InvLugar, InvPasos, Inv, TypeOK
<1>1. PICK h \in Hilos : LiberarSiguiente(h) \/ Despertar(h) \/ FinDeProceso(h)
  BY DEF Liberacion
<1>2. UNCHANGED pedidos
  BY <1>1 DEF LiberarSiguiente, Despertar, FinDeProceso, MarcoQuieto, interfaces
<1>3. CASE UNCHANGED <<squeue_blocked, colaRecurso>>
  BY <1>2, <1>3, EsperaQuieta
<1>4. CASE ~UNCHANGED <<squeue_blocked, colaRecurso>>
  <2> DEFINE r == marco[h].recurso
             p == Head(colaRecurso[r])
  <2>1. /\ r # Nada /\ colaRecurso[r] # <<>> /\ desbloquear_proceso(p)
        /\ colaRecurso' = [colaRecurso EXCEPT ![r] = Tail(@)]
    BY <1>1, <1>4 DEF LiberarSiguiente, Despertar, FinDeProceso, recursos
  <2>2. r \in Recursos
    BY <1>0, <2>1 DEF TipoMarco, Marcos
  <2>3. p \in Pids
    BY <1>0, <2>1, <2>2, HeadTailProperties DEF TipoRecursos
  <2>4. squeue_blocked' = squeue_blocked \ {p}
    BY <2>1, DesbloquearQuita
  <2> QED
    BY <1>0, <1>2, <2>1, <2>2, <2>3, <2>4, EsperaTermina
<1> QED
  BY <1>3, <1>4

LEMMA EntradaSalidaEspera ==
  ASSUME InvLugar, EsperaUnica, EntradaSalida
  PROVE  EsperaUnica'
<1>0. Inv /\ SinMatar /\ TipoInterfaces
  BY DEF InvLugar, InvPasos, Inv, TypeOK
<1>1. PICK i \in Interfaces : FinDeIO(i) \/ SacarDeInterfaz(i)
  BY DEF EntradaSalida
<1>2. UNCHANGED colaRecurso
  BY <1>1 DEF FinDeIO, SacarDeInterfaz, IOQuieto, recursos
<1>3. CASE SacarDeInterfaz(i)
  BY <1>2, <1>3, EsperaQuieta DEF SacarDeInterfaz
<1>4. CASE FinDeIO(i)
  <2> DEFINE p == Head(pedidos[i])
  <2>1. pedidos[i] # <<>> /\ pedidos' = [pedidos EXCEPT ![i] = Tail(@)]
    BY <1>4 DEF FinDeIO
  <2>2. p \in Pids
    BY <1>0, <2>1, HeadTailProperties DEF TipoInterfaces
  <2>3. p # pcb_a_finalizar
    BY <1>0, <2>2 DEF SinMatar, Pids, NULL
  <2>4. desbloquear_proceso(p)
    BY <1>4, <2>3 DEF FinDeIO
  <2>5. squeue_blocked' = squeue_blocked \ {p}
    BY <2>4, DesbloquearQuita
  <2> QED
    BY <1>0, <1>2, <2>1, <2>2, <2>5, EsperaTermina
<1> QED
  BY <1>1, <1>3, <1>4

InvEspera == InvLugar /\ ConRecurso /\ EsperaUnica

LEMMA EsperaInductiva ==
  ASSUME "FINALIZAR_PROCESO" \notin Comandos, "DESCONOCIDO" \notin Retornos
  PROVE  InvEspera /\ [Next]_vars => InvEspera'
<1> SUFFICES ASSUME InvEspera, [Next]_vars PROVE InvEspera'
  OBVIOUS
<1>0. InvLugar /\ ConRecurso /\ EsperaUnica /\ Inv /\ SinMatar
  BY DEF InvEspera, InvLugar, InvPasos
<1>1. InvLugar' /\ ConRecurso'
  BY <1>0, LugarInductivo, RecursoInductivo
<1>2. CASE CortoPlazo \/ CPU \/ Liberacion \/ EntradaSalida
  <2>1. EsperaUnica'
    BY <1>0, <1>2, CortoPlazoEspera, CPUEspera, LiberacionEspera, EntradaSalidaEspera
  <2> QED
    BY <1>1, <2>1 DEF InvEspera
<1>3. CASE LargoPlazo \/ Consola \/ PararYSeguir \/ UNCHANGED vars
  <2>1. UNCHANGED <<squeue_blocked, colaRecurso, pedidos>>
    <3>1. CASE LargoPlazo
      <4>1. LargoQuieto
        BY <3>1 DEF LargoPlazo, LargoSemNew, LargoDetenida, LargoSemLargo, LargoReponer, LargoVacia,
           LargoSemMulti, LargoRenunciar, LargoSacar, LargoListo, LargoCae
      <4> QED
        BY <4>1 DEF LargoQuieto, recursos, interfaces
    <3>2. CASE Consola
      BY <1>0, <3>2, NadaTermina DEF Consola, CrearProceso, AvisarProceso, FinalizarCaso, AjustarMulti,
         FinalizarEjecutando, FinalizarBuscar, CambiarMultiprogramacion, DetenerPlanificacion,
         IniciarPlanificacion, ConsolaQuieta, recursos, interfaces, SinMatar
    <3>3. CASE PararYSeguir \/ UNCHANGED vars
      BY <3>3 DEF PararYSeguir, Detener, Reanudar, PlanificadoresQuietos, vars, colas, recursos, interfaces
    <3> QED
      BY <1>3, <3>1, <3>2, <3>3
  <2>2. EsperaUnica'
    BY <1>0, <2>1, EsperaQuieta
  <2> QED
    BY <1>1, <2>2 DEF InvEspera
<1> QED
  BY <1>2, <1>3 DEF Next

LEMMA EsperaInicial == Init => InvEspera
<1> SUFFICES ASSUME Init PROVE InvEspera
  OBVIOUS
<1>1. InvLugar /\ Inv
  BY LugarInicial DEF InvLugar, InvPasos
<1>2. \A p : Veces(p, <<>>) = 0
  BY CuantasVacia DEF Veces, Cuantas, Donde
<1>3. "corto" \in Hilos
  BY DEF Hilos
<1>4. ConRecurso
  BY <1>3 DEF Init, ConRecurso, MarcoLibre
<1>5. ASSUME NEW p \in Pids PROVE EnRecursos(p) + EnPedidos(p) = Uno(p \in squeue_blocked)
  <2> DEFINE f == [r \in Recursos |-> Veces(p, colaRecurso[r])]
             g == [i \in Interfaces |-> Veces(p, pedidos[i])]
  <2>1. f \in [Recursos -> Nat] /\ \A r \in Recursos : f[r] = 0
    BY <1>2 DEF Init
  <2>2. g \in [Interfaces -> Nat] /\ \A i \in Interfaces : g[i] = 0
    BY <1>2 DEF Init
  <2>3. EnRecursos(p) = SumFunction(f) /\ EnPedidos(p) = SumFunction(g)
    BY DEF EnRecursos, EnPedidos
  <2> HIDE DEF f, g
  <2>4. IsFiniteSet(Recursos) /\ IsFiniteSet(Interfaces)
    BY ConstantesValidas
  <2>5. SumFunction(f) = 0 /\ SumFunction(g) = 0
    BY <2>1, <2>2, <2>4, SumaDeCeros
  <2> QED
    BY <2>3, <2>5 DEF Init, Uno
<1> QED
  BY <1>1, <1>4, <1>5, EsperaDeTodos DEF InvEspera

\* Under the same conditions a blocked process waits for exactly one resource or one end
\* of I/O, and nothing that is not blocked waits: what manejar_recurso and
\* ejecutar_intruccion_io queue, and what liberar_recurso and the connection threads take
\* out, agrees with squeue_blocked.
THEOREM EsperaSiempre ==
  ASSUME "FINALIZAR_PROCESO" \notin Comandos, "DESCONOCIDO" \notin Retornos
  PROVE  Spec => []EsperaUnica
<1>1. InvEspera => EsperaUnica
  BY DEF InvEspera
<1> QED
  BY <1>1, EsperaInicial, EsperaInductiva, PTL DEF Spec

-----------------------------------------------------------------------------
(* A stop that holds.  Without kills semReady counts the ready processes     *)
(* exactly, so the short-term scheduler never finds its queue empty and      *)
(* never posts semPlanificadorCorto (CortoNadaListo); what is left of that   *)
(* semaphore once detener_planificadores marks the stop is nothing.          *)

AvisosJustos == sem["ready"] + Uno(EnMano) = Listos

\* A step that pushes, or one that touches neither the ready queues nor semReady.
Empuja == \E p \in Pids : proceso_listo(p, FALSE) \/ desbloquear_proceso(p)
Ajeno  == UNCHANGED listas /\ sem'["ready"] = sem["ready"] /\ sem'["corto"] = sem["corto"]

LEMMA JustosConservados ==
  ASSUME Inv, Inv', SinPlus, AvisosJustos, Empuja \/ Ajeno, EnMano' = EnMano
  PROVE  AvisosJustos' /\ sem'["corto"] = sem["corto"]
<1>1. /\ Listos \in Nat /\ sem["ready"] \in Nat
      /\ Listos' \in Nat /\ sem'["ready"] \in Nat
  <2>1. Listos' \in Nat /\ sem'["ready"] \in Nat
    BY LenProperties DEF Inv, TypeOK, TipoColas, TipoGlobales, Semaforos, Listos
  <2> QED
    BY <2>1, ListosNat
<1>2. sem'["ready"] + Listos = sem["ready"] + Listos'
  <2>1. ASSUME NEW p \in Pids, proceso_listo(p, FALSE) PROVE sem'["ready"] + Listos = sem["ready"] + Listos'
    <3>1. sem'["ready"] = sem["ready"] + 1 /\ Listos' = Listos + 1
      BY <2>1, ListoAvisa
    <3> QED
      BY <1>1, <3>1
  <2>2. ASSUME NEW p \in Pids, desbloquear_proceso(p) PROVE sem'["ready"] + Listos = sem["ready"] + Listos'
    BY <2>2, DesbloquearAvisa
  <2>3. CASE Ajeno
    BY <1>1, <2>3 DEF Ajeno, listas, Listos
  <2> QED
    BY <2>1, <2>2, <2>3 DEF Empuja
<1>3. Uno(EnMano)' = Uno(EnMano) /\ Uno(EnMano) \in Nat
  BY DEF Uno
<1>4. AvisosJustos'
  BY <1>1, <1>2, <1>3 DEF AvisosJustos
<1>5. sem'["corto"] = sem["corto"]
  <2>1. CASE Empuja
    <3>1. Post("ready") \/ sem' = sem
      BY <2>1 DEF Empuja, proceso_listo, desbloquear_proceso
    <3> QED
      BY <3>1 DEF Post, Inv, TypeOK, TipoGlobales, Semaforos
  <2> QED
    BY <2>1 DEF Ajeno
<1> QED
  BY <1>4, <1>5

LEMMA OtrosSemaforos ==
  ASSUME Inv, NEW s \in Semaforos \ {"ready", "corto"}, UNCHANGED listas, Post(s) \/ Wait(s)
  PROVE  Ajeno
BY DEF Inv, TypeOK, TipoGlobales, Semaforos, Post, Wait, Ajeno

LEMMA LargoPlazoJusto ==
  ASSUME Inv, LargoPlazo
  PROVE  (Empuja \/ Ajeno) /\ UNCHANGED <<corto, detenida, det, rea>>
<1>1. LargoQuieto
  BY DEF LargoPlazo, LargoSemNew, LargoDetenida, LargoSemLargo, LargoReponer, LargoVacia,
     LargoSemMulti, LargoRenunciar, LargoSacar, LargoListo, LargoCae
<1>2. UNCHANGED <<corto, detenida, det, rea>>
  BY <1>1 DEF LargoQuieto
<1>3. CASE LargoListo
  <2>1. pcb_a_mover \in Pids /\ proceso_listo(pcb_a_mover, FALSE)
    BY <1>3 DEF LargoListo, Inv, Punteros
  <2> QED
    BY <1>2, <2>1 DEF Empuja
<1>4. CASE LargoReponer
  BY <1>2, <1>4 DEF LargoReponer, SinMover, Ajeno, Inv, TypeOK, TipoGlobales, Semaforos
<1>5. CASE LargoDetenida \/ LargoVacia \/ LargoSacar \/ LargoCae
  BY <1>2, <1>5 DEF LargoDetenida, LargoVacia, LargoSacar, LargoCae, SinMover, Ajeno
<1>6. CASE LargoSemNew \/ LargoSemLargo \/ LargoSemMulti \/ LargoRenunciar
  <2>1. UNCHANGED listas /\ (Wait("new") \/ Wait("largo") \/ Wait("multi") \/ Post("multi"))
    BY <1>6 DEF LargoSemNew, LargoSemLargo, LargoSemMulti, LargoRenunciar, SinMover
  <2> QED
    BY <1>2, <2>1, OtrosSemaforos DEF Semaforos
<1> QED
  BY <1>3, <1>4, <1>5, <1>6 DEF LargoPlazo

LEMMA CPUJusto ==
  ASSUME Inv, CPU
  PROVE  (Empuja \/ Ajeno) /\ EnMano' = EnMano /\ UNCHANGED <<detenida, det, rea>>
<1>1. /\ corto.pc = "cpu" /\ corto'.pc = "desalojo" /\ corto.pid \in Pids
      /\ squeue_readyPlus' = squeue_readyPlus
  BY SMTT(30), CPUMarco
<1>2. UNCHANGED <<detenida, det, rea>>
  BY DEF CPU, DesalojoFinQuantum, DesalojoWait, DesalojoWaitBloquea, DesalojoSignal, DesalojoIO,
     DesalojoFinaliza, DesalojoRecursoInexistente, DesalojoDesconocido, Desalojo, CortoQuieto
<1>3. proceso_listo(corto.pid, FALSE) \/ UNCHANGED <<squeue_ready, sem>>
  BY DEF CPU, DesalojoFinQuantum, DesalojoWait, DesalojoWaitBloquea, DesalojoSignal, DesalojoIO,
     DesalojoFinaliza, DesalojoRecursoInexistente, DesalojoDesconocido
<1>4. Empuja \/ Ajeno
  BY <1>1, <1>3 DEF Empuja, Ajeno, listas
<1> QED
  BY <1>1, <1>2, <1>4 DEF EnMano

LEMMA LiberacionJusta ==
  ASSUME Inv, Liberacion
  PROVE  (Empuja \/ Ajeno) /\ UNCHANGED <<corto, detenida, det, rea>>
<1>0. PICK h \in Hilos : LiberarSiguiente(h) \/ Despertar(h) \/ FinDeProceso(h)
  BY DEF Liberacion
<1>1. UNCHANGED <<corto, detenida, det, rea>>
  BY <1>0 DEF LiberarSiguiente, Despertar, FinDeProceso, MarcoQuieto
<1>2. CASE LiberarSiguiente(h)
  BY <1>1, <1>2 DEF LiberarSiguiente, Ajeno
<1>3. CASE Despertar(h)
  <2> DEFINE r == marco[h].recurso
  <2>1. r \in Recursos
    BY <1>3 DEF Despertar, Inv, TypeOK, TipoMarco, Marcos
  <2>2. \/ colaRecurso[r] # <<>> /\ desbloquear_proceso(Head(colaRecurso[r]))
        \/ UNCHANGED <<listas, sem>>
    BY <1>3 DEF Despertar
  <2>3. colaRecurso[r] # <<>> => Head(colaRecurso[r]) \in Pids
    BY <2>1, HeadTailProperties DEF Inv, TypeOK, TipoRecursos
  <2> HIDE DEF r
  <2> QED
    BY <1>1, <2>2, <2>3 DEF Empuja, Ajeno
<1>4. CASE FinDeProceso(h)
  <2>1. UNCHANGED listas /\ (Post("multi") \/ sem' = sem)
    BY <1>4 DEF FinDeProceso
  <2> QED
    BY <1>1, <2>1, OtrosSemaforos DEF Semaforos, Ajeno
<1> QED
  BY <1>0, <1>2, <1>3, <1>4

LEMMA ConsolaJusta ==
  ASSUME Inv, SinMatar, Consola
  PROVE  Ajeno /\ UNCHANGED <<corto, detenida>>
<1>1. ~FinalizarQuitar /\ ~FinalizarDecidir /\ ~FinalizarTerminar
  BY NadaTermina
<1>2. ConsolaQuieta
  BY <1>1 DEF Consola, CrearProceso, AvisarProceso, FinalizarEjecutando, FinalizarBuscar, FinalizarCaso,
     CambiarMultiprogramacion, AjustarMulti, DetenerPlanificacion, IniciarPlanificacion
<1>3. UNCHANGED sem \/ Post("new") \/ Post("multi") \/ Wait("multi")
  BY <1>1 DEF Consola, CrearProceso, AvisarProceso, FinalizarEjecutando, FinalizarBuscar, FinalizarCaso,
     CambiarMultiprogramacion, AjustarMulti, DetenerPlanificacion, IniciarPlanificacion
<1>4. UNCHANGED <<listas, corto, detenida>>
  BY <1>2 DEF ConsolaQuieta
<1> QED
  BY <1>3, <1>4, OtrosSemaforos DEF Semaforos, Ajeno

LEMMA EntradaSalidaJusta ==
  ASSUME Inv, EntradaSalida
  PROVE  (Empuja \/ Ajeno) /\ UNCHANGED <<corto, detenida, det, rea>>
<1>0. PICK i \in Interfaces : FinDeIO(i) \/ SacarDeInterfaz(i)
  BY DEF EntradaSalida
<1>1. UNCHANGED <<corto, detenida, det, rea>>
  BY <1>0 DEF FinDeIO, SacarDeInterfaz, IOQuieto
<1>2. \/ pedidos[i] # <<>> /\ desbloquear_proceso(Head(pedidos[i]))
      \/ UNCHANGED listas /\ sem' = sem
  BY <1>0 DEF FinDeIO, SacarDeInterfaz
<1>3. pedidos[i] # <<>> => Head(pedidos[i]) \in Pids
  BY HeadTailProperties DEF Inv, TypeOK, TipoInterfaces
<1> QED
  BY <1>1, <1>2, <1>3 DEF Empuja, Ajeno

LEMMA PararYSeguirJusto ==
  ASSUME Inv, AvisosJustos, PararYSeguir
  PROVE  AvisosJustos'
<1>1. PlanificadoresQuietos
  BY DEF PararYSeguir, Detener, Reanudar
<1>2. UNCHANGED listas /\ EnMano' = EnMano
  BY <1>1 DEF PlanificadoresQuietos, colas, listas, EnMano
<1>3. sem'["ready"] = sem["ready"]
  <2>1. \/ UNCHANGED sem \/ Wait("largo") \/ Wait("corto")
        \/ sem' = [sem EXCEPT !["largo"] = @ + 1, !["corto"] = @ + 1, !["new"] = @ + 1]
    BY DEF PararYSeguir, Detener, Reanudar, DetLeer, DetDrenar, DetMarcar, ReaPublicar, ReaMarcar
  <2>2. sem \in [Semaforos -> Nat]
    BY DEF Inv, TypeOK, TipoGlobales
  <2> QED
    BY <2>1, <2>2, OtroSemaforo DEF Semaforos
<1>4. Uno(EnMano)' = Uno(EnMano)
  BY <1>2 DEF Uno
<1> QED
  BY <1>2, <1>3, <1>4 DEF AvisosJustos, Listos, listas

\* The short-term scheduler takes a token for each process it takes, and finds one.
LEMMA CortoPlazoJusto ==
  ASSUME Inv, Inv', SinPlus, AvisosJustos, CortoPlazo
  PROVE  /\ AvisosJustos' /\ UNCHANGED <<detenida, det, rea>>
         /\ sem'["corto"] = sem["corto"] \/ (CortoSemCorto /\ sem'["corto"] = sem["corto"] - 1)
<1>0. /\ TipoGlobales /\ TipoPlazos /\ Punteros
      /\ Listos \in Nat /\ sem["ready"] \in Nat
      /\ Len(squeue_ready) \in Nat /\ Len(squeue_readyPlus) \in Nat
  BY ListosNat DEF Inv, TypeOK
<1>1. UNCHANGED <<detenida, det, rea>>
  BY DEF CortoPlazo, CortoSemReady, CortoDetenida, CortoSemCorto, CortoElegir, CortoNadaListo,
     CortoDespachar, CortoCae, EsperarRecurso, SignalListo, CortoSoltar, CortoQuieto
<1>2. CASE CortoSemReady
  <2>1. corto.pc = "semReady" /\ corto'.pc = "detenida"
    BY <1>0, <1>2 DEF CortoSemReady, TipoPlazos
  <2>2. ~EnMano /\ EnMano' /\ Listos' = Listos
    BY <1>2, <2>1 DEF CortoSemReady, SinDespachar, listas, EnMano, Listos
  <2>3. sem'["ready"] = sem["ready"] - 1 /\ sem'["corto"] = sem["corto"]
    BY <1>0, <1>2 DEF CortoSemReady, Wait, TipoGlobales, Semaforos
  <2>4. AvisosJustos'
    BY <1>0, <2>2, <2>3 DEF AvisosJustos, Uno
  <2> QED
    BY <1>1, <2>3, <2>4
<1>3. CASE CortoDetenida \/ CortoElegir
  <2>1. EnMano' = EnMano /\ Ajeno
    BY <1>0, <1>3 DEF CortoDetenida, CortoElegir, SinDespachar, TipoPlazos, EnMano, Ajeno
  <2> QED
    BY <1>1, <2>1, JustosConservados
<1>4. CASE CortoSemCorto
  <2>1. EnMano /\ EnMano' /\ Listos' = Listos
    BY <1>0, <1>4 DEF CortoSemCorto, SinDespachar, TipoPlazos, EnMano, Listos, listas
  <2>2. sem'["ready"] = sem["ready"] /\ sem'["corto"] = sem["corto"] - 1
    BY <1>0, <1>4 DEF CortoSemCorto, Wait, TipoGlobales, Semaforos
  <2>3. AvisosJustos'
    BY <2>1, <2>2 DEF AvisosJustos, Uno
  <2> QED
    BY <1>1, <1>4, <2>2, <2>3
<1>5. CASE CortoNadaListo
  <2>1. EnMano /\ Listos = 0
    BY <1>5 DEF CortoNadaListo, EnMano, Listos, HayPrioridad, SinPlus
  <2>2. sem["ready"] + 1 = 0
    BY <2>1 DEF AvisosJustos, Uno
  <2> QED
    BY <1>0, <2>2
<1>6. CASE CortoDespachar
  <2>1. EnMano /\ ~EnMano' /\ sem' = sem
    BY <1>6 DEF CortoDespachar, EnMano
  <2>2. Listos' = Listos - 1
    <3>1. CASE corto.pc = "sacarPlus"
      <4>1. /\ squeue_readyPlus # <<>> /\ squeue_readyPlus' = Tail(squeue_readyPlus)
            /\ squeue_ready' = squeue_ready
        BY <1>6, <3>1 DEF CortoDespachar, ColaElegida
      <4>2. Len(squeue_readyPlus') = Len(squeue_readyPlus) - 1
        BY <4>1, Listas, HeadTailProperties
      <4> QED
        BY <1>0, <4>1, <4>2 DEF Listos
    <3>2. CASE corto.pc = "sacar"
      <4>1. /\ squeue_ready # <<>> /\ squeue_ready' = Tail(squeue_ready)
            /\ squeue_readyPlus' = squeue_readyPlus
        BY <1>6, <3>2 DEF CortoDespachar, ColaElegida
      <4>2. Len(squeue_ready') = Len(squeue_ready) - 1
        BY <4>1, Listas, HeadTailProperties
      <4> QED
        BY <1>0, <4>1, <4>2 DEF Listos
    <3> QED
      BY <1>6, <3>1, <3>2 DEF CortoDespachar
  <2>3. AvisosJustos'
    BY <1>0, <2>1, <2>2 DEF AvisosJustos, Uno
  <2> QED
    BY <1>1, <2>1, <2>3
<1>7. CASE CortoCae \/ CortoSoltar \/ EsperarRecurso
  <2>1. EnMano' = EnMano /\ Ajeno
    BY <1>7 DEF CortoCae, CortoSoltar, EsperarRecurso, EnMano, Ajeno
  <2> QED
    BY <1>1, <2>1, JustosConservados
<1>8. CASE SignalListo
  <2>1. corto.pid \in Pids /\ proceso_listo(corto.pid, FALSE) /\ EnMano' = EnMano
    BY <1>0, <1>8 DEF SignalListo, Punteros, EnMano
  <2>2. Empuja
    BY <2>1 DEF Empuja
  <2> QED
    BY <1>1, <2>1, <2>2, JustosConservados
<1> QED
  BY <1>2, <1>3, <1>4, <1>5, <1>6, <1>7, <1>8 DEF CortoPlazo

\* How far each stop and each resume has gone, and what it leaves of
\* semPlanificadorCorto: a stop drains what it read and reads nothing more once the
\* semaphore is at zero; only a resume posts it again.
Fases ==
  /\ \A d \in Detenedores : det[d].pc # "fin" => ~detenida
  /\ \A d \in Detenedores : det[d].pc = "drenar" => det[d].corto >= sem["corto"]
  /\ \A r \in Reanudadores : rea[r] # "fin" => detenida
  /\ detenida /\ (\A r \in Reanudadores : rea[r] # "marcar") => sem["corto"] = 0

InvDetencion == Inv /\ SinPlus /\ SinMatar /\ AvisosJustos /\ Fases

LEMMA FasesQuietas ==
  ASSUME Inv, Inv', Fases, UNCHANGED <<detenida, det, rea>>, sem'["corto"] <= sem["corto"]
  PROVE  Fases'
<1>1. sem["corto"] \in Nat /\ sem'["corto"] \in Nat
  BY DEF Inv, TypeOK, TipoGlobales, Semaforos
<1>2. \A d \in Detenedores : det[d].corto \in Nat
  BY DEF Inv, TypeOK, TipoHilos
<1>3. \A d \in Detenedores : det[d].pc = "drenar" => det[d].corto >= sem'["corto"]
  BY <1>1, <1>2 DEF Fases
<1>4. detenida /\ (\A r \in Reanudadores : rea[r] # "marcar") => sem'["corto"] = 0
  BY <1>1 DEF Fases
<1> QED
  BY <1>3, <1>4 DEF Fases

LEMMA ConsolaFases ==
  ASSUME Inv, Inv', SinMatar, Fases, Consola
  PROVE  Fases'
<1>1. Ajeno /\ UNCHANGED <<corto, detenida>>
  BY ConsolaJusta
<1>2. sem'["corto"] = sem["corto"] /\ sem["corto"] \in Nat
  BY <1>1 DEF Ajeno, Inv, TypeOK, TipoGlobales, Semaforos
<1>3. TipoHilos
  BY DEF Inv, TypeOK
<1>4. CASE \E d \in Detenedores : DetenerPlanificacion(d)
  <2>1. PICK d \in Detenedores : DetenerPlanificacion(d)
    BY <1>4
  <2>2. /\ ~detenida /\ det' = [det EXCEPT ![d].pc = "leer"] /\ rea' = rea
    BY <2>1 DEF DetenerPlanificacion
  <2>3. \A e \in Detenedores : det'[e].pc = "drenar" => e # d /\ det'[e] = det[e]
    BY <1>3, <2>2 DEF TipoHilos
  <2>4. \A e \in Detenedores : det'[e].pc = "drenar" => det'[e].corto >= sem'["corto"]
    BY <1>2, <2>3 DEF Fases
  <2> QED
    BY <1>1, <2>2, <2>4 DEF Fases
<1>5. CASE \E r \in Reanudadores : IniciarPlanificacion(r)
  <2>1. PICK r \in Reanudadores : IniciarPlanificacion(r)
    BY <1>5
  <2>2. detenida /\ rea[r] = "fin" /\ rea' = [rea EXCEPT ![r] = "leer"] /\ det' = det
    BY <2>1 DEF IniciarPlanificacion
  <2>3. \A e \in Reanudadores : rea[e] = "marcar" => rea'[e] = "marcar"
    BY <1>3, <2>2 DEF TipoHilos
  <2> QED
    BY <1>1, <1>2, <2>2, <2>3 DEF Fases
<1>6. CASE ~(\E d \in Detenedores : DetenerPlanificacion(d)) /\ ~(\E r \in Reanudadores : IniciarPlanificacion(r))
  <2>1. det' = det /\ rea' = rea
    BY <1>6 DEF Consola, CrearProceso, AvisarProceso, FinalizarEjecutando, FinalizarBuscar, FinalizarCaso,
       CambiarMultiprogramacion, AjustarMulti, FinalizarQuitar, FinalizarDecidir, FinalizarTerminar,
       FinalizarQuieto
  <2> QED
    BY SMTT(30), <1>1, <1>2, <2>1, FasesQuietas
<1> QED
  BY <1>4, <1>5, <1>6

\* With at most one stop and one resume at a time.
LEMMA PararYSeguirFases ==
  ASSUME Inv, Inv', Fases, PararYSeguir,
         \A d, e \in Detenedores : d = e, \A r, s \in Reanudadores : r = s
  PROVE  Fases'
<1>1. sem \in [Semaforos -> Nat] /\ sem["corto"] \in Nat /\ sem'["corto"] \in Nat /\ TipoHilos
  BY DEF Inv, TypeOK, TipoGlobales, Semaforos
<1>2. CASE \E d \in Detenedores : Detener(d)
  <2>1. PICK d \in Detenedores : Detener(d)
    BY <1>2
  <2>2. det[d] \in [pc : {"fin", "leer", "drenar"}, largo : Nat, corto : Nat] /\ det[d].corto \in Nat
    BY <1>1 DEF TipoHilos
  <2>3. rea' = rea /\ det[d].pc # "fin" /\ ~detenida
    BY <2>1 DEF Detener, DetLeer, DetDrenar, DetMarcar, Fases
  <2>4. \A r \in Reanudadores : rea[r] = "fin"
    BY <2>3 DEF Fases
  <2>5. CASE DetLeer(d)
    <3>1. /\ det'[d].pc = "drenar" /\ det'[d].corto = sem["corto"] /\ sem' = sem /\ detenida' = detenida
      BY <1>1, <2>5 DEF DetLeer, TipoHilos
    <3> QED
      BY <1>1, <2>3, <2>4, <3>1 DEF Fases
  <2>6. CASE DetDrenar(d, "largo")
    <3>1. detenida' = detenida /\ Wait("largo") /\ det' = [det EXCEPT ![d]["largo"] = sem'["largo"]]
      BY <2>6 DEF DetDrenar
    <3>2. sem'["corto"] = sem["corto"]
      BY <1>1, <3>1 DEF Wait, Semaforos
    <3>3. det'[d].corto = det[d].corto /\ det'[d].pc = det[d].pc
      BY <1>1, <2>2, <3>1 DEF TipoHilos
    <3> QED
      BY <1>1, <2>3, <2>4, <3>1, <3>2, <3>3 DEF Fases
  <2>7. CASE DetDrenar(d, "corto")
    <3>1. detenida' = detenida /\ det' = [det EXCEPT ![d]["corto"] = sem'["corto"]]
      BY <2>7 DEF DetDrenar
    <3>2. det'[d].corto = sem'["corto"]
      BY <1>1, <2>2, <3>1 DEF TipoHilos
    <3> QED
      BY <1>1, <2>3, <2>4, <3>1, <3>2 DEF Fases
  <2>8. CASE DetMarcar(d)
    <3>1. /\ det[d].pc = "drenar" /\ det[d].corto = 0 /\ sem' = sem
          /\ det' = [det EXCEPT ![d].pc = "fin"] /\ detenida' = TRUE
      BY <2>8 DEF DetMarcar
    <3>2. sem'["corto"] = 0
      BY <1>1, <3>1 DEF Fases
    <3>3. \A e \in Detenedores : det'[e].pc = "fin"
      BY <1>1, <3>1 DEF TipoHilos
    <3> QED
      BY <2>3, <2>4, <3>1, <3>2, <3>3 DEF Fases
  <2> QED
    BY <2>1, <2>5, <2>6, <2>7, <2>8 DEF Detener
<1>3. CASE \E r \in Reanudadores : Reanudar(r)
  <2>1. PICK r \in Reanudadores : Reanudar(r)
    BY <1>3
  <2>2. det' = det /\ rea[r] # "fin" /\ detenida
    BY <2>1 DEF Reanudar, ReaPublicar, ReaMarcar, Fases
  <2>3. \A d \in Detenedores : det[d].pc = "fin"
    BY <1>1, <2>2 DEF Fases
  <2>4. CASE ReaPublicar(r)
    <3>1. rea'[r] = "marcar" /\ detenida' = detenida
      BY <1>1, <2>4 DEF ReaPublicar, TipoHilos
    <3> QED
      BY <2>2, <2>3, <3>1 DEF Fases
  <2>5. CASE ReaMarcar(r)
    <3>1. rea'[r] = "fin" /\ detenida' = FALSE
      BY <1>1, <2>5 DEF ReaMarcar, TipoHilos
    <3> QED
      BY <2>2, <2>3, <3>1 DEF Fases
  <2> QED
    BY <2>1, <2>4, <2>5 DEF Reanudar
<1> QED
  BY <1>2, <1>3 DEF PararYSeguir

LEMMA DetencionInductiva ==
  ASSUME "FINALIZAR_PROCESO" \notin Comandos,
         \A d, e \in Detenedores : d = e, \A r, s \in Reanudadores : r = s
  PROVE  InvDetencion /\ [Next]_vars => InvDetencion'
<1> SUFFICES ASSUME InvDetencion, [Next]_vars PROVE InvDetencion'
  OBVIOUS
<1>0. Inv /\ SinPlus /\ SinMatar /\ AvisosJustos /\ Fases
  BY DEF InvDetencion
<1>1. Inv' /\ SinMatar'
  BY <1>0, InvInductivo, SinMatarInductivo
<1>2. InvAvisos
  <2>1. sem["ready"] \in Nat /\ Listos \in Nat
    BY <1>0, ListosNat
  <2>2. sem["ready"] + Uno(EnMano) >= Listos
    BY <1>0, <2>1 DEF AvisosJustos
  <2> QED
    BY <1>0, <2>2 DEF InvAvisos, AvisosReady, EnMano, Listos
<1>3. sem["corto"] \in Nat
  BY <1>0 DEF Inv, TypeOK, TipoGlobales, Semaforos
<1>4. CASE LargoPlazo \/ Liberacion \/ EntradaSalida
  <2>1. (Empuja \/ Ajeno) /\ UNCHANGED <<corto, detenida, det, rea>>
    BY <1>0, <1>4, LargoPlazoJusto, LiberacionJusta, EntradaSalidaJusta
  <2>2. EnMano' = EnMano
    BY <2>1 DEF EnMano
  <2>3. AvisosJustos' /\ sem'["corto"] = sem["corto"]
    BY <1>0, <1>1, <2>1, <2>2, JustosConservados
  <2>4. Fases'
    BY <1>0, <1>1, <1>3, <2>1, <2>3, FasesQuietas
  <2>5. SinPlus'
    BY <1>2, <1>4, LargoPlazoAvisos, LiberacionAvisos, EntradaSalidaAvisos DEF Liberacion, EntradaSalida
  <2> QED
    BY <1>1, <2>3, <2>4, <2>5 DEF InvDetencion
<1>5. CASE CPU
  <2>1. (Empuja \/ Ajeno) /\ EnMano' = EnMano /\ UNCHANGED <<detenida, det, rea>>
    BY <1>0, <1>5, CPUJusto
  <2>2. AvisosJustos' /\ sem'["corto"] = sem["corto"]
    BY <1>0, <1>1, <2>1, JustosConservados
  <2>3. Fases'
    BY <1>0, <1>1, <1>3, <2>1, <2>2, FasesQuietas
  <2> QED
    BY <1>1, <1>2, <1>5, <2>2, <2>3, CPUAvisos DEF InvDetencion
<1>6. CASE CortoPlazo
  <2>1. /\ AvisosJustos' /\ UNCHANGED <<detenida, det, rea>>
        /\ sem'["corto"] = sem["corto"] \/ sem'["corto"] = sem["corto"] - 1
    BY <1>0, <1>1, <1>6, CortoPlazoJusto
  <2>2. Fases'
    BY <1>0, <1>1, <1>3, <2>1, FasesQuietas
  <2> QED
    BY <1>1, <1>2, <1>6, <2>1, <2>2, CortoPlazoAvisos DEF InvDetencion
<1>7. CASE Consola
  <2>1. Ajeno /\ corto' = corto
    BY <1>0, <1>7, ConsolaJusta
  <2>2. EnMano' = EnMano
    BY <2>1 DEF EnMano
  <2>3. AvisosJustos'
    BY <1>0, <1>1, <2>1, <2>2, JustosConservados
  <2> QED
    BY <1>0, <1>1, <1>2, <1>7, <2>3, ConsolaFases, ConsolaAvisos DEF InvDetencion
<1>8. CASE PararYSeguir
  BY <1>0, <1>1, <1>2, <1>8, PararYSeguirJusto, PararYSeguirFases, PararYSeguirAvisos DEF InvDetencion
<1>9. CASE UNCHANGED vars
  <2>1. Ajeno /\ EnMano' = EnMano /\ UNCHANGED <<detenida, det, rea>> /\ SinPlus'
    BY <1>0, <1>9 DEF vars, colas, control, listas, Ajeno, EnMano, SinPlus
  <2>2. AvisosJustos' /\ sem'["corto"] = sem["corto"]
    BY <1>0, <1>1, <2>1, JustosConservados
  <2> QED
    BY <1>0, <1>1, <1>3, <2>1, <2>2, FasesQuietas DEF InvDetencion
<1> QED
  BY <1>4, <1>5, <1>6, <1>7, <1>8, <1>9 DEF Next

LEMMA DetencionInicial == Init => InvDetencion
<1> SUFFICES ASSUME Init PROVE InvDetencion
  OBVIOUS
<1>1. Inv
  BY InvInicial
<1>2. SinMatar
  BY DEF Init, SinMatar, ConsolaLibre
<1>3. SinPlus /\ AvisosJustos
  BY DEF Init, SinPlus, AvisosJustos, EnMano, Listos, Uno, Semaforos
<1>4. Fases
  BY DEF Init, Fases
<1> QED
  BY <1>1, <1>2, <1>3, <1>4 DEF InvDetencion

\* With one stop and one resume at a time and without FINALIZAR_PROCESO, a
\* DETENER_PLANIFICACION that has ended holds: a short-term scheduler parked at
\* semPlanificadorCorto (planificar_PCB_cortoPlazo) stays there until
\* iniciar_planificadores posts it.
THEOREM DetencionSiempre ==
  ASSUME "FINALIZAR_PROCESO" \notin Comandos,
         \A d, e \in Detenedores : d = e, \A r, s \in Reanudadores : r = s
  PROVE  Spec => DetencionEfectiva
<1> DEFINE Parado == detenida /\ PlanificadoresLibres /\ corto.pc = "semCorto"
<1>1. InvDetencion /\ [Next]_vars => [Parado => corto'.pc = "semCorto"]_vars
  <2> SUFFICES ASSUME InvDetencion, Next, Parado PROVE corto'.pc = "semCorto"
    OBVIOUS
  <2>1. sem["corto"] = 0
    BY DEF InvDetencion, Fases, PlanificadoresLibres
  <2>2. ~CortoSemCorto /\ ~CPU
    <3>1. ~CPU
      BY CPUMarco DEF InvDetencion
    <3> QED
      BY <2>1, <3>1 DEF CortoSemCorto, Wait
  <2>3. CASE CortoPlazo
    <3>1. corto.pc = "semCorto" /\ marco["corto"].op = "libre"
      BY DEF InvDetencion, Inv, Punteros, Hilos
    <3> QED
      BY <2>2, <2>3, <3>1 DEF CortoPlazo, CortoSemReady, CortoDetenida, CortoElegir, CortoNadaListo,
         CortoDespachar, CortoCae, EsperarRecurso, SignalListo, CortoSoltar
  <2>4. CASE LargoPlazo \/ Liberacion \/ EntradaSalida \/ Consola \/ PararYSeguir
    <3>1. corto' = corto
      BY <2>4, LargoPlazoJusto, LiberacionJusta, EntradaSalidaJusta, ConsolaJusta
         DEF InvDetencion, PararYSeguir, Detener, Reanudar, PlanificadoresQuietos
    <3> QED
      BY <3>1
  <2> QED
    BY <2>2, <2>3, <2>4 DEF Next
<1>2. InvDetencion /\ [Next]_vars => InvDetencion'
  BY DetencionInductiva
<1> HIDE DEF Parado
<1>3. Spec => [][Parado => corto'.pc = "semCorto"]_vars
  BY <1>1, <1>2, DetencionInicial, PTL DEF Spec
<1> QED
  BY <1>3 DEF DetencionEfectiva, Parado

-----------------------------------------------------------------------------
(* Whoever waits for a resource, someone is using it.  `usa' covers what     *)
(* `instancias' says is taken: an instance handed to a woken waiter is not   *)
(* counted in `asignados', but its user is.                                  *)

EnUso(r) == SumFunction([p \in Pids |-> usa[p][r]])
TipoUso  == usa \in [Pids -> [Recursos -> Nat]] /\ abuso \in BOOLEAN

\* What the activation of the short-term scheduler promises: between the test of
\* manejar_recurso and the push, the resource stays exhausted; with no activation there is
\* no waiter to wake.
Agotado ==
  marco["corto"].op = "esperar" =>
    marco["corto"].recurso \in Recursos /\ instancias[marco["corto"].recurso] = 0
SinMarco == marco["corto"].op = "libre" => marco["corto"].recurso = Nada

\* Of a disciplined system: who has finished uses nothing, what is taken is in use, and a
\* waiter has a user or a release before it.
Sueltos   == \A p \in Pids, r \in Recursos : estado[p] = "FINALIZADO" => usa[p][r] = 0
Cubiertos == \A r \in Recursos : instancias[r] + EnUso(r) >= Instancias[r]
Atendidos == \A r \in Recursos :
  colaRecurso[r] # <<>> => (\E p \in Pids : usa[p][r] > 0) \/ marco["corto"].recurso = r

InvUso == /\ InvEspera /\ TipoUso /\ Agotado /\ SinMarco
          /\ ~abuso => Sueltos /\ Cubiertos /\ Atendidos

\* Only the process on the CPU finishes.
LEMMA QuienTermina ==
  ASSUME Inv, SinMatar, Next, NEW p \in Pids, estado'[p] = "FINALIZADO", estado[p] # "FINALIZADO"
  PROVE  corto.pc = "cpu" /\ corto.pid = p
<1>0. estado \in [Pids -> Estados]
  BY DEF Inv, TypeOK, TipoProcesos
<1>1. ASSUME NEW q \in Pids, NEW b, proceso_listo(q, b) PROVE FALSE
  BY <1>0, <1>1 DEF proceso_listo
<1>2. ASSUME NEW q \in Pids, desbloquear_proceso(q) PROVE FALSE
  <2>1. estado' = estado \/ \E b : proceso_listo(q, b)
    BY <1>2 DEF desbloquear_proceso
  <2> QED
    BY <1>1, <2>1
<1>3. ASSUME NEW q \in Pids, NEW e \in Estados \ {"FINALIZADO"}, estado' = [estado EXCEPT ![q] = e] PROVE FALSE
  BY <1>0, <1>3
<1>4. ASSUME NEW h \in Hilos, Despertar(h) PROVE FALSE
  <2> DEFINE r == marco[h].recurso
  <2>1. r \in Recursos
    BY <1>4 DEF Despertar, Inv, TypeOK, TipoMarco, Marcos
  <2>2. \/ colaRecurso[r] # <<>> /\ desbloquear_proceso(Head(colaRecurso[r]))
        \/ estado' = estado
    BY <1>4 DEF Despertar
  <2>3. colaRecurso[r] # <<>> => Head(colaRecurso[r]) \in Pids
    BY <2>1, HeadTailProperties DEF Inv, TypeOK, TipoRecursos
  <2> HIDE DEF r
  <2> QED
    BY <1>2, <2>2, <2>3
<1>5. CASE LargoPlazo
  <2>1. estado' = estado \/ LargoListo
    BY <1>5 DEF LargoPlazo, LargoSemNew, LargoDetenida, LargoSemLargo, LargoReponer, LargoVacia,
       LargoSemMulti, LargoRenunciar, LargoSacar, LargoCae, SinMover
  <2>2. LargoListo => pcb_a_mover \in Pids /\ proceso_listo(pcb_a_mover, FALSE)
    BY DEF LargoListo, Inv, Punteros
  <2> QED
    BY <1>1, <2>1, <2>2
<1>6. CASE CortoPlazo
  <2>1. CASE CortoDespachar
    <3>1. Head(ColaElegida) \in Pids /\ estado' = [estado EXCEPT ![Head(ColaElegida)] = "EJECUTANDO"]
      BY <2>1, Listas, HeadTailProperties DEF CortoDespachar, ColaElegida
    <3> QED
      BY <1>3, <3>1 DEF Estados
  <2>2. CASE EsperarRecurso
    <3>1. corto.pid \in Pids /\ estado' = [estado EXCEPT ![corto.pid] = "BLOQUEADO"]
      BY <2>2 DEF EsperarRecurso, bloquear_proceso, Inv, Punteros
    <3> QED
      BY <1>3, <3>1 DEF Estados
  <2>3. CASE SignalListo
    <3>1. corto.pid \in Pids /\ proceso_listo(corto.pid, FALSE)
      BY <2>3 DEF SignalListo, Inv, Punteros
    <3> QED
      BY <1>1, <3>1
  <2>4. CASE CortoSemReady \/ CortoDetenida \/ CortoSemCorto \/ CortoElegir \/ CortoNadaListo \/ CortoCae
             \/ CortoSoltar
    BY <2>4 DEF CortoSemReady, CortoDetenida, CortoSemCorto, CortoElegir, CortoNadaListo, CortoCae,
       CortoSoltar, SinDespachar, procesos
  <2> QED
    BY <1>6, <2>1, <2>2, <2>3, <2>4 DEF CortoPlazo
<1>7. CASE CPU
  <2>1. corto.pc = "cpu" /\ corto.pid \in Pids
    BY SMTT(30), <1>7, CPUMarco
  <2>2. estado' = estado \/ \E e : estado' = [estado EXCEPT ![corto.pid] = e]
    BY <1>7 DEF CPU, DesalojoFinQuantum, DesalojoWait, DesalojoWaitBloquea, DesalojoSignal, DesalojoIO,
       DesalojoFinaliza, DesalojoRecursoInexistente, DesalojoDesconocido, proceso_listo, bloquear_proceso,
       finalizar_proceso
  <2> QED
    BY <1>0, <2>1, <2>2
<1>8. CASE Liberacion
  <2>1. estado' = estado \/ \E h \in Hilos : Despertar(h)
    BY <1>8 DEF Liberacion, LiberarSiguiente, FinDeProceso
  <2> QED
    BY <1>4, <2>1
<1>9. CASE Consola
  <2>1. ~FinalizarQuitar /\ ~FinalizarDecidir /\ ~FinalizarTerminar
    BY NadaTermina
  <2>2. estado' = estado \/ (pidGlobal \in Pids /\ estado' = [estado EXCEPT ![pidGlobal] = "NUEVO"])
    <3>1. CrearProceso => pidGlobal \in Pids
      BY ConstantesValidas DEF CrearProceso, Inv, TypeOK, TipoProcesos, Pids
    <3> QED
      BY <1>9, <2>1, <3>1 DEF Consola, CrearProceso, AvisarProceso, FinalizarEjecutando, FinalizarBuscar,
         FinalizarCaso, CambiarMultiprogramacion, AjustarMulti, DetenerPlanificacion, IniciarPlanificacion
  <2> QED
    BY <1>3, <2>2 DEF Estados
<1>10. CASE PararYSeguir
  BY <1>10 DEF PararYSeguir, Detener, Reanudar, PlanificadoresQuietos, procesos
<1>11. CASE EntradaSalida
  <2>1. PICK i \in Interfaces : FinDeIO(i) \/ SacarDeInterfaz(i)
    BY <1>11 DEF EntradaSalida
  <2>2. FinDeIO(i) => Head(pedidos[i]) \in Pids
    BY HeadTailProperties DEF FinDeIO, Inv, TypeOK, TipoInterfaces
  <2>3. pcb_a_finalizar \notin Pids
    BY DEF SinMatar, Pids, NULL
  <2>4. estado' = estado \/ (FinDeIO(i) /\ desbloquear_proceso(Head(pedidos[i])))
    BY <2>1, <2>2, <2>3 DEF FinDeIO, SacarDeInterfaz
  <2> QED
    BY <1>2, <2>2, <2>4
<1> QED
  BY <1>5, <1>6, <1>7, <1>8, <1>9, <1>10, <1>11 DEF Next

\* What a step does to the resources, one resource at a time: an instance is taken only by
\* the process on the CPU, an instance it gives back with waiters queued leaves a wake-up
\* pending, and a pending wake-up ends when the first waiter leaves the queue.
Toma(r) == /\ corto.pc = "cpu" /\ corto.pid \in Pids /\ instancias'[r] = instancias[r] - 1
           /\ asignados'[corto.pid] = Append(asignados[corto.pid], r) /\ estado'[corto.pid] = "LISTO"
Encola(r) == EsperarRecurso /\ marco["corto"].recurso = r
Despierta(r) == /\ Despertar("corto") /\ marco["corto"].recurso = r
PasoDeRecurso(r) ==
  /\ instancias'[r] >= instancias[r] \/ Toma(r)
  /\ corto.pc = "cpu" /\ instancias'[r] = instancias[r] + 1 /\ colaRecurso[r] # <<>>
       => marco'["corto"].recurso = r
  /\ marco["corto"].recurso = r => marco'["corto"].recurso = r \/ Encola(r) \/ Despierta(r)
  /\ colaRecurso'[r] = colaRecurso[r] \/ Encola(r) \/ Despierta(r)

\* A step that leaves resources and activation alone.
LEMMA RecursosQuietos ==
  ASSUME Inv, SinMarco, Agotado, UNCHANGED <<instancias, colaRecurso>>,
         \/ marco'["corto"] = marco["corto"]
         \/ marco["corto"].recurso = Nada /\ marco'["corto"].recurso = Nada /\ marco'["corto"].op # "esperar"
  PROVE  /\ \A r \in Recursos : PasoDeRecurso(r)
         /\ SinMarco' /\ Agotado'
<1>1. \A r \in Recursos : instancias[r] \in Nat /\ r # Nada
  BY ConstantesValidas DEF Inv, TypeOK, TipoRecursos
<1>2. \A r \in Recursos : PasoDeRecurso(r)
  BY <1>1 DEF PasoDeRecurso
<1>3. SinMarco' /\ Agotado'
  BY DEF SinMarco, Agotado
<1> QED
  BY <1>2, <1>3

\* An activation of the short-term scheduler that ends, or one that never waited.
LEMMA CortoLibre ==
  ASSUME TipoMarco, marco' = [marco EXCEPT !["corto"] = MarcoLibre]
  PROVE  marco'["corto"].recurso = Nada /\ marco'["corto"].op = "libre"
BY DEF TipoMarco, MarcoLibre, Hilos

LEMMA CortoPlazoRecurso ==
  ASSUME Inv, SinMarco, Agotado, CortoPlazo
  PROVE  /\ \A r \in Recursos : PasoDeRecurso(r)
         /\ SinMarco' /\ Agotado'
<1>0. TipoMarco
  BY DEF Inv, TypeOK
<1>1. CASE CortoSemReady \/ CortoDetenida \/ CortoSemCorto \/ CortoElegir \/ CortoNadaListo \/ CortoCae
           \/ CortoSoltar \/ CortoDespachar
  <2>1. UNCHANGED <<instancias, colaRecurso, marco>>
    BY <1>1 DEF CortoSemReady, CortoDetenida, CortoSemCorto, CortoElegir, CortoNadaListo, CortoCae,
       CortoSoltar, CortoDespachar, SinDespachar, recursos
  <2> QED
    BY <2>1, RecursosQuietos
<1>2. CASE SignalListo
  <2>1. /\ UNCHANGED <<instancias, colaRecurso>> /\ marco["corto"].recurso = Nada
        /\ marco' = [marco EXCEPT !["corto"] = MarcoLibre]
    BY <1>2 DEF SignalListo, recursos
  <2>2. marco'["corto"].recurso = Nada /\ marco'["corto"].op = "libre"
    BY <1>0, <2>1, CortoLibre
  <2> QED
    BY <2>1, <2>2, RecursosQuietos
<1>3. CASE EsperarRecurso
  <2> DEFINE x == marco["corto"].recurso
  <2>1. /\ marco["corto"].op = "esperar" /\ instancias' = instancias
        /\ colaRecurso' = [colaRecurso EXCEPT ![x] = Append(@, corto.pid)]
        /\ marco' = [marco EXCEPT !["corto"] = MarcoLibre]
    BY <1>3 DEF EsperarRecurso
  <2>2. marco'["corto"].recurso = Nada /\ marco'["corto"].op = "libre"
    BY <1>0, <2>1, CortoLibre
  <2>3. corto.pc = "desalojo"
    BY <2>1 DEF Inv, Punteros
  <2>4. ASSUME NEW r \in Recursos PROVE PasoDeRecurso(r)
    <3>1. instancias[r] \in Nat /\ instancias'[r] = instancias[r]
      BY <2>1 DEF Inv, TypeOK, TipoRecursos
    <3>2. r # x => colaRecurso'[r] = colaRecurso[r]
      BY <2>1 DEF Inv, TypeOK, TipoRecursos
    <3>3. r = x => Encola(r)
      BY <1>3 DEF Encola
    <3> HIDE DEF x
    <3>4. marco["corto"].recurso = r => Encola(r)
      BY <3>3 DEF x
    <3>5. colaRecurso'[r] = colaRecurso[r] \/ Encola(r)
      BY <3>2, <3>3
    <3> QED
      BY <2>3, <3>1, <3>4, <3>5 DEF PasoDeRecurso
  <2>5. SinMarco' /\ Agotado'
    BY <2>2 DEF SinMarco, Agotado
  <2> QED
    BY <2>4, <2>5
<1> QED
  BY <1>1, <1>2, <1>3 DEF CortoPlazo

\* liberar_recurso leaves a wake-up pending if it frees an instance others wait for.
LEMMA LiberarRecurso ==
  ASSUME Inv, SinMarco, Agotado, NEW x \in Recursos, NEW m \in Marcos, NEW p, liberar_recurso("corto", p, x, m),
         UNCHANGED colaRecurso, marco["corto"].recurso = Nada, m.op \in {"signal", "finalizar"}
  PROVE  /\ \A r \in Recursos : PasoDeRecurso(r)
         /\ SinMarco' /\ Agotado'
<1>1. /\ instancias' = [instancias EXCEPT ![x] = @ + 1] /\ instancias \in [Recursos -> Nat]
      /\ marco' = [marco EXCEPT !["corto"] = [m EXCEPT !.recurso = IF instancias'[x] > 0 /\ colaRecurso[x] # <<>>
                                                                   THEN x ELSE Nada]]
  BY DEF liberar_recurso, Inv, TypeOK, TipoRecursos
<1>2. instancias'[x] = instancias[x] + 1 /\ instancias'[x] > 0
  BY <1>1
<1>3. /\ marco'["corto"].op = m.op
      /\ marco'["corto"].recurso = IF instancias'[x] > 0 /\ colaRecurso[x] # <<>> THEN x ELSE Nada
  <2> DEFINE y == IF instancias'[x] > 0 /\ colaRecurso[x] # <<>> THEN x ELSE Nada
  <2> HIDE DEF y
  <2>1. marco' = [marco EXCEPT !["corto"] = [m EXCEPT !.recurso = y]]
    BY <1>1 DEF y
  <2>2. marco'["corto"] = [m EXCEPT !.recurso = y]
    BY <2>1 DEF Inv, TypeOK, TipoMarco, Hilos
  <2>3. marco'["corto"].op = m.op /\ marco'["corto"].recurso = y
    BY <2>2 DEF Marcos
  <2> QED
    BY <2>3 DEF y
<1>4. ASSUME NEW r \in Recursos PROVE PasoDeRecurso(r)
  <2>1. r # x => instancias'[r] = instancias[r]
    BY <1>1
  <2>2. instancias'[r] >= instancias[r] /\ instancias[r] \in Nat
    BY <1>1, <1>2, <2>1
  <2>3. r # Nada
    BY ConstantesValidas
  <2>4. instancias'[r] = instancias[r] + 1 => r = x
    BY <2>1, <2>2
  <2>5. instancias'[r] = instancias[r] + 1 /\ colaRecurso[r] # <<>> => marco'["corto"].recurso = r
    BY <1>2, <1>3, <2>4
  <2> QED
    BY <2>2, <2>3, <2>5 DEF PasoDeRecurso
<1>5. SinMarco' /\ Agotado'
  BY <1>3 DEF SinMarco, Agotado
<1> QED
  BY <1>4, <1>5

LEMMA CPURecurso ==
  ASSUME Inv, SinMarco, Agotado, CPU
  PROVE  /\ \A r \in Recursos : PasoDeRecurso(r)
         /\ SinMarco' /\ Agotado'
<1>0. /\ corto.pc = "cpu" /\ corto.pid \in Pids /\ marco["corto"].op = "libre"
      /\ marco["corto"].recurso = Nada /\ TipoMarco /\ TipoRecursos /\ "corto" \in Hilos
  BY CPUMarco DEF SinMarco, Inv, TypeOK, Hilos
<1>1. CASE DesalojoFinQuantum \/ DesalojoRecursoInexistente \/ DesalojoDesconocido
  <2>1. UNCHANGED <<instancias, colaRecurso, marco>>
    BY <1>1 DEF DesalojoFinQuantum, DesalojoRecursoInexistente, DesalojoDesconocido, recursos
  <2> QED
    BY <2>1, RecursosQuietos
<1>2. CASE \E i \in Interfaces : DesalojoIO(i)
  <2>1. UNCHANGED <<instancias, colaRecurso, marco>>
    BY <1>2 DEF DesalojoIO, recursos
  <2> QED
    BY <2>1, RecursosQuietos
<1>3. CASE \E m \in {"FINALIZACION", "OUT_OF_MEMORY", "IO_INVALIDA", "FINALIZACION_CONSOLA"} : DesalojoFinaliza(m)
  <2>1. UNCHANGED <<instancias, colaRecurso>> /\ finalizar_proceso("corto", corto.pid, TRUE)
    BY <1>3 DEF DesalojoFinaliza, recursos
  <2>2. marco'["corto"].recurso = Nada /\ marco'["corto"].op = "finalizar"
    BY <1>0, <2>1 DEF finalizar_proceso, TipoMarco
  <2> QED
    BY <1>0, <2>1, <2>2, RecursosQuietos
<1>4. CASE \E x \in Recursos : DesalojoWait(x)
  <2>1. PICK x \in Recursos : DesalojoWait(x)
    BY <1>4
  <2>2. /\ instancias' = [instancias EXCEPT ![x] = @ - 1]
        /\ asignados' = [asignados EXCEPT ![corto.pid] = Append(@, x)]
        /\ proceso_listo(corto.pid, FALSE) /\ UNCHANGED <<colaRecurso, marco>>
    BY <2>1 DEF DesalojoWait
  <2>3. Toma(x)
    <3>1. instancias'[x] = instancias[x] - 1 /\ asignados'[corto.pid] = Append(asignados[corto.pid], x)
      BY <1>0, <2>2 DEF TipoRecursos
    <3>2. estado'[corto.pid] = "LISTO"
      BY <1>0, <2>2 DEF proceso_listo, Inv, TypeOK, TipoProcesos
    <3> QED
      BY <1>0, <3>1, <3>2 DEF Toma
  <2>4. ASSUME NEW r \in Recursos PROVE PasoDeRecurso(r)
    <3>1. r # x => instancias'[r] = instancias[r]
      BY <1>0, <2>2 DEF TipoRecursos
    <3>2. instancias'[x] = instancias[x] - 1
      BY <2>3 DEF Toma
    <3>3. instancias[r] \in Nat /\ instancias[x] \in Nat /\ r # Nada
      BY <1>0, ConstantesValidas DEF TipoRecursos
    <3>4. instancias'[r] # instancias[r] + 1
      BY <3>1, <3>2, <3>3
    <3>5. instancias'[r] >= instancias[r] \/ Toma(r)
      BY <2>3, <3>1, <3>3
    <3> QED
      BY <1>0, <2>2, <3>3, <3>4, <3>5 DEF PasoDeRecurso
  <2>5. SinMarco' /\ Agotado'
    BY <1>0, <2>2 DEF SinMarco, Agotado
  <2> QED
    BY <2>4, <2>5
<1>5. CASE \E x \in Recursos : DesalojoWaitBloquea(x)
  <2>1. PICK x \in Recursos : DesalojoWaitBloquea(x)
    BY <1>5
  <2>2. /\ instancias[x] <= 0 /\ UNCHANGED <<instancias, colaRecurso>>
        /\ marco' = [marco EXCEPT !["corto"] = [MarcoLibre EXCEPT !.op = "esperar", !.pid = corto.pid,
                                                                  !.recurso = x]]
    BY <2>1 DEF DesalojoWaitBloquea, recursos
  <2>3. marco'["corto"].op = "esperar" /\ marco'["corto"].recurso = x
    BY <1>0, <2>2 DEF TipoMarco, MarcoLibre
  <2>4. instancias'[x] = 0
    BY <1>0, <2>2 DEF TipoRecursos
  <2>5. ASSUME NEW r \in Recursos PROVE PasoDeRecurso(r)
    <3>1. instancias[r] \in Nat /\ r # Nada /\ instancias'[r] = instancias[r]
      BY <1>0, <2>2, ConstantesValidas DEF TipoRecursos
    <3> QED
      BY <1>0, <2>2, <3>1 DEF PasoDeRecurso
  <2>6. SinMarco' /\ Agotado'
    BY <2>3, <2>4 DEF SinMarco, Agotado
  <2> QED
    BY <2>5, <2>6
<1>6. CASE \E x \in Recursos : DesalojoSignal(x)
  <2>1. PICK x \in Recursos : DesalojoSignal(x)
    BY <1>6
  <2> DEFINE m == [MarcoLibre EXCEPT !.op = "signal", !.pid = corto.pid]
  <2>2. liberar_recurso("corto", corto.pid, x, m) /\ UNCHANGED colaRecurso
    BY <2>1 DEF DesalojoSignal
  <2>3. m \in Marcos /\ m.op = "signal"
    BY <1>0 DEF Marcos, MarcoLibre
  <2> HIDE DEF m
  <2> QED
    BY <1>0, <2>2, <2>3, LiberarRecurso
<1> QED
  BY <1>1, <1>2, <1>3, <1>4, <1>5, <1>6 DEF CPU

LEMMA LiberacionRecurso ==
  ASSUME Inv, SinMatar, SinMarco, Agotado, Liberacion
  PROVE  /\ \A r \in Recursos : PasoDeRecurso(r)
         /\ SinMarco' /\ Agotado'
<1>0. PICK h \in Hilos : LiberarSiguiente(h) \/ Despertar(h) \/ FinDeProceso(h)
  BY DEF Liberacion
<1>1. h = "corto"
  BY <1>0, LiberaCorto
<1>2. TipoMarco /\ marco["corto"] \in Marcos /\ TipoRecursos
  BY <1>1 DEF Inv, TypeOK, TipoMarco
<1>3. CASE LiberarSiguiente(h)
  <2> DEFINE m == marco["corto"]
             x == asignados[m.pid][m.i + 1]
             n == [m EXCEPT !.i = @ + 1]
  <2>1. /\ m.op = "finalizar" /\ m.recurso = Nada /\ m.i < Len(asignados[m.pid])
        /\ liberar_recurso("corto", m.pid, x, n) /\ UNCHANGED colaRecurso
    BY <1>1, <1>3 DEF LiberarSiguiente
  <2>2. n \in Marcos /\ n.op = "finalizar" /\ m.pid \in Pids
    BY <1>1, <1>2, <2>1 DEF Marcos, Inv, Punteros
  <2>3. x \in Recursos
    <3>1. asignados[m.pid] \in Seq(Recursos)
      BY <1>2, <2>2 DEF TipoRecursos
    <3>2. m.i + 1 \in 1 .. Len(asignados[m.pid])
      BY <1>2, <2>1, <3>1, LenProperties DEF Marcos
    <3> QED
      BY <3>1, <3>2, ElementOfSeq
  <2>4. marco["corto"].recurso = Nada
    BY <2>1
  <2> HIDE DEF m, x, n
  <2> QED
    BY <2>1, <2>2, <2>3, <2>4, LiberarRecurso
<1>4. CASE Despertar(h)
  <2> DEFINE x == marco["corto"].recurso
  <2>1. /\ x # Nada /\ marco["corto"].op # "esperar"
        /\ marco' = [marco EXCEPT !["corto"].recurso = Nada] /\ instancias' = instancias
        /\ \/ colaRecurso' = [colaRecurso EXCEPT ![x] = Tail(@)]
           \/ colaRecurso' = colaRecurso
    BY <1>1, <1>4 DEF Despertar
  <2>2. marco'["corto"].recurso = Nada /\ marco'["corto"].op = marco["corto"].op
    BY <1>1, <1>2, <2>1 DEF TipoMarco, Marcos
  <2>3. corto.pc # "cpu"
    <3>1. marco["corto"].op # "libre"
      BY <2>1 DEF SinMarco
    <3> QED
      BY <3>1 DEF Inv, Punteros
  <2>4. ASSUME NEW r \in Recursos PROVE PasoDeRecurso(r)
    <3>1. instancias[r] \in Nat /\ instancias'[r] = instancias[r]
      BY <1>2, <2>1 DEF TipoRecursos
    <3>2. r # x => colaRecurso'[r] = colaRecurso[r]
      BY <1>2, <2>1 DEF TipoRecursos
    <3>3. r = x => Despierta(r)
      BY <1>1, <1>4 DEF Despierta
    <3> HIDE DEF x
    <3>4. marco["corto"].recurso = r => Despierta(r)
      BY <3>3 DEF x
    <3>5. colaRecurso'[r] = colaRecurso[r] \/ Despierta(r)
      BY <3>2, <3>3
    <3> QED
      BY <2>3, <3>1, <3>4, <3>5 DEF PasoDeRecurso
  <2>5. SinMarco' /\ Agotado'
    BY <2>1, <2>2 DEF SinMarco, Agotado
  <2> QED
    BY <2>4, <2>5
<1>5. CASE FinDeProceso(h)
  <2>1. /\ UNCHANGED <<instancias, colaRecurso>> /\ marco["corto"].recurso = Nada
        /\ marco' = [marco EXCEPT !["corto"] = MarcoLibre]
    BY <1>1, <1>5 DEF FinDeProceso, recursos
  <2>2. marco'["corto"].recurso = Nada /\ marco'["corto"].op = "libre"
    BY <1>2, <2>1, CortoLibre
  <2> QED
    BY <2>1, <2>2, RecursosQuietos
<1> QED
  BY <1>0, <1>3, <1>4, <1>5

LEMMA PasoDeRecursos ==
  ASSUME Inv, SinMatar, SinMarco, Agotado, Next
  PROVE  /\ \A r \in Recursos : PasoDeRecurso(r)
         /\ SinMarco' /\ Agotado'
<1>1. CASE LargoPlazo
  <2>1. LargoQuieto
    BY <1>1 DEF LargoPlazo, LargoSemNew, LargoDetenida, LargoSemLargo, LargoReponer, LargoVacia,
       LargoSemMulti, LargoRenunciar, LargoSacar, LargoListo, LargoCae
  <2>2. UNCHANGED <<instancias, colaRecurso, marco>>
    BY <2>1 DEF LargoQuieto, recursos
  <2> QED
    BY <2>2, RecursosQuietos
<1>2. CASE Consola
  <2>1. UNCHANGED <<instancias, colaRecurso, marco>>
    BY <1>2, NadaTermina DEF Consola, CrearProceso, AvisarProceso, FinalizarCaso, AjustarMulti,
       FinalizarEjecutando, FinalizarBuscar, CambiarMultiprogramacion, DetenerPlanificacion,
       IniciarPlanificacion, ConsolaQuieta, recursos, SinMatar
  <2> QED
    BY <2>1, RecursosQuietos
<1>3. CASE PararYSeguir
  <2>1. UNCHANGED <<instancias, colaRecurso, marco>>
    BY <1>3 DEF PararYSeguir, Detener, Reanudar, PlanificadoresQuietos, recursos
  <2> QED
    BY <2>1, RecursosQuietos
<1>4. CASE EntradaSalida
  <2>1. PICK i \in Interfaces : FinDeIO(i) \/ SacarDeInterfaz(i)
    BY <1>4 DEF EntradaSalida
  <2>2. UNCHANGED <<instancias, colaRecurso>> /\ i \in Hilos /\ i # "corto"
    BY <2>1, ConstantesValidas DEF FinDeIO, SacarDeInterfaz, IOQuieto, recursos, Hilos
  <2>3. marco'["corto"] = marco["corto"]
    BY <2>1, <2>2 DEF FinDeIO, SacarDeInterfaz, finalizar_proceso, Inv, TypeOK, TipoMarco, Hilos
  <2> QED
    BY <2>2, <2>3, RecursosQuietos
<1> QED
  BY <1>1, <1>2, <1>3, <1>4, CortoPlazoRecurso, CPURecurso, LiberacionRecurso DEF Next

\* What a step does to one use, while the programs are disciplined.
LEMMA PasoDeUso ==
  ASSUME InvEspera, TipoUso, Sueltos, UsoNext, Next, ~abuso, ~abuso', NEW p \in Pids, NEW r \in Recursos
  PROVE  /\ usa[p][r] \in Nat /\ usa'[p][r] \in Nat
         /\ usa'[p][r] >= usa[p][r] \/ (Devuelve(p, r) /\ usa'[p][r] >= usa[p][r] - 1)
         /\ Obtiene(p, r) /\ ~Devuelve(p, r) /\ estado'[p] # "FINALIZADO" => usa'[p][r] = usa[p][r] + 1
<1>0. Inv /\ SinMatar /\ UnLugar /\ EnCPU
  BY DEF InvEspera, InvLugar, InvPasos
<1>1. Disciplina
  BY DEF UsoNext
<1>2. usa[p][r] \in Nat
  BY DEF TipoUso
<1>3. Devuelve(p, r) => usa[p][r] > 0
  BY <1>1 DEF Disciplina
<1>4. usa'[p][r] = IF estado'[p] = "FINALIZADO" THEN 0 ELSE usa[p][r] + Uno(Obtiene(p, r)) - Uno(Devuelve(p, r))
  BY DEF UsoNext
<1>5. estado'[p] = "FINALIZADO" => usa[p][r] = 0
  <2>1. CASE estado[p] = "FINALIZADO"
    BY <2>1 DEF Sueltos
  <2>2. CASE estado[p] # "FINALIZADO" /\ estado'[p] = "FINALIZADO"
    <3>1. corto.pc = "cpu" /\ corto.pid = p
      BY <1>0, <2>2, QuienTermina
    <3>2. estado[p] = "EJECUTANDO"
      BY <1>0, <3>1 DEF EnCPU
    <3> QED
      BY <1>1, <2>2, <3>2 DEF Disciplina
  <2> QED
    BY <2>1, <2>2
<1>6. CASE estado'[p] = "FINALIZADO"
  <2>1. usa'[p][r] = 0 /\ usa[p][r] = 0
    BY <1>4, <1>5, <1>6
  <2> QED
    BY <1>6, <2>1
<1>7. CASE estado'[p] # "FINALIZADO"
  <2>1. CASE Obtiene(p, r) /\ ~Devuelve(p, r)
    BY <1>2, <1>4, <1>7, <2>1 DEF Uno
  <2>2. CASE Obtiene(p, r) /\ Devuelve(p, r)
    BY <1>2, <1>4, <1>7, <2>2 DEF Uno
  <2>3. CASE ~Obtiene(p, r) /\ Devuelve(p, r)
    BY <1>2, <1>3, <1>4, <1>7, <2>3 DEF Uno
  <2>4. CASE ~Obtiene(p, r) /\ ~Devuelve(p, r)
    BY <1>2, <1>4, <1>7, <2>4 DEF Uno
  <2> QED
    BY <2>1, <2>2, <2>3, <2>4
<1> QED
  BY <1>6, <1>7

\* No instance is taken without a use that covers it.
LEMMA CubiertosPaso ==
  ASSUME InvEspera, TipoUso, TipoUso', Sueltos, Cubiertos, UsoNext, Next, ~abuso, ~abuso',
         \A r \in Recursos : PasoDeRecurso(r), Inv'
  PROVE  Cubiertos'
<1>0. Inv /\ instancias \in [Recursos -> Nat] /\ instancias' \in [Recursos -> Nat]
  BY DEF InvEspera, InvLugar, InvPasos, Inv, TypeOK, TipoRecursos
<1>1. PICK c \in Pids : corto.pid \in Pids => c = corto.pid
  <2>1. 1 \in Pids
    BY ConstantesValidas DEF Pids
  <2> QED
    BY <2>1
<1>2. ASSUME NEW r \in Recursos PROVE instancias'[r] + EnUso(r)' >= Instancias[r]
  <2> DEFINE f == [p \in Pids |-> usa[p][r]]
             g == [p \in Pids |-> usa'[p][r]]
  <2>1. f \in [Pids -> Nat] /\ g \in [Pids -> Nat]
    BY DEF TipoUso
  <2>2. ASSUME NEW p \in Pids \ {c} PROVE usa'[p][r] >= usa[p][r]
    <3>1. ~Devuelve(p, r)
      BY <1>1, <2>2 DEF Devuelve
    <3> QED
      BY <3>1, PasoDeUso
  <2>3. instancias'[r] + usa'[c][r] >= instancias[r] + usa[c][r]
    <3>1. usa[c][r] \in Nat /\ usa'[c][r] \in Nat /\ instancias[r] \in Nat /\ instancias'[r] \in Nat
      BY <1>0 DEF TipoUso
    <3>2. CASE Devuelve(c, r)
      <4>1. instancias'[r] = instancias[r] + 1 /\ usa'[c][r] >= usa[c][r] - 1
        BY <3>1, <3>2, PasoDeUso DEF Devuelve
      <4> QED
        BY <3>1, <4>1
    <3>3. CASE ~Devuelve(c, r) /\ instancias'[r] >= instancias[r]
      <4>1. usa'[c][r] >= usa[c][r]
        BY <3>3, PasoDeUso
      <4> QED
        BY <3>1, <3>3, <4>1
    <3>4. CASE ~Devuelve(c, r) /\ Toma(r)
      <4>1. Obtiene(c, r) /\ estado'[c] # "FINALIZADO" /\ instancias'[r] = instancias[r] - 1
        BY <1>1, <3>4 DEF Toma, Obtiene
      <4>2. usa'[c][r] = usa[c][r] + 1
        BY <3>4, <4>1, PasoDeUso
      <4> QED
        BY <3>1, <4>1, <4>2
    <3> QED
      BY <3>2, <3>3, <3>4 DEF PasoDeRecurso
  <2>4. IsFiniteSet(Pids)
    BY PidsFinito
  <2>5. EnUso(r) = SumFunction(f) /\ EnUso(r)' = SumFunction(g)
    BY DEF EnUso
  <2>6. /\ \A p \in Pids \ {c} : g[p] >= f[p]
        /\ instancias'[r] + g[c] >= instancias[r] + f[c]
    BY <2>2, <2>3
  <2> HIDE DEF f, g
  <2>7. instancias[r] \in Nat /\ instancias'[r] \in Nat
    BY <1>0
  <2>8. instancias'[r] + SumFunction(g) >= instancias[r] + SumFunction(f)
    BY <2>1, <2>4, <2>6, <2>7, SumaCompensa
  <2>9. SumFunction(f) \in Nat /\ SumFunction(g) \in Nat
    BY <2>1, <2>4, SumaNatural
  <2>10. instancias[r] + EnUso(r) >= Instancias[r] /\ Instancias[r] \in Nat
    BY ConstantesValidas DEF Cubiertos
  <2> QED
    BY <2>5, <2>7, <2>8, <2>9, <2>10
<1> QED
  BY <1>2 DEF Cubiertos

\* Who is queued at a resource is blocked.
LEMMA EnColaBloqueado ==
  ASSUME InvEspera, NEW r \in Recursos, colaRecurso[r] # <<>>
  PROVE  Head(colaRecurso[r]) \in squeue_blocked /\ Head(colaRecurso[r]) \in Pids
<1> DEFINE p == Head(colaRecurso[r])
           s == colaRecurso[r]
<1>0. Inv /\ EsperaUnica
  BY DEF InvEspera, InvLugar, InvPasos
<1>1. s \in Seq(Pids) /\ s # <<>>
  BY <1>0 DEF Inv, TypeOK, TipoRecursos
<1>2. p \in Pids
  BY <1>1, HeadTailProperties
<1>3. Veces(p, s) = Veces(p, Tail(s)) + 1 /\ Veces(p, Tail(s)) \in Nat
  BY <1>1, VecesTail DEF Uno
<1> DEFINE f == [x \in Recursos |-> Veces(p, colaRecurso[x])]
<1>4. f \in [Recursos -> Nat] /\ f[r] = Veces(p, s) /\ EnRecursos(p) = SumFunction(f)
  <2>1. \A x \in Recursos : Veces(p, colaRecurso[x]) \in Nat
    BY <1>0, VecesCuantas DEF Inv, TypeOK, TipoRecursos
  <2> QED
    BY <2>1 DEF EnRecursos
<1> HIDE DEF f, p, s
<1>5. SumFunction(f) \in Nat /\ f[r] <= SumFunction(f)
  BY <1>4, ConstantesValidas, SumaCubre
<1>6. EnPedidos(p) \in Nat /\ EnRecursos(p) + EnPedidos(p) = Uno(p \in squeue_blocked)
  BY <1>0, <1>2, EsperasNaturales, EsperaDeTodos
<1>7. Uno(p \in squeue_blocked) # 0
  BY <1>3, <1>4, <1>5, <1>6
<1> QED
  BY <1>2, <1>7 DEF Uno, p

LEMMA AtendidosPaso ==
  ASSUME InvEspera, TipoUso, TipoUso', Sueltos, Atendidos, Agotado, SinMarco, UsoNext, Next, ~abuso, ~abuso',
         \A r \in Recursos : PasoDeRecurso(r), Cubiertos', \A r \in Recursos : Instancias[r] > 0
  PROVE  Atendidos'
<1> SUFFICES ASSUME NEW r \in Recursos, colaRecurso'[r] # <<>>
             PROVE  (\E p \in Pids : usa'[p][r] > 0) \/ marco'["corto"].recurso = r
  BY DEF Atendidos
<1>0. Inv /\ PasoDeRecurso(r) /\ TipoRecursos
  BY DEF InvEspera, InvLugar, InvPasos, Inv, TypeOK
<1>1. CASE Encola(r)
  <2>1. instancias[r] = 0 /\ instancias' = instancias
    BY <1>1 DEF Encola, EsperarRecurso, Agotado
  <2>2. instancias'[r] = 0
    BY <2>1
  <2>3. \E p \in Pids : usa'[p][r] > 0
    <3>1. \A p \in Pids : usa'[p][r] \in Nat
      BY DEF TipoUso
    <3> SUFFICES ASSUME \A p \in Pids : ~(usa'[p][r] > 0) PROVE FALSE
      OBVIOUS
    <3> DEFINE f == [p \in Pids |-> usa'[p][r]]
    <3>2. f \in [Pids -> Nat] /\ \A p \in Pids : f[p] = 0
      BY <3>1
    <3>3. EnUso(r)' = SumFunction(f)
      BY DEF EnUso
    <3> HIDE DEF f
    <3>4. IsFiniteSet(Pids)
      BY PidsFinito
    <3>5. EnUso(r)' = 0
      BY <3>2, <3>3, <3>4, SumaDeCeros
    <3>6. Instancias[r] \in Nat /\ Instancias[r] > 0
      BY ConstantesValidas
    <3>7. instancias'[r] + EnUso(r)' >= Instancias[r]
      BY DEF Cubiertos
    <3> QED
      BY <2>2, <3>5, <3>6, <3>7
  <2> QED
    BY <2>3
<1>2. CASE Despierta(r) /\ colaRecurso[r] # <<>>
  <2> DEFINE p == Head(colaRecurso[r])
  <2>1. p \in Pids /\ p \in squeue_blocked
    BY <1>2, EnColaBloqueado
  <2>2. desbloquear_proceso(p) /\ colaRecurso' = [colaRecurso EXCEPT ![r] = Tail(@)]
    BY <1>2 DEF Despierta, Despertar
  <2>3. Obtiene(p, r)
    BY <1>0, <1>2, <2>2 DEF Obtiene, TipoRecursos
  <2> HIDE DEF p
  <2>4. estado'[p] # "FINALIZADO"
    <3>1. \E b : proceso_listo(p, b)
      BY <2>1, <2>2 DEF desbloquear_proceso
    <3> QED
      BY <1>0, <2>1, <3>1 DEF proceso_listo, Inv, TypeOK, TipoProcesos
  <2>5. ~Devuelve(p, r)
    <3>1. marco["corto"].op # "libre"
      BY <1>2 DEF Despierta, Despertar, SinMarco
    <3> QED
      BY <1>0, <3>1 DEF Inv, Punteros, Devuelve
  <2>6. usa[p][r] \in Nat /\ usa'[p][r] = usa[p][r] + 1
    BY <2>1, <2>3, <2>4, <2>5, PasoDeUso
  <2> QED
    BY <2>1, <2>6
<1>3. CASE ~Encola(r) /\ ~(Despierta(r) /\ colaRecurso[r] # <<>>)
  <2>1. colaRecurso[r] # <<>> /\ ~Despierta(r)
    <3>1. CASE Despierta(r)
      <4>1. colaRecurso[r] = <<>>
        BY <1>3, <3>1
      <4>2. UNCHANGED colaRecurso
        BY <3>1, <4>1 DEF Despierta, Despertar
      <4> QED
        BY <4>1, <4>2
    <3>2. CASE ~Despierta(r)
      BY <1>0, <1>3, <3>2 DEF PasoDeRecurso
    <3> QED
      BY <3>1, <3>2
  <2>2. CASE marco["corto"].recurso = r
    BY <1>0, <1>3, <2>1, <2>2 DEF PasoDeRecurso
  <2>3. CASE \E p \in Pids : usa[p][r] > 0
    <3>1. PICK p \in Pids : usa[p][r] > 0
      BY <2>3
    <3>2. CASE Devuelve(p, r)
      BY <1>0, <2>1, <3>2 DEF PasoDeRecurso, Devuelve
    <3>3. CASE ~Devuelve(p, r)
      <4>1. usa[p][r] \in Nat /\ usa'[p][r] \in Nat /\ usa'[p][r] >= usa[p][r]
        BY <3>3, PasoDeUso
      <4>2. usa'[p][r] > 0
        BY <3>1, <4>1
      <4> QED
        BY <4>2
    <3> QED
      BY <3>2, <3>3
  <2> QED
    BY <2>1, <2>2, <2>3 DEF Atendidos
<1> QED
  BY <1>1, <1>2, <1>3

LEMMA UsoInductivo ==
  ASSUME "FINALIZAR_PROCESO" \notin Comandos, "DESCONOCIDO" \notin Retornos,
         \A r \in Recursos : Instancias[r] > 0
  PROVE  InvUso /\ [UsoNext]_<<vars, uso>> => InvUso'
<1> SUFFICES ASSUME InvUso, [UsoNext]_<<vars, uso>> PROVE InvUso'
  OBVIOUS
<1>0. InvEspera /\ TipoUso /\ Agotado /\ SinMarco /\ Inv /\ SinMatar
  BY DEF InvUso, InvEspera, InvLugar, InvPasos
<1>1. CASE UsoNext
  <2>1. Next
    BY <1>1 DEF UsoNext
  <2>2. InvEspera' /\ Inv'
    <3>1. InvEspera'
      BY <1>0, <2>1, EsperaInductiva
    <3> QED
      BY <1>0, <2>1, <3>1, InvInductivo
  <2>3. (\A r \in Recursos : PasoDeRecurso(r)) /\ SinMarco' /\ Agotado'
    BY <1>0, <2>1, PasoDeRecursos
  <2>4. abuso' \in BOOLEAN
    BY <1>1 DEF UsoNext
  <2>5. CASE abuso'
    <3>1. usa' = SinUsos
      BY <1>1, <2>5 DEF UsoNext
    <3>2. TipoUso'
      BY <2>4, <3>1 DEF TipoUso, SinUsos
    <3> QED
      BY <2>2, <2>3, <2>5, <3>2 DEF InvUso
  <2>6. CASE ~abuso'
    <3>1. ~abuso
      BY <1>1, <2>6 DEF UsoNext
    <3>2. Sueltos /\ Cubiertos /\ Atendidos
      BY <3>1 DEF InvUso
    <3>3. \A p \in Pids, r \in Recursos : usa'[p][r] \in Nat
      BY <1>0, <1>1, <2>1, <2>6, <3>1, <3>2, PasoDeUso
    <3>4. usa' = [p \in Pids |-> [r \in Recursos |->
                    IF estado'[p] = "FINALIZADO" THEN 0
                    ELSE usa[p][r] + Uno(Obtiene(p, r)) - Uno(Devuelve(p, r))]]
      BY <1>1, <2>6 DEF UsoNext
    <3>5. PICK u : usa' = [p \in Pids |-> [r \in Recursos |-> u[p][r]]]
      BY <3>4
    <3>6. TipoUso'
      BY <2>4, <3>3, <3>5 DEF TipoUso
    <3>7. Sueltos'
      BY <3>4 DEF Sueltos
    <3>8. Cubiertos'
      BY <1>0, <1>1, <2>1, <2>2, <2>3, <2>6, <3>1, <3>2, <3>6, CubiertosPaso
    <3>9. Atendidos'
      BY <1>0, <1>1, <2>1, <2>2, <2>3, <2>6, <3>1, <3>2, <3>6, <3>8, AtendidosPaso
    <3> QED
      BY <2>2, <2>3, <3>6, <3>7, <3>8, <3>9 DEF InvUso
  <2> QED
    BY <2>5, <2>6
<1>2. CASE UNCHANGED <<vars, uso>>
  <2>1. UNCHANGED vars /\ UNCHANGED <<usa, abuso>>
    BY <1>2 DEF uso
  <2>2. InvEspera'
    BY <1>0, <2>1, EsperaInductiva
  <2>3. UNCHANGED <<estado, instancias, colaRecurso, marco>>
    BY <2>1 DEF vars, procesos, recursos, control
  <2>4. TipoUso' /\ Agotado' /\ SinMarco'
    BY <1>0, <2>1, <2>3 DEF TipoUso, Agotado, SinMarco
  <2>5. ~abuso => Sueltos' /\ Cubiertos' /\ Atendidos'
    BY <2>1, <2>3 DEF InvUso, Sueltos, Cubiertos, EnUso, Atendidos
  <2> QED
    BY <2>1, <2>2, <2>4, <2>5 DEF InvUso
<1> QED
  BY <1>1, <1>2

LEMMA UsoInicial == UsoInit => InvUso
<1> SUFFICES ASSUME UsoInit PROVE InvUso
  OBVIOUS
<1>0. Init /\ usa = SinUsos /\ abuso = FALSE /\ InvEspera
  BY EsperaInicial DEF UsoInit
<1>1. TipoUso /\ Sueltos
  BY <1>0 DEF TipoUso, Sueltos, SinUsos
<1>2. Agotado /\ SinMarco /\ Atendidos
  BY <1>0 DEF Init, Agotado, SinMarco, Atendidos, MarcoLibre, Hilos
<1>3. Cubiertos
  <2>1. IsFiniteSet(Pids)
    BY PidsFinito
  <2> SUFFICES ASSUME NEW r \in Recursos PROVE instancias[r] + EnUso(r) >= Instancias[r]
    BY DEF Cubiertos
  <2> DEFINE f == [p \in Pids |-> usa[p][r]]
  <2>2. f \in [Pids -> Nat] /\ EnUso(r) = SumFunction(f)
    BY <1>1 DEF TipoUso, EnUso
  <2> HIDE DEF f
  <2>3. SumFunction(f) \in Nat
    BY <2>1, <2>2, SumaNatural
  <2>4. instancias[r] = Instancias[r] /\ Instancias[r] \in Nat
    BY <1>0, ConstantesValidas DEF Init
  <2> QED
    BY <2>2, <2>3, <2>4
<1> QED
  BY <1>0, <1>1, <1>2, <1>3 DEF InvUso

\* Without FINALIZAR_PROCESO, with at least one instance of each resource and a CPU that
\* gives processes back for a known reason, no waiter is forgotten by disciplined programs,
\* however many there are: while a process is queued at a resource (manejar_recurso) another
\* one is using it, or liberar_recurso is about to wake the first waiter.
THEOREM EsperaSiemprePorAlguien ==
  ASSUME "FINALIZAR_PROCESO" \notin Comandos, "DESCONOCIDO" \notin Retornos,
         \A r \in Recursos : Instancias[r] > 0
  PROVE  UsoSpec => []EsperaPorAlguien
<1>1. InvUso => EsperaPorAlguien
  <2>1. "corto" \in Hilos
    BY DEF Hilos
  <2> QED
    BY <2>1 DEF InvUso, Atendidos, EsperaPorAlguien
<1> QED
  BY <1>1, UsoInicial, UsoInductivo, PTL DEF UsoSpec
=============================================================================
