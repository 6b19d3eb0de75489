--------------------------- MODULE DespachoProofs ---------------------------
(***************************************************************************)
(* Theorems of Despacho, for any set of processes, any number of           *)
(* interrupts under way and any algorithm.                                 *)
(***************************************************************************)
EXTENDS Despacho, SequenceTheorems, TLAPS

LEMMA Cabeza ==
  ASSUME NEW S, NEW s \in Seq(S), s # <<>>
  PROVE  Head(s) \in S /\ Tail(s) \in Seq(S) /\ (Len(s) = 1 => Tail(s) = <<>>)
<1>1. Len(s) = 1 => Len(Tail(s)) = 0
  OBVIOUS
<1>2. Head(s) \in S /\ Tail(s) \in Seq(S)
  OBVIOUS
<1> QED
  BY <1>1, <1>2, EmptySeq, LenProperties

-----------------------------------------------------------------------------
(* The inductive invariant.                                                 *)

\* The quantum thread lives while its process is out, and pcb_ejecutandose names
\* that process until the scheduler lets it go.
HiloDelQuantum ==
  /\ hilo_quantum = "durmiendo" => corto.pc \in {"recibir", "desalojar"}
  /\ corto.pc \in {"recibir", "desalojar", "soltar"} => pcb_ejecutandose = corto.pid

\* The flags of the CPU are those of the process it is running.
Banderas ==
  /\ envioPcb => esSyscall
  /\ cpu = "recv" => ~esSyscall
  /\ cpu = "ejecutar" => ~esSyscall
  /\ cpu = "pedir" => envioPcb

Inv == TypeOK /\ HiloDelQuantum /\ Banderas /\ RespuestaUnica

USE DEF Ninguno

LEMMA Largos == Inv => /\ Len(dispatch) \in Nat /\ Len(respuesta) \in Nat
                       /\ Len(dispatch) = 0 <=> dispatch = <<>>
                       /\ Len(respuesta) = 0 <=> respuesta = <<>>
BY DEF Inv, TypeOK

LEMMA InvInicial == Init => Inv
<1> SUFFICES ASSUME Init PROVE Inv
  OBVIOUS
<1>1. TypeOK
  <2>1. dispatch \in Seq([pid : Pids, motivo : Motivos]) /\ respuesta \in Seq(Pcbs)
        /\ interrupt \in Seq([motivo : Interrupciones, pid : Pids])
    BY DEF Init
  <2>2. pcb_actual \in Pcbs
    BY DEF Init, Pcbs, Motivos
  <2> QED
    BY <2>1, <2>2 DEF Init, TypeOK, Motivos
<1>2. HiloDelQuantum /\ Banderas
  BY DEF Init, HiloDelQuantum, Banderas
<1>3. RespuestaUnica
  <2>1. ~CPUDebe /\ ~EnCurso
    BY DEF Init, CPUDebe, EnCurso
  <2> QED
    BY <2>1 DEF Init, RespuestaUnica, Uno
<1> QED
  BY <1>1, <1>2, <1>3 DEF Inv

\* What RespuestaUnica says, case by case.
LEMMA SinProcesoFuera ==
  ASSUME Inv, ~EnCurso
  PROVE  dispatch = <<>> /\ respuesta = <<>> /\ ~CPUDebe
BY Largos DEF Inv, RespuestaUnica, Uno

LEMMA ConProcesoFuera ==
  ASSUME Inv
  PROVE  /\ dispatch # <<>> => EnCurso /\ Len(dispatch) = 1 /\ respuesta = <<>> /\ ~CPUDebe
         /\ respuesta # <<>> => EnCurso /\ Len(respuesta) = 1 /\ dispatch = <<>> /\ ~CPUDebe
         /\ CPUDebe => EnCurso /\ dispatch = <<>> /\ respuesta = <<>>
<1> DEFINE debe == Uno(CPUDebe)
           fuera == Uno(EnCurso)
<1>1. debe \in 0 .. 1 /\ (debe = 1 <=> CPUDebe) /\ fuera \in 0 .. 1 /\ (fuera = 1 <=> EnCurso)
  BY DEF Uno
<1>2. Len(dispatch) + debe + Len(respuesta) = fuera
  BY DEF Inv, RespuestaUnica
<1>3. /\ Len(dispatch) \in Nat /\ Len(respuesta) \in Nat
      /\ dispatch # <<>> <=> Len(dispatch) # 0
      /\ respuesta # <<>> <=> Len(respuesta) # 0
  BY Largos
<1> DEFINE ida == Len(dispatch)
           vuelta == Len(respuesta)
<1> HIDE DEF debe, fuera, ida, vuelta
<1>4. /\ ida # 0 => fuera = 1 /\ ida = 1 /\ vuelta = 0 /\ debe = 0
      /\ vuelta # 0 => fuera = 1 /\ vuelta = 1 /\ ida = 0 /\ debe = 0
      /\ debe = 1 => fuera = 1 /\ ida = 0 /\ vuelta = 0
  <2>1. ida \in Nat /\ vuelta \in Nat /\ ida + debe + vuelta = fuera
    BY <1>2, <1>3 DEF ida, vuelta
  <2> QED
    BY <2>1, <1>1
<1> QED
  BY <1>1, <1>3, <1>4 DEF ida, vuelta

-----------------------------------------------------------------------------
(* Each action preserves the invariant.                                     *)

LEMMA DespacharInv == ASSUME Inv, NEW p \in Pids, Despachar(p) PROVE Inv'
<1> USE DEF Inv
<1>1. dispatch = <<>> /\ respuesta = <<>> /\ ~CPUDebe
  BY SinProcesoFuera DEF Despachar, EnCurso
<1>2. TypeOK'
  BY DEF Despachar, TypeOK, procesador, HayInterrupcionEnCurso
<1>3. HiloDelQuantum' /\ Banderas'
  BY DEF Despachar, HiloDelQuantum, Banderas, TypeOK, procesador
<1>4. CPUDebe' = CPUDebe /\ corto'.pid = p
  BY DEF Despachar, CPUDebe, procesador
<1>5. dispatch' = <<[pid |-> p, motivo |-> motivo[p]]>> /\ respuesta' = <<>> /\ EnCurso'
  BY <1>1 DEF Despachar, EnCurso
<1>6. RespuestaUnica'
  BY <1>1, <1>4, <1>5 DEF RespuestaUnica, Uno
<1> QED
  BY <1>2, <1>3, <1>6

LEMMA MarcarInv == ASSUME Inv, Marcar PROVE Inv'
<1> USE DEF Inv
<1>1. TypeOK'
  BY SMTT(30) DEF Marcar, TypeOK, canales, procesador, historia
<1>2. HiloDelQuantum' /\ Banderas'
  BY DEF Marcar, HiloDelQuantum, Banderas, TypeOK, procesador
<1>3. CPUDebe' = CPUDebe /\ EnCurso' = EnCurso /\ corto'.pid = corto.pid
  BY DEF Marcar, CPUDebe, EnCurso, procesador, TypeOK
<1>4. RespuestaUnica'
  BY <1>3 DEF Marcar, RespuestaUnica, canales, procesador
<1> QED
  BY <1>1, <1>2, <1>4

LEMMA RecibirRespuestaInv == ASSUME Inv, RecibirRespuesta PROVE Inv'
<1> USE DEF Inv
<1>1. EnCurso /\ Len(respuesta) = 1 /\ dispatch = <<>> /\ ~CPUDebe
  BY ConProcesoFuera DEF RecibirRespuesta
<1>2. TypeOK'
  <2>1. Head(respuesta) \in Pcbs /\ respuesta' \in Seq(Pcbs)
    BY DEF RecibirRespuesta, TypeOK
  <2>2. Head(respuesta).motivo \in Motivos
    BY <2>1 DEF Pcbs
  <2> QED
    BY <2>1, <2>2 DEF RecibirRespuesta, TypeOK, procesador, historia
<1>3. HiloDelQuantum' /\ Banderas'
  BY DEF RecibirRespuesta, HiloDelQuantum, Banderas, TypeOK, procesador
<1>4. ~CPUDebe' /\ ~EnCurso' /\ dispatch' = <<>>
  BY <1>1 DEF RecibirRespuesta, CPUDebe, EnCurso, procesador, TypeOK
<1>5. respuesta' = <<>>
  BY <1>1 DEF RecibirRespuesta, TypeOK
<1>6. RespuestaUnica'
  BY <1>4, <1>5 DEF RespuestaUnica, Uno
<1> QED
  BY <1>2, <1>3, <1>6

LEMMA DesalojarInv == ASSUME Inv, Desalojar PROVE Inv'
<1> USE DEF Inv
<1>1. TypeOK'
  <2>1. \A m \in Motivos : Destinos(m) \subseteq {"listo", "bloqueado", "terminado", "ninguna"}
    BY DEF Destinos
  <2>2. motivo[corto.pid] \in Motivos
    BY DEF Desalojar, TypeOK
  <2> QED
    BY <2>1, <2>2 DEF Desalojar, TypeOK, canales, procesador, historia
<1>2. HiloDelQuantum' /\ Banderas'
  BY DEF Desalojar, HiloDelQuantum, Banderas, TypeOK, procesador
<1>3. CPUDebe' = CPUDebe /\ EnCurso' = EnCurso /\ corto'.pid = corto.pid
  BY DEF Desalojar, CPUDebe, EnCurso, procesador, TypeOK
<1>4. RespuestaUnica'
  BY <1>3 DEF Desalojar, RespuestaUnica, canales, procesador
<1> QED
  BY <1>1, <1>2, <1>4

LEMMA SoltarInv == ASSUME Inv, Soltar PROVE Inv'
<1> USE DEF Inv
<1>1. TypeOK'
  BY DEF Soltar, TypeOK, canales, procesador, historia
<1>2. HiloDelQuantum' /\ Banderas'
  BY DEF Soltar, HiloDelQuantum, Banderas, TypeOK, procesador
<1>3. dispatch = <<>> /\ respuesta = <<>> /\ ~CPUDebe
  BY SinProcesoFuera DEF Soltar, EnCurso
<1>4. CPUDebe' = CPUDebe /\ ~EnCurso'
  BY DEF Soltar, CPUDebe, EnCurso, procesador
<1>5. RespuestaUnica'
  BY <1>3, <1>4 DEF Soltar, RespuestaUnica, canales, procesador, Uno
<1> QED
  BY <1>1, <1>2, <1>5

\* An interrupt or an unblocking touches nothing the loan depends on.
LEMMA PrestamoQuieto ==
  ASSUME Inv, UNCHANGED <<corto, pcb_ejecutandose, dispatch, respuesta, cpu, esSyscall, envioPcb>>,
         pcb_actual'.pid = pcb_actual.pid, hilo_quantum' \in {hilo_quantum, "no"}
  PROVE  HiloDelQuantum' /\ Banderas' /\ RespuestaUnica'
<1>1. HiloDelQuantum' /\ Banderas'
  BY DEF Inv, HiloDelQuantum, Banderas
<1>2. CPUDebe' = CPUDebe /\ EnCurso' = EnCurso
  BY DEF CPUDebe, EnCurso
<1> QED
  BY <1>1, <1>2 DEF Inv, RespuestaUnica

LEMMA QuantumVenceInv == ASSUME Inv, QuantumVence PROVE Inv'
<1>1. TypeOK'
  <2>1. pcb_ejecutandose \in Pids
    BY DEF Inv, QuantumVence, HiloDelQuantum, TypeOK
  <2> QED
    BY <2>1 DEF Inv, QuantumVence, EnviarInterrupcion, TypeOK, procesador, Interrupciones
<1> QED
  BY <1>1, PrestamoQuieto DEF Inv, QuantumVence, procesador

LEMMA FinalizarEjecutandoInv == ASSUME Inv, FinalizarEjecutando PROVE Inv'
<1>1. TypeOK'
  BY DEF Inv, FinalizarEjecutando, EnviarInterrupcion, TypeOK, procesador, Interrupciones
<1> QED
  BY <1>1, PrestamoQuieto DEF Inv, FinalizarEjecutando, procesador

LEMMA DesbloquearInv == ASSUME Inv, NEW p \in Pids, Desbloquear(p) PROVE Inv'
<1>1. TypeOK'
  BY DEF Inv, Desbloquear, TypeOK, canales, procesador, historia
<1> QED
  BY <1>1, PrestamoQuieto DEF Inv, Desbloquear, canales, procesador

LEMMA RecibirInterrupcionInv == ASSUME Inv, RecibirInterrupcion PROVE Inv'
<1>1. TypeOK'
  <2>1. Head(interrupt) \in [motivo : Interrupciones, pid : Pids]
        /\ interrupt' \in Seq([motivo : Interrupciones, pid : Pids])
    BY Cabeza DEF Inv, RecibirInterrupcion, TypeOK
  <2> QED
    BY <2>1 DEF Inv, RecibirInterrupcion, InterrupcionQuieta, TypeOK, kernel, historia
<1> QED
  BY <1>1, PrestamoQuieto DEF Inv, RecibirInterrupcion, InterrupcionQuieta, kernel

LEMMA EscribirMotivoInv == ASSUME Inv, EscribirMotivo PROVE Inv'
<1>1. TypeOK' /\ pcb_actual'.pid = pcb_actual.pid
  BY DEF Inv, EscribirMotivo, InterrupcionQuieta, TypeOK, kernel, historia, Pcbs, Motivos
<1> QED
  BY <1>1, PrestamoQuieto DEF Inv, EscribirMotivo, InterrupcionQuieta, kernel

LEMMA RecibirProcesoInv == ASSUME Inv, RecibirProceso PROVE Inv'
<1> USE DEF Inv
<1>1. EnCurso /\ Len(dispatch) = 1 /\ respuesta = <<>>
  BY ConProcesoFuera DEF RecibirProceso
<1>2. Head(dispatch) \in [pid : Pids, motivo : Motivos] /\ dispatch' = <<>>
  BY <1>1, Cabeza DEF RecibirProceso, TypeOK
<1>3. TypeOK'
  BY <1>2 DEF RecibirProceso, DespachoQuieto, TypeOK, kernel, Pcbs
<1>4. HiloDelQuantum' /\ Banderas'
  BY DEF RecibirProceso, DespachoQuieto, HiloDelQuantum, Banderas, kernel
<1>5. CPUDebe' /\ EnCurso'
  BY <1>1 DEF RecibirProceso, DespachoQuieto, CPUDebe, EnCurso, Banderas, kernel, TypeOK
<1>6. pcb_actual'.pid = corto'.pid
  BY DEF RecibirProceso, DespachoQuieto, RespuestaUnica, kernel
<1>7. RespuestaUnica'
  BY <1>1, <1>2, <1>5, <1>6 DEF RecibirProceso, RespuestaUnica, Uno
<1> QED
  BY <1>3, <1>4, <1>7

\* The steps of the CPU that keep the process.
LEMMA CPUSigue ==
  ASSUME Inv, DespachoQuieto, UNCHANGED <<dispatch, respuesta, interrupciones>>,
         pcb_actual' \in Pcbs, pcb_actual'.pid = pcb_actual.pid,
         cpu' \in {"lazo", "ejecutar", "pedir", "responder"},
         esSyscall' \in BOOLEAN, envioPcb' \in BOOLEAN, Banderas',
         pedido' \in {Ninguno} \cup Syscalls \cup Finales,
         CPUDebe' = CPUDebe
  PROVE  Inv'
<1>1. TypeOK'
  BY DEF Inv, DespachoQuieto, TypeOK, kernel
<1>2. HiloDelQuantum'
  BY DEF Inv, DespachoQuieto, HiloDelQuantum, kernel
<1>3. EnCurso' = EnCurso /\ corto' = corto
  BY DEF DespachoQuieto, EnCurso, kernel
<1>4. RespuestaUnica'
  BY <1>3 DEF Inv, RespuestaUnica
<1> QED
  BY <1>1, <1>2, <1>4 DEF Inv

LEMMA LazoInv == ASSUME Inv, Lazo PROVE Inv'
<1>1. CPUDebe' = CPUDebe /\ Banderas'
  BY DEF Inv, Lazo, CPUDebe, Banderas
<1> QED
  BY <1>1, CPUSigue DEF Inv, Lazo, TypeOK

LEMMA EjecutarComunInv == ASSUME Inv, EjecutarComun PROVE Inv'
<1>1. CPUDebe' = CPUDebe /\ Banderas'
  BY DEF Inv, EjecutarComun, CPUDebe, Banderas
<1> QED
  BY <1>1, CPUSigue DEF Inv, EjecutarComun, TypeOK

LEMMA EjecutarSyscallInv == ASSUME Inv, NEW m \in Syscalls, EjecutarSyscall(m) PROVE Inv'
<1>1. pcb_actual' \in Pcbs /\ pcb_actual'.pid = pcb_actual.pid
  BY DEF Inv, EjecutarSyscall, TypeOK, Pcbs, Motivos
<1>2. CPUDebe' = CPUDebe /\ Banderas'
  BY DEF Inv, EjecutarSyscall, CPUDebe, Banderas
<1> QED
  BY <1>1, <1>2, CPUSigue DEF EjecutarSyscall

LEMMA EjecutarFinalInv == ASSUME Inv, NEW m \in Finales, EjecutarFinal(m) PROVE Inv'
<1>1. pcb_actual' \in Pcbs /\ pcb_actual'.pid = pcb_actual.pid
  BY DEF Inv, EjecutarFinal, TypeOK, Pcbs, Motivos
<1>2. CPUDebe' = CPUDebe /\ Banderas'
  BY DEF Inv, EjecutarFinal, CPUDebe, Banderas
<1> QED
  BY <1>1, <1>2, CPUSigue DEF Inv, EjecutarFinal, TypeOK

\* The CPU sends the process back.
LEMMA CPUContesta ==
  ASSUME Inv, CPUDebe, DespachoQuieto, respuesta' = Append(respuesta, pcb_actual),
         UNCHANGED <<dispatch, pcb_actual, esSyscall, envioPcb, interrupciones, pedido>>,
         cpu' \in {"lazo", "limpiar"}, ~CPUDebe'
  PROVE  Inv'
<1> USE DEF Inv
<1>1. EnCurso /\ dispatch = <<>> /\ respuesta = <<>>
  BY ConProcesoFuera
<1>2. TypeOK'
  BY DEF TypeOK, DespachoQuieto, kernel
<1>3. HiloDelQuantum' /\ Banderas'
  BY DEF HiloDelQuantum, Banderas, DespachoQuieto, kernel
<1>4. respuesta' = <<pcb_actual>> /\ EnCurso' /\ corto' = corto
  BY <1>1 DEF DespachoQuieto, EnCurso, kernel
<1>5. RespuestaUnica'
  BY <1>1, <1>4 DEF RespuestaUnica, Uno
<1> QED
  BY <1>2, <1>3, <1>5

LEMMA PedirInv == ASSUME Inv, Pedir PROVE Inv'
<1>1. CPUDebe /\ ~CPUDebe'
  BY DEF Inv, Pedir, CPUDebe, Banderas
<1> QED
  BY <1>1, CPUContesta DEF Pedir

LEMMA ResponderInv == ASSUME Inv, Responder PROVE Inv'
<1>1. ~CPUDebe'
  BY DEF Responder, CPUDebe
<1>2. CASE envioPcb
  <2>1. ~CPUDebe
    BY <1>2 DEF Responder, CPUDebe
  <2>2. TypeOK' /\ HiloDelQuantum' /\ Banderas'
    BY <1>2 DEF Inv, Responder, DespachoQuieto, TypeOK, HiloDelQuantum, Banderas, kernel
  <2>3. EnCurso' = EnCurso /\ corto' = corto
    BY DEF Responder, DespachoQuieto, EnCurso, kernel
  <2>4. RespuestaUnica'
    BY <1>1, <1>2, <2>1, <2>3 DEF Inv, Responder, RespuestaUnica, Uno
  <2> QED
    BY <2>2, <2>4 DEF Inv
<1>3. CASE ~envioPcb
  BY <1>1, <1>3, CPUContesta DEF Responder, CPUDebe
<1> QED
  BY <1>2, <1>3 DEF Inv, TypeOK

LEMMA LimpiarInv == ASSUME Inv, Limpiar PROVE Inv'
<1>1. ~CPUDebe /\ ~CPUDebe'
  BY DEF Limpiar, CPUDebe
<1>2. TypeOK' /\ HiloDelQuantum' /\ Banderas'
  BY DEF Inv, Limpiar, DespachoQuieto, TypeOK, HiloDelQuantum, Banderas, kernel
<1>3. EnCurso' = EnCurso /\ corto' = corto
  BY DEF Limpiar, DespachoQuieto, EnCurso, kernel
<1>4. RespuestaUnica'
  BY <1>1, <1>3 DEF Inv, Limpiar, RespuestaUnica, Uno
<1> QED
  BY <1>2, <1>4 DEF Inv

LEMMA InvInductivo == Inv /\ [Next]_vars => Inv'
<1> SUFFICES ASSUME Inv, [Next]_vars PROVE Inv'
  OBVIOUS
<1>1. CASE Kernel
  BY <1>1, DespacharInv, MarcarInv, RecibirRespuestaInv, DesalojarInv, SoltarInv DEF Kernel
<1>2. CASE QuantumVence \/ FinalizarEjecutando \/ (\E p \in Pids : Desbloquear(p))
  BY <1>2, QuantumVenceInv, FinalizarEjecutandoInv, DesbloquearInv
<1>3. CASE CPUDispatch
  BY <1>3, RecibirProcesoInv, LazoInv, EjecutarComunInv, EjecutarSyscallInv, EjecutarFinalInv, PedirInv,
     ResponderInv, LimpiarInv DEF CPUDispatch
<1>4. CASE CPUInterrupt
  BY <1>4, RecibirInterrupcionInv, EscribirMotivoInv DEF CPUInterrupt
<1>5. CASE UNCHANGED vars
  BY <1>5 DEF vars, kernel, canales, procesador, historia, Inv, TypeOK, HiloDelQuantum, Banderas,
     RespuestaUnica, CPUDebe, EnCurso
<1> QED
  BY <1>1, <1>2, <1>3, <1>4, <1>5 DEF Next

\* Every variable of the dispatch connection stays in its type: in particular the
\* messages on it are the ones the code sends there, and the process each of them
\* names exists (ejecutar_PCB, recibir_pcb_CPU, check_interrupt).
THEOREM TipoCorrecto == Spec => []TypeOK
<1>1. Inv => TypeOK
  BY DEF Inv
<1> QED
  BY InvInicial, InvInductivo, <1>1, PTL DEF Spec

\* Every lent process comes back exactly once, as itself: RespuestaUnica holds of
\* the dispatch connection (ejecutar_PCB, procesar_conexion_dispatch) whatever the
\* quantum thread and the console send meanwhile.
THEOREM UnaRespuestaPorDespacho == Spec => []RespuestaUnica
<1>1. Inv => RespuestaUnica
  BY DEF Inv
<1> QED
  BY InvInicial, InvInductivo, <1>1, PTL DEF Spec

-----------------------------------------------------------------------------
(* Despacho implements Prestamo.                                            *)

\* A step that changes neither the loan nor the answers is a stutter.
LEMMA PasoQuieto ==
  ASSUME EnCurso' = EnCurso, EnCurso => corto'.pid = corto.pid, respuesta' = respuesta
  PROVE  UNCHANGED Prestamo!prestamo
BY DEF Prestamo!prestamo

LEMMA PasoPresta == ASSUME Inv, NEW p \in Pids, Despachar(p) PROVE Prestamo!Prestar(p)
<1>1. ~EnCurso /\ EnCurso' /\ corto'.pid = p
  BY DEF Despachar, EnCurso
<1>2. respuesta = <<>> /\ respuesta' = <<>>
  BY <1>1, SinProcesoFuera DEF Despachar
<1> QED
  BY <1>1, <1>2 DEF Prestamo!Prestar

LEMMA PasoRecupera == ASSUME Inv, RecibirRespuesta PROVE Prestamo!Recuperar
<1>1. EnCurso /\ ~EnCurso' /\ respuesta # <<>>
  BY DEF Inv, TypeOK, RecibirRespuesta, EnCurso
<1>2. respuesta' = <<>>
  BY <1>1, ConProcesoFuera, Cabeza DEF Inv, TypeOK, RecibirRespuesta
<1> QED
  BY <1>1, <1>2 DEF Prestamo!Recuperar

\* The CPU's answer, a request or the bare pcb
LEMMA PasoDevuelve ==
  ASSUME Inv, CPUDebe, corto' = corto, respuesta' = Append(respuesta, pcb_actual)
  PROVE  Prestamo!Devolver
<1>1. EnCurso /\ EnCurso' /\ respuesta = <<>>
  BY ConProcesoFuera DEF EnCurso
<1>2. respuesta' = <<pcb_actual>>
  BY <1>1
<1>3. respuesta' # <<>> /\ Head(respuesta').pid = corto.pid
  BY <1>2 DEF Inv, RespuestaUnica
<1> QED
  BY <1>1, <1>3 DEF Prestamo!Devolver

LEMMA PasoAbstracto == Inv /\ [Next]_vars => [Prestamo!Next]_(Prestamo!prestamo)
<1> SUFFICES ASSUME Inv, [Next]_vars PROVE Prestamo!Next \/ UNCHANGED Prestamo!prestamo
  OBVIOUS
<1>1. ASSUME NEW p \in Pids, Despachar(p) PROVE Prestamo!Next
  BY <1>1, PasoPresta DEF Prestamo!Next
<1>2. CASE RecibirRespuesta
  BY <1>2, PasoRecupera DEF Prestamo!Next
<1>3. CASE Marcar \/ Desalojar \/ Soltar
  BY <1>3, PasoQuieto DEF Inv, TypeOK, Marcar, Desalojar, Soltar, EnCurso, canales
<1>4. CASE QuantumVence \/ FinalizarEjecutando \/ (\E p \in Pids : Desbloquear(p))
  BY <1>4, PasoQuieto DEF QuantumVence, FinalizarEjecutando, Desbloquear, EnCurso, canales
<1>5. CASE Pedir \/ (Responder /\ ~envioPcb)
  BY <1>5, PasoDevuelve DEF Pedir, Responder, DespachoQuieto, kernel, CPUDebe, Prestamo!Next
<1>6. CASE Responder /\ envioPcb
  BY <1>6, PasoQuieto DEF Responder, DespachoQuieto, kernel, EnCurso
<1>7. CASE RecibirProceso \/ Lazo \/ EjecutarComun \/ Limpiar
  BY <1>7, PasoQuieto DEF RecibirProceso, Lazo, EjecutarComun, Limpiar, DespachoQuieto, kernel, EnCurso
<1>8. CASE (\E m \in Syscalls : EjecutarSyscall(m)) \/ (\E m \in Finales : EjecutarFinal(m))
  BY <1>8, PasoQuieto DEF EjecutarSyscall, EjecutarFinal, DespachoQuieto, kernel, EnCurso
<1>9. CASE CPUInterrupt
  BY <1>9, PasoQuieto DEF CPUInterrupt, RecibirInterrupcion, EscribirMotivo, InterrupcionQuieta, kernel,
     EnCurso
<1>10. CASE UNCHANGED vars
  BY <1>10, PasoQuieto DEF vars, kernel, canales, EnCurso
<1>11. envioPcb \in BOOLEAN
  BY DEF Inv, TypeOK
<1> QED
  BY <1>1, <1>2, <1>3, <1>4, <1>5, <1>6, <1>7, <1>8, <1>9, <1>10, <1>11 DEF Next, Kernel, CPUDispatch

\* Refinement: every behaviour of the two programs is one of a loan that is given
\* back once, as itself, before the next one (ejecutar_PCB, recibir_pcb_CPU and the
\* case PCB of procesar_conexion_dispatch).
THEOREM DespachoImplementaPrestamo == Spec => CumplePrestamo
<1>1. Init => Prestamo!Init
  BY DEF Init, Prestamo!Init, EnCurso
<1> QED
  BY InvInicial, InvInductivo, PasoAbstracto, <1>1, PTL DEF Spec, CumplePrestamo, Prestamo!Spec

-----------------------------------------------------------------------------
(* A process that no interrupt disturbed is returned for what it asked.     *)

\* Without an interrupt under way the reason in the pcb is what the process asked
\* for, from the instruction that asked to desalojo_cpu.
Fidelidad ==
  ~interferida =>
    /\ ~HayInterrupcionEnCurso
    /\ CPUDebe /\ esSyscall => pedido # Ninguno /\ pcb_actual.motivo = pedido
    /\ CPUDebe /\ cpu = "responder" => esSyscall
    /\ respuesta # <<>> => pedido # Ninguno /\ Head(respuesta).motivo = pedido
    /\ corto.pc = "desalojar" => pedido # Ninguno /\ motivo[corto.pid] = pedido

InvFiel == Inv /\ Fidelidad

LEMMA FielKernel == ASSUME InvFiel, Kernel PROVE Fidelidad'
<1> USE DEF InvFiel
<1>1. CASE \E p \in Pids : Despachar(p)
  <2> PICK p \in Pids : Despachar(p)
    BY <1>1
  <2>1. dispatch = <<>> /\ respuesta = <<>> /\ ~CPUDebe
    BY SinProcesoFuera DEF Despachar, EnCurso
  <2>2. respuesta' = <<>> /\ ~CPUDebe' /\ corto'.pc = "marcar"
    BY <2>1 DEF Despachar, CPUDebe, procesador
  <2>3. HayInterrupcionEnCurso' = HayInterrupcionEnCurso
    BY DEF Despachar, HayInterrupcionEnCurso, procesador
  <2> QED
    BY <2>2, <2>3 DEF Despachar, Fidelidad
<1>2. CASE Marcar \/ Soltar
  BY <1>2 DEF Marcar, Soltar, Fidelidad, CPUDebe, HayInterrupcionEnCurso, canales, procesador, historia,
     Inv, TypeOK
<1>3. CASE RecibirRespuesta
  <2>1. EnCurso /\ respuesta # <<>> /\ ~CPUDebe /\ ~CPUDebe' /\ respuesta' = <<>>
    BY <1>3, ConProcesoFuera, Cabeza DEF RecibirRespuesta, CPUDebe, procesador, Inv, TypeOK
  <2>2. motivo'[corto.pid] = Head(respuesta).motivo /\ corto'.pid = corto.pid
    BY <1>3 DEF RecibirRespuesta, Inv, TypeOK
  <2>3. HayInterrupcionEnCurso' = HayInterrupcionEnCurso /\ UNCHANGED <<pedido, interferida>>
    BY <1>3 DEF RecibirRespuesta, HayInterrupcionEnCurso, procesador, historia
  <2> QED
    BY <2>1, <2>2, <2>3 DEF Fidelidad
<1>4. CASE Desalojar
  BY <1>4 DEF Desalojar, Fidelidad, CPUDebe, HayInterrupcionEnCurso, canales, procesador, historia, Inv,
     TypeOK
<1> QED
  BY <1>1, <1>2, <1>3, <1>4 DEF Kernel

LEMMA FielInterrupciones ==
  ASSUME InvFiel, QuantumVence \/ FinalizarEjecutando \/ CPUInterrupt
  PROVE  Fidelidad'
<1>1. CASE QuantumVence \/ FinalizarEjecutando
  BY <1>1 DEF QuantumVence, FinalizarEjecutando, EnviarInterrupcion, Fidelidad
<1>2. CASE CPUInterrupt
  BY <1>2 DEF InvFiel, CPUInterrupt, RecibirInterrupcion, EscribirMotivo, InterrupcionQuieta, Fidelidad,
     HayInterrupcionEnCurso, historia
<1> QED
  BY <1>1, <1>2

LEMMA FielDesbloquear == ASSUME InvFiel, NEW p \in Pids, Desbloquear(p) PROVE Fidelidad'
BY DEF InvFiel, Desbloquear, Fidelidad, CPUDebe, HayInterrupcionEnCurso, canales, procesador, historia

LEMMA FielCPU == ASSUME InvFiel, CPUDispatch PROVE Fidelidad'
<1> USE DEF InvFiel
<1>1. CASE RecibirProceso
  <2>1. respuesta = <<>> /\ EnCurso /\ ~CPUDebe
    BY <1>1, ConProcesoFuera DEF RecibirProceso
  <2>2. ~esSyscall' /\ respuesta' = <<>> /\ cpu' = "lazo" /\ corto'.pc # "desalojar"
    BY <1>1, <2>1 DEF RecibirProceso, DespachoQuieto, kernel, EnCurso, Inv, Banderas
  <2> QED
    BY <1>1, <2>2 DEF RecibirProceso, DespachoQuieto, kernel, Fidelidad, HayInterrupcionEnCurso
<1>2. CASE Lazo
  BY <1>2 DEF Lazo, DespachoQuieto, kernel, Fidelidad, HayInterrupcionEnCurso, CPUDebe
<1>3. CASE EjecutarComun
  BY <1>3 DEF EjecutarComun, DespachoQuieto, kernel, Fidelidad, HayInterrupcionEnCurso, CPUDebe, Inv,
     Banderas
<1>4. CASE (\E m \in Syscalls : EjecutarSyscall(m)) \/ (\E m \in Finales : EjecutarFinal(m))
  <2>1. CPUDebe /\ CPUDebe' /\ cpu' # "responder"
    BY <1>4 DEF EjecutarSyscall, EjecutarFinal, CPUDebe, Inv, Banderas
  <2>2. respuesta = <<>> /\ respuesta' = <<>> /\ corto'.pc # "desalojar"
    BY <1>4, <2>1, ConProcesoFuera DEF EjecutarSyscall, EjecutarFinal, DespachoQuieto, kernel, EnCurso
  <2>3. pcb_actual'.motivo = pedido' /\ pedido' # Ninguno
    BY <1>4 DEF EjecutarSyscall, EjecutarFinal, Syscalls, Finales, Inv, TypeOK, Pcbs
  <2>4. HayInterrupcionEnCurso' = HayInterrupcionEnCurso /\ interferida' = interferida
    BY <1>4 DEF EjecutarSyscall, EjecutarFinal, DespachoQuieto, HayInterrupcionEnCurso
  <2> QED
    BY <2>1, <2>2, <2>3, <2>4 DEF Fidelidad
<1>5. CASE Pedir \/ (Responder /\ ~envioPcb)
  <2>1. CPUDebe /\ ~CPUDebe' /\ (~interferida => esSyscall)
    BY <1>5 DEF Pedir, Responder, CPUDebe, Inv, Banderas, Fidelidad
  <2>2. respuesta' = <<pcb_actual>> /\ corto'.pc # "desalojar"
    BY <1>5, <2>1, ConProcesoFuera DEF Pedir, Responder, DespachoQuieto, kernel, EnCurso
  <2>3. Head(respuesta') = pcb_actual
    BY <2>2
  <2>4. HayInterrupcionEnCurso' = HayInterrupcionEnCurso /\ interferida' = interferida /\ pedido' = pedido
    BY <1>5 DEF Pedir, Responder, DespachoQuieto, HayInterrupcionEnCurso
  <2> QED
    BY <2>1, <2>2, <2>3, <2>4 DEF Fidelidad
<1>6. CASE Responder /\ envioPcb
  BY <1>6 DEF Responder, DespachoQuieto, kernel, Fidelidad, HayInterrupcionEnCurso, CPUDebe
<1>7. CASE Limpiar
  BY <1>7 DEF Limpiar, DespachoQuieto, kernel, Fidelidad, HayInterrupcionEnCurso, CPUDebe
<1>8. envioPcb \in BOOLEAN
  BY DEF Inv, TypeOK
<1> QED
  BY <1>1, <1>2, <1>3, <1>4, <1>5, <1>6, <1>7, <1>8 DEF CPUDispatch

\* What an undisturbed process asked of the kernel is what desalojo_cpu finds in
\* its pcb (execute, recibir_pcb_CPU): under FIFO and without FINALIZAR_PROCESO, for
\* every process.
THEOREM PedidosAtendidos == Spec => []PedidoAtendido
<1>1. Init => InvFiel
  BY InvInicial DEF Init, InvFiel, Fidelidad, CPUDebe, HayInterrupcionEnCurso
<1>2. InvFiel /\ [Next]_vars => InvFiel'
  <2> SUFFICES ASSUME InvFiel, [Next]_vars PROVE InvFiel'
    OBVIOUS
  <2>1. Inv'
    BY InvInductivo DEF InvFiel
  <2>2. Fidelidad'
    <3>1. CASE UNCHANGED vars
      BY <3>1 DEF vars, kernel, canales, procesador, historia, InvFiel, Fidelidad, CPUDebe,
         HayInterrupcionEnCurso
    <3>2. CASE Next
      BY <3>2, FielKernel, FielInterrupciones, FielDesbloquear, FielCPU DEF Next
    <3> QED
      BY <3>1, <3>2
  <2> QED
    BY <2>1, <2>2 DEF InvFiel
<1>3. InvFiel => PedidoAtendido
  BY DEF InvFiel, Fidelidad, PedidoAtendido
<1> QED
  BY <1>1, <1>2, <1>3, PTL DEF Spec

=============================================================================
