---------------------------- MODULE MemoriaProofs ----------------------------
(***************************************************************************)
(* Theorems of the memory server and of the address translation.           *)
(*                                                                         *)
(* The memory server: its types, that no two pages share a frame and that  *)
(* a growth always finds the frames it counted, for any number of          *)
(* processes, frames and bytes per page, and any requests; and, until the  *)
(* threads meet at proceso_memoria or at procesos_totales, or the kernel   *)
(* finishes a process it has dispatched (mezclado), that no frame is lost  *)
(* and, for sizes of whole pages, that tables cover the sizes and the      *)
(* server stays up.                                                        *)
(*                                                                         *)
(* The address translation: the TLB says what the page tables say, and     *)
(* each program sees an array of bytes of its own, for any TLB and any     *)
(* data, while no program asks for less memory than it has.                *)
(***************************************************************************)
EXTENDS Traduccion, ListasProofs


\* The CPU waits while the thread works for it.
CPUEspera == hiloCPU.pc \in {"buscar", "roto", "usar", "tomar", "soltar"} => cpu.pc = "espera"

Inv == TypeOK /\ CPUEspera

\* The divisions of both resizes count pages.
LEMMA PaginasEsNatural ==
  ASSUME NEW n \in Nat
  PROVE  Paginas(n) \in Nat
  BY ConstantesMemoria DEF Paginas

\* The search for a free frame finds one when there is one.
LEMMA PrimerLibreEsLibre ==
  ASSUME Libres # {}
  PROVE  PrimerLibre \in Libres
<1>1. Libres \in SUBSET Nat
  BY ConstantesMemoria DEF Libres, Marcos
<1>2. Min(Libres) \in Libres /\ \A y \in Libres : Min(Libres) <= y
  BY <1>1, MinDeNaturales
<1> QED
  BY <1>2 DEF PrimerLibre

LEMMA InvInicial == Init => Inv
<1> SUFFICES ASSUME Init PROVE Inv
  OBVIOUS
<1>1. marcos \in [Marcos -> Pids \cup {NULL}]
  BY DEF Init
<1>2. /\ struct \in [Pids -> {"no", "nuevo", "listo", "libre"}]
      /\ tabla \in [Pids -> Seq(Marcos)] /\ tamanio \in [Pids -> Nat]
      /\ vida \in [Pids -> {"no", "creado", "matado", "sin_memoria", "fin"}]
  BY DEF Init
<1>3. /\ procesos_totales \in Seq(Pids)
      /\ kernel \in Seq([op : {"INICIALIZAR_PROCESO", "FINALIZAR_PROCESO"}, pid : Pids])
      /\ proceso_memoria \in Pids \cup {NULL}
      /\ caida = "no"
  BY DEF Init
<1>4. /\ hiloKernel = [pc |-> "recv", pid |-> NULL]
      /\ cpu = [pc |-> "libre", pid |-> NULL, op |-> "INSTRUCCION", arg |-> 0]
      /\ hiloCPU = [pc |-> "recv", pid |-> NULL, restan |-> 0]
  BY DEF Init, CPULibre, HiloEnRecv
<1>5. mezclado \in BOOLEAN
  BY DEF Init
<1> QED
  BY <1>1, <1>2, <1>3, <1>4, <1>5 DEF Inv, TypeOK, CPUEspera

\* Requests of the kernel and of the CPU.
LEMMA InvClientes == Inv /\ Clientes => Inv'
<1> SUFFICES ASSUME Inv, Clientes PROVE Inv'
  OBVIOUS
<1> USE DEF Inv, TypeOK, CPUEspera, ClienteQuieto, paginas
<1>1. ASSUME NEW p \in Pids, CrearProceso(p) PROVE Inv'
  BY <1>1 DEF CrearProceso
<1>2. ASSUME NEW p \in Pids, TerminarProceso(p) PROVE Inv'
  BY <1>2 DEF TerminarProceso
<1>3. ASSUME NEW p \in Pids, PedirInstruccion(p) PROVE Inv'
  BY SMTT(30), <1>3 DEF PedirInstruccion
<1>7. ASSUME NEW p \in Pids, MatarProceso(p) PROVE Inv'
  BY <1>7 DEF MatarProceso
<1>4. CASE SinPedido
  BY SMTT(30), <1>4 DEF SinPedido, CPULibre
<1>5. ASSUME NEW t \in Tamanios, PedirResize(t) PROVE Inv'
  <2>1. t \in Nat
    BY ConstantesMemoria
  <2>2. /\ cpu.pc = "ejecutar"
        /\ cpu' = [cpu EXCEPT !.pc = "espera", !.op = "RESIZE", !.arg = t]
        /\ UNCHANGED <<kernel, vida>> /\ ClienteQuieto
    BY <1>5 DEF PedirResize
  <2>3. /\ cpu' \in [pc : {"libre", "espera", "ejecutar"}, pid : Pids \cup {NULL},
                     op : {"INSTRUCCION", "RESIZE", "MARCO"}, arg : Nat]
        /\ cpu'.pc = "espera" /\ cpu'.pid \in Pids
    BY <2>1, <2>2
  <2>4. TypeOK'
    BY SMTT(30), <2>2, <2>3
  <2>5. CPUEspera'
    BY <2>3
  <2> QED
    BY <2>4, <2>5
<1>6. ASSUME NEW n \in Marcos, PedirMarco(n) PROVE Inv'
  <2>1. n \in Nat
    BY ConstantesMemoria DEF Marcos
  <2>2. /\ cpu.pc = "ejecutar"
        /\ cpu' = [cpu EXCEPT !.pc = "espera", !.op = "MARCO", !.arg = n]
        /\ UNCHANGED <<kernel, vida>> /\ ClienteQuieto
    BY <1>6 DEF PedirMarco
  <2>3. /\ cpu' \in [pc : {"libre", "espera", "ejecutar"}, pid : Pids \cup {NULL},
                     op : {"INSTRUCCION", "RESIZE", "MARCO"}, arg : Nat]
        /\ cpu'.pc = "espera" /\ cpu'.pid \in Pids
    BY <2>1, <2>2
  <2>4. TypeOK'
    BY <2>2, <2>3
  <2>5. CPUEspera'
    BY <2>3
  <2> QED
    BY <2>4, <2>5
<1> QED
  BY <1>1, <1>2, <1>3, <1>4, <1>5, <1>6, <1>7 DEF Clientes

\* A crash only leaves its cause.
LEMMA InvCaida ==
  ASSUME Inv, NEW causa \in {"liberado", "sin_marco", "sin_pagina", "sin_tabla"}, Caer(causa)
  PROVE  Inv'
  BY DEF Caer, Inv, TypeOK, CPUEspera, paginas

\* The request at the head of the kernel's connection, and those behind it.
LEMMA PedidoDelKernel ==
  ASSUME TypeOK, kernel # <<>>
  PROVE  /\ Head(kernel) \in [op : {"INICIALIZAR_PROCESO", "FINALIZAR_PROCESO"}, pid : Pids]
         /\ Tail(kernel) \in Seq([op : {"INICIALIZAR_PROCESO", "FINALIZAR_PROCESO"}, pid : Pids])
<1>1. kernel \in Seq([op : {"INICIALIZAR_PROCESO", "FINALIZAR_PROCESO"}, pid : Pids])
  BY DEF TypeOK
<1> DEFINE R == [op : {"INICIALIZAR_PROCESO", "FINALIZAR_PROCESO"}, pid : Pids]
<1> HIDE DEF R
<1>2. kernel \in Seq(R)
  BY <1>1 DEF R
<1>3. Head(kernel) \in R /\ Tail(kernel) \in Seq(R)
  BY <1>2, kernel # <<>>, HeadTailProperties
<1> QED
  BY <1>3 DEF R

\* Thread of the kernel's connection.
LEMMA InvHiloKernel == Inv /\ HiloKernel => Inv'
<1> SUFFICES ASSUME Inv, HiloKernel PROVE Inv'
  OBVIOUS
<1> USE DEF HiloKernelQuieto, MezclarConCPU
<1>1. CASE RecibirInicializar
  <2>1. /\ Head(kernel) \in [op : {"INICIALIZAR_PROCESO", "FINALIZAR_PROCESO"}, pid : Pids]
        /\ Tail(kernel) \in Seq([op : {"INICIALIZAR_PROCESO", "FINALIZAR_PROCESO"}, pid : Pids])
    BY <1>1, PedidoDelKernel DEF RecibirInicializar, Inv
  <2>2. mezclado' \in BOOLEAN
    BY <1>1 DEF RecibirInicializar
  <2>3. /\ kernel' = Tail(kernel)
        /\ proceso_memoria' = Head(kernel).pid
        /\ struct' = [struct EXCEPT ![Head(kernel).pid] = "nuevo"]
        /\ hiloKernel' = [pc |-> "path", pid |-> NULL]
        /\ UNCHANGED <<marcos, tabla, tamanio, procesos_totales, vida, cpu, hiloCPU, caida>>
    BY <1>1 DEF RecibirInicializar
  <2> QED
    BY <2>1, <2>2, <2>3 DEF Inv, TypeOK, CPUEspera
<1>2. CASE IniciarPath
  <2>1. CASE proceso_memoria = NULL \/ struct[proceso_memoria] = "libre"
    BY <1>2, <2>1, InvCaida DEF IniciarPath
  <2>2. CASE ~(proceso_memoria = NULL \/ struct[proceso_memoria] = "libre")
    <3>1. proceso_memoria \in Pids /\ Append(procesos_totales, proceso_memoria) \in Seq(Pids)
      BY <2>2 DEF Inv, TypeOK
    <3>2. /\ procesos_totales' = Append(procesos_totales, proceso_memoria)
          /\ hiloKernel' = [pc |-> "estructura", pid |-> proceso_memoria]
          /\ UNCHANGED <<marcos, struct, tabla, tamanio, proceso_memoria, kernel, mezclado>>
          /\ HiloKernelQuieto
      BY <1>2, <2>2 DEF IniciarPath
    <3> QED
      BY SMTT(30), <3>1, <3>2 DEF Inv, TypeOK, CPUEspera
  <2> QED
    BY <2>1, <2>2
<1>3. CASE IniciarEstructura
  BY <1>3 DEF IniciarEstructura, Inv, TypeOK, CPUEspera
<1>4. CASE RecibirFinalizar
  <2>1. /\ Head(kernel) \in [op : {"INICIALIZAR_PROCESO", "FINALIZAR_PROCESO"}, pid : Pids]
        /\ Tail(kernel) \in Seq([op : {"INICIALIZAR_PROCESO", "FINALIZAR_PROCESO"}, pid : Pids])
    BY <1>4, PedidoDelKernel DEF RecibirFinalizar, Inv
  <2>2. Obtener(Head(kernel).pid) \in Pids \cup {NULL}
    BY <2>1 DEF Obtener
  <2>3. mezclado' \in BOOLEAN
    BY <1>4 DEF RecibirFinalizar
  <2>4. /\ kernel' = Tail(kernel)
        /\ proceso_memoria' = Obtener(Head(kernel).pid)
        /\ hiloKernel' = [pc |-> "finalizar", pid |-> NULL]
        /\ UNCHANGED paginas /\ HiloKernelQuieto
    BY <1>4 DEF RecibirFinalizar
  <2> QED
    BY <2>1, <2>2, <2>3, <2>4 DEF Inv, TypeOK, CPUEspera, paginas
<1>5. CASE BuscarLiberado
  BY <1>5, InvCaida DEF BuscarLiberado
<1>6. CASE Liberar
  <2>1. CASE proceso_memoria # NULL /\ struct[proceso_memoria] # "listo"
    BY <1>6, <2>1, InvCaida DEF Liberar
  <2>2. CASE ~(proceso_memoria # NULL /\ struct[proceso_memoria] # "listo")
    <3>1. /\ hiloKernel' = IF proceso_memoria = NULL THEN [pc |-> "recv", pid |-> NULL]
                           ELSE [pc |-> "liberando", pid |-> proceso_memoria]
          /\ UNCHANGED <<marcos, struct, tabla, tamanio, procesos_totales, proceso_memoria, kernel,
                         mezclado, vida, cpu, hiloCPU, caida>>
      BY <1>6, <2>2 DEF Liberar, paginas
    <3>2. /\ hiloKernel' \in [pc : {"recv", "path", "estructura", "finalizar", "liberando"},
                              pid : Pids \cup {NULL}]
          /\ hiloKernel'.pc \in {"estructura", "liberando"} => hiloKernel'.pid \in Pids
      BY <3>1 DEF Inv, TypeOK
    <3>3. TypeOK' /\ CPUEspera'
      BY SMTT(30), <3>1, <3>2 DEF Inv, TypeOK, CPUEspera
    <3> QED
      BY <3>3 DEF Inv
  <2> QED
    BY <2>1, <2>2
<1>7. CASE LiberarPagina
  BY <1>7 DEF LiberarPagina, Inv, TypeOK, CPUEspera
<1>8. CASE LiberarFin
  <2>1. /\ hiloCPU' \in [pc : {"recv", "buscar", "roto", "usar", "tomar", "soltar", "mudo"},
                         pid : Pids \cup {NULL}, restan : Nat]
        /\ hiloCPU'.pc \in {"tomar", "soltar"} => hiloCPU'.pid \in Pids
        /\ hiloCPU'.pc \in {"buscar", "roto", "usar", "tomar", "soltar"} => cpu.pc = "espera"
    BY <1>8 DEF LiberarFin, Inv, TypeOK, CPUEspera
  <2>2. mezclado' \in BOOLEAN
    BY <1>8 DEF LiberarFin
  <2>3. /\ procesos_totales' = RemoveFirst(procesos_totales, hiloKernel.pid)
        /\ struct' = [struct EXCEPT ![hiloKernel.pid] = "libre"]
        /\ hiloKernel' = [pc |-> "recv", pid |-> NULL]
        /\ UNCHANGED <<marcos, tabla, tamanio, proceso_memoria, kernel, vida, cpu, caida>>
    BY <1>8 DEF LiberarFin
  <2>4. procesos_totales' \in Seq(Pids)
    BY <2>3, SinPrimero DEF Inv, TypeOK
  <2>5. TypeOK'
    BY <2>1, <2>2, <2>3, <2>4 DEF Inv, TypeOK
  <2> QED
    BY <2>1, <2>3, <2>5 DEF Inv, CPUEspera
<1> QED
  BY <1>1, <1>2, <1>3, <1>4, <1>5, <1>6, <1>7, <1>8 DEF HiloKernel

\* Thread of the CPU's connection.
LEMMA InvHiloCPU == Inv /\ HiloCPU => Inv'
<1> SUFFICES ASSUME Inv, HiloCPU PROVE Inv'
  OBVIOUS
<1> USE DEF HiloCPUQuieto, ContestarInstruccion, ContestarResize, HiloEnRecv, CPULibre
<1>1. CASE RecibirPedido
  BY <1>1 DEF RecibirPedido, Inv, TypeOK, CPUEspera, paginas
<1>13. CASE BuscarProceso
  <2>1. cpu.pid \in Pids
    BY <1>13 DEF BuscarProceso, Inv, TypeOK, CPUEspera
  <2>2. proceso_memoria' \in Pids \cup {NULL} /\ mezclado' \in BOOLEAN
    BY <1>13, <2>1 DEF BuscarProceso, Encontrados, Obtener
  <2>3. /\ hiloCPU' = [hiloCPU EXCEPT !.pc = "usar"] /\ hiloCPU.pc \in {"buscar", "roto"}
        /\ UNCHANGED <<marcos, struct, tabla, tamanio, procesos_totales, kernel, hiloKernel, vida, cpu, caida>>
    BY <1>13 DEF BuscarProceso, paginas
  <2> QED
    BY <2>2, <2>3 DEF Inv, TypeOK, CPUEspera
<1>2. CASE PedidoDesconocido
  BY <1>2 DEF PedidoDesconocido, Inv, TypeOK, CPUEspera, paginas
<1>3. CASE PedidoLiberado
  BY <1>3, InvCaida DEF PedidoLiberado
<1>4. CASE PedidoInstruccion
  BY <1>4 DEF PedidoInstruccion, Usar, Inv, TypeOK, CPUEspera, paginas
<1>5. CASE PedidoMarco
  <2>1. CASE cpu.arg >= Len(tabla[proceso_memoria])
    BY <1>5, <2>1, InvCaida DEF PedidoMarco
  <2>2. CASE ~(cpu.arg >= Len(tabla[proceso_memoria]))
    <3>1. tabla[proceso_memoria] \in Seq(Marcos) /\ cpu.arg \in Nat
      BY <1>5 DEF PedidoMarco, Usar, Inv, TypeOK
    <3>2. tabla[proceso_memoria][cpu.arg + 1] \in Nat
      BY <2>2, <3>1, ConstantesMemoria DEF Marcos
    <3> QED
      <4>1. /\ cpu.pc = "espera" /\ hiloCPU' = [pc |-> "recv", pid |-> NULL, restan |-> 0]
            /\ cpu' = [cpu EXCEPT !.pc = "ejecutar", !.arg = tabla[proceso_memoria][cpu.arg + 1]]
            /\ UNCHANGED <<paginas, proceso_memoria, vida>> /\ HiloCPUQuieto
        BY <1>5, <2>2 DEF PedidoMarco, Usar, Inv, CPUEspera
      <4> QED
        BY <3>2, <4>1 DEF Inv, TypeOK, CPUEspera, paginas
  <2> QED
    BY <2>1, <2>2
<1>6. CASE ResizeIgual
  BY <1>6 DEF ResizeIgual, Usar, Inv, TypeOK, CPUEspera, paginas
<1>7. CASE ResizeAumentar
  <2>1. proceso_memoria \in Pids /\ cpu.arg - tamanio[proceso_memoria] \in Nat
    BY <1>7 DEF ResizeAumentar, Usar, Inv, TypeOK
  <2>2. Aumento \in Nat
    BY <2>1, PaginasEsNatural DEF Aumento
  <2> QED
    BY <1>7, <2>1, <2>2 DEF ResizeAumentar, Usar, Inv, TypeOK, CPUEspera, paginas
<1>8. CASE ResizeSinMemoria
  BY <1>8 DEF ResizeSinMemoria, Usar, Inv, TypeOK, CPUEspera, paginas
<1>9. CASE TomarMarco
  <2>1. CASE struct[hiloCPU.pid] = "libre" \/ Libres = {}
    BY <1>9, <2>1, InvCaida DEF TomarMarco
  <2>2. CASE ~(struct[hiloCPU.pid] = "libre" \/ Libres = {})
    <3>1. PrimerLibre \in Marcos
      BY <2>2, PrimerLibreEsLibre DEF Libres
    <3>2. hiloCPU.pid \in Pids /\ hiloCPU.restan - 1 \in Nat
      BY SMTT(30), <1>9 DEF TomarMarco, Inv, TypeOK
    <3> QED
      <4>1. /\ tabla[hiloCPU.pid] \in Seq(Marcos)
            /\ Append(tabla[hiloCPU.pid], PrimerLibre) \in Seq(Marcos)
        BY <3>1, <3>2 DEF Inv, TypeOK
      <4>2. /\ hiloCPU.pc = "tomar"
            /\ marcos' = [marcos EXCEPT ![PrimerLibre] = hiloCPU.pid]
            /\ tabla' = [tabla EXCEPT ![hiloCPU.pid] = Append(@, PrimerLibre)]
            /\ hiloCPU' = [hiloCPU EXCEPT !.restan = @ - 1]
            /\ UNCHANGED <<struct, tamanio, procesos_totales, proceso_memoria, vida, cpu>>
            /\ HiloCPUQuieto
        BY <1>9, <2>2 DEF TomarMarco
      <4> QED
        BY <3>1, <3>2, <4>1, <4>2 DEF Inv, TypeOK, CPUEspera
  <2> QED
    BY <2>1, <2>2
<1>10. CASE ResizeDisminuir
  <2>1. proceso_memoria \in Pids /\ tamanio[proceso_memoria] - cpu.arg \in Nat
    BY SMTT(30), <1>10 DEF ResizeDisminuir, Usar, Inv, TypeOK
  <2>2. Paginas(tamanio[proceso_memoria] - cpu.arg) \in Nat
    BY <2>1, PaginasEsNatural
  <2> QED
    BY <1>10, <2>1, <2>2 DEF ResizeDisminuir, Usar, Inv, TypeOK, CPUEspera, paginas
<1>11. CASE SoltarMarco
  <2>1. CASE struct[hiloCPU.pid] = "libre" \/ tabla[hiloCPU.pid] = <<>>
    BY <1>11, <2>1, InvCaida DEF SoltarMarco
  <2>2. CASE ~(struct[hiloCPU.pid] = "libre" \/ tabla[hiloCPU.pid] = <<>>)
    <3>1. hiloCPU.pid \in Pids /\ hiloCPU.restan - 1 \in Nat /\ tabla[hiloCPU.pid] \in Seq(Marcos)
      BY SMTT(30), <1>11 DEF SoltarMarco, Inv, TypeOK
    <3>2. Anteriores(tabla[hiloCPU.pid]) \in Seq(Marcos)
      BY <2>2, <3>1 DEF Anteriores
    <3> QED
      <4>1. /\ hiloCPU.pc = "soltar"
            /\ marcos' = [marcos EXCEPT ![Ultimo(tabla[hiloCPU.pid])] = NULL]
            /\ tabla' = [tabla EXCEPT ![hiloCPU.pid] = Anteriores(@)]
            /\ hiloCPU' = [hiloCPU EXCEPT !.restan = @ - 1]
            /\ UNCHANGED <<struct, tamanio, procesos_totales, proceso_memoria, vida, cpu>>
            /\ HiloCPUQuieto
        BY <1>11, <2>2 DEF SoltarMarco
      <4> QED
        BY <3>1, <3>2, <4>1 DEF Inv, TypeOK, CPUEspera
  <2> QED
    BY <2>1, <2>2
<1>12. CASE ResizeFin
  <2>1. CASE struct[hiloCPU.pid] = "libre"
    BY <1>12, <2>1, InvCaida DEF ResizeFin
  <2>2. CASE struct[hiloCPU.pid] # "libre"
    <3>1. hiloCPU.pid \in Pids /\ cpu.pc = "espera" /\ cpu.arg \in Nat
      BY <1>12 DEF ResizeFin, Inv, TypeOK, CPUEspera
    <3>2. /\ tamanio' = [tamanio EXCEPT ![hiloCPU.pid] = cpu.arg]
          /\ cpu' = [pc |-> "libre", pid |-> NULL, op |-> "INSTRUCCION", arg |-> 0]
          /\ hiloCPU' = [pc |-> "recv", pid |-> NULL, restan |-> 0]
          /\ UNCHANGED <<marcos, struct, tabla, procesos_totales, proceso_memoria, vida>>
          /\ HiloCPUQuieto
      BY <1>12, <2>2 DEF ResizeFin
    <3> QED
      BY <3>1, <3>2, SMTT(30) DEF Inv, TypeOK, CPUEspera
  <2> QED
    BY <2>1, <2>2
<1> QED
  BY <1>1, <1>2, <1>3, <1>4, <1>5, <1>6, <1>7, <1>8, <1>9, <1>10, <1>11, <1>12, <1>13 DEF HiloCPU

LEMMA InvPaso == Inv /\ [Next]_vars => Inv'
<1>1. ASSUME Inv, UNCHANGED vars PROVE Inv'
  BY SMTT(30), <1>1 DEF vars, paginas, Inv, TypeOK, CPUEspera
<1> QED
  BY <1>1, InvClientes, InvHiloKernel, InvHiloCPU DEF Next

\* Every variable of the memory server stays in its type, and a page table holds
\* frames that exist.
THEOREM TipoCorrecto == Spec => []TypeOK
<1>1. Inv => TypeOK
  BY DEF Inv
<1> QED
  BY <1>1, InvInicial, InvPaso, PTL DEF Spec

\* A process freed while nobody searches the list leaves the other thread as it was.
LEMMA LiberarSinBusqueda ==
  ASSUME TypeOK, LiberarFin, hiloCPU.pc # "buscar"
  PROVE  hiloCPU' = hiloCPU /\ mezclado' = mezclado
<1>1. hiloCPU \in [pc : {"recv", "buscar", "roto", "usar", "tomar", "soltar", "mudo"},
                   pid : Pids \cup {NULL}, restan : Nat]
      /\ mezclado \in BOOLEAN
  BY DEF TypeOK
<1>2. hiloCPU' = [hiloCPU EXCEPT !.pc = hiloCPU.pc]
  BY DEF LiberarFin
<1>3. hiloCPU' = hiloCPU
  BY <1>1, <1>2
<1>4. mezclado' = mezclado
  BY <1>1 DEF LiberarFin
<1> QED
  BY <1>3, <1>4

-----------------------------------------------------------------------------
\* Only these steps touch marcosPaginas and the page tables.
TocaPaginas == IniciarEstructura \/ LiberarPagina \/ TomarMarco \/ SoltarMarco

LEMMA LasDemasNoTocan ==
  ASSUME Next, ~TocaPaginas
  PROVE  UNCHANGED <<marcos, tabla>>
<1> USE DEF TocaPaginas, Caer, paginas
<1>1. CASE Clientes
  BY <1>1 DEF Clientes, ClienteQuieto, CrearProceso, TerminarProceso, MatarProceso, PedirInstruccion,
              SinPedido, PedirResize, PedirMarco
<1>2. CASE HiloKernel
  BY <1>2 DEF HiloKernel, RecibirInicializar, IniciarPath, RecibirFinalizar, BuscarLiberado,
              Liberar, LiberarFin
<1>3. CASE HiloCPU
  BY <1>3 DEF HiloCPU, RecibirPedido, BuscarProceso, PedidoDesconocido, PedidoLiberado, PedidoInstruccion,
              PedidoMarco, ResizeIgual, ResizeAumentar, ResizeSinMemoria, ResizeDisminuir, ResizeFin
<1> QED
  BY <1>1, <1>2, <1>3 DEF Next

\* The page in place k leaves a table, and its frame is free: no other page had it.
LEMMA UnicoAlSoltar ==
  ASSUME TypeOK, MarcoUnico, NEW q \in Pids, NEW k \in 1 .. Len(tabla[q]),
         NEW s \in Seq(Marcos), NEW d \in {0, 1},
         \A i \in 1 .. Len(s) : i + d \in (1 .. Len(tabla[q])) \ {k} /\ s[i] = tabla[q][i + d],
         marcos' = [marcos EXCEPT ![tabla[q][k]] = NULL],
         tabla' = [tabla EXCEPT ![q] = s]
  PROVE  MarcoUnico'
<1>1. /\ \A p \in Pids : tabla[p] \in Seq(Marcos) /\ DOMAIN tabla[p] = 1 .. Len(tabla[p])
      /\ DOMAIN s = 1 .. Len(s) /\ Len(s) \in Nat
      /\ marcos \in [Marcos -> Pids \cup {NULL}] /\ tabla \in [Pids -> Seq(Marcos)]
  BY DEF TypeOK
<1>2. tabla[q][k] \in Marcos /\ marcos[tabla[q][k]] = q
  BY <1>1 DEF MarcoUnico
<1>3. ASSUME NEW p \in Pids, p # q, NEW i \in DOMAIN tabla[p]
      PROVE  tabla[p][i] \in Marcos /\ tabla[p][i] # tabla[q][k]
  BY <1>1, <1>2, <1>3 DEF MarcoUnico
<1>4. ASSUME NEW i \in 1 .. Len(s)
      PROVE  s[i] \in Marcos /\ s[i] # tabla[q][k] /\ marcos[s[i]] = q
  BY <1>1, <1>2 DEF MarcoUnico
<1>5. ASSUME NEW i \in 1 .. Len(s), NEW j \in 1 .. Len(s), s[i] = s[j]
      PROVE  i = j
  <2>1. i + d = j + d
    BY SMTT(30), <1>1, <1>5 DEF MarcoUnico
  <2> QED
    BY <2>1
<1>6. ASSUME NEW p \in Pids, NEW i \in DOMAIN tabla'[p]
      PROVE  /\ marcos'[tabla'[p][i]] = p
             /\ \A j \in DOMAIN tabla'[p] : tabla'[p][i] = tabla'[p][j] => i = j
  <2>1. CASE p = q
    BY <1>1, <1>4, <1>5, <2>1
  <2>2. CASE p # q
    <3>1. tabla'[p] = tabla[p]
      BY <1>1, <2>2
    <3>2. marcos'[tabla[p][i]] = marcos[tabla[p][i]]
      BY <1>1, <1>3, <2>2, <3>1
    <3> QED
      BY <3>1, <3>2 DEF MarcoUnico
  <2> QED
    BY <2>1, <2>2
<1> QED
  BY <1>6 DEF MarcoUnico

LEMMA MarcoUnicoPaso == Inv /\ MarcoUnico /\ [Next]_vars => MarcoUnico'
<1> SUFFICES ASSUME Inv, MarcoUnico, [Next]_vars PROVE MarcoUnico'
  OBVIOUS
<1>1. TypeOK /\ tabla \in [Pids -> Seq(Marcos)] /\ marcos \in [Marcos -> Pids \cup {NULL}]
  BY DEF Inv, TypeOK
<1>2. CASE UNCHANGED <<marcos, tabla>>
  BY <1>2 DEF MarcoUnico
<1>3. CASE IniciarEstructura
  <2>1. /\ marcos' = marcos /\ hiloKernel.pid \in Pids
        /\ tabla' = [tabla EXCEPT ![hiloKernel.pid] = <<>>]
    BY <1>3 DEF IniciarEstructura, Inv, TypeOK
  <2>2. \A p \in Pids : tabla'[p] = IF p = hiloKernel.pid THEN <<>> ELSE tabla[p]
    BY <1>1, <2>1
  <2>3. DOMAIN <<>> = {}
    OBVIOUS
  <2> QED
    BY <2>1, <2>2, <2>3 DEF MarcoUnico
<1>4. CASE LiberarPagina
  <2> DEFINE q == hiloKernel.pid
  <2>1. /\ q \in Pids /\ tabla[q] # <<>> /\ tabla[q] \in Seq(Marcos)
        /\ marcos' = [marcos EXCEPT ![Head(tabla[q])] = NULL]
        /\ tabla' = [tabla EXCEPT ![q] = Tail(@)]
    BY <1>1, <1>4 DEF LiberarPagina, TypeOK
  <2> HIDE DEF q
  <2>2. /\ Tail(tabla[q]) \in Seq(Marcos) /\ Len(Tail(tabla[q])) = Len(tabla[q]) - 1
        /\ Head(tabla[q]) = tabla[q][1] /\ 1 \in 1 .. Len(tabla[q])
        /\ \A i \in 1 .. Len(Tail(tabla[q])) : Tail(tabla[q])[i] = tabla[q][i + 1]
    BY <2>1
  <2> DEFINE s == Tail(tabla[q])
             d == 1
             k == 1
  <2>3. tabla' = [tabla EXCEPT ![q] = s] /\ s \in Seq(Marcos)
    BY <2>1, <2>2
  <2>4. \A i \in 1 .. Len(s) :
          i + d \in (1 .. Len(tabla[q])) \ {k} /\ s[i] = tabla[q][i + d]
    BY <2>1, <2>2
  <2>5. marcos' = [marcos EXCEPT ![tabla[q][k]] = NULL]
        /\ q \in Pids /\ d \in {0, 1} /\ k \in 1 .. Len(tabla[q])
    BY <2>1, <2>2
  <2> HIDE DEF s, d, k
  <2> QED
    BY <1>1, <2>3, <2>4, <2>5, UnicoAlSoltar
<1>5. CASE TomarMarco
  <2> DEFINE q == hiloCPU.pid
             m == PrimerLibre
             s == Append(tabla[q], m)
  <2>1. CASE caida' # "no"
    BY <1>2, <1>5, <2>1 DEF TomarMarco, Caer, HiloCPUQuieto, Vivo, paginas
  <2>2. CASE caida' = "no"
    <3>1. /\ q \in Pids /\ tabla[q] \in Seq(Marcos) /\ Libres # {}
          /\ marcos' = [marcos EXCEPT ![m] = q]
          /\ tabla' = [tabla EXCEPT ![q] = Append(@, m)]
      BY <1>1, <1>5, <2>2 DEF TomarMarco, TypeOK, Caer
    <3>2. m \in Marcos /\ marcos[m] = NULL
      BY <3>1, PrimerLibreEsLibre DEF Libres
    <3> HIDE DEF q, m
    <3>3. /\ DOMAIN s = 1 .. Len(tabla[q]) + 1 /\ Len(tabla[q]) \in Nat
          /\ \A i \in 1 .. Len(tabla[q]) : s[i] = tabla[q][i]
          /\ s[Len(tabla[q]) + 1] = m
          /\ DOMAIN tabla[q] = 1 .. Len(tabla[q])
      BY <3>1, <3>2
    <3>4. \A p \in Pids : tabla'[p] = IF p = q THEN s ELSE tabla[p]
      BY <1>1, <3>1
    <3>5. ASSUME NEW p \in Pids, NEW i \in DOMAIN tabla[p]
          PROVE  /\ tabla[p][i] \in Marcos /\ tabla[p][i] # m
                 /\ marcos'[tabla[p][i]] = p
      <4>1. tabla[p] \in Seq(Marcos) /\ tabla[p][i] \in Marcos
        BY <1>1
      <4>2. marcos[tabla[p][i]] = p /\ p # NULL
        BY ConstantesMemoria DEF MarcoUnico
      <4> QED
        BY <1>1, <3>1, <3>2, <4>1, <4>2
    <3>6. marcos'[m] = q
      BY <1>1, <3>1, <3>2
    <3> HIDE DEF s
    <3>7. ASSUME NEW p \in Pids, NEW i \in DOMAIN tabla'[p]
          PROVE  /\ marcos'[tabla'[p][i]] = p
                 /\ \A j \in DOMAIN tabla'[p] : tabla'[p][i] = tabla'[p][j] => i = j
      <4>1. CASE p = q
        <5>1. \A j \in DOMAIN s : j \in DOMAIN tabla[q] \/ j = Len(tabla[q]) + 1
          BY <3>3
        <5>2. \A j \in DOMAIN s, h \in DOMAIN s : s[j] = s[h] => j = h
          BY <3>1, <3>3, <3>5, <5>1 DEF MarcoUnico
        <5>3. \A j \in DOMAIN s : marcos'[s[j]] = q
          BY <3>1, <3>3, <3>5, <3>6, <5>1
        <5> QED
          BY <3>4, <4>1, <5>2, <5>3
      <4>2. CASE p # q
        BY <3>4, <3>5, <4>2 DEF MarcoUnico
      <4> QED
        BY <4>1, <4>2
    <3> QED
      BY <3>7 DEF MarcoUnico
  <2> QED
    BY <2>1, <2>2
<1>6. CASE SoltarMarco
  <2> DEFINE q == hiloCPU.pid
  <2>1. CASE caida' # "no"
    BY <1>2, <1>6, <2>1 DEF SoltarMarco, Caer, HiloCPUQuieto, Vivo, paginas
  <2>2. CASE caida' = "no"
    <3>1. /\ q \in Pids /\ tabla[q] # <<>> /\ tabla[q] \in Seq(Marcos)
          /\ marcos' = [marcos EXCEPT ![Ultimo(tabla[q])] = NULL]
          /\ tabla' = [tabla EXCEPT ![q] = Anteriores(@)]
      BY <1>1, <1>6, <2>2 DEF SoltarMarco, TypeOK, Caer
    <3> HIDE DEF q
    <3>2. /\ Anteriores(tabla[q]) \in Seq(Marcos) /\ Len(tabla[q]) \in 1 .. Len(tabla[q])
          /\ Len(Anteriores(tabla[q])) = Len(tabla[q]) - 1
          /\ Ultimo(tabla[q]) = tabla[q][Len(tabla[q])]
          /\ \A i \in 1 .. Len(Anteriores(tabla[q])) : Anteriores(tabla[q])[i] = tabla[q][i]
      BY <3>1 DEF Anteriores, Ultimo
    <3>3. tabla' = [tabla EXCEPT ![q] = Anteriores(tabla[q])]
      BY <3>1
    <3>4. \A i \in 1 .. Len(Anteriores(tabla[q])) :
            /\ i + 0 \in (1 .. Len(tabla[q])) \ {Len(tabla[q])}
            /\ Anteriores(tabla[q])[i] = tabla[q][i + 0]
      BY <3>1, <3>2
    <3> DEFINE s == Anteriores(tabla[q])
               k == Len(tabla[q])
    <3>5. q \in Pids /\ k \in 1 .. Len(tabla[q]) /\ s \in Seq(Marcos) /\ 0 \in {0, 1}
      BY <3>1, <3>2
    <3>6. \A i \in 1 .. Len(s) : i + 0 \in (1 .. Len(tabla[q])) \ {k} /\ s[i] = tabla[q][i + 0]
      BY <3>4
    <3>7. marcos' = [marcos EXCEPT ![tabla[q][k]] = NULL] /\ tabla' = [tabla EXCEPT ![q] = s]
      BY <3>1, <3>2, <3>3
    <3> HIDE DEF s, k
    <3> QED
      BY <1>1, <3>5, <3>6, <3>7, UnicoAlSoltar
  <2> QED
    BY <2>1, <2>2
<1>7. CASE UNCHANGED vars
  BY <1>2, <1>7 DEF vars, paginas
<1> QED
  BY <1>2, <1>3, <1>4, <1>5, <1>6, <1>7, LasDemasNoTocan DEF TocaPaginas

LEMMA MarcoUnicoInicial == Init => MarcoUnico
<1>1. DOMAIN <<>> = {}
  OBVIOUS
<1>2. Init => \A p \in Pids : tabla[p] = <<>>
  BY DEF Init
<1> QED
  BY <1>1, <1>2 DEF MarcoUnico

\* No two pages, of any processes, share a frame, and marcosPaginas names the owner
\* of every page, although two threads take and give back frames with no lock.
THEOREM MarcosSinCompartir == Spec => []MarcoUnico
  BY MarcoUnicoInicial, InvInicial, InvPaso, MarcoUnicoPaso, PTL DEF Spec

-----------------------------------------------------------------------------
\* The free frames are finitely many, so they can be counted.
LEMMA LibresFinitos == IsFiniteSet(Libres) /\ Cardinality(Libres) \in Nat
<1>1. IsFiniteSet(Marcos)
  BY ConstantesMemoria, FS_Interval DEF Marcos
<1>2. IsFiniteSet(Libres)
  BY <1>1, FS_Subset DEF Libres
<1> QED
  BY <1>2, FS_CardinalityType

\* A frame is freed: there are not fewer.
LEMMA LibresAlSoltar ==
  ASSUME TypeOK, NEW m \in Marcos, marcos' = [marcos EXCEPT ![m] = NULL]
  PROVE  /\ Cardinality(Libres') >= Cardinality(Libres)
         /\ Cardinality(Libres) \in Nat /\ Cardinality(Libres') \in Nat
<1>1. Libres \subseteq Libres' /\ Libres' \subseteq Marcos
  BY DEF Libres, Marcos, TypeOK
<1>2. IsFiniteSet(Marcos)
  BY ConstantesMemoria, FS_Interval DEF Marcos
<1>3. IsFiniteSet(Libres')
  BY <1>1, <1>2, FS_Subset
<1>4. Cardinality(Libres) <= Cardinality(Libres')
  BY <1>1, <1>3, FS_Subset
<1>5. Cardinality(Libres) \in Nat /\ Cardinality(Libres') \in Nat
  BY <1>3, LibresFinitos, FS_CardinalityType
<1> QED
  BY <1>4, <1>5

\* A frame is taken: there is one less.
LEMMA LibresAlTomar ==
  ASSUME TypeOK, NEW m \in Libres, NEW q \in Pids, marcos' = [marcos EXCEPT ![m] = q]
  PROVE  Cardinality(Libres') = Cardinality(Libres) - 1
<1>1. Libres' = Libres \ {m}
  BY ConstantesMemoria DEF Libres, Marcos, TypeOK
<1> QED
  BY <1>1, LibresFinitos, FS_RemoveElement

\* The thread of the CPU goes on with a growth only by taking a frame.
LEMMA SigueTomando ==
  ASSUME TypeOK, Next, ~TocaPaginas, hiloCPU'.pc = "tomar"
  PROVE  ResizeAumentar \/ UNCHANGED hiloCPU
<1> USE DEF TocaPaginas, Caer, paginas
<1>1. CASE Clientes
  BY <1>1 DEF Clientes, ClienteQuieto, CrearProceso, TerminarProceso, MatarProceso, PedirInstruccion,
              SinPedido, PedirResize, PedirMarco
<1>2. CASE HiloKernel
  <2>1. CASE LiberarFin
    <3>1. hiloCPU.pc # "buscar"
      BY <2>1 DEF LiberarFin, TypeOK
    <3> QED
      BY <2>1, <3>1, LiberarSinBusqueda
  <2> QED
    BY <1>2, <2>1 DEF HiloKernel, HiloKernelQuieto, RecibirInicializar, IniciarPath, RecibirFinalizar,
                      BuscarLiberado, Liberar
<1>3. CASE HiloCPU
  <2>1. hiloCPU \in [pc : {"recv", "buscar", "roto", "usar", "tomar", "soltar", "mudo"},
                     pid : Pids \cup {NULL}, restan : Nat]
    BY DEF TypeOK
  <2> QED
    BY <1>3, <2>1
          DEF HiloCPU, RecibirPedido, BuscarProceso, PedidoDesconocido, PedidoLiberado, PedidoInstruccion,
              PedidoMarco, ResizeIgual, ResizeSinMemoria, ResizeDisminuir, ResizeFin,
              ContestarInstruccion, ContestarResize, HiloEnRecv
<1> QED
  BY <1>1, <1>2, <1>3 DEF Next

LEMMA SiempreHayMarcoPaso == Inv /\ SiempreHayMarco /\ [Next]_vars => SiempreHayMarco'
<1> SUFFICES ASSUME Inv, SiempreHayMarco, [Next]_vars, hiloCPU'.pc = "tomar"
             PROVE  Cardinality(Libres') >= hiloCPU'.restan
  BY DEF SiempreHayMarco
<1>1. TypeOK
  BY DEF Inv
<1>2. CASE UNCHANGED <<marcos, hiloCPU>>
  BY <1>2 DEF SiempreHayMarco, Libres
<1>3. CASE IniciarEstructura
  BY <1>2, <1>3 DEF IniciarEstructura, HiloKernelQuieto
<1>4. CASE LiberarPagina
  <2>1. /\ UNCHANGED hiloCPU
        /\ Head(tabla[hiloKernel.pid]) \in Marcos
        /\ marcos' = [marcos EXCEPT ![Head(tabla[hiloKernel.pid])] = NULL]
    BY <1>1, <1>4 DEF LiberarPagina, HiloKernelQuieto, TypeOK
  <2>2. hiloCPU.pc = "tomar" /\ hiloCPU'.restan = hiloCPU.restan /\ hiloCPU.restan \in Nat
    BY <1>1, <2>1 DEF TypeOK
  <2>3. /\ Cardinality(Libres') >= Cardinality(Libres)
        /\ Cardinality(Libres) \in Nat /\ Cardinality(Libres') \in Nat
    BY <1>1, <2>1, LibresAlSoltar
  <2> QED
    BY <2>2, <2>3 DEF SiempreHayMarco
<1>5. CASE TomarMarco
  <2>1. CASE caida' # "no"
    BY <1>2, <1>5, <2>1 DEF TomarMarco, Caer, HiloCPUQuieto, Vivo, paginas
  <2>2. CASE caida' = "no"
    <3>1. /\ hiloCPU.pc = "tomar" /\ hiloCPU.pid \in Pids /\ hiloCPU.restan \in Nat
          /\ Libres # {} /\ hiloCPU' = [hiloCPU EXCEPT !.restan = @ - 1]
          /\ marcos' = [marcos EXCEPT ![PrimerLibre] = hiloCPU.pid]
      BY <1>1, <1>5, <2>2 DEF TomarMarco, TypeOK, Caer
    <3>2. hiloCPU'.restan = hiloCPU.restan - 1
      BY <1>1, <3>1 DEF TypeOK
    <3>3. Cardinality(Libres') = Cardinality(Libres) - 1
      BY <1>1, <3>1, PrimerLibreEsLibre, LibresAlTomar
    <3> QED
      BY <3>1, <3>2, <3>3, LibresFinitos DEF SiempreHayMarco
  <2> QED
    BY <2>1, <2>2
<1>6. CASE SoltarMarco
  <2>1. CASE caida' # "no"
    BY <1>2, <1>6, <2>1 DEF SoltarMarco, Caer, HiloCPUQuieto, Vivo, paginas
  <2>2. CASE caida' = "no"
    BY <1>1, <1>6, <2>2 DEF SoltarMarco, Caer, TypeOK
  <2> QED
    BY <2>1, <2>2
<1>7. CASE UNCHANGED vars
  BY <1>2, <1>7 DEF vars, paginas
<1>8. CASE Next /\ ~TocaPaginas
  <2>1. marcos' = marcos /\ (ResizeAumentar \/ UNCHANGED hiloCPU)
    BY <1>1, <1>8, LasDemasNoTocan, SigueTomando
  <2>2. CASE ResizeAumentar
    <3>1. Cardinality(Libres) >= Aumento /\ hiloCPU'.restan = Aumento
      BY <2>2 DEF ResizeAumentar
    <3>2. Libres' = Libres
      BY <2>1 DEF Libres
    <3> QED
      BY <3>1, <3>2
  <2> QED
    BY <1>2, <2>1, <2>2
<1> QED
  BY <1>3, <1>4, <1>5, <1>6, <1>7, <1>8 DEF TocaPaginas

\* A growth that found enough free frames finds each of them, whatever the thread
\* of the kernel does meanwhile: obtener_nro_marco_disponible never returns -1.
THEOREM MarcoParaCadaPagina == Spec => []SiempreHayMarco
<1>1. Init => SiempreHayMarco
  BY DEF Init, HiloEnRecv, SiempreHayMarco
<1> QED
  BY <1>1, InvInicial, InvPaso, SiempreHayMarcoPaso, PTL DEF Spec

-----------------------------------------------------------------------------
(* What holds while no request is taken up in the middle of the other       *)
(* thread's use of proceso_memoria.                                         *)

Alta(p) == [op |-> "INICIALIZAR_PROCESO", pid |-> p]
Baja(p) == [op |-> "FINALIZAR_PROCESO", pid |-> p]
PedidosDelKernel == [op : {"INICIALIZAR_PROCESO", "FINALIZAR_PROCESO"}, pid : Pids]

\* The kernel asks for a process once, and for its end after that.
Cola ==
  /\ UnaVezEn(kernel, PedidosDelKernel)
  /\ \A i, j \in 1 .. Len(kernel), p \in Pids : kernel[i] = Baja(p) /\ kernel[j] = Alta(p) => j < i

\* The thread of the kernel has p in its hands.
Iniciando(p)   == \/ hiloKernel.pc = "path" /\ proceso_memoria = p
                  \/ hiloKernel.pc = "estructura" /\ hiloKernel.pid = p
Finalizando(p) == \/ hiloKernel.pc = "finalizar" /\ proceso_memoria = p
                  \/ hiloKernel.pc = "liberando" /\ hiloKernel.pid = p

\* A process goes once through its states, as the kernel's requests are served.
Etapas ==
  /\ hiloKernel.pc \in {"path", "finalizar"} => proceso_memoria \in Pids
  /\ \A p \in Pids :
       /\ En(kernel, Alta(p)) <=> vida[p] # "no" /\ struct[p] = "no"
       /\ vida[p] = "no" => struct[p] = "no"
       /\ En(kernel, Baja(p)) => vida[p] = "fin" /\ struct[p] # "libre" /\ ~Finalizando(p)
       /\ struct[p] = "nuevo" <=> Iniciando(p)
       /\ Finalizando(p) => struct[p] = "listo" /\ vida[p] = "fin"
       /\ struct[p] = "libre" => vida[p] = "fin"
       /\ struct[p] # "listo" => tabla[p] = <<>>

\* The list has each process once, from the moment it is added until it is freed.
Listados ==
  /\ UnaVezEn(procesos_totales, Pids)
  /\ \A p \in Pids : En(procesos_totales, p) <=>
       struct[p] = "listo" \/ (hiloKernel.pc = "estructura" /\ hiloKernel.pid = p)

\* The thread of the CPU works on the process the CPU runs, which has not ended.
DeLaCPU ==
  /\ \A p \in Pids : vida[p] # "matado"
  /\ hiloCPU.pc # "roto"
  /\ cpu.pc # "libre" => vida[cpu.pid] = "creado"
  /\ cpu.pc = "ejecutar" => struct[cpu.pid] = "listo"
  /\ hiloCPU.pc = "usar" =>
       /\ hiloKernel.pc \in {"recv", "liberando"}
       /\ proceso_memoria # NULL => proceso_memoria = cpu.pid /\ struct[cpu.pid] = "listo"
  /\ hiloCPU.pc \in {"tomar", "soltar"} =>
       hiloCPU.pid = cpu.pid /\ cpu.op = "RESIZE" /\ struct[cpu.pid] = "listo"

Ordenado == ~mezclado => Cola /\ Etapas /\ Listados /\ DeLaCPU

\* The sizes are whole pages, and the table of a process is as long as its size says,
\* but for the turns that are left of the loop that changes it.
Enteras(n) == \E k \in Nat : n = k * TAM_PAGINA

TamaniosEnteros == \A t \in Tamanios : Enteras(t)

TamaniosJustos == \A p \in Pids : Enteras(tamanio[p])

\* What the CPU asks fits the process it runs, which the server knows by then.
PedidoJusto ==
  /\ cpu.op = "RESIZE" => Enteras(cpu.arg)
  /\ cpu.op = "MARCO" /\ cpu.pc = "espera" => cpu.arg * TAM_PAGINA < tamanio[cpu.pid]
  /\ cpu.op # "INSTRUCCION" /\ cpu.pc = "espera" => struct[cpu.pid] = "listo"

TablasJustas ==
  \A p \in Pids : struct[p] = "listo" /\ ~EnObra(p) => Len(tabla[p]) = Paginas(tamanio[p])

VueltasJustas ==
  /\ hiloCPU.pc = "tomar" => Len(tabla[hiloCPU.pid]) + hiloCPU.restan = Paginas(cpu.arg)
  /\ hiloCPU.pc = "soltar" => Len(tabla[hiloCPU.pid]) - hiloCPU.restan = Paginas(cpu.arg)

Justas == ~mezclado => TamaniosJustos /\ PedidoJusto /\ TablasJustas /\ VueltasJustas

-----------------------------------------------------------------------------
\* The kernel asks for something new.
LEMMA ColaCrece ==
  ASSUME kernel \in Seq(PedidosDelKernel), Cola, NEW e \in PedidosDelKernel, ~En(kernel, e),
         \A p \in Pids : e = Alta(p) => ~En(kernel, Baja(p)),
         kernel' = Append(kernel, e)
  PROVE  Cola' /\ \A x : En(kernel', x) <=> En(kernel, x) \/ x = e
<1>1. \A x : En(kernel', x) <=> En(kernel, x) \/ x = e
  BY EnAppend
<1>2. UnaVezEn(kernel', PedidosDelKernel)
  BY UnaVezAppend DEF Cola
<1>3. /\ Len(kernel') = Len(kernel) + 1 /\ kernel'[Len(kernel) + 1] = e /\ Len(kernel) \in Nat
      /\ \A i \in 1 .. Len(kernel) : kernel'[i] = kernel[i]
  BY AppendProperties, LenProperties
<1>4. ASSUME NEW i \in 1 .. Len(kernel'), NEW j \in 1 .. Len(kernel'), NEW p \in Pids,
             kernel'[i] = Baja(p), kernel'[j] = Alta(p)
      PROVE  j < i
  <2>1. CASE j = Len(kernel) + 1
    <3>1. i \in 1 .. Len(kernel)
      BY <1>3, <1>4, <2>1 DEF Alta, Baja
    <3> QED
      BY <1>3, <1>4, <2>1, <3>1 DEF En
  <2>2. CASE j # Len(kernel) + 1
    BY <1>3, <1>4, <2>2 DEF Cola
  <2> QED
    BY <2>1, <2>2
<1> QED
  BY <1>1, <1>2, <1>4 DEF Cola

\* The thread takes the first request.
LEMMA ColaAvanza ==
  ASSUME kernel \in Seq(PedidosDelKernel), Cola, kernel # <<>>, kernel' = Tail(kernel)
  PROVE  /\ Cola' /\ Head(kernel) \in PedidosDelKernel /\ En(kernel, Head(kernel))
         /\ \A x : En(kernel', x) <=> En(kernel, x) /\ x # Head(kernel)
         /\ \A p \in Pids : Head(kernel) = Baja(p) => ~En(kernel, Alta(p))
<1>1. \A x : En(kernel, x) <=> En(kernel', x) \/ x = Head(kernel)
  BY EnTail
<1>2. Head(kernel) \in PedidosDelKernel
  BY HeadTailProperties
<1>3. UnaVezEn(kernel', PedidosDelKernel) /\ ~En(kernel', Head(kernel))
  BY <1>2, UnaVezTail DEF Cola
<1>4. /\ Len(kernel') = Len(kernel) - 1 /\ Len(kernel) \in Nat \ {0} /\ Head(kernel) = kernel[1]
      /\ \A i \in 1 .. Len(kernel) - 1 : kernel'[i] = kernel[i + 1]
  BY HeadTailProperties, LenProperties, EmptySeq
<1>5. ASSUME NEW i \in 1 .. Len(kernel'), NEW j \in 1 .. Len(kernel'), NEW p \in Pids,
             kernel'[i] = Baja(p), kernel'[j] = Alta(p)
      PROVE  j < i
  <2>1. /\ i + 1 \in 1 .. Len(kernel) /\ j + 1 \in 1 .. Len(kernel)
        /\ kernel[i + 1] = Baja(p) /\ kernel[j + 1] = Alta(p)
    BY <1>4, <1>5
  <2>2. j + 1 < i + 1
    BY <2>1 DEF Cola
  <2> QED
    BY <2>2, <1>4
<1>6. ASSUME NEW p \in Pids, Head(kernel) = Baja(p), En(kernel, Alta(p)) PROVE FALSE
  <2>1. PICK j \in 1 .. Len(kernel) : kernel[j] = Alta(p)
    BY <1>6 DEF En
  <2>2. 1 \in 1 .. Len(kernel) /\ kernel[1] = Baja(p)
    BY <1>4, <1>6
  <2>3. j < 1
    BY <2>1, <2>2 DEF Cola
  <2> QED
    BY <2>1, <2>3, <1>4
<1> QED
  BY <1>1, <1>2, <1>3, <1>5, <1>6 DEF Cola

LEMMA PedidosDistintos ==
  ASSUME NEW p, NEW q
  PROVE  /\ Alta(p) # Baja(q)
         /\ Alta(p) = Alta(q) => p = q
         /\ Baja(p) = Baja(q) => p = q
  BY DEF Alta, Baja

LEMMA OrdenadoInicial == Init => Ordenado
<1> SUFFICES ASSUME Init PROVE Cola /\ Etapas /\ Listados /\ DeLaCPU
  BY DEF Ordenado
<1>1. Cola
  BY DEF Init, Cola, UnaVezEn
<1>2. Etapas
  BY DEF Init, Etapas, En, Iniciando, Finalizando
<1>3. Listados
  BY DEF Init, Listados, UnaVezEn, En
<1>4. DeLaCPU
  BY DEF Init, DeLaCPU, CPULibre, HiloEnRecv
<1> QED
  BY <1>1, <1>2, <1>3, <1>4

\* What Ordenado says at a step that leaves the requests apart.
LEMMA PartesOrdenado ==
  ASSUME Inv, Ordenado, ~mezclado
  PROVE  /\ kernel \in Seq(PedidosDelKernel)
         /\ Cola /\ Etapas /\ Listados /\ DeLaCPU
  BY DEF Inv, TypeOK, Ordenado, PedidosDelKernel

LEMMA OrdenadoClientes ==
  ASSUME Inv, Ordenado, ~mezclado'
  PROVE  /\ \A p \in Pids : CrearProceso(p) \/ TerminarProceso(p) \/ PedirInstruccion(p) => Ordenado'
         /\ SinPedido => Ordenado'
         /\ \A t : PedirResize(t) \/ PedirMarco(t) => Ordenado'
<1> USE DEF ClienteQuieto, paginas
<1>1. ASSUME NEW p \in Pids, CrearProceso(p) PROVE Ordenado'
  <2>1. ~mezclado /\ kernel' = Append(kernel, Alta(p)) /\ vida[p] = "no" /\ Alta(p) \in PedidosDelKernel
    BY <1>1 DEF CrearProceso, Alta, PedidosDelKernel
  <2>2. /\ kernel \in Seq(PedidosDelKernel) /\ Cola /\ Etapas /\ Listados /\ DeLaCPU
    BY <2>1, PartesOrdenado
  <2>3. ~En(kernel, Alta(p)) /\ ~En(kernel, Baja(p))
    BY <2>1, <2>2 DEF Etapas
  <2>4. Cola' /\ \A x : En(kernel', x) <=> En(kernel, x) \/ x = Alta(p)
    BY <2>1, <2>2, <2>3, ColaCrece, PedidosDistintos
  <2>5. /\ vida \in [Pids -> {"no", "creado", "matado", "sin_memoria", "fin"}]
        /\ vida' = [vida EXCEPT ![p] = "creado"]
        /\ cpu.pc # "libre" => cpu.pid \in Pids
        /\ UNCHANGED <<struct, tabla, procesos_totales, proceso_memoria, hiloKernel, hiloCPU, cpu>>
    BY <1>1 DEF CrearProceso, Inv, TypeOK
  <2>6. Etapas'
    BY <2>1, <2>2, <2>4, <2>5, PedidosDistintos DEF Etapas, Iniciando, Finalizando
  <2>7. Listados' /\ DeLaCPU'
    BY <2>2, <2>5 DEF Listados, DeLaCPU
  <2> QED
    BY <2>4, <2>6, <2>7 DEF Ordenado
<1>2. ASSUME NEW p \in Pids, TerminarProceso(p) PROVE Ordenado'
  <2>1. /\ ~mezclado /\ kernel' = Append(kernel, Baja(p)) /\ Baja(p) \in PedidosDelKernel
        /\ vida[p] \in {"creado", "matado", "sin_memoria"} /\ cpu.pid # p
    BY <1>2 DEF TerminarProceso, Baja, PedidosDelKernel
  <2>2. /\ kernel \in Seq(PedidosDelKernel) /\ Cola /\ Etapas /\ Listados /\ DeLaCPU
    BY <2>1, PartesOrdenado
  <2>3. ~En(kernel, Baja(p))
    BY <2>1, <2>2 DEF Etapas
  <2>4. Cola' /\ \A x : En(kernel', x) <=> En(kernel, x) \/ x = Baja(p)
    BY <2>1, <2>2, <2>3, ColaCrece, PedidosDistintos
  <2>5. /\ vida \in [Pids -> {"no", "creado", "matado", "sin_memoria", "fin"}]
        /\ vida' = [vida EXCEPT ![p] = "fin"]
        /\ cpu.pc # "libre" => cpu.pid \in Pids
        /\ UNCHANGED <<struct, tabla, procesos_totales, proceso_memoria, hiloKernel, hiloCPU, cpu>>
    BY <1>2 DEF TerminarProceso, Inv, TypeOK
  <2>6. Etapas'
    BY <2>1, <2>2, <2>4, <2>5, PedidosDistintos DEF Etapas, Iniciando, Finalizando
  <2>7. Listados' /\ DeLaCPU'
    BY <2>1, <2>2, <2>5 DEF Listados, DeLaCPU
  <2> QED
    BY <2>4, <2>6, <2>7 DEF Ordenado
<1>3. ASSUME UNCHANGED <<kernel, vida>>, ClienteQuieto, DeLaCPU => DeLaCPU' PROVE Ordenado'
  BY <1>3 DEF Ordenado, Cola, Etapas, Listados, Iniciando, Finalizando
<1>4. ASSUME NEW p \in Pids, PedirInstruccion(p) PROVE Ordenado'
  <2>1. hiloCPU.pc \notin {"buscar", "roto", "usar", "tomar", "soltar"}
    BY <1>4 DEF PedirInstruccion, Inv, CPUEspera
  <2> QED
    BY <1>3, <1>4, <2>1 DEF PedirInstruccion, DeLaCPU
<1>5. CASE SinPedido
  <2>1. hiloCPU.pc \notin {"buscar", "roto", "usar", "tomar", "soltar"}
    BY <1>5 DEF SinPedido, Inv, CPUEspera
  <2> QED
    BY <1>3, <1>5, <2>1 DEF SinPedido, DeLaCPU, CPULibre
<1>6. ASSUME NEW t, PedirResize(t) \/ PedirMarco(t) PROVE Ordenado'
  <2>1. /\ hiloCPU.pc \notin {"buscar", "roto", "usar", "tomar", "soltar"} /\ cpu.pc = "ejecutar"
        /\ cpu'.pid = cpu.pid /\ cpu'.pc = "espera"
    BY <1>6 DEF PedirResize, PedirMarco, Inv, TypeOK, CPUEspera
  <2> QED
    BY <1>3, <1>6, <2>1 DEF PedirResize, PedirMarco, DeLaCPU
<1> QED
  BY <1>1, <1>2, <1>4, <1>5, <1>6

LEMMA EnListaEnRango ==
  ASSUME NEW S, NEW s \in Seq(S), NEW x
  PROVE  x \in Range(s) <=> En(s, x)
<1>1. DOMAIN s = 1 .. Len(s)
  OBVIOUS
<1> QED
  BY <1>1 DEF Range, En

LEMMA OrdenadoCaida ==
  ASSUME Ordenado, NEW causa, Caer(causa)
  PROVE  Ordenado'
  BY DEF Caer, paginas, Ordenado, Cola, Etapas, Listados, DeLaCPU, Iniciando, Finalizando

\* A step that touches nothing but the tables, the owners and the sizes.
LEMMA OrdenadoQuieto ==
  ASSUME Ordenado, ~mezclado' => ~mezclado,
         UNCHANGED <<kernel, vida, struct, procesos_totales, proceso_memoria, hiloKernel>>,
         \A p \in Pids : struct[p] # "listo" => tabla'[p] = tabla[p],
         DeLaCPU => DeLaCPU'
  PROVE  Ordenado'
<1> SUFFICES ASSUME ~mezclado' PROVE Cola' /\ Etapas' /\ Listados' /\ DeLaCPU'
  BY DEF Ordenado
<1>1. Cola /\ Etapas /\ Listados /\ DeLaCPU
  BY DEF Ordenado
<1>2. Cola' /\ Listados'
  BY <1>1 DEF Cola, Listados
<1>3. Etapas'
  BY <1>1 DEF Etapas, Iniciando, Finalizando
<1> QED
  BY <1>1, <1>2, <1>3

\* The kernel's thread, step by step.
LEMMA OrdenadoHiloKernel ==
  ASSUME Inv, Ordenado, HiloKernel
  PROVE  Ordenado'
<1> SUFFICES ASSUME ~mezclado' PROVE Ordenado'
  BY DEF Ordenado
<1> USE DEF HiloKernelQuieto, MezclarConCPU
<1>0. TypeOK
  BY DEF Inv
<1>1. CASE RecibirInicializar
  <2> DEFINE p == Head(kernel).pid
  <2>1. ~mezclado /\ hiloCPU.pc # "usar" /\ kernel # <<>> /\ kernel' = Tail(kernel)
    BY <1>1 DEF RecibirInicializar
  <2>2. /\ kernel \in Seq(PedidosDelKernel) /\ Cola /\ Etapas /\ Listados /\ DeLaCPU
    BY <2>1, PartesOrdenado
  <2>3. /\ Cola' /\ Head(kernel) \in PedidosDelKernel /\ En(kernel, Head(kernel))
        /\ \A x : En(kernel', x) <=> En(kernel, x) /\ x # Head(kernel)
    BY <2>1, <2>2, ColaAvanza
  <2>4. p \in Pids /\ Head(kernel) = Alta(p)
    BY <1>1, <2>3 DEF RecibirInicializar, PedidosDelKernel, Alta
  <2>5. /\ struct \in [Pids -> {"no", "nuevo", "listo", "libre"}]
        /\ cpu.pc # "libre" => cpu.pid \in Pids
    BY <1>0 DEF TypeOK
  <2>6. /\ hiloKernel.pc = "recv" /\ hiloKernel'.pc = "path"
        /\ proceso_memoria' = p /\ struct' = [struct EXCEPT ![p] = "nuevo"]
        /\ UNCHANGED <<tabla, procesos_totales, vida, cpu, hiloCPU>>
    BY <1>1 DEF RecibirInicializar
  <2> HIDE DEF p
  <2>7. struct[p] = "no" /\ vida[p] # "no"
    BY <2>2, <2>3, <2>4 DEF Etapas
  <2>8. Etapas'
    BY <2>2, <2>3, <2>4, <2>5, <2>6, <2>7, PedidosDistintos DEF Etapas, Iniciando, Finalizando
  <2>9. Listados'
    BY <2>2, <2>4, <2>5, <2>6, <2>7 DEF Listados
  <2>10. DeLaCPU'
    BY <2>1, <2>2, <2>4, <2>5, <2>6, <2>7 DEF DeLaCPU
  <2> QED
    BY <2>3, <2>8, <2>9, <2>10 DEF Ordenado
<1>2. CASE IniciarPath
  <2>1. CASE caida' # "no"
    BY <1>2, <2>1, OrdenadoCaida DEF IniciarPath, Vivo
  <2>2. CASE caida' = "no"
    <3> DEFINE p == proceso_memoria
    <3>1. /\ ~mezclado /\ hiloKernel.pc = "path" /\ hiloKernel'.pc = "estructura" /\ hiloKernel'.pid = p
          /\ procesos_totales' = Append(procesos_totales, p)
          /\ UNCHANGED <<struct, tabla, proceso_memoria, kernel, vida, cpu, hiloCPU>>
      BY <1>2, <2>2 DEF IniciarPath, Caer
    <3>2. /\ kernel \in Seq(PedidosDelKernel) /\ Cola /\ Etapas /\ Listados /\ DeLaCPU
      BY <3>1, PartesOrdenado
    <3>3. p \in Pids /\ struct[p] = "nuevo" /\ procesos_totales \in Seq(Pids)
      BY <1>0, <3>1, <3>2 DEF Etapas, Iniciando, TypeOK
    <3> HIDE DEF p
    <3>4. ~En(procesos_totales, p)
      BY <3>1, <3>2, <3>3 DEF Listados
    <3>5. /\ UnaVezEn(procesos_totales', Pids)
          /\ \A x : En(procesos_totales', x) <=> En(procesos_totales, x) \/ x = p
      BY <3>1, <3>2, <3>3, <3>4, EnAppend, UnaVezAppend DEF Listados
    <3>6. Listados'
      BY <3>1, <3>2, <3>5 DEF Listados
    <3>7. Cola'
      BY <3>1, <3>2 DEF Cola
    <3>8. Etapas'
      BY <3>1, <3>2, <3>3 DEF Etapas, Iniciando, Finalizando, p
    <3>9. DeLaCPU'
      BY <3>1, <3>2 DEF DeLaCPU
    <3> QED
      BY <3>6, <3>7, <3>8, <3>9 DEF Ordenado
  <2> QED
    BY <2>1, <2>2
<1>3. CASE IniciarEstructura
  <2> DEFINE p == hiloKernel.pid
  <2>1. /\ ~mezclado /\ hiloCPU.pc # "usar" /\ hiloKernel.pc = "estructura" /\ hiloKernel'.pc = "recv"
        /\ tabla' = [tabla EXCEPT ![p] = <<>>] /\ struct' = [struct EXCEPT ![p] = "listo"]
        /\ UNCHANGED <<procesos_totales, kernel, vida, cpu, hiloCPU>>
    BY <1>3 DEF IniciarEstructura
  <2>2. /\ kernel \in Seq(PedidosDelKernel) /\ Cola /\ Etapas /\ Listados /\ DeLaCPU
    BY <2>1, PartesOrdenado
  <2>3. /\ p \in Pids /\ struct[p] = "nuevo"
        /\ struct \in [Pids -> {"no", "nuevo", "listo", "libre"}] /\ tabla \in [Pids -> Seq(Marcos)]
        /\ cpu.pc # "libre" => cpu.pid \in Pids
    BY <1>0, <2>1, <2>2 DEF Etapas, Iniciando, TypeOK
  <2> HIDE DEF p
  <2>4. Etapas'
    BY <2>1, <2>2, <2>3 DEF Etapas, Iniciando, Finalizando, p
  <2>5. Listados' /\ Cola'
    BY <2>1, <2>2, <2>3 DEF Listados, Cola, p
  <2>6. DeLaCPU'
    BY <2>1, <2>2, <2>3 DEF DeLaCPU
  <2> QED
    BY <2>4, <2>5, <2>6 DEF Ordenado
<1>4. CASE RecibirFinalizar
  <2> DEFINE p == Head(kernel).pid
  <2>1. ~mezclado /\ hiloCPU.pc # "usar" /\ kernel # <<>> /\ kernel' = Tail(kernel)
    BY <1>4 DEF RecibirFinalizar
  <2>2. /\ kernel \in Seq(PedidosDelKernel) /\ Cola /\ Etapas /\ Listados /\ DeLaCPU
    BY <2>1, PartesOrdenado
  <2>3. /\ Cola' /\ Head(kernel) \in PedidosDelKernel /\ En(kernel, Head(kernel))
        /\ \A x : En(kernel', x) <=> En(kernel, x) /\ x # Head(kernel)
        /\ \A q \in Pids : Head(kernel) = Baja(q) => ~En(kernel, Alta(q))
    BY <2>1, <2>2, ColaAvanza
  <2>4. p \in Pids /\ Head(kernel) = Baja(p)
    BY <1>4, <2>3 DEF RecibirFinalizar, PedidosDelKernel, Baja
  <2>5. /\ hiloKernel.pc = "recv" /\ hiloKernel'.pc = "finalizar"
        /\ proceso_memoria' = Obtener(p)
        /\ UNCHANGED <<struct, tabla, procesos_totales, vida, cpu, hiloCPU>>
    BY <1>4 DEF RecibirFinalizar, paginas
  <2>6. /\ struct \in [Pids -> {"no", "nuevo", "listo", "libre"}] /\ procesos_totales \in Seq(Pids)
    BY <1>0 DEF TypeOK
  <2> HIDE DEF p
  <2>7. vida[p] = "fin" /\ struct[p] # "libre" /\ struct[p] # "no" /\ struct[p] # "nuevo"
    BY <2>2, <2>3, <2>4, <2>5 DEF Etapas, Iniciando
  <2>8. struct[p] = "listo"
    BY <2>4, <2>6, <2>7
  <2>9. proceso_memoria' = p
    BY <2>2, <2>4, <2>5, <2>6, <2>8, EnListaEnRango DEF Listados, Obtener
  <2>10. Etapas'
    BY <2>2, <2>3, <2>4, <2>5, <2>7, <2>8, <2>9, PedidosDistintos DEF Etapas, Iniciando, Finalizando
  <2>11. Listados' /\ DeLaCPU'
    BY <2>1, <2>2, <2>5 DEF Listados, DeLaCPU
  <2> QED
    BY <2>3, <2>10, <2>11 DEF Ordenado
<1>5. CASE BuscarLiberado
  BY <1>5, OrdenadoCaida DEF BuscarLiberado
<1>6. CASE Liberar
  <2>1. CASE caida' # "no"
    BY <1>6, <2>1, OrdenadoCaida DEF Liberar, Vivo
  <2>2. CASE caida' = "no"
    <3>1. ~mezclado /\ hiloKernel.pc = "finalizar"
          /\ UNCHANGED <<struct, tabla, procesos_totales, proceso_memoria, kernel, vida, cpu, hiloCPU>>
      BY <1>6, <2>2 DEF Liberar, Caer, paginas
    <3>2. /\ Cola /\ Etapas /\ Listados /\ DeLaCPU
      BY <3>1, PartesOrdenado
    <3>3. proceso_memoria \in Pids /\ proceso_memoria # NULL
      BY <3>1, <3>2, ConstantesMemoria DEF Etapas
    <3>4. hiloKernel' = [pc |-> "liberando", pid |-> proceso_memoria]
      BY <1>6, <2>2, <3>3 DEF Liberar, Caer
    <3>5. Etapas'
      BY <3>1, <3>2, <3>3, <3>4 DEF Etapas, Iniciando, Finalizando
    <3>6. Listados' /\ Cola' /\ DeLaCPU'
      BY <3>1, <3>2, <3>4 DEF Listados, Cola, DeLaCPU
    <3> QED
      BY <3>5, <3>6 DEF Ordenado
  <2> QED
    BY <2>1, <2>2
<1>7. CASE LiberarPagina
  <2>1. /\ ~mezclado /\ hiloKernel.pc = "liberando"
        /\ tabla' = [tabla EXCEPT ![hiloKernel.pid] = Tail(@)] /\ tabla \in [Pids -> Seq(Marcos)]
        /\ UNCHANGED <<struct, procesos_totales, proceso_memoria, kernel, hiloKernel, vida, cpu, hiloCPU>>
    BY <1>0, <1>7 DEF LiberarPagina, TypeOK
  <2>2. /\ Cola /\ Etapas /\ Listados /\ DeLaCPU
    BY <2>1, PartesOrdenado
  <2>3. \A p \in Pids : struct[p] # "listo" => tabla'[p] = tabla[p]
    BY <2>1, <2>2 DEF Etapas, Finalizando
  <2>4. DeLaCPU'
    BY <2>1, <2>2 DEF DeLaCPU
  <2> QED
    BY <2>1, <2>3, <2>4, OrdenadoQuieto
<1>8. CASE LiberarFin
  <2> DEFINE p == hiloKernel.pid
  <2>1. /\ ~mezclado /\ hiloKernel.pc = "liberando" /\ hiloKernel'.pc = "recv" /\ tabla[p] = <<>>
        /\ procesos_totales' = RemoveFirst(procesos_totales, p)
        /\ struct' = [struct EXCEPT ![p] = "libre"]
        /\ UNCHANGED <<tabla, proceso_memoria, kernel, vida, cpu, hiloCPU>>
    <3>1. ~mezclado /\ hiloCPU.pc # "buscar"
      BY <1>8 DEF LiberarFin
    <3>2. hiloCPU' = hiloCPU
      BY <1>0, <1>8, <3>1, LiberarSinBusqueda
    <3> QED
      BY <1>8, <3>1, <3>2 DEF LiberarFin
  <2>2. /\ Cola /\ Etapas /\ Listados /\ DeLaCPU
    BY <2>1, PartesOrdenado
  <2>3. /\ p \in Pids /\ procesos_totales \in Seq(Pids)
        /\ struct \in [Pids -> {"no", "nuevo", "listo", "libre"}]
        /\ cpu.pc # "libre" => cpu.pid \in Pids
        /\ hiloCPU.pc \in {"buscar", "roto", "usar", "tomar", "soltar"} => cpu.pc = "espera"
    BY <1>0, <2>1 DEF TypeOK, Inv, CPUEspera
  <2>4. struct[p] = "listo" /\ vida[p] = "fin" /\ ~En(kernel, Baja(p))
    BY <2>1, <2>2, <2>3 DEF Etapas, Finalizando
  <2> HIDE DEF p
  <2>5. Etapas'
    BY <2>1, <2>2, <2>3, <2>4 DEF Etapas, Iniciando, Finalizando, p
  <2>6. /\ UnaVezEn(procesos_totales', Pids)
        /\ \A x : En(procesos_totales', x) <=> En(procesos_totales, x) /\ x # p
    BY <2>1, <2>2, <2>3, SinPrimeroQuita DEF Listados
  <2>7. Listados' /\ Cola'
    BY <2>1, <2>2, <2>3, <2>4, <2>6 DEF Listados, Cola
  <2>8. DeLaCPU'
    BY <2>1, <2>2, <2>3, <2>4 DEF DeLaCPU
  <2> QED
    BY <2>5, <2>7, <2>8 DEF Ordenado
<1> QED
  BY <1>1, <1>2, <1>3, <1>4, <1>5, <1>6, <1>7, <1>8 DEF HiloKernel

\* The CPU's thread, step by step.
LEMMA OrdenadoHiloCPU ==
  ASSUME Inv, Ordenado, HiloCPU
  PROVE  Ordenado'
<1> SUFFICES ASSUME ~mezclado' PROVE Ordenado'
  BY DEF Ordenado
<1> USE DEF HiloCPUQuieto, ContestarInstruccion, ContestarResize, HiloEnRecv, CPULibre, paginas
<1>0. /\ TypeOK /\ tabla \in [Pids -> Seq(Marcos)]
      /\ cpu \in [pc : {"libre", "espera", "ejecutar"}, pid : Pids \cup {NULL},
                  op : {"INSTRUCCION", "RESIZE", "MARCO"}, arg : Nat]
      /\ hiloCPU \in [pc : {"recv", "buscar", "roto", "usar", "tomar", "soltar", "mudo"},
                      pid : Pids \cup {NULL}, restan : Nat]
      /\ hiloCPU.pc \in {"tomar", "soltar"} => hiloCPU.pid \in Pids
      /\ hiloCPU.pc \in {"buscar", "roto", "usar", "tomar", "soltar"} => cpu.pc = "espera"
      /\ cpu.pc # "libre" => cpu.pid \in Pids
  BY DEF Inv, TypeOK, CPUEspera
<1>13. CASE RecibirPedido
  <2>1. DeLaCPU => DeLaCPU'
    BY <1>0, <1>13 DEF RecibirPedido, DeLaCPU
  <2> QED
    BY <1>13, <2>1, OrdenadoQuieto DEF RecibirPedido
<1>1. CASE BuscarProceso
  <2>0. ~mezclado /\ hiloKernel.pc \notin {"path", "estructura", "finalizar"}
    BY <1>1 DEF BuscarProceso
  <2>2. /\ Cola /\ Etapas /\ Listados /\ DeLaCPU
    BY <2>0, PartesOrdenado
  <2>1. /\ hiloCPU.pc = "buscar" /\ hiloCPU'.pc = "usar" /\ cpu.pc = "espera"
        /\ proceso_memoria' = Obtener(cpu.pid)
        /\ hiloKernel.pc \notin {"path", "estructura", "finalizar"}
        /\ UNCHANGED <<struct, tabla, procesos_totales, kernel, hiloKernel, vida, cpu>>
    BY <1>0, <1>1, <2>0, <2>2 DEF BuscarProceso, Encontrados, DeLaCPU
  <2>3. hiloKernel.pc \in {"recv", "liberando"} /\ cpu.pid \in Pids /\ procesos_totales \in Seq(Pids)
    BY <1>0, <2>1 DEF TypeOK
  <2>4. proceso_memoria' # NULL => proceso_memoria' = cpu.pid /\ struct[cpu.pid] = "listo"
    BY <2>1, <2>2, <2>3, EnListaEnRango DEF Obtener, Listados
  <2>5. Etapas'
    BY <2>1, <2>2, <2>3 DEF Etapas, Iniciando, Finalizando
  <2>6. Listados' /\ Cola'
    BY <2>1, <2>2 DEF Listados, Cola
  <2>7. DeLaCPU'
    BY <2>1, <2>2, <2>3, <2>4 DEF DeLaCPU
  <2> QED
    BY <2>5, <2>6, <2>7 DEF Ordenado
<1>2. CASE PedidoDesconocido
  <2>1. DeLaCPU => DeLaCPU'
    BY <1>0, <1>2 DEF PedidoDesconocido, DeLaCPU
  <2> QED
    BY <1>2, <2>1, OrdenadoQuieto DEF PedidoDesconocido
<1>3. CASE PedidoLiberado
  BY <1>3, OrdenadoCaida DEF PedidoLiberado
<1>4. CASE PedidoInstruccion
  <2>1. DeLaCPU => DeLaCPU'
    BY <1>0, <1>4 DEF PedidoInstruccion, Usar, DeLaCPU
  <2> QED
    BY <1>4, <2>1, OrdenadoQuieto DEF PedidoInstruccion
<1>5. CASE PedidoMarco
  <2>1. CASE caida' # "no"
    BY <1>5, <2>1, OrdenadoCaida DEF PedidoMarco, Usar, Vivo
  <2>2. CASE caida' = "no"
    <3>1. /\ Usar("MARCO") /\ hiloCPU'.pc = "recv" /\ UNCHANGED <<paginas, proceso_memoria, vida>> /\ HiloCPUQuieto
          /\ cpu' = [cpu EXCEPT !.pc = "ejecutar", !.arg = tabla[proceso_memoria][cpu.arg + 1]]
      BY <1>5, <2>2 DEF PedidoMarco, Caer
    <3>2. cpu'.pc = "ejecutar" /\ cpu'.pid = cpu.pid
      BY <1>0, <3>1
    <3>3. DeLaCPU => DeLaCPU'
      BY <1>0, <3>1, <3>2 DEF Usar, DeLaCPU
    <3> QED
      BY <3>1, <3>3, OrdenadoQuieto
  <2> QED
    BY <2>1, <2>2
<1>6. CASE ResizeIgual
  <2>1. DeLaCPU => DeLaCPU'
    BY <1>0, <1>6 DEF ResizeIgual, Usar, DeLaCPU
  <2> QED
    BY <1>6, <2>1, OrdenadoQuieto DEF ResizeIgual
<1>7. CASE ResizeAumentar
  <2>1. DeLaCPU => DeLaCPU'
    BY <1>0, <1>7 DEF ResizeAumentar, Usar, DeLaCPU
  <2> QED
    BY <1>7, <2>1, OrdenadoQuieto DEF ResizeAumentar
<1>8. CASE ResizeSinMemoria
  <2>1. /\ vida' = [vida EXCEPT ![cpu.pid] = "sin_memoria"] /\ cpu'.pc = "libre" /\ hiloCPU'.pc = "recv"
        /\ cpu.pc = "espera" /\ hiloCPU.pc = "usar" /\ ~mezclado
        /\ vida \in [Pids -> {"no", "creado", "matado", "sin_memoria", "fin"}]
        /\ UNCHANGED <<struct, tabla, procesos_totales, proceso_memoria, kernel, hiloKernel>>
    BY <1>0, <1>8 DEF ResizeSinMemoria, Usar, TypeOK
  <2>2. /\ Cola /\ Etapas /\ Listados /\ DeLaCPU
    BY <2>1, PartesOrdenado
  <2>3. vida[cpu.pid] = "creado" /\ \A p \in Pids : vida'[p] = "no" <=> vida[p] = "no"
    BY <1>0, <2>1, <2>2 DEF DeLaCPU
  <2>4. \A p \in Pids : vida'[p] = "fin" <=> vida[p] = "fin"
    BY <1>0, <2>1, <2>3
  <2>5. Etapas'
    BY <2>1, <2>2, <2>3, <2>4 DEF Etapas, Iniciando, Finalizando
  <2>6. Listados' /\ Cola' /\ DeLaCPU'
    BY <2>1, <2>2 DEF Listados, Cola, DeLaCPU
  <2> QED
    BY <2>5, <2>6 DEF Ordenado
<1>9. CASE TomarMarco
  <2>1. CASE caida' # "no"
    BY <1>9, <2>1, OrdenadoCaida DEF TomarMarco, Vivo
  <2>2. CASE caida' = "no"
    <3>1. /\ ~mezclado /\ hiloCPU.pc = "tomar" /\ hiloCPU'.pc = "tomar" /\ hiloCPU'.pid = hiloCPU.pid
          /\ tabla' = [tabla EXCEPT ![hiloCPU.pid] = Append(@, PrimerLibre)]
          /\ UNCHANGED <<struct, procesos_totales, proceso_memoria, kernel, hiloKernel, vida, cpu, mezclado>>
      BY <1>0, <1>9, <2>2 DEF TomarMarco, Caer
    <3>2. DeLaCPU
      BY <3>1, PartesOrdenado
    <3>3. \A p \in Pids : struct[p] # "listo" => tabla'[p] = tabla[p]
      BY <1>0, <3>1, <3>2 DEF DeLaCPU
    <3>4. DeLaCPU'
      BY <3>1, <3>2 DEF DeLaCPU
    <3> QED
      BY <3>1, <3>3, <3>4, OrdenadoQuieto
  <2> QED
    BY <2>1, <2>2
<1>10. CASE ResizeDisminuir
  <2>1. DeLaCPU => DeLaCPU'
    BY <1>0, <1>10 DEF ResizeDisminuir, Usar, DeLaCPU
  <2> QED
    BY <1>10, <2>1, OrdenadoQuieto DEF ResizeDisminuir
<1>11. CASE SoltarMarco
  <2>1. CASE caida' # "no"
    BY <1>11, <2>1, OrdenadoCaida DEF SoltarMarco, Vivo
  <2>2. CASE caida' = "no"
    <3>1. /\ ~mezclado /\ hiloCPU.pc = "soltar" /\ hiloCPU'.pc = "soltar" /\ hiloCPU'.pid = hiloCPU.pid
          /\ tabla' = [tabla EXCEPT ![hiloCPU.pid] = Anteriores(@)]
          /\ UNCHANGED <<struct, procesos_totales, proceso_memoria, kernel, hiloKernel, vida, cpu, mezclado>>
      BY <1>0, <1>11, <2>2 DEF SoltarMarco, Caer
    <3>2. DeLaCPU
      BY <3>1, PartesOrdenado
    <3>3. \A p \in Pids : struct[p] # "listo" => tabla'[p] = tabla[p]
      BY <1>0, <3>1, <3>2 DEF DeLaCPU
    <3>4. DeLaCPU'
      BY <3>1, <3>2 DEF DeLaCPU
    <3> QED
      BY <3>1, <3>3, <3>4, OrdenadoQuieto
  <2> QED
    BY <2>1, <2>2
<1>12. CASE ResizeFin
  <2>1. CASE caida' # "no"
    BY <1>12, <2>1, OrdenadoCaida DEF ResizeFin, Vivo
  <2>2. CASE caida' = "no"
    <3>1. /\ cpu'.pc = "libre" /\ hiloCPU'.pc = "recv"
          /\ UNCHANGED <<marcos, struct, tabla, procesos_totales, proceso_memoria, vida>>
          /\ HiloCPUQuieto
      BY <1>12, <2>2 DEF ResizeFin, Caer
    <3>2. DeLaCPU => DeLaCPU'
      BY <3>1 DEF DeLaCPU
    <3> QED
      BY <3>1, <3>2, OrdenadoQuieto
  <2> QED
    BY <2>1, <2>2
<1> QED
  BY <1>1, <1>2, <1>3, <1>4, <1>5, <1>6, <1>7, <1>8, <1>9, <1>10, <1>11, <1>12, <1>13 DEF HiloCPU

LEMMA OrdenadoPaso == Inv /\ Ordenado /\ [Next]_vars => Ordenado'
<1> SUFFICES ASSUME Inv, Ordenado, [Next]_vars PROVE Ordenado'
  OBVIOUS
<1>1. CASE UNCHANGED vars
  BY <1>1, OrdenadoCaida DEF vars, paginas, Caer
<1>2. CASE Clientes
  <2>1. ~mezclado' => Ordenado'
    BY <1>2, OrdenadoClientes DEF Clientes, MatarProceso
  <2> QED
    BY <2>1 DEF Ordenado
<1> QED
  BY <1>1, <1>2, OrdenadoHiloKernel, OrdenadoHiloCPU DEF Next

\* Once a request has been taken up at the wrong moment, it has.
LEMMA MezcladoQueda ==
  ASSUME [Next]_vars, mezclado
  PROVE  mezclado'
<1> USE DEF Caer, paginas, ClienteQuieto, HiloKernelQuieto, HiloCPUQuieto, MezclarConCPU
<1>1. CASE Clientes
  BY <1>1 DEF Clientes, CrearProceso, TerminarProceso, MatarProceso, PedirInstruccion, SinPedido,
              PedirResize, PedirMarco
<1>2. CASE HiloKernel
  BY <1>2 DEF HiloKernel, RecibirInicializar, IniciarPath, IniciarEstructura, RecibirFinalizar,
              BuscarLiberado, Liberar, LiberarPagina, LiberarFin
<1>3. CASE HiloCPU
  BY <1>3 DEF HiloCPU, RecibirPedido, BuscarProceso, PedidoDesconocido, PedidoLiberado, PedidoInstruccion,
              PedidoMarco, ResizeIgual, ResizeAumentar, ResizeSinMemoria, TomarMarco,
              ResizeDisminuir, SoltarMarco, ResizeFin
<1>4. CASE UNCHANGED vars
  BY <1>4 DEF vars
<1> QED
  BY <1>1, <1>2, <1>3, <1>4 DEF Next

-----------------------------------------------------------------------------
\* A list without its last element.
LEMMA AnterioresDe ==
  ASSUME NEW S, NEW s \in Seq(S), s # <<>>
  PROVE  /\ Anteriores(s) \in Seq(S) /\ Ultimo(s) \in S
         /\ Len(Anteriores(s)) = Len(s) - 1 /\ Len(s) \in Nat
         /\ Ultimo(s) = s[Len(s)]
         /\ \A i \in 1 .. Len(s) - 1 : Anteriores(s)[i] = s[i]
<1>1. Len(s) \in Nat /\ Len(s) >= 1
  OBVIOUS
<1>2. s[Len(s)] \in S
  OBVIOUS
<1>3. Len(s) - 1 \in Int /\ 1 \in Int /\ \A i \in 1 .. Len(s) - 1 : s[i] \in S
  BY <1>1
<1>4. /\ SubSeq(s, 1, Len(s) - 1) \in Seq(S)
      /\ Len(SubSeq(s, 1, Len(s) - 1)) = IF 1 <= Len(s) - 1 THEN Len(s) - 1 - 1 + 1 ELSE 0
      /\ \A i \in 1 .. Len(s) - 1 - 1 + 1 : SubSeq(s, 1, Len(s) - 1)[i] = s[1 + i - 1]
  BY <1>3, SubSeqProperties
<1>5. Len(Anteriores(s)) = Len(s) - 1
  <2>1. ASSUME NEW n \in Nat, n >= 1, NEW x, x = IF 1 <= n - 1 THEN n - 1 - 1 + 1 ELSE 0
        PROVE  x = n - 1
    BY <2>1
  <2> QED
    BY <1>1, <1>4, <2>1 DEF Anteriores
<1>6. \A i \in 1 .. Len(s) - 1 : Anteriores(s)[i] = s[i]
  BY <1>1, <1>4 DEF Anteriores
<1>7. Anteriores(s) \in Seq(S)
  BY <1>4 DEF Anteriores
<1> QED
  BY <1>1, <1>2, <1>5, <1>6, <1>7 DEF Ultimo

\* The frame of a page is freed as the page leaves the table of q, which keeps the others.
LEMMA FugasAlSoltar ==
  ASSUME TypeOK, SinFugas, ~mezclado, NEW q \in Pids, NEW f \in Marcos, NEW s \in Seq(Marcos),
         \A m \in Range(tabla[q]) : m # f => m \in Range(s),
         marcos' = [marcos EXCEPT ![f] = NULL],
         tabla' = [tabla EXCEPT ![q] = s]
  PROVE  SinFugas'
<1> SUFFICES ASSUME NEW m \in Marcos, marcos'[m] # NULL
             PROVE  m \in Range(tabla'[marcos'[m]])
  BY DEF SinFugas, Marcos
<1>1. /\ marcos \in [Marcos -> Pids \cup {NULL}] /\ tabla \in [Pids -> Seq(Marcos)]
  BY DEF TypeOK
<1>2. m # f /\ marcos'[m] = marcos[m] /\ marcos[m] \in Pids
  BY <1>1
<1>3. m \in Range(tabla[marcos[m]])
  BY <1>2 DEF SinFugas
<1> QED
  BY <1>1, <1>2, <1>3

LEMMA SinFugasPaso == Inv /\ Ordenado /\ SinFugas /\ [Next]_vars => SinFugas'
<1> SUFFICES ASSUME Inv, Ordenado, SinFugas, [Next]_vars, ~mezclado' PROVE SinFugas'
  BY DEF SinFugas
<1>1. ~mezclado /\ TypeOK
  BY MezcladoQueda DEF Inv
<1>2. Cola /\ Etapas /\ Listados /\ DeLaCPU
  BY <1>1, PartesOrdenado
<1>3. /\ marcos \in [Marcos -> Pids \cup {NULL}] /\ tabla \in [Pids -> Seq(Marcos)]
  BY <1>1 DEF TypeOK
<1>4. CASE UNCHANGED <<marcos, tabla>>
  BY <1>1, <1>4 DEF SinFugas, Marcos
<1>5. CASE IniciarEstructura
  <2>1. /\ marcos' = marcos /\ hiloKernel.pid \in Pids /\ tabla[hiloKernel.pid] = <<>>
        /\ tabla' = [tabla EXCEPT ![hiloKernel.pid] = <<>>]
    BY <1>1, <1>2, <1>5 DEF IniciarEstructura, Etapas, Iniciando, TypeOK
  <2>2. tabla' = tabla
    BY <1>3, <2>1
  <2> QED
    BY <1>4, <2>1, <2>2
<1>6. CASE LiberarPagina
  <2> DEFINE q == hiloKernel.pid
  <2>1. /\ q \in Pids /\ tabla[q] # <<>>
        /\ marcos' = [marcos EXCEPT ![Head(tabla[q])] = NULL]
        /\ tabla' = [tabla EXCEPT ![q] = Tail(tabla[q])]
    BY <1>1, <1>6 DEF LiberarPagina, TypeOK
  <2> HIDE DEF q
  <2>2. Head(tabla[q]) \in Marcos /\ Tail(tabla[q]) \in Seq(Marcos)
    BY <1>3, <2>1
  <2>3. \A m \in Range(tabla[q]) : m # Head(tabla[q]) => m \in Range(Tail(tabla[q]))
    BY <1>3, <2>1, <2>2, EnTail, EnListaEnRango
  <2> QED
    BY <1>1, <2>1, <2>2, <2>3, FugasAlSoltar
<1>7. CASE TomarMarco
  <2> DEFINE q == hiloCPU.pid
  <2>1. CASE caida' # "no"
    BY <1>4, <1>7, <2>1 DEF TomarMarco, Caer, HiloCPUQuieto, Vivo, paginas
  <2>2. CASE caida' = "no"
    <3>1. /\ q \in Pids /\ Libres # {}
          /\ marcos' = [marcos EXCEPT ![PrimerLibre] = q]
          /\ tabla' = [tabla EXCEPT ![q] = Append(tabla[q], PrimerLibre)]
      BY <1>1, <1>7, <2>2 DEF TomarMarco, TypeOK, Caer
    <3> DEFINE f == PrimerLibre
    <3>2. f \in Marcos
      BY <3>1, PrimerLibreEsLibre DEF Libres
    <3> HIDE DEF q, f
    <3>3. /\ Append(tabla[q], f) \in Seq(Marcos)
          /\ \A m : m \in Range(Append(tabla[q], f)) <=> m \in Range(tabla[q]) \/ m = f
      <4>1. tabla[q] \in Seq(Marcos)
        BY <1>3, <3>1
      <4>2. Append(tabla[q], f) \in Seq(Marcos)
        BY <3>2, <4>1, AppendProperties
      <4>3. \A m : En(Append(tabla[q], f), m) <=> En(tabla[q], m) \/ m = f
        BY <3>2, <4>1, EnAppend
      <4>4. \A m : m \in Range(tabla[q]) <=> En(tabla[q], m)
        BY <4>1, EnListaEnRango
      <4>5. \A m : m \in Range(Append(tabla[q], f)) <=> En(Append(tabla[q], f), m)
        BY <4>2, EnListaEnRango
      <4> QED
        BY <4>2, <4>3, <4>4, <4>5
    <3>4. ASSUME NEW m \in Marcos, marcos'[m] # NULL PROVE m \in Range(tabla'[marcos'[m]])
      <4>1. CASE m = f
        BY <1>3, <3>1, <3>3, <4>1 DEF f
      <4>2. CASE m # f
        <5>1. marcos'[m] = marcos[m] /\ m \in Range(tabla[marcos[m]]) /\ marcos[m] \in Pids
          BY <1>1, <1>3, <3>1, <3>4, <4>2 DEF SinFugas, f
        <5> QED
          BY <1>3, <3>1, <3>3, <5>1 DEF f
      <4> QED
        BY <4>1, <4>2
    <3> QED
      BY <3>4 DEF SinFugas, Marcos
  <2> QED
    BY <2>1, <2>2
<1>8. CASE SoltarMarco
  <2> DEFINE q == hiloCPU.pid
  <2>1. CASE caida' # "no"
    BY <1>4, <1>8, <2>1 DEF SoltarMarco, Caer, HiloCPUQuieto, Vivo, paginas
  <2>2. CASE caida' = "no"
    <3>1. /\ q \in Pids /\ tabla[q] # <<>>
          /\ marcos' = [marcos EXCEPT ![Ultimo(tabla[q])] = NULL]
          /\ tabla' = [tabla EXCEPT ![q] = Anteriores(tabla[q])]
      BY <1>1, <1>8, <2>2 DEF SoltarMarco, TypeOK, Caer
    <3> HIDE DEF q
    <3>2. /\ Anteriores(tabla[q]) \in Seq(Marcos) /\ Ultimo(tabla[q]) \in Marcos
          /\ Len(Anteriores(tabla[q])) = Len(tabla[q]) - 1 /\ Len(tabla[q]) \in Nat
          /\ Ultimo(tabla[q]) = tabla[q][Len(tabla[q])]
          /\ \A i \in 1 .. Len(tabla[q]) - 1 : Anteriores(tabla[q])[i] = tabla[q][i]
      <4>1. tabla[q] \in Seq(Marcos) /\ tabla[q] # <<>>
        BY <1>3, <3>1
      <4> QED
        BY <4>1, AnterioresDe
    <3>3. ASSUME NEW m, En(tabla[q], m), m # Ultimo(tabla[q]) PROVE En(Anteriores(tabla[q]), m)
      <4>1. PICK i \in 1 .. Len(tabla[q]) : tabla[q][i] = m
        BY <3>3 DEF En
      <4>2. i \in 1 .. Len(tabla[q]) - 1
        BY <3>2, <3>3, <4>1
      <4> QED
        BY <3>2, <4>1, <4>2 DEF En
    <3>4. \A m \in Range(tabla[q]) : m # Ultimo(tabla[q]) => m \in Range(Anteriores(tabla[q]))
      BY <1>3, <3>1, <3>2, <3>3, EnListaEnRango
    <3> QED
      BY <1>1, <3>1, <3>2, <3>4, FugasAlSoltar
  <2> QED
    BY <2>1, <2>2
<1>9. CASE UNCHANGED vars
  BY <1>4, <1>9 DEF vars, paginas
<1> QED
  BY <1>4, <1>5, <1>6, <1>7, <1>8, <1>9, LasDemasNoTocan DEF TocaPaginas

\* Until the threads meet at proceso_memoria or at procesos_totales, or a process is
\* finished while it is dispatched, no frame is lost: one that is not free is in the
\* table of the process that marcosPaginas says owns it.
THEOREM MarcosNoPerdidos == Spec => []SinFugas
<1>1. Init => SinFugas
  BY DEF Init, SinFugas
<1> QED
  BY <1>1, InvInicial, InvPaso, OrdenadoInicial, OrdenadoPaso, SinFugasPaso, PTL DEF Spec

-----------------------------------------------------------------------------
(* Sizes of whole pages.                                                    *)

LEMMA PaginasDeEntero ==
  ASSUME NEW k \in Nat
  PROVE  Paginas(k * TAM_PAGINA) = k
<1>1. TAM_PAGINA \in Nat /\ TAM_PAGINA > 0
  BY ConstantesMemoria
<1>2. k * TAM_PAGINA + TAM_PAGINA - 1 = k * TAM_PAGINA + (TAM_PAGINA - 1)
  BY <1>1
<1>3. (k * TAM_PAGINA + (TAM_PAGINA - 1)) \div TAM_PAGINA = k
  BY <1>1
<1> QED
  BY <1>1, <1>2, <1>3 DEF Paginas

LEMMA PaginasSeSuman ==
  ASSUME NEW a \in Nat, NEW b \in Nat, Enteras(a), Enteras(b), a <= b
  PROVE  /\ Paginas(b) = Paginas(a) + Paginas(b - a)
         /\ Paginas(a) \in Nat /\ Paginas(b) \in Nat /\ Paginas(b - a) \in Nat
<1>1. TAM_PAGINA \in Nat /\ TAM_PAGINA > 0
  BY ConstantesMemoria
<1>2. PICK x \in Nat : a = x * TAM_PAGINA
  BY DEF Enteras
<1>3. PICK y \in Nat : b = y * TAM_PAGINA
  BY DEF Enteras
<1>4. x <= y
  BY <1>1, <1>2, <1>3
<1>5. y - x \in Nat /\ b - a = (y - x) * TAM_PAGINA
  BY <1>1, <1>2, <1>3, <1>4
<1>6. Paginas(a) = x /\ Paginas(b) = y /\ Paginas(b - a) = y - x
  BY <1>2, <1>3, <1>5, PaginasDeEntero
<1> QED
  BY <1>4, <1>6

\* A page that starts within a size of whole pages is one of them.
LEMMA PaginaDentro ==
  ASSUME NEW n \in Nat, NEW b \in Nat, Enteras(b), n * TAM_PAGINA < b
  PROVE  n < Paginas(b)
<1>1. TAM_PAGINA \in Nat /\ TAM_PAGINA > 0
  BY ConstantesMemoria
<1>2. PICK y \in Nat : b = y * TAM_PAGINA
  BY DEF Enteras
<1>3. n < y
  BY <1>1, <1>2
<1> QED
  BY <1>2, <1>3, PaginasDeEntero

LEMMA JustasInicial == Init => Justas
<1> SUFFICES ASSUME Init PROVE TamaniosJustos /\ PedidoJusto /\ TablasJustas /\ VueltasJustas
  BY DEF Justas
<1>1. Enteras(0)
  <2>1. 0 = 0 * TAM_PAGINA
    BY ConstantesMemoria
  <2> QED
    BY <2>1 DEF Enteras
<1> QED
  BY <1>1 DEF Init, CPULibre, HiloEnRecv, TamaniosJustos, PedidoJusto, TablasJustas, VueltasJustas

\* What Justas says while nothing is mezclado.
LEMMA PartesJustas ==
  ASSUME Inv, Ordenado, Justas, ~mezclado
  PROVE  /\ TamaniosJustos /\ PedidoJusto /\ TablasJustas /\ VueltasJustas
         /\ Etapas /\ DeLaCPU
         /\ \A p \in Pids : Finalizando(p) /\ cpu.pc # "libre" => cpu.pid # p
<1>1. Etapas /\ DeLaCPU
  BY DEF Ordenado
<1>2. \A p \in Pids : Finalizando(p) /\ cpu.pc # "libre" => cpu.pid # p
  BY <1>1 DEF Etapas, DeLaCPU
<1> QED
  BY <1>1, <1>2 DEF Justas

\* A step that leaves the tables and their sizes alone, and the loops of both threads.
LEMMA JustasQuietas ==
  ASSUME Justas, mezclado => mezclado', UNCHANGED <<tabla, tamanio>>,
         \A p \in Pids : struct'[p] = "listo" /\ ~EnObra(p)' => struct[p] = "listo" /\ ~EnObra(p),
         PedidoJusto => PedidoJusto',
         hiloCPU'.pc \in {"tomar", "soltar"} => hiloCPU' = hiloCPU /\ cpu' = cpu
  PROVE  Justas'
  BY DEF Justas, TamaniosJustos, TablasJustas, VueltasJustas

LEMMA JustasCaida ==
  ASSUME Justas, NEW causa, Caer(causa)
  PROVE  Justas'
  BY DEF Caer, paginas, Justas, TamaniosJustos, PedidoJusto, TablasJustas, VueltasJustas, EnObra

LEMMA JustasClientes ==
  ASSUME Inv, Ordenado, Justas, ~mezclado'
  PROVE  /\ \A p \in Pids : CrearProceso(p) \/ TerminarProceso(p) \/ PedirInstruccion(p) => Justas'
         /\ SinPedido => Justas'
         /\ \A t : Enteras(t) /\ PedirResize(t) => Justas'
         /\ \A n : PedirMarco(n) => Justas'
<1> USE DEF ClienteQuieto, paginas
<1>1. /\ cpu \in [pc : {"libre", "espera", "ejecutar"}, pid : Pids \cup {NULL},
                  op : {"INSTRUCCION", "RESIZE", "MARCO"}, arg : Nat]
      /\ hiloCPU.pc \in {"tomar", "soltar"} => cpu.pc = "espera"
  BY DEF Inv, TypeOK, CPUEspera
<1>2. ASSUME ClienteQuieto, PedidoJusto => PedidoJusto', cpu' = cpu \/ cpu.pc # "espera" PROVE Justas'
  BY <1>1, <1>2, JustasQuietas DEF EnObra
<1>3. ASSUME NEW p \in Pids, CrearProceso(p) \/ TerminarProceso(p) \/ PedirInstruccion(p) PROVE Justas'
  BY <1>1, <1>2, <1>3 DEF CrearProceso, TerminarProceso, PedirInstruccion, PedidoJusto
<1>4. SinPedido => Justas'
  BY <1>1, <1>2 DEF SinPedido, CPULibre, PedidoJusto
<1>5. ASSUME NEW t, PedirResize(t) \/ PedirMarco(t), ClienteQuieto
      PROVE  /\ cpu.pc = "ejecutar" /\ struct'[cpu'.pid] = "listo" /\ cpu'.pid = cpu.pid
             /\ cpu'.pc = "espera" /\ cpu'.arg = t
  BY <1>1, <1>5 DEF PedirResize, PedirMarco, Ordenado, DeLaCPU
<1>6. ASSUME NEW t, Enteras(t), PedirResize(t) PROVE Justas'
  <2>1. ClienteQuieto /\ cpu'.op = "RESIZE"
    BY <1>1, <1>6 DEF PedirResize
  <2>2. PedidoJusto'
    BY <1>5, <1>6, <2>1 DEF PedidoJusto
  <2> QED
    BY <1>2, <1>5, <1>6, <2>1, <2>2
<1>7. ASSUME NEW n, PedirMarco(n) PROVE Justas'
  <2>1. ClienteQuieto /\ cpu'.op = "MARCO" /\ n * TAM_PAGINA < tamanio[cpu.pid]
    BY <1>1, <1>7 DEF PedirMarco
  <2>2. PedidoJusto'
    BY <1>5, <1>7, <2>1 DEF PedidoJusto
  <2> QED
    BY <1>2, <1>5, <1>7, <2>1, <2>2
<1> QED
  BY <1>3, <1>4, <1>6, <1>7

LEMMA JustasHiloKernel ==
  ASSUME Inv, Ordenado, Justas, HiloKernel
  PROVE  Justas'
<1> SUFFICES ASSUME ~mezclado' PROVE Justas'
  BY DEF Justas
<1> USE DEF HiloKernelQuieto, MezclarConCPU
<1>0. /\ cpu.pc # "libre" => cpu.pid \in Pids
      /\ hiloCPU.pc \in {"buscar", "roto", "usar", "tomar", "soltar"} => cpu.pc = "espera"
      /\ tabla \in [Pids -> Seq(Marcos)] /\ tamanio \in [Pids -> Nat]
      /\ struct \in [Pids -> {"no", "nuevo", "listo", "libre"}]
      /\ hiloKernel.pc \in {"estructura", "liberando"} => hiloKernel.pid \in Pids
  BY DEF Inv, TypeOK, CPUEspera
<1>1. CASE RecibirInicializar \/ RecibirFinalizar
  <2> DEFINE p == Head(kernel).pid
  <2>1. /\ kernel \in Seq(PedidosDelKernel) /\ kernel # <<>> /\ ~mezclado
        /\ hiloKernel.pc = "recv" /\ hiloKernel'.pc \in {"path", "finalizar"}
        /\ UNCHANGED <<tabla, tamanio, cpu, hiloCPU>>
        /\ struct' = struct \/ struct' = [struct EXCEPT ![p] = "nuevo"]
        /\ RecibirInicializar => Head(kernel).op = "INICIALIZAR_PROCESO"
        /\ RecibirFinalizar => struct' = struct
    BY <1>1 DEF RecibirInicializar, RecibirFinalizar, paginas, Inv, TypeOK, PedidosDelKernel
  <2>2. Etapas /\ DeLaCPU /\ PedidoJusto /\ Cola
    BY <2>1, PartesJustas DEF Ordenado
  <2>3. Head(kernel) \in PedidosDelKernel /\ En(kernel, Head(kernel)) /\ p \in Pids
    <3>1. kernel' = Tail(kernel)
      BY <1>1 DEF RecibirInicializar, RecibirFinalizar
    <3>2. Head(kernel) \in PedidosDelKernel /\ En(kernel, Head(kernel))
      BY <2>1, <2>2, <3>1, ColaAvanza
    <3> QED
      BY <3>2 DEF PedidosDelKernel
  <2> HIDE DEF p
  <2>4. \A q \in Pids : struct'[q] = "listo" => struct[q] = "listo"
    BY <1>0, <2>1, <2>3
  <2>5. RecibirInicializar => struct[p] = "no"
    <3>1. ASSUME RecibirInicializar PROVE Head(kernel) = Alta(p)
      BY <2>1, <2>3, <3>1 DEF PedidosDelKernel, Alta, p
    <3> QED
      BY <2>2, <2>3, <3>1 DEF Etapas
  <2>6. \A q \in Pids : struct[q] = "listo" => struct'[q] = "listo"
    BY <1>0, <1>1, <2>1, <2>3, <2>5
  <2>7. PedidoJusto'
    BY <1>0, <2>1, <2>2, <2>6 DEF PedidoJusto
  <2> QED
    BY <2>1, <2>4, <2>7, JustasQuietas DEF EnObra
<1>2. CASE IniciarPath \/ Liberar
  <2>1. CASE caida' # "no"
    BY <1>2, <2>1, JustasCaida DEF IniciarPath, Liberar, Vivo
  <2>2. CASE caida' = "no"
    <3>1. /\ hiloKernel.pc \in {"path", "finalizar"}
          /\ UNCHANGED <<tabla, tamanio, struct, cpu, hiloCPU, mezclado>>
      BY <1>2, <2>2 DEF IniciarPath, Liberar, Caer, paginas
    <3>2. PedidoJusto => PedidoJusto'
      BY <3>1 DEF PedidoJusto
    <3> QED
      BY <3>1, <3>2, JustasQuietas DEF EnObra
  <2> QED
    BY <2>1, <2>2
<1>3. CASE IniciarEstructura
  <2> DEFINE p == hiloKernel.pid
  <2>1. /\ ~mezclado /\ hiloKernel.pc = "estructura" /\ hiloKernel'.pc = "recv" /\ p \in Pids
        /\ tabla' = [tabla EXCEPT ![p] = <<>>] /\ tamanio' = [tamanio EXCEPT ![p] = 0]
        /\ struct' = [struct EXCEPT ![p] = "listo"]
        /\ UNCHANGED <<cpu, hiloCPU>>
    BY <1>0, <1>3 DEF IniciarEstructura
  <2>2. Etapas /\ DeLaCPU /\ PedidoJusto /\ TamaniosJustos /\ TablasJustas /\ VueltasJustas
    BY <2>1, PartesJustas
  <2>3. struct[p] = "nuevo"
    BY <2>1, <2>2 DEF Etapas, Iniciando
  <2>4. /\ cpu.op # "INSTRUCCION" /\ cpu.pc = "espera" => cpu.pid # p
        /\ hiloCPU.pc \in {"tomar", "soltar"} => hiloCPU.pid # p /\ hiloCPU.pid \in Pids
    BY <1>0, <2>2, <2>3 DEF PedidoJusto, DeLaCPU
  <2>5. Enteras(0) /\ Paginas(0) = 0
    <3>1. 0 = 0 * TAM_PAGINA
      BY ConstantesMemoria
    <3> QED
      BY <3>1, PaginasDeEntero DEF Enteras
  <2> HIDE DEF p
  <2>6. TamaniosJustos'
    BY <1>0, <2>1, <2>2, <2>5 DEF TamaniosJustos
  <2>7. PedidoJusto'
    BY <1>0, <2>1, <2>2, <2>4 DEF PedidoJusto
  <2>8. TablasJustas'
    <3>1. ASSUME NEW q \in Pids, struct'[q] = "listo", ~EnObra(q)' PROVE Len(tabla'[q]) = Paginas(tamanio'[q])
      <4>1. CASE q = p
        BY <1>0, <2>1, <2>5, <4>1, EmptySeq
      <4>2. CASE q # p
        BY <1>0, <2>1, <2>2, <3>1, <4>2 DEF TablasJustas, EnObra
      <4> QED
        BY <4>1, <4>2
    <3> QED
      BY <3>1 DEF TablasJustas
  <2>9. VueltasJustas'
    BY <1>0, <2>1, <2>2, <2>4 DEF VueltasJustas
  <2> QED
    BY <2>6, <2>7, <2>8, <2>9 DEF Justas
<1>4. CASE BuscarLiberado
  BY <1>4, JustasCaida DEF BuscarLiberado
<1>5. CASE LiberarPagina \/ LiberarFin
  <2> DEFINE p == hiloKernel.pid
  <2>1. /\ ~mezclado /\ hiloKernel.pc = "liberando" /\ p \in Pids
        /\ tabla' = [tabla EXCEPT ![p] = tabla'[p]]
        /\ struct' = [struct EXCEPT ![p] = struct'[p]] /\ struct'[p] \in {struct[p], "libre"}
        /\ struct'[p] = "libre" \/ hiloKernel' = hiloKernel
        /\ UNCHANGED <<tamanio, cpu, hiloCPU, mezclado>>
    <3>1. CASE LiberarPagina
      BY <1>0, <3>1 DEF LiberarPagina
    <3>2. CASE LiberarFin
      <4>1. TypeOK /\ hiloCPU.pc # "buscar"
        BY <3>2 DEF LiberarFin, Inv
      <4>2. hiloCPU' = hiloCPU /\ mezclado' = mezclado
        BY <3>2, <4>1, LiberarSinBusqueda
      <4> QED
        BY <1>0, <3>2, <4>2 DEF LiberarFin
    <3> QED
      BY <1>5, <3>1, <3>2
  <2>2. Etapas /\ DeLaCPU /\ PedidoJusto /\ TamaniosJustos /\ TablasJustas /\ VueltasJustas
    BY <2>1, PartesJustas
  <2>3. /\ cpu.pc # "libre" => cpu.pid # p
        /\ hiloCPU.pc \in {"tomar", "soltar"} => hiloCPU.pid = cpu.pid
    BY <2>1, <2>2, PartesJustas DEF Finalizando, DeLaCPU
  <2> HIDE DEF p
  <2>4. TamaniosJustos'
    BY <2>1, <2>2 DEF TamaniosJustos
  <2>5. PedidoJusto'
    BY <1>0, <2>1, <2>2, <2>3 DEF PedidoJusto
  <2>6. TablasJustas'
    BY <1>0, <2>1, <2>2 DEF TablasJustas, EnObra, p
  <2>7. VueltasJustas'
    BY <1>0, <2>1, <2>2, <2>3 DEF VueltasJustas
  <2> QED
    BY <2>4, <2>5, <2>6, <2>7 DEF Justas
<1> QED
  BY <1>1, <1>2, <1>3, <1>4, <1>5 DEF HiloKernel

LEMMA JustasHiloCPU ==
  ASSUME Inv, Ordenado, Justas, HiloCPU
  PROVE  Justas'
<1> SUFFICES ASSUME ~mezclado' PROVE Justas'
  BY DEF Justas
<1> USE DEF HiloCPUQuieto, ContestarInstruccion, ContestarResize, HiloEnRecv, CPULibre, paginas
<1>0. /\ tabla \in [Pids -> Seq(Marcos)] /\ tamanio \in [Pids -> Nat]
      /\ cpu \in [pc : {"libre", "espera", "ejecutar"}, pid : Pids \cup {NULL},
                  op : {"INSTRUCCION", "RESIZE", "MARCO"}, arg : Nat]
      /\ hiloCPU \in [pc : {"recv", "buscar", "roto", "usar", "tomar", "soltar", "mudo"},
                      pid : Pids \cup {NULL}, restan : Nat]
      /\ hiloCPU.pc \in {"tomar", "soltar"} => hiloCPU.pid \in Pids
      /\ hiloCPU.pc \in {"buscar", "roto", "usar", "tomar", "soltar"} => cpu.pc = "espera"
      /\ cpu.pc # "libre" => cpu.pid \in Pids
  BY DEF Inv, TypeOK, CPUEspera
<1>1. CASE \/ RecibirPedido \/ BuscarProceso \/ PedidoDesconocido \/ PedidoInstruccion \/ ResizeIgual
           \/ ResizeSinMemoria
  <2>1. /\ hiloCPU.pc \in {"recv", "buscar", "roto", "usar"} /\ hiloCPU'.pc \in {"recv", "buscar", "usar", "mudo"}
        /\ mezclado => mezclado'
        /\ UNCHANGED <<tabla, tamanio, struct, hiloKernel>>
    <3>1. CASE RecibirPedido
      BY <1>0, <3>1 DEF RecibirPedido
    <3>4. CASE BuscarProceso
      <4>1. /\ hiloCPU.pc \in {"buscar", "roto"} /\ hiloCPU' = [hiloCPU EXCEPT !.pc = "usar"]
            /\ mezclado => mezclado'
            /\ UNCHANGED <<tabla, tamanio, struct, hiloKernel>>
        BY <3>4 DEF BuscarProceso
      <4> QED
        BY <1>0, <4>1
    <3>2. CASE PedidoDesconocido
      BY <1>0, <3>2 DEF PedidoDesconocido
    <3>3. CASE PedidoInstruccion \/ ResizeIgual \/ ResizeSinMemoria
      BY <1>0, <3>3 DEF PedidoInstruccion, ResizeIgual, ResizeSinMemoria, Usar
    <3> QED
      BY <1>1, <3>1, <3>2, <3>3, <3>4
  <2>2. cpu' = cpu \/ cpu' = CPULibre \/ (cpu.op = "INSTRUCCION" /\ cpu' = [cpu EXCEPT !.pc = "ejecutar"])
    BY <1>1 DEF RecibirPedido, BuscarProceso, PedidoDesconocido, PedidoInstruccion, ResizeIgual,
                ResizeSinMemoria, Usar
  <2>3. PedidoJusto => PedidoJusto'
    BY <1>0, <2>1, <2>2 DEF PedidoJusto
  <2> QED
    BY <2>1, <2>3, JustasQuietas DEF EnObra
<1>2. CASE PedidoLiberado
  BY <1>2, JustasCaida DEF PedidoLiberado
<1>3. CASE PedidoMarco
  <2>1. CASE caida' # "no"
    BY <1>3, <2>1, JustasCaida DEF PedidoMarco, Usar, Vivo
  <2>2. CASE caida' = "no"
    <3>1. /\ hiloCPU.pc = "usar" /\ hiloCPU'.pc = "recv" /\ cpu.op = "MARCO"
          /\ UNCHANGED <<tabla, tamanio, struct, hiloKernel, mezclado>>
          /\ cpu' = [cpu EXCEPT !.pc = "ejecutar", !.arg = tabla[proceso_memoria][cpu.arg + 1]]
      BY <1>3, <2>2 DEF PedidoMarco, Usar, Caer
    <3>2. cpu'.pc = "ejecutar" /\ cpu'.op = "MARCO"
      BY <1>0, <3>1
    <3>3. PedidoJusto => PedidoJusto'
      BY <3>2 DEF PedidoJusto
    <3> QED
      BY <3>1, <3>3, JustasQuietas DEF EnObra
  <2> QED
    BY <2>1, <2>2
<1>4. CASE ResizeAumentar \/ ResizeDisminuir
  <2> DEFINE p == proceso_memoria
  <2>1. /\ ~mezclado /\ hiloCPU.pc = "usar" /\ cpu.op = "RESIZE" /\ p # NULL /\ cpu.pc = "espera"
        /\ UNCHANGED <<tabla, tamanio, struct, hiloKernel, mezclado, cpu>>
        /\ hiloCPU'.pid = p /\ hiloCPU'.pc \in {"tomar", "soltar"}
    BY <1>0, <1>4 DEF ResizeAumentar, ResizeDisminuir, Usar
  <2>2. Etapas /\ DeLaCPU /\ PedidoJusto /\ TamaniosJustos /\ TablasJustas /\ VueltasJustas
    BY <2>1, PartesJustas
  <2>3. p = cpu.pid /\ p \in Pids /\ struct[p] = "listo"
    BY <1>0, <2>1, <2>2 DEF DeLaCPU
  <2>4. ~EnObra(p)
    <3>1. ~(hiloKernel.pc = "liberando" /\ hiloKernel.pid = p)
      BY <2>1, <2>2, <2>3, PartesJustas DEF Finalizando
    <3> QED
      BY <2>1, <3>1 DEF EnObra
  <2> HIDE DEF p
  <2>5. Len(tabla[p]) = Paginas(tamanio[p]) /\ tamanio[p] \in Nat /\ cpu.arg \in Nat
    BY <1>0, <2>2, <2>3, <2>4 DEF TablasJustas
  <2>6. Enteras(tamanio[p]) /\ Enteras(cpu.arg)
    BY <2>1, <2>2, <2>3 DEF TamaniosJustos, PedidoJusto
  <2>7. VueltasJustas'
    <3>1. CASE ResizeAumentar
      <4>1. /\ hiloCPU'.pc = "tomar" /\ hiloCPU'.restan = Paginas(cpu.arg - tamanio[p])
            /\ tamanio[p] <= cpu.arg
        BY <2>5, <3>1 DEF ResizeAumentar, Aumento, p
      <4>2. Len(tabla[p]) + hiloCPU'.restan = Paginas(cpu.arg)
        BY <2>5, <2>6, <4>1, PaginasSeSuman
      <4> QED
        BY <2>1, <4>1, <4>2 DEF VueltasJustas
    <3>2. CASE ResizeDisminuir
      <4>1. /\ hiloCPU'.pc = "soltar" /\ hiloCPU'.restan = Paginas(tamanio[p] - cpu.arg)
            /\ cpu.arg <= tamanio[p]
        BY <2>5, <3>2 DEF ResizeDisminuir, p
      <4>2. Len(tabla[p]) - hiloCPU'.restan = Paginas(cpu.arg)
        BY <2>5, <2>6, <4>1, PaginasSeSuman
      <4> QED
        BY <2>1, <4>1, <4>2 DEF VueltasJustas
    <3> QED
      BY <1>4, <3>1, <3>2
  <2>8. TamaniosJustos' /\ PedidoJusto'
    BY <2>1, <2>2 DEF TamaniosJustos, PedidoJusto
  <2>9. TablasJustas'
    BY <2>1, <2>2 DEF TablasJustas, EnObra
  <2> QED
    BY <2>7, <2>8, <2>9 DEF Justas
<1>5. CASE TomarMarco \/ SoltarMarco
  <2>1. CASE caida' # "no"
    BY <1>5, <2>1, JustasCaida DEF TomarMarco, SoltarMarco, Vivo
  <2>2. CASE caida' = "no"
    <3> DEFINE p == hiloCPU.pid
    <3>1. /\ ~mezclado /\ hiloCPU.pc \in {"tomar", "soltar"} /\ hiloCPU'.pc = hiloCPU.pc
          /\ hiloCPU'.pid = p /\ hiloCPU'.restan = hiloCPU.restan - 1
          /\ hiloCPU.restan \in Nat /\ p \in Pids
          /\ UNCHANGED <<tamanio, struct, hiloKernel, mezclado, cpu>>
          /\ tabla' = [tabla EXCEPT ![p] = tabla'[p]]
      BY <1>0, <1>5, <2>2 DEF TomarMarco, SoltarMarco, Caer
    <3>2. Etapas /\ DeLaCPU /\ PedidoJusto /\ TamaniosJustos /\ TablasJustas /\ VueltasJustas
      BY <3>1, PartesJustas
    <3>3. /\ TomarMarco => Len(tabla'[p]) = Len(tabla[p]) + 1 /\ hiloCPU.pc = "tomar"
          /\ SoltarMarco => Len(tabla'[p]) = Len(tabla[p]) - 1 /\ hiloCPU.pc = "soltar"
          /\ Len(tabla[p]) \in Nat
      <4>1. tabla[p] \in Seq(Marcos)
        BY <1>0, <3>1
      <4>2. ASSUME TomarMarco PROVE Len(tabla'[p]) = Len(tabla[p]) + 1 /\ hiloCPU.pc = "tomar"
        <5>1. /\ Libres # {} /\ hiloCPU.pc = "tomar"
              /\ tabla'[p] = Append(tabla[p], PrimerLibre)
          BY <1>0, <2>2, <3>1, <4>2 DEF TomarMarco, Caer
        <5>2. PrimerLibre \in Marcos
          BY <5>1, PrimerLibreEsLibre DEF Libres
        <5> QED
          BY <4>1, <5>1, <5>2, AppendProperties
      <4>3. ASSUME SoltarMarco PROVE Len(tabla'[p]) = Len(tabla[p]) - 1 /\ hiloCPU.pc = "soltar"
        <5>1. /\ tabla[p] # <<>> /\ hiloCPU.pc = "soltar"
              /\ tabla'[p] = Anteriores(tabla[p])
          BY <1>0, <2>2, <3>1, <4>3 DEF SoltarMarco, Caer
        <5> QED
          BY <4>1, <5>1, AnterioresDe
      <4> QED
        BY <4>1, <4>2, <4>3, LenProperties
    <3> HIDE DEF p
    <3>4. TamaniosJustos' /\ PedidoJusto'
      BY <3>1, <3>2 DEF TamaniosJustos, PedidoJusto
    <3>5. TablasJustas'
      BY <1>0, <3>1, <3>2 DEF TablasJustas, EnObra, p
    <3>6. VueltasJustas'
      <4>1. CASE TomarMarco
        <5>1. Len(tabla[p]) + hiloCPU.restan = Paginas(cpu.arg)
          BY <3>2, <3>3, <4>1 DEF VueltasJustas, p
        <5>2. Len(tabla'[p]) + hiloCPU'.restan = Paginas(cpu.arg)
          BY <3>1, <3>3, <4>1, <5>1
        <5> QED
          BY <3>1, <3>3, <4>1, <5>2 DEF VueltasJustas
      <4>2. CASE SoltarMarco
        <5>1. Len(tabla[p]) - hiloCPU.restan = Paginas(cpu.arg)
          BY <3>2, <3>3, <4>2 DEF VueltasJustas, p
        <5>2. Len(tabla'[p]) - hiloCPU'.restan = Paginas(cpu.arg)
          BY <3>1, <3>3, <4>2, <5>1
        <5> QED
          BY <3>1, <3>3, <4>2, <5>2 DEF VueltasJustas
      <4> QED
        BY <1>5, <4>1, <4>2
    <3> QED
      BY <3>4, <3>5, <3>6 DEF Justas
  <2> QED
    BY <2>1, <2>2
<1>6. CASE ResizeFin
  <2>1. CASE caida' # "no"
    BY <1>6, <2>1, JustasCaida DEF ResizeFin, Vivo
  <2>2. CASE caida' = "no"
    <3> DEFINE p == hiloCPU.pid
    <3>1. /\ ~mezclado /\ hiloCPU.pc \in {"tomar", "soltar"} /\ hiloCPU.restan = 0 /\ p \in Pids
          /\ tamanio' = [tamanio EXCEPT ![p] = cpu.arg] /\ cpu' = CPULibre /\ hiloCPU'.pc = "recv"
          /\ UNCHANGED <<tabla, struct, hiloKernel, mezclado>>
      BY <1>0, <1>6, <2>2 DEF ResizeFin, Caer
    <3>2. Etapas /\ DeLaCPU /\ PedidoJusto /\ TamaniosJustos /\ TablasJustas /\ VueltasJustas
      BY <3>1, PartesJustas
    <3> HIDE DEF p
    <3>3. cpu.arg \in Nat /\ Enteras(cpu.arg) /\ tabla[p] \in Seq(Marcos)
      BY <1>0, <3>1, <3>2 DEF DeLaCPU, PedidoJusto
    <3>4. Len(tabla[p]) = Paginas(cpu.arg)
      BY SMTT(30), <3>1, <3>2, <3>3, PaginasEsNatural, LenProperties DEF VueltasJustas, p
    <3>5. TamaniosJustos' /\ PedidoJusto' /\ VueltasJustas'
      BY <1>0, <3>1, <3>2, <3>3, SMTT(30) DEF TamaniosJustos, PedidoJusto, VueltasJustas
    <3>6. TablasJustas'
      BY <1>0, <3>1, <3>2, <3>4 DEF TablasJustas, EnObra, p
    <3> QED
      BY <3>5, <3>6 DEF Justas
  <2> QED
    BY <2>1, <2>2
<1> QED
  BY <1>1, <1>2, <1>3, <1>4, <1>5, <1>6 DEF HiloCPU

LEMMA JustasPaso ==
  ASSUME TamaniosEnteros, Inv, Ordenado, Justas, [Next]_vars
  PROVE  Justas'
<1>1. CASE UNCHANGED vars
  BY <1>1, JustasCaida DEF vars, paginas, Caer
<1>2. CASE Clientes
  <2>1. ~mezclado' => Justas'
    BY <1>2, JustasClientes DEF Clientes, TamaniosEnteros, MatarProceso
  <2> QED
    BY <2>1 DEF Justas
<1> QED
  BY <1>1, <1>2, JustasHiloKernel, JustasHiloCPU DEF Next

LEMMA NuncaCaePaso ==
  ASSUME TamaniosEnteros, Inv, Ordenado, Justas, SiempreHayMarco, NuncaCae, [Next]_vars
  PROVE  NuncaCae'
<1> SUFFICES ASSUME ~mezclado', caida' # "no" PROVE FALSE
  BY DEF NuncaCae
<1>1. ~mezclado /\ caida = "no"
  BY MezcladoQueda DEF NuncaCae
<1>2. /\ TamaniosJustos /\ PedidoJusto /\ TablasJustas /\ VueltasJustas
      /\ Etapas /\ DeLaCPU /\ Listados
      /\ \A p \in Pids : Finalizando(p) /\ cpu.pc # "libre" => cpu.pid # p
  BY <1>1, PartesJustas DEF Ordenado
<1>3. /\ tabla \in [Pids -> Seq(Marcos)] /\ tamanio \in [Pids -> Nat]
      /\ procesos_totales \in Seq(Pids)
      /\ cpu.pc # "libre" => cpu.pid \in Pids
      /\ hiloCPU.pc \in {"buscar", "roto", "usar", "tomar", "soltar"} => cpu.pc = "espera"
      /\ hiloCPU.pc \in {"tomar", "soltar"} => hiloCPU.pid \in Pids
      /\ hiloCPU.restan \in Nat /\ cpu.arg \in Nat
  BY DEF Inv, TypeOK, CPUEspera
<1>4. CASE IniciarPath
  <2>1. hiloKernel.pc = "path" /\ (proceso_memoria = NULL \/ struct[proceso_memoria] = "libre")
    BY <1>1, <1>4 DEF IniciarPath, HiloKernelQuieto
  <2>2. proceso_memoria \in Pids
    BY <1>2, <2>1 DEF Etapas
  <2>3. struct[proceso_memoria] = "nuevo"
    BY <1>2, <2>1, <2>2 DEF Etapas, Iniciando
  <2> QED
    BY <2>1, <2>2, <2>3, ConstantesMemoria
<1>5. CASE BuscarLiberado
  <2>1. PICK p \in Range(procesos_totales) : struct[p] = "libre"
    BY <1>2, <1>5 DEF BuscarLiberado, DeLaCPU
  <2>2. p \in Pids /\ En(procesos_totales, p)
    BY <1>3, <2>1, EnListaEnRango DEF Range
  <2>3. hiloKernel.pc = "estructura" /\ hiloKernel.pid = p
    BY <1>2, <2>1, <2>2 DEF Listados
  <2>4. struct[p] = "nuevo"
    BY <1>2, <2>2, <2>3 DEF Etapas, Iniciando
  <2> QED
    BY <2>1, <2>4
<1>6. CASE Liberar
  <2>1. hiloKernel.pc = "finalizar" /\ proceso_memoria # NULL /\ struct[proceso_memoria] # "listo"
    BY <1>1, <1>6 DEF Liberar, HiloKernelQuieto
  <2>2. proceso_memoria \in Pids
    BY <1>2, <2>1 DEF Etapas
  <2> QED
    BY <1>2, <2>1, <2>2 DEF Etapas, Finalizando
<1>7. CASE PedidoLiberado
  BY <1>2, <1>7 DEF PedidoLiberado, DeLaCPU
<1>8. CASE PedidoMarco
  <2>1. /\ hiloCPU.pc = "usar" /\ cpu.op = "MARCO" /\ proceso_memoria # NULL
        /\ cpu.arg >= Len(tabla[proceso_memoria])
    BY <1>1, <1>8 DEF PedidoMarco, Usar, HiloCPUQuieto
  <2>2. /\ proceso_memoria = cpu.pid /\ cpu.pid \in Pids /\ struct[cpu.pid] = "listo"
        /\ cpu.pc = "espera" /\ cpu.arg * TAM_PAGINA < tamanio[cpu.pid]
    BY <1>2, <1>3, <2>1 DEF DeLaCPU, PedidoJusto
  <2>3. ~EnObra(cpu.pid)
    BY <1>2, <2>1, <2>2 DEF EnObra, Finalizando
  <2>4. Len(tabla[cpu.pid]) = Paginas(tamanio[cpu.pid]) /\ Enteras(tamanio[cpu.pid])
    BY <1>2, <2>2, <2>3 DEF TablasJustas, TamaniosJustos
  <2>5. cpu.arg < Paginas(tamanio[cpu.pid])
    BY <1>3, <2>2, <2>4, PaginaDentro
  <2>6. Paginas(tamanio[cpu.pid]) \in Nat
    BY <1>3, <2>2, PaginasEsNatural
  <2> QED
    BY <1>3, <2>1, <2>2, <2>4, <2>5, <2>6
<1>9. CASE TomarMarco
  <2>1. /\ hiloCPU.pc = "tomar" /\ hiloCPU.restan > 0
        /\ struct[hiloCPU.pid] = "libre" \/ Libres = {}
    BY <1>1, <1>9 DEF TomarMarco, HiloCPUQuieto
  <2>2. Libres = {}
    BY <1>2, <2>1 DEF DeLaCPU
  <2>3. Cardinality(Libres) = 0
    BY <2>2, FS_EmptySet
  <2> QED
    BY <1>3, <2>1, <2>3 DEF SiempreHayMarco
<1>10. CASE SoltarMarco
  <2>1. /\ hiloCPU.pc = "soltar" /\ hiloCPU.restan > 0
        /\ struct[hiloCPU.pid] = "libre" \/ tabla[hiloCPU.pid] = <<>>
    BY <1>1, <1>10 DEF SoltarMarco, HiloCPUQuieto
  <2>2. tabla[hiloCPU.pid] = <<>>
    BY <1>2, <2>1 DEF DeLaCPU
  <2>3. Len(tabla[hiloCPU.pid]) = 0
    BY <2>2
  <2>4. 0 - hiloCPU.restan = Paginas(cpu.arg)
    BY <1>2, <2>1, <2>3 DEF VueltasJustas
  <2>5. Paginas(cpu.arg) \in Nat /\ hiloCPU.restan \in Nat
    BY <1>3, PaginasEsNatural
  <2> QED
    BY <2>1, <2>4, <2>5
<1>11. CASE ResizeFin
  <2>1. hiloCPU.pc \in {"tomar", "soltar"} /\ struct[hiloCPU.pid] = "libre"
    BY <1>1, <1>11 DEF ResizeFin, HiloCPUQuieto
  <2> QED
    BY <1>2, <2>1 DEF DeLaCPU
<1>12. CASE UNCHANGED vars
  BY <1>1, <1>12 DEF vars
<1>13. CASE Clientes
  BY <1>1, <1>13 DEF Clientes, CrearProceso, TerminarProceso, MatarProceso, PedirInstruccion, SinPedido, PedirResize,
                     PedirMarco, ClienteQuieto
<1>14. CASE RecibirInicializar \/ IniciarEstructura \/ RecibirFinalizar \/ LiberarPagina \/ LiberarFin
  BY <1>1, <1>14 DEF RecibirInicializar, IniciarEstructura, RecibirFinalizar, LiberarPagina, LiberarFin,
                     HiloKernelQuieto
<1>15. CASE RecibirPedido \/ BuscarProceso \/ PedidoDesconocido \/ PedidoInstruccion \/ ResizeIgual
  BY <1>1, <1>15 DEF RecibirPedido, BuscarProceso, PedidoDesconocido, PedidoInstruccion, ResizeIgual, HiloCPUQuieto
<1>16. CASE ResizeAumentar \/ ResizeSinMemoria \/ ResizeDisminuir
  BY <1>1, <1>16 DEF ResizeAumentar, ResizeSinMemoria, ResizeDisminuir, HiloCPUQuieto
<1> QED
  BY <1>4, <1>5, <1>6, <1>7, <1>8, <1>9, <1>10, <1>11, <1>12, <1>13, <1>14, <1>15, <1>16
     DEF Next, HiloKernel, HiloCPU

-----------------------------------------------------------------------------
\* Where every size is a whole number of pages, the table of a process covers its
\* size after any growths and cuts, and no page is left over.
THEOREM TablasCubren ==
  ASSUME TamaniosEnteros
  PROVE  Spec => []PaginasAlcanzan
<1>1. Inv /\ Ordenado /\ Justas /\ [Next]_vars => Justas'
  BY JustasPaso
<1>2. Justas => PaginasAlcanzan
  BY DEF Justas, TablasJustas, PaginasAlcanzan
<1> QED
  BY <1>1, <1>2, InvInicial, InvPaso, OrdenadoInicial, OrdenadoPaso, JustasInicial, PTL DEF Spec

\* Where every size is a whole number of pages, programs that stay within their size
\* do not bring the server down by themselves: no list_get past the end of a table or of
\* marcosPaginas, and no use of a process that was freed, until the threads meet at
\* proceso_memoria or at procesos_totales, or the kernel finishes a process it has
\* dispatched.
THEOREM ServidorEnPie ==
  ASSUME TamaniosEnteros
  PROVE  Spec => []NuncaCae
<1>1. Inv /\ Ordenado /\ Justas /\ [Next]_vars => Justas'
  BY JustasPaso
<1>2. Init => NuncaCae /\ SiempreHayMarco
  BY DEF Init, NuncaCae, SiempreHayMarco, HiloEnRecv
<1>3. Inv /\ Ordenado /\ Justas /\ SiempreHayMarco /\ NuncaCae /\ [Next]_vars => NuncaCae'
  BY NuncaCaePaso
<1> QED
  BY <1>1, <1>2, <1>3, InvInicial, InvPaso, OrdenadoInicial, OrdenadoPaso, JustasInicial,
     SiempreHayMarcoPaso, PTL DEF Spec

-----------------------------------------------------------------------------
(* The TLB and the translation of addresses                                 *)

Direcciones == 0 .. CANT_MARCOS * TAM_PAGINA - 1
Entradas    == [pid : Pids, pagina : Nat, marco : Marcos, tiempo : Nat]
Accesos     == [op : {"ninguna", "MOV_IN", "MOV_OUT"}, dir : Nat, datos : Seq(Nat),
                hechos : Nat, lista : Seq(Nat)]

TiposTraduccion ==
  /\ tlb \in [algoritmo : {"FIFO", "LRU"}, size_tlb : Nat, entradas : Seq(Entradas)]
  /\ reloj \in Nat
  /\ memoriaUsuario \in [Direcciones -> Nat]
  /\ acceso \in Accesos
  /\ escritura \in [pid : Pids \cup {NULL}, acceso : Accesos]

\* The server knows p, and the kernel has not asked for its end.
Vigente(p) == struct[p] = "listo" /\ vida[p] # "fin"

\* The table of such a process covers its size, and will cover the one it is growing to.
Cubren ==
  /\ \A p \in Pids : Vigente(p) => Len(tabla[p]) >= Paginas(tamanio[p])
  /\ hiloCPU.pc = "tomar" => Len(tabla[hiloCPU.pid]) + hiloCPU.restan >= Paginas(cpu.arg)
  /\ hiloCPU.pc # "soltar"

\* A frame is asked for in the middle of an access, for the page it has come to.
EnCurso ==
  /\ cpu.pc = "espera" /\ cpu.op # "INSTRUCCION" => struct[cpu.pid] = "listo"
  /\ cpu.op = "RESIZE" => cpu.pc = "espera" /\ acceso.op = "ninguna" /\ cpu.arg >= tamanio[cpu.pid]
  /\ cpu.op = "MARCO" =>
       /\ acceso.op # "ninguna" /\ acceso.hechos < Len(acceso.datos)
       /\ cpu.pc = "espera" => cpu.arg = Pagina
       /\ cpu.pc = "ejecutar" => cpu.arg = tabla[cpu.pid][Pagina + 1]
  /\ acceso.op # "ninguna" =>
       cpu.pc = "ejecutar" \/ (cpu.pc = "espera" /\ cpu.op = "MARCO")

\* The first n bytes of the access a of process p are where its page table says.
Fiel(p, a, n) ==
  /\ a.dir + Len(a.datos) <= tamanio[p]
  /\ n <= Len(a.datos) /\ Len(a.lista) = n
  /\ \A k \in 1 .. n : a.lista[k] = Fisica(p, a.dir + k)

AccesoFiel == IF acceso.op = "ninguna" THEN acceso = SinAcceso
              ELSE Fiel(cpu.pid, acceso, acceso.hechos)

\* A write on its way goes to the bytes of its process, and to no page of another even
\* when its process has ended since.
EscrituraFiel ==
  escritura # SinEscritura =>
    /\ escritura.pid \in Pids
    /\ vida[escritura.pid] # "fin" =>
         /\ struct[escritura.pid] = "listo"
         /\ Fiel(escritura.pid, escritura.acceso, Len(escritura.acceso.datos))
    /\ Len(escritura.acceso.lista) = Len(escritura.acceso.datos)
    /\ \A p \in Pids \ {escritura.pid} :
         \A i \in 1 .. Len(tabla[p]), k \in 1 .. Len(escritura.acceso.lista) :
           tabla[p][i] # escritura.acceso.lista[k] \div TAM_PAGINA

EnMemoria   == Inv /\ Ordenado /\ ~mezclado /\ MarcoUnico
EnTraduccion == TiposTraduccion /\ Cubren /\ EnCurso /\ AccesoFiel /\ EscrituraFiel /\ TLBAlDia
InvTraduccion == EnMemoria /\ EnTraduccion

-----------------------------------------------------------------------------
(* Pages and bytes.                                                         *)

LEMMA TamPaginaPositivo == TAM_PAGINA \in Nat /\ TAM_PAGINA > 0 /\ CANT_MARCOS \in Nat
  BY ConstantesMemoria

LEMMA CocienteYResto ==
  ASSUME NEW n \in Nat
  PROVE  /\ n \div TAM_PAGINA \in Nat /\ (n % TAM_PAGINA) \in 0 .. TAM_PAGINA - 1
         /\ n = (n \div TAM_PAGINA) * TAM_PAGINA + (n % TAM_PAGINA)
  BY TamPaginaPositivo

LEMMA DeCocienteYResto ==
  ASSUME NEW q \in Nat, NEW r \in 0 .. TAM_PAGINA - 1
  PROVE  (q * TAM_PAGINA + r) \div TAM_PAGINA = q /\ (q * TAM_PAGINA + r) % TAM_PAGINA = r
  BY TamPaginaPositivo

\* A byte within a size is in one of the pages the size takes.
LEMMA PaginaDelByte ==
  ASSUME NEW n \in Nat, NEW b \in Nat, n < b
  PROVE  n \div TAM_PAGINA < Paginas(b)
<1> DEFINE q == n \div TAM_PAGINA
           c == (b + TAM_PAGINA - 1) \div TAM_PAGINA
<1>1. TAM_PAGINA \in Nat /\ TAM_PAGINA > 0 /\ q \in Nat /\ c \in Nat
  BY TamPaginaPositivo, CocienteYResto
<1>2. q * TAM_PAGINA <= n
  BY <1>1, CocienteYResto
<1>3. b + TAM_PAGINA - 1 < (c + 1) * TAM_PAGINA
  BY <1>1
<1> HIDE DEF q, c
<1>4. q + 1 < c + 1
  BY <1>1, <1>2, <1>3
<1> QED
  BY <1>1, <1>4 DEF q, c, Paginas

\* The pages of two parts are enough for both.
LEMMA PaginasDeLaSuma ==
  ASSUME NEW a \in Nat, NEW b \in Nat, a <= b
  PROVE  Paginas(b) <= Paginas(a) + Paginas(b - a)
<1> DEFINE x == Paginas(a)
           y == Paginas(b - a)
           z == Paginas(b)
<1>1. TAM_PAGINA \in Nat /\ TAM_PAGINA > 0 /\ x \in Nat /\ y \in Nat /\ z \in Nat /\ b - a \in Nat
  BY TamPaginaPositivo, PaginasEsNatural
<1>2. a <= x * TAM_PAGINA
  BY <1>1 DEF Paginas
<1>3. b - a <= y * TAM_PAGINA
  BY <1>1 DEF Paginas
<1>4. z * TAM_PAGINA <= b + TAM_PAGINA - 1
  BY <1>1 DEF Paginas
<1> HIDE DEF x, y, z
<1>5. b <= (x + y) * TAM_PAGINA
  BY <1>1, <1>2, <1>3
<1>6. z * TAM_PAGINA < (x + y + 1) * TAM_PAGINA
  BY <1>1, <1>4, <1>5
<1>7. z < x + y + 1
  BY <1>1, <1>6
<1> QED
  BY <1>1, <1>7 DEF x, y, z

\* Byte i of a process is in the frame of its page, at the same offset.
LEMMA FisicaEnSuMarco ==
  ASSUME TypeOK, Cubren, NEW p \in Pids, Vigente(p), NEW i \in 1 .. tamanio[p]
  PROVE  /\ (i - 1) \div TAM_PAGINA + 1 \in 1 .. Len(tabla[p])
         /\ tabla[p][(i - 1) \div TAM_PAGINA + 1] \in Marcos
         /\ Fisica(p, i) \in Direcciones
         /\ Fisica(p, i) \div TAM_PAGINA = tabla[p][(i - 1) \div TAM_PAGINA + 1]
         /\ (Fisica(p, i) % TAM_PAGINA) = ((i - 1) % TAM_PAGINA)
<1> DEFINE q == (i - 1) \div TAM_PAGINA
           r == (i - 1) % TAM_PAGINA
           m == tabla[p][q + 1]
<1>1. tamanio[p] \in Nat /\ tabla[p] \in Seq(Marcos) /\ Len(tabla[p]) >= Paginas(tamanio[p])
  BY DEF TypeOK, Cubren
<1>2. i - 1 \in Nat /\ i - 1 < tamanio[p]
  BY <1>1
<1>3. q \in Nat /\ r \in 0 .. TAM_PAGINA - 1 /\ q < Paginas(tamanio[p])
  <2>1. q \in Nat /\ r \in 0 .. TAM_PAGINA - 1
    BY <1>2, CocienteYResto, Zenon
  <2>2. q < Paginas(tamanio[p])
    BY <1>1, <1>2, PaginaDelByte, Zenon
  <2> QED
    BY <2>1, <2>2
<1> HIDE DEF q, r
<1>4. q + 1 \in 1 .. Len(tabla[p])
  <2>1. Paginas(tamanio[p]) \in Nat /\ Len(tabla[p]) \in Nat
    BY <1>1, PaginasEsNatural, LenProperties
  <2> QED
    BY <1>1, <1>3, <2>1
<1>5. m \in Marcos
  BY <1>1, <1>4, ElementOfSeq
<1>6. m \in Nat /\ m + 1 <= CANT_MARCOS
  BY <1>5, TamPaginaPositivo DEF Marcos
<1>7. Fisica(p, i) = m * TAM_PAGINA + r
  BY DEF Fisica, q, r
<1> HIDE DEF m
<1>8. (m + 1) * TAM_PAGINA <= CANT_MARCOS * TAM_PAGINA
  BY <1>6, TamPaginaPositivo
<1>9. Fisica(p, i) \in Direcciones
  BY <1>3, <1>6, <1>7, <1>8, TamPaginaPositivo DEF Direcciones
<1>10. Fisica(p, i) \div TAM_PAGINA = m /\ (Fisica(p, i) % TAM_PAGINA) = r
  BY <1>3, <1>6, <1>7, DeCocienteYResto
<1> QED
  BY <1>4, <1>5, <1>9, <1>10 DEF m, q, r

\* No two bytes of a process are in the same place.
LEMMA FisicaInyectiva ==
  ASSUME TypeOK, Cubren, MarcoUnico, NEW p \in Pids, Vigente(p),
         NEW i \in 1 .. tamanio[p], NEW j \in 1 .. tamanio[p], Fisica(p, i) = Fisica(p, j)
  PROVE  i = j
<1> DEFINE a == (i - 1) \div TAM_PAGINA
           b == (j - 1) \div TAM_PAGINA
<1>1. tamanio[p] \in Nat /\ tabla[p] \in Seq(Marcos) /\ DOMAIN tabla[p] = 1 .. Len(tabla[p])
  BY DEF TypeOK
<1>2. /\ a + 1 \in DOMAIN tabla[p] /\ b + 1 \in DOMAIN tabla[p]
      /\ tabla[p][a + 1] = tabla[p][b + 1]
      /\ ((i - 1) % TAM_PAGINA) = ((j - 1) % TAM_PAGINA)
  BY <1>1, FisicaEnSuMarco
<1>3. a + 1 = b + 1
  BY <1>2 DEF MarcoUnico
<1>4. i - 1 \in Nat /\ j - 1 \in Nat
  BY <1>1
<1>5. /\ i - 1 = a * TAM_PAGINA + ((i - 1) % TAM_PAGINA)
      /\ j - 1 = b * TAM_PAGINA + ((j - 1) % TAM_PAGINA)
      /\ a \in Nat /\ b \in Nat
  BY <1>4, CocienteYResto
<1> HIDE DEF a, b
<1>6. a = b
  BY <1>3, <1>5
<1>7. i - 1 = j - 1
  BY <1>2, <1>5, <1>6
<1> QED
  BY <1>1, <1>7

\* No page of another process has a byte of this one.
LEMMA FisicaAjena ==
  ASSUME TypeOK, Cubren, MarcoUnico, NEW p \in Pids, Vigente(p), NEW i \in 1 .. tamanio[p],
         NEW q \in Pids, q # p, NEW j \in 1 .. Len(tabla[q])
  PROVE  tabla[q][j] # Fisica(p, i) \div TAM_PAGINA
<1> DEFINE a == (i - 1) \div TAM_PAGINA + 1
<1>1. a \in 1 .. Len(tabla[p]) /\ Fisica(p, i) \div TAM_PAGINA = tabla[p][a]
  BY FisicaEnSuMarco
<1>2. a \in DOMAIN tabla[p] /\ j \in DOMAIN tabla[q]
  BY <1>1 DEF TypeOK
<1>3. marcos[tabla[p][a]] = p /\ marcos[tabla[q][j]] = q
  BY <1>2 DEF MarcoUnico
<1> QED
  BY <1>1, <1>3

-----------------------------------------------------------------------------
(* What a step of the memory server or of its clients leaves of a process.  *)

\* A process that goes on keeps its pages and its bytes, and may get more at the end.
Conserva ==
  \A p \in Pids :
    /\ vida[p] = "fin" => vida'[p] = "fin"
    /\ Vigente(p)' => Vigente(p) \/ tamanio'[p] = 0
    /\ Vigente(p) /\ vida'[p] # "fin" =>
         /\ struct'[p] = "listo" /\ tamanio'[p] >= tamanio[p]
         /\ Len(tabla'[p]) >= Len(tabla[p])
         /\ \A i \in 1 .. Len(tabla[p]) : tabla'[p][i] = tabla[p][i]

LEMMA ConservaQuieto ==
  ASSUME TypeOK, UNCHANGED <<struct, tabla, tamanio>>,
         \A p \in Pids : vida[p] = "fin" => vida'[p] = "fin",
         \A p \in Pids : struct[p] = "listo" /\ vida'[p] # "fin" => vida[p] # "fin"
  PROVE  Conserva
  BY SMTT(30) DEF Conserva, Vigente, TypeOK

\* The kernel's thread takes the pages of a process that has ended, or knows a new one.
LEMMA ConservaHiloKernel ==
  ASSUME Inv, Ordenado, ~mezclado, HiloKernel, ~mezclado'
  PROVE  /\ Conserva /\ UNCHANGED <<vida, cpu, hiloCPU>>
         /\ \A p \in Pids : Vigente(p) => tamanio'[p] = tamanio[p] /\ tabla'[p] = tabla[p]
         /\ \A p \in Pids : struct[p] = "listo" /\ struct'[p] # "listo" => vida[p] = "fin"
         /\ \A p \in Pids : \A i \in 1 .. Len(tabla'[p]) :
              \E j \in 1 .. Len(tabla[p]) : tabla'[p][i] = tabla[p][j]
<1> USE DEF HiloKernelQuieto
<1>0. /\ tabla \in [Pids -> Seq(Marcos)] /\ tamanio \in [Pids -> Nat]
      /\ struct \in [Pids -> {"no", "nuevo", "listo", "libre"}]
      /\ hiloKernel.pc \in {"estructura", "liberando"} => hiloKernel.pid \in Pids
      /\ Cola /\ Etapas /\ kernel \in Seq(PedidosDelKernel)
  BY DEF Inv, TypeOK, Ordenado, PedidosDelKernel
<1>1. UNCHANGED <<vida, cpu, hiloCPU>>
  <2>1. CASE RecibirInicializar
    BY <2>1 DEF RecibirInicializar
  <2>2. CASE IniciarPath
    BY <2>2 DEF IniciarPath, Caer
  <2>3. CASE IniciarEstructura
    BY <2>3 DEF IniciarEstructura, Caer
  <2>4. CASE RecibirFinalizar
    BY <2>4 DEF RecibirFinalizar, Caer
  <2>5. CASE BuscarLiberado \/ Liberar
    BY <2>5 DEF BuscarLiberado, Liberar, Caer
  <2>6. CASE LiberarPagina
    BY <2>6 DEF LiberarPagina
  <2>7. CASE LiberarFin
    <3>1. TypeOK /\ hiloCPU.pc # "buscar"
      BY <2>7 DEF LiberarFin, Inv
    <3> QED
      BY <2>7, <3>1, LiberarSinBusqueda DEF LiberarFin
  <2> QED
    BY <2>1, <2>2, <2>3, <2>4, <2>5, <2>6, <2>7 DEF HiloKernel
<1>2. CASE UNCHANGED <<struct, tabla, tamanio>>
  BY <1>0, <1>1, <1>2 DEF Conserva, Vigente
<1>3. CASE RecibirInicializar
  <2> DEFINE q == Head(kernel).pid
  <2>1. /\ kernel # <<>> /\ kernel' = Tail(kernel) /\ UNCHANGED <<tabla, tamanio>>
        /\ struct' = [struct EXCEPT ![q] = "nuevo"] /\ Head(kernel).op = "INICIALIZAR_PROCESO"
    BY <1>3 DEF RecibirInicializar
  <2>2. Head(kernel) \in PedidosDelKernel /\ En(kernel, Head(kernel))
    BY <1>0, <2>1, ColaAvanza
  <2>3. q \in Pids /\ Head(kernel) = Alta(q)
    BY <2>1, <2>2 DEF PedidosDelKernel, Alta
  <2> HIDE DEF q
  <2>4. struct[q] = "no"
    BY <1>0, <2>2, <2>3 DEF Etapas
  <2>5. \A p \in Pids : struct'[p] = IF p = q THEN "nuevo" ELSE struct[p]
    BY <1>0, <2>1
  <2>6. \A p \in Pids : (struct[p] = "listo" => struct'[p] = "listo") /\ (struct'[p] = "listo" => struct[p] = "listo")
    BY <2>4, <2>5
  <2>7. tabla' = tabla /\ tamanio' = tamanio /\ vida' = vida
    BY <1>1, <2>1
  <2>8. \A p \in Pids : (Vigente(p)' => Vigente(p)) /\ tamanio[p] \in Nat /\ Len(tabla[p]) \in Nat
    BY <1>0, <2>6, <2>7 DEF Vigente
  <2>9. \A p \in Pids : Vigente(p) => struct'[p] = "listo"
    BY <2>6 DEF Vigente
  <2>10. ASSUME NEW p \in Pids
         PROVE  /\ vida[p] = "fin" => vida'[p] = "fin"
                /\ Vigente(p)' => Vigente(p) \/ tamanio'[p] = 0
                /\ Vigente(p) /\ vida'[p] # "fin" =>
                     /\ struct'[p] = "listo" /\ tamanio'[p] >= tamanio[p]
                     /\ Len(tabla'[p]) >= Len(tabla[p])
                     /\ \A i \in 1 .. Len(tabla[p]) : tabla'[p][i] = tabla[p][i]
    <3>1. Vigente(p)' => Vigente(p)
      BY <2>8
    <3>2. tamanio'[p] >= tamanio[p] /\ Len(tabla'[p]) >= Len(tabla[p])
      BY <2>7, <2>8
    <3>3. Vigente(p) => struct'[p] = "listo"
      BY <2>9
    <3> QED
      BY <2>7, <3>1, <3>2, <3>3
  <2>11. Conserva
    BY <2>10 DEF Conserva
  <2>12. \A p \in Pids : \A i \in 1 .. Len(tabla'[p]) : \E j \in 1 .. Len(tabla[p]) : tabla'[p][i] = tabla[p][j]
    BY <2>7
  <2> QED
    BY <1>1, <2>6, <2>7, <2>11, <2>12
<1>4. CASE IniciarEstructura
  <2> DEFINE q == hiloKernel.pid
  <2>1. /\ q \in Pids /\ struct[q] = "nuevo"
        /\ tabla' = [tabla EXCEPT ![q] = <<>>] /\ tamanio' = [tamanio EXCEPT ![q] = 0]
        /\ struct' = [struct EXCEPT ![q] = "listo"]
    BY <1>0, <1>4 DEF IniciarEstructura, Etapas, Iniciando
  <2> HIDE DEF q
  <2>2. Conserva
    BY <1>0, <1>1, <2>1 DEF Conserva, Vigente
  <2>3. tabla[q] = <<>> /\ tabla' = tabla
    BY <1>0, <2>1 DEF Etapas
  <2> QED
    BY <1>0, <1>1, <2>1, <2>2, <2>3 DEF Vigente
<1>5. CASE LiberarPagina \/ LiberarFin
  <2> DEFINE q == hiloKernel.pid
  <2>1. /\ q \in Pids /\ vida[q] = "fin" /\ tamanio' = tamanio
        /\ tabla' = [tabla EXCEPT ![q] = tabla'[q]] /\ struct' = [struct EXCEPT ![q] = struct'[q]]
        /\ tabla'[q] = tabla[q] \/ (tabla[q] # <<>> /\ tabla'[q] = Tail(tabla[q]))
    BY <1>0, <1>5 DEF LiberarPagina, LiberarFin, Etapas, Finalizando
  <2> HIDE DEF q
  <2>2. Conserva
    BY <1>0, <1>1, <2>1 DEF Conserva, Vigente
  <2>3. \A i \in 1 .. Len(tabla'[q]) : \E j \in 1 .. Len(tabla[q]) : tabla'[q][i] = tabla[q][j]
    <3>1. ASSUME tabla[q] # <<>>, tabla'[q] = Tail(tabla[q]), NEW i \in 1 .. Len(tabla'[q])
          PROVE  \E j \in 1 .. Len(tabla[q]) : tabla'[q][i] = tabla[q][j]
      <4>1. i + 1 \in 1 .. Len(tabla[q]) /\ tabla'[q][i] = tabla[q][i + 1]
        BY <1>0, <2>1, <3>1, HeadTailProperties, LenProperties
      <4> QED
        BY <4>1
    <3> QED
      BY <2>1, <3>1
  <2>4. \A p \in Pids : p # q => tabla'[p] = tabla[p] /\ struct'[p] = struct[p]
    BY <1>0, <2>1
  <2>5. \A p \in Pids : \A i \in 1 .. Len(tabla'[p]) :
          \E j \in 1 .. Len(tabla[p]) : tabla'[p][i] = tabla[p][j]
    BY <2>3, <2>4
  <2>6. \A p \in Pids : Vigente(p) => p # q
    BY <2>1 DEF Vigente
  <2>7. \A p \in Pids : Vigente(p) => tamanio'[p] = tamanio[p] /\ tabla'[p] = tabla[p]
    BY <2>1, <2>4, <2>6
  <2>8. \A p \in Pids : struct[p] = "listo" /\ struct'[p] # "listo" => vida[p] = "fin"
    BY <2>1, <2>4
  <2> QED
    BY <1>1, <2>2, <2>5, <2>7, <2>8
<1>6. CASE IniciarPath \/ RecibirFinalizar \/ BuscarLiberado \/ Liberar
  BY <1>2, <1>6 DEF IniciarPath, RecibirFinalizar, BuscarLiberado, Liberar, Caer, paginas
<1> QED
  BY <1>3, <1>4, <1>5, <1>6 DEF HiloKernel

\* The CPU's thread: a growth adds pages at the end, and then the size.
LEMMA ConservaHiloCPU ==
  ASSUME Inv, Ordenado, ~mezclado, Cubren, EnCurso, HiloCPU
  PROVE  /\ Conserva /\ struct' = struct
         /\ \A p \in Pids : vida'[p] = "fin" <=> vida[p] = "fin"
         /\ \A p \in Pids : tamanio'[p] # tamanio[p] => ResizeFin /\ caida' = "no" /\ p = cpu.pid
<1> USE DEF HiloCPUQuieto, paginas
<1>0. /\ tabla \in [Pids -> Seq(Marcos)] /\ tamanio \in [Pids -> Nat]
      /\ vida \in [Pids -> {"no", "creado", "matado", "sin_memoria", "fin"}]
      /\ cpu.pc # "libre" => cpu.pid \in Pids
      /\ hiloCPU.pc \in {"buscar", "roto", "usar", "tomar", "soltar"} => cpu.pc = "espera"
      /\ hiloCPU.pc \in {"tomar", "soltar"} => hiloCPU.pid \in Pids
      /\ cpu.arg \in Nat
      /\ DeLaCPU /\ hiloCPU.pc # "soltar"
  BY DEF Inv, TypeOK, CPUEspera, Ordenado, Cubren
<1>1. CASE UNCHANGED <<struct, tabla, tamanio, vida>>
  BY <1>0, <1>1 DEF Conserva, Vigente
<1>2. CASE RecibirPedido \/ BuscarProceso \/ PedidoDesconocido \/ PedidoInstruccion \/ ResizeIgual
  BY <1>1, <1>2 DEF RecibirPedido, BuscarProceso, PedidoDesconocido, PedidoInstruccion, ResizeIgual
<1>3. CASE PedidoLiberado \/ PedidoMarco
  BY <1>1, <1>3 DEF PedidoLiberado, PedidoMarco, Caer
<1>4. CASE ResizeAumentar \/ ResizeDisminuir
  BY <1>1, <1>4 DEF ResizeAumentar, ResizeDisminuir
<1>5. CASE ResizeSinMemoria
  <2>1. /\ vida' = [vida EXCEPT ![cpu.pid] = "sin_memoria"] /\ UNCHANGED <<struct, tabla, tamanio>>
        /\ cpu.pc = "espera"
    BY <1>0, <1>5 DEF ResizeSinMemoria, Usar
  <2>2. vida[cpu.pid] = "creado" /\ cpu.pid \in Pids
    BY <1>0, <2>1 DEF DeLaCPU
  <2>3. \A p \in Pids : vida'[p] = "fin" <=> vida[p] = "fin"
    BY <1>0, <2>1, <2>2
  <2> QED
    BY <1>0, <2>1, <2>3 DEF Conserva, Vigente
<1>6. CASE TomarMarco
  <2>1. CASE caida' # "no"
    BY <1>1, <1>6, <2>1 DEF TomarMarco, Caer, Vivo
  <2>2. CASE caida' = "no"
    <3> DEFINE q == hiloCPU.pid
    <3>1. /\ q \in Pids /\ Libres # {} /\ UNCHANGED <<struct, tamanio, vida>>
          /\ tabla' = [tabla EXCEPT ![q] = Append(tabla[q], PrimerLibre)]
      BY <1>0, <1>6, <2>2 DEF TomarMarco, Caer
    <3>2. PrimerLibre \in Marcos
      BY <3>1, PrimerLibreEsLibre DEF Libres
    <3> HIDE DEF q
    <3>3. /\ Len(tabla'[q]) >= Len(tabla[q])
          /\ \A i \in 1 .. Len(tabla[q]) : tabla'[q][i] = tabla[q][i]
      BY <1>0, <3>1, <3>2, AppendProperties, LenProperties
    <3> QED
      BY <1>0, <3>1, <3>3 DEF Conserva, Vigente
  <2> QED
    BY <2>1, <2>2
<1>7. CASE SoltarMarco
  BY <1>0, <1>7 DEF SoltarMarco
<1>8. CASE ResizeFin
  <2>1. CASE caida' # "no"
    BY <1>1, <1>8, <2>1 DEF ResizeFin, Caer, Vivo
  <2>2. CASE caida' = "no"
    <3>1. /\ hiloCPU.pc = "tomar" /\ UNCHANGED <<struct, tabla, vida>>
          /\ tamanio' = [tamanio EXCEPT ![hiloCPU.pid] = cpu.arg]
      BY <1>0, <1>8, <2>2 DEF ResizeFin, Caer
    <3>2. /\ hiloCPU.pid = cpu.pid /\ cpu.pid \in Pids /\ cpu.op = "RESIZE"
          /\ cpu.arg >= tamanio[cpu.pid]
      BY <1>0, <3>1 DEF DeLaCPU, EnCurso
    <3>3. \A p \in Pids : tamanio'[p] >= tamanio[p]
      BY <1>0, <3>1, <3>2
    <3> QED
      BY <1>0, <1>8, <2>2, <3>1, <3>2, <3>3 DEF Conserva, Vigente
  <2> QED
    BY <2>1, <2>2
<1> QED
  BY <1>2, <1>3, <1>4, <1>5, <1>6, <1>7, <1>8 DEF HiloCPU

\* The kernel creates and ends processes; the CPU asks.
LEMMA ConservaClientes ==
  ASSUME Inv, Ordenado, ~mezclado,
         \/ \E p \in Pids : CrearProceso(p) \/ TerminarProceso(p) \/ PedirInstruccion(p)
         \/ SinPedido
         \/ \E t : PedirResize(t) \/ PedirMarco(t)
  PROVE  /\ Conserva /\ UNCHANGED paginas /\ hiloCPU' = hiloCPU
         /\ cpu' = cpu \/ vida' = vida
         /\ \A p \in Pids : vida'[p] # vida[p] => vida[p] = "no" \/ (vida'[p] = "fin" /\ cpu.pid # p)
<1>0. Etapas /\ TypeOK
  BY DEF Ordenado, Inv
<1>1. ASSUME NEW p \in Pids, CrearProceso(p) PROVE vida[p] = "no" /\ vida' = [vida EXCEPT ![p] = "creado"]
  BY <1>1 DEF CrearProceso
<1>2. ASSUME NEW p \in Pids, TerminarProceso(p)
      PROVE  cpu.pid # p /\ vida' = [vida EXCEPT ![p] = "fin"]
  BY SMTT(30), <1>2 DEF TerminarProceso
<1>3. UNCHANGED paginas /\ hiloCPU' = hiloCPU /\ (cpu' = cpu \/ vida' = vida)
  BY DEF CrearProceso, TerminarProceso, PedirInstruccion, SinPedido, PedirResize,
         PedirMarco, ClienteQuieto
<1>4. \/ vida' = vida
      \/ \E p \in Pids : vida[p] = "no" /\ vida' = [vida EXCEPT ![p] = "creado"]
      \/ \E p \in Pids : cpu.pid # p /\ vida' = [vida EXCEPT ![p] = "fin"]
  BY <1>1, <1>2 DEF PedirInstruccion, SinPedido, PedirResize, PedirMarco
<1>5. \A p \in Pids : vida'[p] # vida[p] => vida[p] = "no" \/ (vida'[p] = "fin" /\ cpu.pid # p)
  BY <1>0, <1>4 DEF TypeOK
<1>6. \A p \in Pids : vida[p] = "fin" => vida'[p] = "fin"
  BY <1>5
<1>7. Conserva
  BY <1>0, <1>3, <1>6, ConservaQuieto DEF paginas
<1> QED
  BY <1>3, <1>5, <1>7

LEMMA FielQueda ==
  ASSUME TypeOK, TypeOK', Cubren, Conserva, NEW p \in Pids, Vigente(p), vida'[p] # "fin",
         NEW a \in Accesos, NEW n \in Nat, Fiel(p, a, n)
  PROVE  Fiel(p, a, n)'
<1>1. /\ tamanio'[p] >= tamanio[p] /\ \A i \in 1 .. Len(tabla[p]) : tabla'[p][i] = tabla[p][i]
      /\ tamanio[p] \in Nat /\ tamanio'[p] \in Nat
  BY DEF Conserva, TypeOK
<1>2. a.dir \in Nat /\ a.datos \in Seq(Nat) /\ Len(a.datos) \in Nat
  BY LenProperties DEF Accesos
<1>3. ASSUME NEW i \in 1 .. tamanio[p] PROVE Fisica(p, i)' = Fisica(p, i)
  <2>1. (i - 1) \div TAM_PAGINA + 1 \in 1 .. Len(tabla[p])
    BY FisicaEnSuMarco
  <2> QED
    BY <1>1, <2>1 DEF Fisica
<1>4. ASSUME NEW k \in 1 .. n PROVE a.lista[k] = Fisica(p, a.dir + k)'
  <2>1. a.lista[k] = Fisica(p, a.dir + k)
    BY DEF Fiel
  <2>2. a.dir + k \in 1 .. tamanio[p]
    <3>1. k \in Int /\ 1 <= k /\ k <= n
      OBVIOUS
    <3>2. n <= Len(a.datos) /\ a.dir + Len(a.datos) <= tamanio[p]
      BY DEF Fiel
    <3>3. a.dir + k \in Int /\ 1 <= a.dir + k
      BY <1>2, <3>1
    <3>4. a.dir + k <= a.dir + Len(a.datos)
      BY <1>2, <3>1, <3>2
    <3>5. a.dir + Len(a.datos) \in Int /\ tamanio[p] \in Int
      BY <1>1, <1>2
    <3> QED
      BY <3>2, <3>3, <3>4, <3>5
  <2> QED
    BY <1>3, <2>1, <2>2
<1>5. a.dir + Len(a.datos) <= tamanio'[p] /\ n <= Len(a.datos) /\ Len(a.lista) = n
  BY <1>1, <1>2 DEF Fiel
<1> QED
  BY <1>4, <1>5 DEF Fiel

\* An entry of the TLB for a process that goes on stays true.
LEMMA TLBQueda ==
  ASSUME Inv, Ordenado, ~mezclado, TiposTraduccion, TLBAlDia, Conserva, TypeOK', tlb' = tlb
  PROVE  TLBAlDia'
<1> SUFFICES ASSUME NEW i \in DOMAIN tlb.entradas, vida'[tlb.entradas[i].pid] # "fin"
             PROVE  /\ tlb.entradas[i].pagina < Len(tabla'[tlb.entradas[i].pid])
                    /\ tabla'[tlb.entradas[i].pid][tlb.entradas[i].pagina + 1] = tlb.entradas[i].marco
  BY DEF TLBAlDia
<1> DEFINE e == tlb.entradas[i]
<1>1. tlb.entradas \in Seq(Entradas)
  BY DEF TiposTraduccion
<1>2. e \in Entradas
  BY <1>1
<1>3. e.pid \in Pids /\ e.pagina \in Nat
  BY <1>2 DEF Entradas
<1>4. vida[e.pid] # "fin" /\ vida'[e.pid] # "fin"
  BY <1>3 DEF Conserva
<1>5. e.pagina < Len(tabla[e.pid]) /\ tabla[e.pid][e.pagina + 1] = e.marco
  BY <1>4 DEF TLBAlDia
<1> HIDE DEF e
<1>6. /\ tabla[e.pid] \in Seq(Marcos) /\ tabla'[e.pid] \in Seq(Marcos)
      /\ Len(tabla[e.pid]) \in Nat /\ Len(tabla'[e.pid]) \in Nat
  BY <1>3, LenProperties DEF Inv, TypeOK
<1>7. tabla[e.pid] # <<>>
  BY <1>3, <1>5, <1>6
<1>8. Vigente(e.pid)
  BY <1>3, <1>4, <1>7 DEF Ordenado, Etapas, Vigente
<1>9. /\ Len(tabla'[e.pid]) >= Len(tabla[e.pid])
      /\ \A j \in 1 .. Len(tabla[e.pid]) : tabla'[e.pid][j] = tabla[e.pid][j]
  BY <1>3, <1>4, <1>8 DEF Conserva
<1>10. e.pagina + 1 \in 1 .. Len(tabla[e.pid]) /\ e.pagina < Len(tabla'[e.pid])
  BY <1>3, <1>5, <1>6, <1>9
<1>11. tabla'[e.pid][e.pagina + 1] = e.marco
  BY <1>5, <1>9, <1>10
<1> QED
  BY <1>10, <1>11 DEF e

-----------------------------------------------------------------------------
(* The access under way.                                                    *)

LEMMA DelAcceso ==
  ASSUME InvTraduccion, acceso.op # "ninguna"
  PROVE  /\ cpu.pid \in Pids /\ cpu.pc # "libre" /\ Vigente(cpu.pid)
         /\ acceso \in Accesos /\ acceso.dir \in Nat /\ acceso.hechos \in Nat
         /\ acceso.datos \in Seq(Nat) /\ Len(acceso.datos) \in Nat
         /\ Fiel(cpu.pid, acceso, acceso.hechos)
         /\ acceso.hechos <= Len(acceso.datos)
         /\ acceso.dir + Len(acceso.datos) <= tamanio[cpu.pid] /\ tamanio[cpu.pid] \in Nat
<1>1. cpu.pc # "libre" /\ cpu.pid \in Pids
  BY DEF InvTraduccion, EnMemoria, EnTraduccion, EnCurso, Inv, TypeOK
<1>2. DeLaCPU
  BY DEF InvTraduccion, EnMemoria, EnTraduccion, Ordenado
<1>3. Vigente(cpu.pid)
  BY <1>1, <1>2 DEF InvTraduccion, EnMemoria, EnTraduccion, EnCurso, DeLaCPU, Vigente
<1>4. Fiel(cpu.pid, acceso, acceso.hechos)
  BY DEF InvTraduccion, EnMemoria, EnTraduccion, AccesoFiel
<1>5. acceso \in Accesos /\ tamanio[cpu.pid] \in Nat
  BY <1>1 DEF InvTraduccion, EnMemoria, EnTraduccion, TiposTraduccion, Inv, TypeOK
<1>6. /\ acceso.dir \in Nat /\ acceso.hechos \in Nat
      /\ acceso.datos \in Seq(Nat) /\ Len(acceso.datos) \in Nat
  BY <1>5, LenProperties DEF Accesos
<1> QED
  BY <1>1, <1>3, <1>4, <1>5, <1>6 DEF Fiel

\* The fragment at hand is within one page, which the table has.
LEMMA DelFragmento ==
  ASSUME InvTraduccion, Traduciendo
  PROVE  /\ Direccion \in Nat /\ Pagina \in Nat /\ Direccion < tamanio[cpu.pid]
         /\ Direccion = Pagina * TAM_PAGINA + (Direccion % TAM_PAGINA)
         /\ (Direccion % TAM_PAGINA) \in 0 .. TAM_PAGINA - 1
         /\ Pagina * TAM_PAGINA < tamanio[cpu.pid]
         /\ EnPagina \in Nat /\ EnPagina > 0 /\ acceso.hechos + EnPagina <= Len(acceso.datos)
         /\ (Direccion % TAM_PAGINA) + EnPagina <= TAM_PAGINA
         /\ Pagina + 1 \in 1 .. Len(tabla[cpu.pid]) /\ tabla[cpu.pid][Pagina + 1] \in Marcos
<1> DEFINE r == Direccion % TAM_PAGINA
           p == cpu.pid
<1>1. /\ p \in Pids /\ Vigente(p) /\ acceso.dir \in Nat /\ acceso.hechos \in Nat
      /\ Len(acceso.datos) \in Nat /\ acceso.dir + Len(acceso.datos) <= tamanio[p]
      /\ acceso.hechos < Len(acceso.datos) /\ tamanio[p] \in Nat
  BY DelAcceso DEF Traduciendo
<1>2. Direccion \in Nat /\ Direccion < tamanio[p]
  BY <1>1 DEF Direccion
<1>3. /\ Pagina \in Nat /\ r \in 0 .. TAM_PAGINA - 1
      /\ Direccion = Pagina * TAM_PAGINA + (Direccion % TAM_PAGINA)
  BY <1>2, CocienteYResto, Zenon DEF Pagina
<1>4. TypeOK /\ Cubren /\ Direccion + 1 \in 1 .. tamanio[p]
  BY <1>1, <1>2 DEF InvTraduccion, EnMemoria, EnTraduccion, Inv
<1>5. (Direccion + 1) - 1 = Direccion
  BY <1>2
<1>6. /\ ((Direccion + 1) - 1) \div TAM_PAGINA + 1 \in 1 .. Len(tabla[p])
      /\ tabla[p][((Direccion + 1) - 1) \div TAM_PAGINA + 1] \in Marcos
  BY <1>1, <1>4, FisicaEnSuMarco, Zenon
<1>7. Pagina + 1 \in 1 .. Len(tabla[p]) /\ tabla[p][Pagina + 1] \in Marcos
  BY <1>5, <1>6 DEF Pagina
<1>8. EnPagina = IF TAM_PAGINA - r < Len(acceso.datos) - acceso.hechos THEN TAM_PAGINA - r
                 ELSE Len(acceso.datos) - acceso.hechos
  BY DEF EnPagina
<1> HIDE DEF r
<1>9. /\ EnPagina \in Nat /\ EnPagina > 0 /\ acceso.hechos + EnPagina <= Len(acceso.datos)
      /\ r + EnPagina <= TAM_PAGINA
  <2> DEFINE a == TAM_PAGINA - r
             b == Len(acceso.datos) - acceso.hechos
  <2>1. a \in Nat /\ a > 0 /\ r + a = TAM_PAGINA
    BY <1>3, TamPaginaPositivo
  <2>2. b \in Nat /\ b > 0 /\ acceso.hechos + b = Len(acceso.datos)
    BY <1>1
  <2>3. r \in Int /\ acceso.hechos \in Int
    BY <1>1, <1>3
  <2>4. EnPagina = IF a < b THEN a ELSE b
    BY <1>8
  <2> HIDE DEF a, b
  <2>5. EnPagina \in Nat /\ EnPagina > 0 /\ EnPagina <= a /\ EnPagina <= b
    BY <2>1, <2>2, <2>4
  <2> QED
    BY <2>1, <2>2, <2>3, <2>5, TamPaginaPositivo, <1>1
<1>10. Pagina * TAM_PAGINA < tamanio[p]
  <2>1. Pagina * TAM_PAGINA \in Nat /\ Direccion = Pagina * TAM_PAGINA + r
    BY <1>3, TamPaginaPositivo DEF r
  <2> QED
    BY <1>1, <1>2, <1>3, <2>1
<1> QED
  BY <1>2, <1>3, <1>7, <1>9, <1>10 DEF r

\* Translating one more fragment, in the frame of its page, leaves the access where the
\* page table says.
LEMMA FragmentoFiel ==
  ASSUME InvTraduccion, Traduciendo, Fragmento(tabla[cpu.pid][Pagina + 1])
  PROVE  /\ acceso' \in Accesos /\ Fiel(cpu.pid, acceso', acceso'.hechos)
         /\ acceso'.op = acceso.op /\ acceso'.dir = acceso.dir /\ acceso'.datos = acceso.datos
<1> DEFINE p == cpu.pid
           m == tabla[p][Pagina + 1]
           r == Direccion % TAM_PAGINA
           h == acceso.hechos
           n == EnPagina
           f == [k \in 1 .. n |-> m * TAM_PAGINA + r + k - 1]
<1>1. /\ acceso \in Accesos /\ acceso.dir \in Nat /\ h \in Nat /\ acceso.datos \in Seq(Nat)
      /\ Len(acceso.datos) \in Nat /\ Fiel(p, acceso, h) /\ acceso.lista \in Seq(Nat)
  BY DelAcceso DEF Traduciendo, Accesos
<1>2. /\ Direccion \in Nat /\ Pagina \in Nat /\ Direccion = Pagina * TAM_PAGINA + r
      /\ r \in 0 .. TAM_PAGINA - 1 /\ n \in Nat /\ n > 0 /\ h + n <= Len(acceso.datos)
      /\ r + n <= TAM_PAGINA /\ m \in Marcos
  BY DelFragmento
<1>3. acceso' = [acceso EXCEPT !.hechos = h + n, !.lista = acceso.lista \o f]
  BY DEF Fragmento
<1>4. Direccion = acceso.dir + h
  BY DEF Direccion
<1> HIDE DEF p, m, r, h, n
<1>5. m \in Nat /\ m * TAM_PAGINA \in Nat
  <2>1. m \in Nat
    BY <1>2, TamPaginaPositivo DEF Marcos
  <2> QED
    BY <2>1, TamPaginaPositivo
<1>6. /\ r \in Nat /\ h \in Nat /\ n \in Nat /\ acceso.dir \in Nat
      /\ r + n <= TAM_PAGINA /\ h + n <= Len(acceso.datos)
  BY <1>1, <1>2
<1>7. ASSUME NEW k \in 1 .. n
      PROVE  f[k] = Fisica(p, acceso.dir + h + k) /\ f[k] \in Nat
  <2>1. r + k - 1 \in 0 .. TAM_PAGINA - 1
    BY <1>6, TamPaginaPositivo
  <2>2. Direccion + k - 1 = Pagina * TAM_PAGINA + (r + k - 1)
    <3>1. Pagina * TAM_PAGINA \in Nat
      BY <1>2, TamPaginaPositivo
    <3> QED
      BY <1>2, <3>1
  <2>3. (Direccion + k - 1) \div TAM_PAGINA = Pagina /\ ((Direccion + k - 1) % TAM_PAGINA) = r + k - 1
    BY <1>2, <2>1, <2>2, DeCocienteYResto
  <2>4. (acceso.dir + h + k) - 1 = Direccion + k - 1
    BY <1>4
  <2>5. Fisica(p, acceso.dir + h + k) = m * TAM_PAGINA + (r + k - 1)
    <3>1. Fisica(p, acceso.dir + h + k)
            = tabla[p][((acceso.dir + h + k) - 1) \div TAM_PAGINA + 1] * TAM_PAGINA
              + (((acceso.dir + h + k) - 1) % TAM_PAGINA)
      BY DEF Fisica
    <3> QED
      BY <2>3, <2>4, <3>1 DEF m
  <2>6. f[k] = m * TAM_PAGINA + r + k - 1
    OBVIOUS
  <2> HIDE DEF f, m
  <2>7. m * TAM_PAGINA + r + k - 1 = m * TAM_PAGINA + (r + k - 1) /\ m * TAM_PAGINA + r + k - 1 \in Nat
    BY SMTT(30), <1>2, <1>5, <2>1
  <2> QED
    BY <2>5, <2>6, <2>7
<1>8. f \in Seq(Nat) /\ Len(f) = n
  <2>1. f \in [1 .. n -> Nat]
    BY <1>7
  <2> HIDE DEF f
  <2> QED
    BY <1>2, <2>1, ListaDeFuncion
<1> HIDE DEF f, m
<1>9. /\ acceso.lista \o f \in Seq(Nat) /\ Len(acceso.lista \o f) = h + n
      /\ \A k \in 1 .. h : (acceso.lista \o f)[k] = acceso.lista[k]
      /\ \A k \in 1 .. n : (acceso.lista \o f)[h + k] = f[k]
  <2>1. Len(acceso.lista) = h
    BY <1>1 DEF Fiel
  <2>2. /\ acceso.lista \o f \in Seq(Nat) /\ Len(acceso.lista \o f) = Len(acceso.lista) + Len(f)
        /\ \A k \in 1 .. Len(acceso.lista) : (acceso.lista \o f)[k] = acceso.lista[k]
        /\ \A k \in 1 .. Len(f) : (acceso.lista \o f)[Len(acceso.lista) + k] = f[k]
    <3>1. acceso.lista \in Seq(Nat) /\ f \in Seq(Nat)
      BY <1>1, <1>8
    <3>2. acceso.lista \o f \in Seq(Nat) /\ Len(acceso.lista \o f) = Len(acceso.lista) + Len(f)
      BY <3>1
    <3>3. \A k \in 1 .. Len(acceso.lista) : (acceso.lista \o f)[k] = acceso.lista[k]
      BY <3>1
    <3>4. \A k \in 1 .. Len(f) : (acceso.lista \o f)[Len(acceso.lista) + k] = f[k]
      BY <3>1
    <3> QED
      BY <3>2, <3>3, <3>4
  <2> QED
    BY <1>8, <2>1, <2>2
<1>10. acceso' \in Accesos
  <2>1. h + n \in Nat
    BY <1>1, <1>2
  <2>2. \A l \in Seq(Nat) : [acceso EXCEPT !.hechos = h + n, !.lista = l] \in Accesos
    BY <1>1, <2>1 DEF Accesos
  <2> QED
    BY <1>3, <1>9, <2>2
<1>11. /\ acceso'.op = acceso.op /\ acceso'.dir = acceso.dir /\ acceso'.datos = acceso.datos
       /\ acceso'.hechos = h + n /\ acceso'.lista = acceso.lista \o f
  <2>1. DOMAIN acceso = {"op", "dir", "datos", "hechos", "lista"}
    BY <1>1 DEF Accesos
  <2> DEFINE l == acceso.lista \o f
             k == h + n
  <2>2. acceso' = [acceso EXCEPT !.hechos = k, !.lista = l]
    BY <1>3
  <2> HIDE DEF l, k
  <2>3. acceso'.op = acceso.op /\ acceso'.dir = acceso.dir /\ acceso'.datos = acceso.datos
    BY <2>1, <2>2
  <2>4. acceso'.hechos = k /\ acceso'.lista = l
    BY <2>1, <2>2
  <2> QED
    BY <2>3, <2>4 DEF k, l
<1>12. ASSUME NEW k \in 1 .. h + n PROVE acceso'.lista[k] = Fisica(p, acceso.dir + k)
  <2>1. CASE k <= h
    <3>1. k \in 1 .. h
      BY <1>1, <2>1
    <3>2. acceso.lista[k] = Fisica(p, acceso.dir + k)
      BY <1>1, <3>1 DEF Fiel
    <3> QED
      BY <1>9, <1>11, <3>1, <3>2
  <2>2. CASE k > h
    <3>1. PICK j \in 1 .. n : k = h + j
      <4>1. k - h \in 1 .. n /\ k = h + (k - h)
        BY <1>6, <2>2
      <4> QED
        BY <4>1
    <3>2. acceso.dir + h + j = acceso.dir + k
      BY <1>6, <3>1
    <3>3. f[j] = Fisica(p, acceso.dir + k)
      BY <1>7, <3>2
    <3> QED
      BY <1>9, <1>11, <3>1, <3>3
  <2>3. k \in Int /\ h \in Int
    BY <1>6
  <2> QED
    BY <2>1, <2>2, <2>3
<1>13. acceso.dir + Len(acceso.datos) <= tamanio[p]
  BY <1>1 DEF Fiel
<1>14. Fiel(p, acceso', h + n)
  BY <1>9, <1>11, <1>12, <1>13, <1>6 DEF Fiel
<1> QED
  BY <1>10, <1>11, <1>14 DEF p

-----------------------------------------------------------------------------
(* The memory server's invariants, whatever the translation does.           *)

LEMMA InvPedirMarco ==
  ASSUME Inv, NEW n \in Nat, PedirMarco(n)
  PROVE  Inv'
<1>1. /\ cpu' = [cpu EXCEPT !.pc = "espera", !.op = "MARCO", !.arg = n] /\ cpu.pc = "ejecutar"
      /\ UNCHANGED <<marcos, struct, tabla, tamanio, procesos_totales, proceso_memoria, kernel,
                     vida, hiloKernel, hiloCPU, mezclado, caida>>
  BY DEF PedirMarco, ClienteQuieto, paginas
<1>2. /\ cpu' \in [pc : {"libre", "espera", "ejecutar"}, pid : Pids \cup {NULL},
                   op : {"INSTRUCCION", "RESIZE", "MARCO"}, arg : Nat]
      /\ cpu'.pc = "espera" /\ cpu'.pid \in Pids
  BY <1>1 DEF Inv, TypeOK
<1>3. TypeOK'
  BY SMTT(30), <1>1, <1>2 DEF Inv, TypeOK
<1>4. CPUEspera'
  BY <1>2 DEF CPUEspera
<1> QED
  BY <1>3, <1>4 DEF Inv

LEMMA RecibirMarcoEnMemoria ==
  ASSUME Inv, Ordenado, ~mezclado, MarcoUnico, RecibirMarco
  PROVE  /\ EnMemoria'
         /\ cpu.pc = "ejecutar" /\ cpu'.pc = cpu.pc /\ cpu'.pid = cpu.pid
         /\ cpu'.op = "INSTRUCCION" /\ hiloCPU.pc \notin {"buscar", "roto", "usar", "tomar", "soltar"}
<1>1. /\ cpu.pc = "ejecutar" /\ cpu' = [cpu EXCEPT !.op = "INSTRUCCION", !.arg = 0]
      /\ UNCHANGED <<paginas, proceso_memoria, kernel, vida, hiloKernel, hiloCPU, mezclado, caida>>
  BY DEF RecibirMarco, Traduciendo
<1>2. cpu'.pc = cpu.pc /\ cpu'.pid = cpu.pid /\ cpu'.op = "INSTRUCCION" /\ cpu'.arg = 0
  BY <1>1 DEF Inv, TypeOK
<1>3. hiloCPU.pc \notin {"buscar", "roto", "usar", "tomar", "soltar"}
  BY <1>1 DEF Inv, CPUEspera
<1>4. Inv'
  <2>1. cpu' \in [pc : {"libre", "espera", "ejecutar"}, pid : Pids \cup {NULL},
                 op : {"INSTRUCCION", "RESIZE", "MARCO"}, arg : Nat]
    BY <1>1 DEF Inv, TypeOK
  <2>2. TypeOK'
    <3>1. TypeOK /\ UNCHANGED <<marcos, struct, tabla, tamanio, procesos_totales>>
      BY <1>1 DEF Inv, paginas
    <3>2. cpu'.pc # "libre" => cpu'.pid \in Pids
      BY <1>2, <3>1 DEF TypeOK
    <3> QED
      BY <1>1, <2>1, <3>1, <3>2, SMTT(30) DEF TypeOK
  <2>3. CPUEspera'
    BY <1>1, <1>2 DEF Inv, CPUEspera
  <2> QED
    BY <2>2, <2>3 DEF Inv
<1>5. DeLaCPU => DeLaCPU'
  BY <1>1, <1>2, <1>3 DEF DeLaCPU, paginas
<1>6. Ordenado'
  BY <1>1, <1>5, OrdenadoQuieto DEF paginas
<1>7. MarcoUnico'
  BY <1>1 DEF MarcoUnico, paginas
<1> QED
  BY <1>1, <1>2, <1>3, <1>4, <1>6, <1>7 DEF EnMemoria

LEMMA MemoriaQueda ==
  ASSUME InvTraduccion, [NextTraduccion]_todo
  PROVE  EnMemoria'
<1>1. Inv /\ Ordenado /\ ~mezclado /\ MarcoUnico
  BY DEF InvTraduccion, EnMemoria, EnTraduccion
<1>2. ASSUME [Next]_vars, ~mezclado' PROVE EnMemoria'
  BY <1>1, <1>2, InvPaso, OrdenadoPaso, MarcoUnicoPaso DEF EnMemoria
<1>3. CASE UNCHANGED vars
  <2>1. ~mezclado'
    BY <1>1, <1>3 DEF vars
  <2> QED
    BY <1>2, <1>3, <2>1
<1>4. CASE (Servidor \/ Programas) /\ ~mezclado'
  BY <1>2, <1>4 DEF Servidor, Programas, Next, Clientes
<1>5. CASE FallaTLB
  <2>1. PedirMarco(Pagina) /\ Pagina \in Nat
    BY <1>5, DelFragmento DEF FallaTLB
  <2>2. UNCHANGED <<marcos, tabla, mezclado>>
    BY <2>1 DEF PedirMarco, ClienteQuieto, paginas
  <2>3. MarcoUnico' /\ ~mezclado'
    BY <1>1, <2>2 DEF MarcoUnico
  <2> QED
    BY <1>1, <2>1, <2>3, InvPedirMarco, OrdenadoClientes DEF EnMemoria
<1>6. CASE RecibirMarco
  BY <1>1, <1>6, RecibirMarcoEnMemoria
<1>7. CASE EnviarMovOut \/ LeerMemoria
  <2>1. SinPedido
    BY <1>7 DEF EnviarMovOut, LeerMemoria
  <2>2. ~mezclado'
    BY <1>1, <2>1 DEF SinPedido, ClienteQuieto
  <2> QED
    BY <1>2, <2>1, <2>2 DEF Next, Clientes
<1>8. CASE PasaSegundo \/ AciertoTLB \/ EscribirMemoria
  BY <1>3, <1>8 DEF PasaSegundo, AciertoTLB, EscribirMemoria
<1>9. ASSUME NEW op, NEW dir, NEW d, IniciarAcceso(op, dir, d) PROVE UNCHANGED vars
  BY <1>9 DEF IniciarAcceso
<1>10. CASE UNCHANGED todo
  BY <1>3, <1>10 DEF todo
<1> QED
  BY <1>3, <1>4, <1>5, <1>6, <1>7, <1>8, <1>9, <1>10 DEF NextTraduccion

-----------------------------------------------------------------------------
(* The translation's own invariants, step by step.                          *)

LEMMA SinPaginas == Paginas(0) = 0
<1>1. 0 * TAM_PAGINA = 0
  BY TamPaginaPositivo
<1> QED
  BY <1>1, PaginasDeEntero

\* The process the thread of the CPU works for goes on.
LEMMA DelHiloCPU ==
  ASSUME EnMemoria, hiloCPU.pc \in {"usar", "tomar", "soltar"}
  PROVE  /\ cpu.pc = "espera" /\ cpu.pid \in Pids /\ vida[cpu.pid] = "creado"
         /\ hiloCPU.pc # "usar" => hiloCPU.pid = cpu.pid /\ cpu.op = "RESIZE" /\ Vigente(cpu.pid)
         /\ hiloCPU.pc = "usar" /\ proceso_memoria # NULL => proceso_memoria = cpu.pid /\ Vigente(cpu.pid)
<1>1. cpu.pc = "espera" /\ cpu.pid \in Pids
  BY DEF EnMemoria, Inv, CPUEspera, TypeOK
<1>2. DeLaCPU
  BY DEF EnMemoria, Ordenado
<1> QED
  BY <1>1, <1>2 DEF DeLaCPU, Vigente

LEMMA EscrituraQueda ==
  ASSUME InvTraduccion, EnMemoria', Conserva, escritura' = escritura,
         \A p \in Pids : \A i \in 1 .. Len(tabla'[p]) : \E j \in 1 .. Len(tabla[p]) : tabla'[p][i] = tabla[p][j]
  PROVE  EscrituraFiel'
<1> SUFFICES ASSUME escritura # SinEscritura PROVE EscrituraFiel'
  BY DEF EscrituraFiel
<1> DEFINE q == escritura.pid
           a == escritura.acceso
<1>1. /\ q \in Pids /\ Len(a.lista) = Len(a.datos)
      /\ vida[q] # "fin" => struct[q] = "listo" /\ Fiel(q, a, Len(a.datos))
      /\ \A p \in Pids \ {q} : \A i \in 1 .. Len(tabla[p]), k \in 1 .. Len(a.lista) :
           tabla[p][i] # a.lista[k] \div TAM_PAGINA
  BY DEF InvTraduccion, EnTraduccion, EscrituraFiel
<1>2. a \in Accesos /\ Len(a.datos) \in Nat
  <2>1. a \in Accesos
    BY DEF InvTraduccion, EnTraduccion, TiposTraduccion
  <2> QED
    BY <2>1, LenProperties DEF Accesos
<1>3. TypeOK /\ TypeOK' /\ Cubren
  BY DEF InvTraduccion, EnMemoria, EnTraduccion, Inv
<1> HIDE DEF q, a
<1>4. ASSUME vida'[q] # "fin" PROVE struct'[q] = "listo" /\ Fiel(q, a, Len(a.datos))'
  <2>1. vida[q] # "fin"
    BY <1>1, <1>4 DEF Conserva
  <2>2. Vigente(q) /\ Fiel(q, a, Len(a.datos))
    BY <1>1, <2>1 DEF Vigente
  <2>3. \A p \in Pids : Vigente(p) /\ vida'[p] # "fin" =>
          \A b \in Accesos, n \in Nat : Fiel(p, b, n) => Fiel(p, b, n)'
    BY <1>3, FielQueda
  <2>4. Fiel(q, a, Len(a.datos))'
    BY <1>1, <1>2, <1>4, <2>2, <2>3 DEF q, a
  <2> QED
    BY <1>1, <1>4, <2>2, <2>4 DEF Conserva
<1>5. \A p \in Pids \ {q} : \A i \in 1 .. Len(tabla'[p]), k \in 1 .. Len(a.lista) :
        tabla'[p][i] # a.lista[k] \div TAM_PAGINA
  <2>1. ASSUME NEW p \in Pids \ {q}, NEW i \in 1 .. Len(tabla'[p]), NEW k \in 1 .. Len(a.lista)
        PROVE  tabla'[p][i] # a.lista[k] \div TAM_PAGINA
    <3>1. PICK j \in 1 .. Len(tabla[p]) : tabla'[p][i] = tabla[p][j]
      OBVIOUS
    <3>2. tabla[p][j] # a.lista[k] \div TAM_PAGINA
      BY <1>1
    <3> QED
      BY <3>1, <3>2
  <2> QED
    BY <2>1
<1> QED
  BY <1>1, <1>4, <1>5 DEF EscrituraFiel, q, a

LEMMA HiloKernelTraduce ==
  ASSUME InvTraduccion, EnMemoria', HiloKernel, UNCHANGED traduccion
  PROVE  EnTraduccion'
<1>1. /\ Conserva /\ UNCHANGED <<vida, cpu, hiloCPU>>
      /\ \A p \in Pids : Vigente(p) => tamanio'[p] = tamanio[p] /\ tabla'[p] = tabla[p]
      /\ \A p \in Pids : struct[p] = "listo" /\ struct'[p] # "listo" => vida[p] = "fin"
      /\ \A p \in Pids : \A i \in 1 .. Len(tabla'[p]) :
           \E j \in 1 .. Len(tabla[p]) : tabla'[p][i] = tabla[p][j]
  BY ConservaHiloKernel DEF InvTraduccion, EnMemoria
<1>2. /\ TypeOK /\ TypeOK' /\ DeLaCPU /\ EnMemoria
      /\ TiposTraduccion /\ Cubren /\ EnCurso /\ AccesoFiel /\ TLBAlDia
  BY DEF InvTraduccion, EnMemoria, EnTraduccion, Inv, Ordenado
<1>3. TiposTraduccion'
  BY <1>2 DEF TiposTraduccion, traduccion
<1>4. Cubren'
  <2>1. ASSUME NEW p \in Pids, Vigente(p)' PROVE Len(tabla'[p]) >= Paginas(tamanio'[p])
    <3>1. CASE Vigente(p)
      BY <1>1, <1>2, <3>1 DEF Cubren
    <3>2. CASE tamanio'[p] = 0
      BY <1>2, <3>2, SinPaginas, LenProperties DEF TypeOK
    <3> QED
      BY <1>1, <2>1, <3>1, <3>2 DEF Conserva
  <2>2. hiloCPU.pc = "tomar" => hiloCPU.pid \in Pids /\ Vigente(hiloCPU.pid)
    BY <1>2, DelHiloCPU
  <2> QED
    BY <1>1, <1>2, <2>1, <2>2 DEF Cubren
<1>5. EnCurso'
  <2>1. acceso' = acceso /\ Pagina' = Pagina /\ cpu' = cpu
    BY <1>1 DEF traduccion, Pagina, Direccion
  <2>2. cpu.pc # "libre" => cpu.pid \in Pids /\ vida[cpu.pid] = "creado"
    BY <1>2 DEF TypeOK, DeLaCPU
  <2>3. ASSUME cpu.pc = "espera", cpu.op # "INSTRUCCION"
        PROVE  struct'[cpu.pid] = "listo" /\ tamanio'[cpu.pid] = tamanio[cpu.pid]
    BY <1>1, <1>2, <2>2, <2>3 DEF EnCurso, Vigente
  <2>4. ASSUME acceso.op # "ninguna" PROVE tabla'[cpu.pid] = tabla[cpu.pid]
    BY <1>1, <2>4, DelAcceso
  <2> QED
    BY <1>2, <2>1, <2>3, <2>4 DEF EnCurso
<1>6. AccesoFiel'
  <2>1. CASE acceso.op = "ninguna"
    BY <1>2, <2>1 DEF AccesoFiel, traduccion, SinAcceso
  <2>2. CASE acceso.op # "ninguna"
    <3>1. /\ cpu.pid \in Pids /\ Vigente(cpu.pid) /\ acceso \in Accesos /\ acceso.hechos \in Nat
          /\ Fiel(cpu.pid, acceso, acceso.hechos)
      BY <2>2, DelAcceso
    <3>2. vida'[cpu.pid] # "fin"
      BY <1>1, <3>1 DEF Vigente
    <3>3. \A a \in Accesos, n \in Nat : Fiel(cpu.pid, a, n) => Fiel(cpu.pid, a, n)'
      <4>1. \A p \in Pids : Vigente(p) /\ vida'[p] # "fin" =>
              \A a \in Accesos, n \in Nat : Fiel(p, a, n) => Fiel(p, a, n)'
        BY <1>1, <1>2, FielQueda
      <4> QED
        BY <1>1, <3>1, <3>2, <4>1
    <3> QED
      BY <1>1, <2>2, <3>1, <3>3 DEF AccesoFiel, traduccion
  <2> QED
    BY <2>1, <2>2
<1>7. EscrituraFiel'
  BY <1>1, EscrituraQueda DEF traduccion
<1>8. TLBAlDia'
  BY <1>1, <1>2, TLBQueda DEF EnMemoria, traduccion
<1> QED
  BY <1>3, <1>4, <1>5, <1>6, <1>7, <1>8 DEF EnTraduccion

\* What the thread of the CPU answers, and how far a growth is from covering its size.
LEMMA HiloCPUContesta ==
  ASSUME InvTraduccion, HiloCPU
  PROVE  /\ cpu.pc = "espera"
         /\ \/ cpu' = cpu
            \/ cpu.op = "INSTRUCCION" /\ cpu' = [cpu EXCEPT !.pc = "ejecutar"]
            \/ /\ cpu.op = "MARCO" /\ tabla' = tabla
               /\ cpu' = [cpu EXCEPT !.pc = "ejecutar", !.arg = tabla[cpu.pid][cpu.arg + 1]]
            \/ cpu.op = "RESIZE" /\ cpu' = CPULibre
         /\ hiloCPU'.pc # "soltar"
         /\ hiloCPU'.pc = "tomar" =>
              cpu' = cpu /\ Len(tabla'[hiloCPU'.pid]) + hiloCPU'.restan >= Paginas(cpu.arg)
<1> USE DEF HiloCPUQuieto, ContestarInstruccion, ContestarResize, HiloEnRecv, paginas
<1>0. /\ tabla \in [Pids -> Seq(Marcos)] /\ tamanio \in [Pids -> Nat]
      /\ hiloCPU \in [pc : {"recv", "buscar", "roto", "usar", "tomar", "soltar", "mudo"},
                      pid : Pids \cup {NULL}, restan : Nat]
      /\ cpu.arg \in Nat /\ hiloCPU.pc # "soltar"
      /\ hiloCPU.pc = "tomar" => Len(tabla[hiloCPU.pid]) + hiloCPU.restan >= Paginas(cpu.arg)
      /\ EnCurso /\ Cubren /\ EnMemoria
  BY DEF InvTraduccion, EnMemoria, EnTraduccion, Inv, TypeOK, Cubren
<1>1. ASSUME hiloCPU.pc = "usar", proceso_memoria # NULL
      PROVE  cpu.pc = "espera" /\ cpu.pid \in Pids /\ proceso_memoria = cpu.pid /\ Vigente(cpu.pid)
  BY <1>0, <1>1, DelHiloCPU
<1>2. ASSUME hiloCPU.pc = "usar" PROVE cpu.pc = "espera"
  BY <1>0, <1>2, DelHiloCPU
<1>3. ASSUME hiloCPU.pc = "tomar" PROVE cpu.pc = "espera" /\ cpu.op = "RESIZE" /\ hiloCPU.pid \in Pids
  BY <1>0, <1>3, DelHiloCPU
<1>4. CASE RecibirPedido
  BY <1>0, <1>4 DEF RecibirPedido
<1>15. CASE BuscarProceso
  <2>1. cpu.pc = "espera" /\ hiloCPU'.pc = "usar" /\ cpu' = cpu
    BY <1>0, <1>15 DEF BuscarProceso, EnMemoria, Inv, CPUEspera
  <2> QED
    BY <2>1
<1>5. CASE PedidoDesconocido
  BY <1>0, <1>2, <1>5 DEF PedidoDesconocido
<1>6. CASE PedidoLiberado
  BY <1>0, <1>2, <1>6 DEF PedidoLiberado, Caer
<1>7. CASE PedidoInstruccion
  BY <1>0, <1>2, <1>7 DEF PedidoInstruccion, Usar
<1>8. CASE PedidoMarco
  <2>1. hiloCPU.pc = "usar" /\ proceso_memoria # NULL /\ cpu.op = "MARCO"
    BY <1>8 DEF PedidoMarco, Usar
  <2>2. CASE cpu.arg >= Len(tabla[proceso_memoria])
    BY <1>0, <1>2, <1>8, <2>1, <2>2 DEF PedidoMarco, Caer
  <2>3. CASE ~(cpu.arg >= Len(tabla[proceso_memoria]))
    <3>1. /\ cpu' = [cpu EXCEPT !.pc = "ejecutar", !.arg = tabla[proceso_memoria][cpu.arg + 1]]
          /\ hiloCPU'.pc = "recv" /\ tabla' = tabla
      BY <1>8, <2>3 DEF PedidoMarco
    <3>2. proceso_memoria = cpu.pid /\ cpu.pc = "espera"
      BY <1>1, <2>1
    <3> QED
      BY <2>1, <3>1, <3>2
  <2> QED
    BY <2>2, <2>3
<1>9. CASE ResizeIgual \/ ResizeSinMemoria
  BY <1>0, <1>2, <1>9 DEF ResizeIgual, ResizeSinMemoria, Usar
<1>10. CASE ResizeAumentar
  <2>1. /\ hiloCPU.pc = "usar" /\ proceso_memoria # NULL /\ cpu' = cpu /\ tabla' = tabla
        /\ hiloCPU' = [pc |-> "tomar", pid |-> proceso_memoria, restan |-> Aumento]
        /\ cpu.arg > tamanio[proceso_memoria]
    BY <1>10 DEF ResizeAumentar, Usar
  <2>2. /\ proceso_memoria = cpu.pid /\ cpu.pid \in Pids
        /\ Len(tabla[cpu.pid]) >= Paginas(tamanio[cpu.pid]) /\ cpu.pc = "espera"
    BY <1>0, <1>1, <2>1 DEF Cubren
  <2>3. tamanio[cpu.pid] \in Nat /\ cpu.arg - tamanio[cpu.pid] \in Nat
    BY <1>0, <2>1, <2>2
  <2>4. Paginas(cpu.arg) <= Paginas(tamanio[cpu.pid]) + Paginas(cpu.arg - tamanio[cpu.pid])
    BY <1>0, <2>1, <2>2, <2>3, PaginasDeLaSuma
  <2>5. /\ Paginas(cpu.arg) \in Nat /\ Paginas(tamanio[cpu.pid]) \in Nat
        /\ Paginas(cpu.arg - tamanio[cpu.pid]) \in Nat /\ Len(tabla[cpu.pid]) \in Nat
    BY <1>0, <2>2, <2>3, PaginasEsNatural, LenProperties
  <2>6. Len(tabla[cpu.pid]) + Aumento >= Paginas(cpu.arg)
    BY <2>2, <2>4, <2>5 DEF Aumento
  <2> QED
    BY <2>1, <2>2, <2>6
<1>11. CASE TomarMarco
  <2>1. hiloCPU.pc = "tomar" /\ hiloCPU.restan > 0
    BY <1>11 DEF TomarMarco
  <2>2. CASE caida' # "no"
    <3>1. UNCHANGED <<cpu, hiloCPU, tabla>>
      BY <1>11, <2>2 DEF TomarMarco, Caer, Vivo
    <3> QED
      BY <1>0, <1>3, <2>1, <3>1
  <2>3. CASE caida' = "no"
    <3> DEFINE q == hiloCPU.pid
    <3>1. /\ q \in Pids /\ Libres # {} /\ cpu' = cpu
          /\ tabla' = [tabla EXCEPT ![q] = Append(tabla[q], PrimerLibre)]
          /\ hiloCPU' = [hiloCPU EXCEPT !.restan = hiloCPU.restan - 1]
      BY <1>3, <1>11, <2>1, <2>3 DEF TomarMarco, Caer
    <3>2. PrimerLibre \in Marcos
      BY <3>1, PrimerLibreEsLibre DEF Libres
    <3>3. hiloCPU'.pc = "tomar" /\ hiloCPU'.pid = q /\ hiloCPU'.restan = hiloCPU.restan - 1
      BY <1>0, <2>1, <3>1
    <3> HIDE DEF q
    <3>4. Len(tabla'[q]) = Len(tabla[q]) + 1 /\ Len(tabla[q]) \in Nat
      BY <1>0, <3>1, <3>2, AppendProperties, LenProperties
    <3>5. hiloCPU.restan \in Nat /\ Paginas(cpu.arg) \in Nat
      BY <1>0, PaginasEsNatural
    <3>6. Len(tabla'[q]) + hiloCPU'.restan >= Paginas(cpu.arg)
      BY <1>0, <2>1, <3>3, <3>4, <3>5 DEF q
    <3> QED
      BY <1>3, <2>1, <3>1, <3>3, <3>6
  <2> QED
    BY <2>2, <2>3
<1>12. CASE SoltarMarco
  BY <1>0, <1>12 DEF SoltarMarco
<1>13. CASE ResizeFin
  <2>1. hiloCPU.pc = "tomar"
    BY <1>0, <1>13 DEF ResizeFin
  <2>2. CASE caida' # "no"
    BY <1>0, <1>3, <1>13, <2>1, <2>2 DEF ResizeFin, Caer, Vivo
  <2>3. CASE caida' = "no"
    BY <1>0, <1>3, <1>13, <2>1, <2>3 DEF ResizeFin, Caer
  <2> QED
    BY <2>2, <2>3
<1>14. CASE ResizeDisminuir
  <2>1. /\ hiloCPU.pc = "usar" /\ proceso_memoria # NULL /\ cpu.op = "RESIZE"
        /\ cpu.arg < tamanio[proceso_memoria]
    BY <1>14 DEF ResizeDisminuir, Usar
  <2>2. tamanio[cpu.pid] \in Nat /\ proceso_memoria = cpu.pid
    BY <1>0, <1>1, <2>1
  <2>3. cpu.arg >= tamanio[cpu.pid]
    BY <1>0, <2>1 DEF EnCurso
  <2> QED
    BY <1>0, <2>1, <2>2, <2>3
<1> QED
  BY <1>4, <1>5, <1>6, <1>7, <1>8, <1>9, <1>10, <1>11, <1>12, <1>13, <1>14, <1>15 DEF HiloCPU

LEMMA HiloCPUTraduce ==
  ASSUME InvTraduccion, EnMemoria', HiloCPU, escritura = SinEscritura, UNCHANGED traduccion
  PROVE  EnTraduccion'
<1>1. /\ Conserva /\ struct' = struct
      /\ \A p \in Pids : vida'[p] = "fin" <=> vida[p] = "fin"
      /\ \A p \in Pids : tamanio'[p] # tamanio[p] => ResizeFin /\ caida' = "no" /\ p = cpu.pid
  BY ConservaHiloCPU DEF InvTraduccion, EnMemoria, EnTraduccion
<1>2. /\ TypeOK /\ TypeOK' /\ DeLaCPU /\ EnMemoria /\ Inv /\ Ordenado /\ ~mezclado
      /\ TiposTraduccion /\ Cubren /\ EnCurso /\ AccesoFiel /\ TLBAlDia
  BY DEF InvTraduccion, EnMemoria, EnTraduccion, Inv, Ordenado
<1>3. /\ cpu.pc = "espera"
      /\ \/ cpu' = cpu
         \/ cpu.op = "INSTRUCCION" /\ cpu' = [cpu EXCEPT !.pc = "ejecutar"]
         \/ /\ cpu.op = "MARCO" /\ tabla' = tabla
            /\ cpu' = [cpu EXCEPT !.pc = "ejecutar", !.arg = tabla[cpu.pid][cpu.arg + 1]]
         \/ cpu.op = "RESIZE" /\ cpu' = CPULibre
      /\ hiloCPU'.pc # "soltar"
      /\ hiloCPU'.pc = "tomar" =>
           cpu' = cpu /\ Len(tabla'[hiloCPU'.pid]) + hiloCPU'.restan >= Paginas(cpu.arg)
  BY HiloCPUContesta
<1>4. cpu \in [pc : {"libre", "espera", "ejecutar"}, pid : Pids \cup {NULL},
               op : {"INSTRUCCION", "RESIZE", "MARCO"}, arg : Nat] /\ cpu.pid \in Pids
  BY <1>2, <1>3 DEF TypeOK
<1>5. TiposTraduccion'
  BY <1>2 DEF TiposTraduccion, traduccion
<1>6. Cubren'
  <2>1. ASSUME NEW p \in Pids, Vigente(p)' PROVE Len(tabla'[p]) >= Paginas(tamanio'[p])
    <3>1. Len(tabla'[p]) \in Nat /\ Len(tabla[p]) \in Nat /\ tamanio[p] \in Nat
      BY <1>2, LenProperties DEF TypeOK
    <3>2. CASE tamanio'[p] = 0
      BY <3>1, <3>2, SinPaginas
    <3>3. CASE tamanio'[p] # 0 /\ tamanio'[p] = tamanio[p]
      <4>1. Vigente(p) /\ vida'[p] # "fin"
        BY <1>1, <2>1, <3>3 DEF Conserva, Vigente
      <4>2. Len(tabla[p]) >= Paginas(tamanio[p]) /\ Len(tabla'[p]) >= Len(tabla[p])
        BY <1>1, <1>2, <4>1 DEF Conserva, Cubren
      <4>3. Paginas(tamanio[p]) \in Nat
        BY <3>1, PaginasEsNatural
      <4> QED
        BY <3>1, <3>3, <4>2, <4>3
    <3>4. CASE tamanio'[p] # tamanio[p]
      <4>1. ResizeFin /\ caida' = "no" /\ p = cpu.pid
        BY <1>1, <3>4
      <4>2. hiloCPU.pc = "tomar" /\ hiloCPU.restan = 0
        BY <1>2, <4>1 DEF ResizeFin, Cubren
      <4>3. hiloCPU.pid = p
        BY <1>2, <4>1, <4>2 DEF DeLaCPU
      <4>4. tamanio' = [tamanio EXCEPT ![p] = cpu.arg] /\ tabla' = tabla
        BY <4>1, <4>3 DEF ResizeFin, Caer
      <4>5. tamanio'[p] = cpu.arg
        BY <1>2, <4>4 DEF TypeOK
      <4>6. Len(tabla[p]) + 0 >= Paginas(cpu.arg)
        BY <1>2, <4>2, <4>3 DEF Cubren
      <4> QED
        BY <3>1, <4>4, <4>5, <4>6
    <3> QED
      BY <3>2, <3>3, <3>4
  <2> QED
    BY <1>3, <2>1 DEF Cubren
<1>7. Pagina' = Pagina /\ acceso' = acceso
  BY DEF traduccion, Pagina, Direccion
<1>8. EnCurso'
  <2>1. CASE cpu' = cpu
    <3>1. tamanio'[cpu.pid] = tamanio[cpu.pid]
      <4>1. cpu' # CPULibre
        BY <1>3, <2>1 DEF CPULibre
      <4>2. ~(ResizeFin /\ caida' = "no")
        BY <4>1 DEF ResizeFin, Caer, ContestarResize
      <4> QED
        BY <1>1, <1>4, <4>2
    <3> QED
      BY <1>1, <1>2, <1>3, <1>7, <2>1, <3>1 DEF EnCurso
  <2>2. CASE cpu.op = "INSTRUCCION" /\ cpu' = [cpu EXCEPT !.pc = "ejecutar"]
    <3>1. cpu'.pc = "ejecutar" /\ cpu'.op = "INSTRUCCION"
      BY <1>4, <2>2
    <3> QED
      BY <3>1 DEF EnCurso
  <2>3. CASE /\ cpu.op = "MARCO" /\ tabla' = tabla
             /\ cpu' = [cpu EXCEPT !.pc = "ejecutar", !.arg = tabla[cpu.pid][cpu.arg + 1]]
    <3>1. /\ cpu'.pc = "ejecutar" /\ cpu'.op = "MARCO" /\ cpu'.pid = cpu.pid
          /\ cpu'.arg = tabla[cpu.pid][cpu.arg + 1]
      BY <1>4, <2>3
    <3>2. cpu.arg = Pagina /\ acceso.op # "ninguna" /\ acceso.hechos < Len(acceso.datos)
      BY <1>2, <1>3, <2>3 DEF EnCurso
    <3> QED
      BY <1>7, <2>3, <3>1, <3>2 DEF EnCurso
  <2>4. CASE cpu.op = "RESIZE" /\ cpu' = CPULibre
    <3>1. cpu'.pc = "libre" /\ cpu'.op = "INSTRUCCION" /\ acceso.op = "ninguna"
      BY <1>2, <2>4 DEF EnCurso, CPULibre
    <3> QED
      BY <1>7, <3>1 DEF EnCurso
  <2> QED
    BY <1>3, <2>1, <2>2, <2>3, <2>4
<1>9. AccesoFiel'
  <2>1. CASE acceso.op = "ninguna"
    BY <1>2, <2>1 DEF AccesoFiel, traduccion, SinAcceso
  <2>2. CASE acceso.op # "ninguna"
    <3>1. /\ cpu.pid \in Pids /\ Vigente(cpu.pid) /\ acceso \in Accesos /\ acceso.hechos \in Nat
          /\ Fiel(cpu.pid, acceso, acceso.hechos)
      BY <2>2, DelAcceso
    <3>2. cpu'.pid = cpu.pid
      BY <1>2, <1>3, <1>4, <2>2 DEF EnCurso
    <3>3. vida'[cpu.pid] # "fin"
      BY <1>1, <3>1 DEF Vigente
    <3>4. \A p \in Pids : Vigente(p) /\ vida'[p] # "fin" =>
            \A a \in Accesos, n \in Nat : Fiel(p, a, n) => Fiel(p, a, n)'
      BY <1>1, <1>2, FielQueda
    <3>5. \A a \in Accesos, n \in Nat : Fiel(cpu.pid, a, n) => Fiel(cpu.pid, a, n)'
      BY <3>1, <3>2, <3>3, <3>4
    <3> QED
      BY <1>7, <2>2, <3>1, <3>5 DEF AccesoFiel
  <2> QED
    BY <2>1, <2>2
<1>10. EscrituraFiel'
  BY DEF EscrituraFiel, traduccion, SinEscritura, SinAcceso
<1>11. TLBAlDia'
  BY <1>1, <1>2, TLBQueda DEF traduccion
<1> QED
  BY <1>5, <1>6, <1>8, <1>9, <1>10, <1>11 DEF EnTraduccion

\* The kernel's and the programs' steps that ask, or that ask nothing.
LEMMA ClientesTraducen ==
  ASSUME InvTraduccion, EnMemoria', UNCHANGED traduccion,
         \/ \E p \in Pids : CrearProceso(p) \/ TerminarProceso(p) \/ PedirInstruccion(p)
         \/ acceso = SinAcceso /\ SinPedido
         \/ acceso = SinAcceso /\ \E t \in Tamanios : PedirResize(t) /\ t >= tamanio[cpu.pid]
         \/ FallaTLB
  PROVE  EnTraduccion'
<1>1. /\ TypeOK /\ TypeOK' /\ DeLaCPU /\ EnMemoria /\ Inv /\ Ordenado /\ ~mezclado /\ CPUEspera
      /\ TiposTraduccion /\ Cubren /\ EnCurso /\ AccesoFiel /\ TLBAlDia
  BY DEF InvTraduccion, EnMemoria, EnTraduccion, Inv, Ordenado
<1>2. /\ Conserva /\ UNCHANGED paginas /\ hiloCPU' = hiloCPU
      /\ \A p \in Pids : vida'[p] # vida[p] => vida[p] = "no" \/ (vida'[p] = "fin" /\ cpu.pid # p)
  BY <1>1, ConservaClientes DEF FallaTLB
<1>3. cpu \in [pc : {"libre", "espera", "ejecutar"}, pid : Pids \cup {NULL},
               op : {"INSTRUCCION", "RESIZE", "MARCO"}, arg : Nat]
  BY <1>1 DEF TypeOK
<1>4. \/ cpu' = cpu
      \/ /\ cpu.pc # "espera" /\ acceso.op = "ninguna"
         /\ cpu'.op = "INSTRUCCION"
      \/ /\ cpu.pc = "ejecutar" /\ acceso.op = "ninguna" /\ cpu'.pc = "espera"
         /\ cpu'.op = "RESIZE" /\ cpu'.pid = cpu.pid /\ cpu'.arg >= tamanio[cpu.pid]
      \/ /\ Traduciendo /\ cpu'.pc = "espera" /\ cpu'.op = "MARCO" /\ cpu'.pid = cpu.pid
         /\ cpu'.arg = Pagina
  <2>1. ASSUME NEW p \in Pids, CrearProceso(p) \/ TerminarProceso(p) PROVE cpu' = cpu
    BY <2>1 DEF CrearProceso, TerminarProceso
  <2>2. ASSUME NEW p \in Pids, PedirInstruccion(p)
        PROVE  cpu.pc # "espera" /\ acceso.op = "ninguna" /\ cpu'.op = "INSTRUCCION"
    BY <1>1, <2>2 DEF PedirInstruccion, EnCurso
  <2>3. CASE acceso = SinAcceso /\ SinPedido
    BY <2>3 DEF SinPedido, SinAcceso, CPULibre
  <2>4. CASE acceso = SinAcceso /\ \E t \in Tamanios : PedirResize(t) /\ t >= tamanio[cpu.pid]
    BY <1>3, <2>4 DEF PedirResize, SinAcceso
  <2>5. CASE FallaTLB
    BY <1>3, <2>5 DEF FallaTLB, PedirMarco
  <2> QED
    BY <2>1, <2>2, <2>3, <2>4, <2>5
<1>5. Pagina' = Pagina /\ acceso' = acceso
  BY DEF traduccion, Pagina, Direccion
<1>6. UNCHANGED <<struct, tabla, tamanio>>
  BY <1>2 DEF paginas
<1>7. TiposTraduccion'
  BY <1>1 DEF TiposTraduccion, traduccion
<1>8. Cubren'
  <2>1. ASSUME NEW p \in Pids, Vigente(p)' PROVE Len(tabla'[p]) >= Paginas(tamanio'[p])
    <3>1. CASE Vigente(p)
      BY <1>1, <1>6, <3>1 DEF Cubren
    <3>2. CASE tamanio'[p] = 0
      BY <1>1, <3>2, SinPaginas, LenProperties DEF TypeOK
    <3> QED
      BY <1>2, <2>1, <3>1, <3>2 DEF Conserva
  <2>2. hiloCPU.pc = "tomar" => cpu' = cpu
    BY <1>1, <1>4 DEF CPUEspera, Traduciendo
  <2> QED
    BY <1>1, <1>2, <1>6, <2>1, <2>2 DEF Cubren
<1>9. EnCurso'
  <2>1. CASE cpu' = cpu
    BY <1>1, <1>5, <1>6, <2>1 DEF EnCurso
  <2>2. CASE acceso.op = "ninguna" /\ cpu'.op = "INSTRUCCION"
    BY <1>5, <2>2 DEF EnCurso
  <2>3. CASE /\ cpu.pc = "ejecutar" /\ acceso.op = "ninguna" /\ cpu'.pc = "espera"
             /\ cpu'.op = "RESIZE" /\ cpu'.pid = cpu.pid /\ cpu'.arg >= tamanio[cpu.pid]
    BY <1>1, <1>5, <1>6, <2>3 DEF EnCurso, DeLaCPU
  <2>4. CASE /\ Traduciendo /\ cpu'.pc = "espera" /\ cpu'.op = "MARCO" /\ cpu'.pid = cpu.pid
             /\ cpu'.arg = Pagina
    BY <1>1, <1>5, <1>6, <2>4 DEF EnCurso, DeLaCPU, Traduciendo
  <2> QED
    BY <1>4, <2>1, <2>2, <2>3, <2>4
<1>10. AccesoFiel'
  <2>1. CASE acceso.op = "ninguna"
    BY <1>1, <2>1, <1>5 DEF AccesoFiel
  <2>2. CASE acceso.op # "ninguna"
    <3>1. /\ cpu.pid \in Pids /\ Vigente(cpu.pid) /\ acceso \in Accesos /\ acceso.hechos \in Nat
          /\ Fiel(cpu.pid, acceso, acceso.hechos) /\ cpu.pc # "libre"
      BY <2>2, DelAcceso
    <3>2. cpu'.pid = cpu.pid
      BY <1>4, <2>2
    <3>3. vida'[cpu.pid] # "fin"
      <4>1. vida[cpu.pid] = "creado"
        BY <1>1, <3>1 DEF DeLaCPU
      <4> QED
        BY <1>2, <3>1, <4>1
    <3>4. \A p \in Pids : Vigente(p) /\ vida'[p] # "fin" =>
            \A a \in Accesos, n \in Nat : Fiel(p, a, n) => Fiel(p, a, n)'
      BY <1>1, <1>2, FielQueda
    <3>5. \A a \in Accesos, n \in Nat : Fiel(cpu.pid, a, n) => Fiel(cpu.pid, a, n)'
      BY <3>1, <3>2, <3>3, <3>4
    <3> QED
      BY <1>5, <2>2, <3>1, <3>5 DEF AccesoFiel
  <2> QED
    BY <2>1, <2>2
<1>11. EscrituraFiel'
  BY <1>2, <1>6, EscrituraQueda DEF traduccion
<1>12. TLBAlDia'
  BY <1>1, <1>2, TLBQueda DEF traduccion
<1> QED
  BY <1>7, <1>8, <1>9, <1>10, <1>11, <1>12 DEF EnTraduccion

\* One more entry: the others are those there were.
LEMMA EntradaCambiada ==
  ASSUME NEW s \in Seq(Entradas), NEW k, NEW e \in Entradas
  PROVE  /\ [s EXCEPT ![k] = e] \in Seq(Entradas)
         /\ DOMAIN [s EXCEPT ![k] = e] = DOMAIN s
         /\ \A i \in DOMAIN s : [s EXCEPT ![k] = e][i] \in {s[i], e}
<1> DEFINE n == Len(s)
           f == [s EXCEPT ![k] = e]
<1>1. n \in Nat /\ s \in [1 .. n -> Entradas]
  BY LenProperties
<1> HIDE DEF n
<1>2. f \in [1 .. n -> Entradas] /\ \A i \in 1 .. n : f[i] \in {s[i], e}
  BY <1>1
<1>3. DOMAIN f = 1 .. n /\ DOMAIN s = 1 .. n
  BY <1>1, <1>2
<1> HIDE DEF f
<1>4. f \in Seq(Entradas)
  BY <1>1, <1>2, ListaDeFuncion
<1> QED
  BY <1>2, <1>3, <1>4 DEF f

LEMMA AgregarBien ==
  ASSUME TiposTraduccion, NEW e \in Entradas
  PROVE  /\ Agregar(e) \in Seq(Entradas)
         /\ \A i \in DOMAIN Agregar(e) :
              Agregar(e)[i] = e \/ \E j \in DOMAIN tlb.entradas : Agregar(e)[i] = tlb.entradas[j]
<1> DEFINE s == tlb.entradas
<1>1. s \in Seq(Entradas) /\ tlb.size_tlb \in Nat
  BY DEF TiposTraduccion
<1>2. CASE tlb.size_tlb = 0
  <2>1. Agregar(e) = <<>>
    BY <1>2 DEF Agregar
  <2> QED
    BY <2>1
<1>3. CASE tlb.size_tlb # 0 /\ Len(s) < tlb.size_tlb
  <2>1. Agregar(e) = Append(s, e)
    BY <1>3 DEF Agregar
  <2> HIDE DEF s
  <2>2. Append(s, e) \in Seq(Entradas)
    BY <1>1
  <2>3. \A i \in DOMAIN Append(s, e) : Append(s, e)[i] = e \/ \E j \in DOMAIN s : Append(s, e)[i] = s[j]
    BY <1>1
  <2> QED
    BY <2>1, <2>2, <2>3 DEF s
<1>4. CASE tlb.size_tlb # 0 /\ ~(Len(s) < tlb.size_tlb) /\ tlb.algoritmo = "FIFO"
  <2>1. Agregar(e) = Append(Tail(s), e)
    BY <1>4 DEF Agregar
  <2>2. s # <<>>
    BY <1>1, <1>4
  <2> HIDE DEF s
  <2>3. /\ Tail(s) \in Seq(Entradas) /\ Len(Tail(s)) = Len(s) - 1
        /\ \A i \in 1 .. Len(Tail(s)) : Tail(s)[i] = s[i + 1]
    BY <1>1, <2>2
  <2>4. Append(Tail(s), e) \in Seq(Entradas)
    BY <2>3
  <2>5. ASSUME NEW i \in DOMAIN Append(Tail(s), e), i <= Len(Tail(s))
        PROVE  \E j \in DOMAIN s : Append(Tail(s), e)[i] = s[j]
    <3>1. i \in 1 .. Len(Tail(s)) /\ Append(Tail(s), e)[i] = Tail(s)[i]
      BY <2>3, <2>5
    <3>2. i + 1 \in DOMAIN s
      BY <1>1, <2>3, <3>1
    <3> QED
      BY <2>3, <3>1, <3>2
  <2>6. \A i \in DOMAIN Append(Tail(s), e) : i <= Len(Tail(s)) \/ Append(Tail(s), e)[i] = e
    BY <2>3
  <2> QED
    BY <2>1, <2>4, <2>5, <2>6 DEF s
<1>5. CASE tlb.size_tlb # 0 /\ ~(Len(s) < tlb.size_tlb) /\ tlb.algoritmo # "FIFO"
  <2>1. Agregar(e) = [s EXCEPT ![MenosUsada] = e]
    BY <1>5 DEF Agregar
  <2> QED
    BY <1>1, <2>1, EntradaCambiada
<1> QED
  BY <1>2, <1>3, <1>4, <1>5

\* A fragment is translated: the TLB has one more true entry, the access goes on.
LEMMA FragmentoTraduce ==
  ASSUME InvTraduccion, EnMemoria', Traduciendo, Fragmento(tabla[cpu.pid][Pagina + 1]),
         UNCHANGED <<struct, tabla, tamanio, vida, hiloCPU, reloj, memoriaUsuario, escritura>>,
         cpu'.pc = cpu.pc, cpu'.pid = cpu.pid, cpu'.op = "INSTRUCCION",
         NEW s \in Seq(Entradas), tlb' = [tlb EXCEPT !.entradas = s],
         \A i \in DOMAIN s : \/ /\ s[i].pid = cpu.pid /\ s[i].pagina = Pagina
                                /\ s[i].marco = tabla[cpu.pid][Pagina + 1]
                             \/ \E j \in DOMAIN tlb.entradas : s[i] = tlb.entradas[j]
  PROVE  EnTraduccion'
<1>1. /\ TypeOK /\ TypeOK' /\ CPUEspera
      /\ TiposTraduccion /\ Cubren /\ EnCurso /\ AccesoFiel /\ EscrituraFiel /\ TLBAlDia
  BY DEF InvTraduccion, EnMemoria, EnTraduccion, Inv, Ordenado
<1>2. /\ acceso' \in Accesos /\ Fiel(cpu.pid, acceso', acceso'.hechos)
      /\ acceso'.op = acceso.op
  BY FragmentoFiel
<1>3. cpu.pc = "ejecutar" /\ acceso.op # "ninguna" /\ hiloCPU.pc # "tomar"
  BY <1>1 DEF Traduciendo, CPUEspera
<1>4. TiposTraduccion'
  <2>1. tlb' \in [algoritmo : {"FIFO", "LRU"}, size_tlb : Nat, entradas : Seq(Entradas)]
    BY <1>1 DEF TiposTraduccion
  <2> QED
    BY <1>1, <1>2, <2>1 DEF TiposTraduccion
<1>5. Cubren'
  BY <1>1, <1>3 DEF Cubren, Vigente
<1>6. EnCurso'
  BY <1>2, <1>3 DEF EnCurso
<1>7. AccesoFiel'
  <2>1. Fiel(cpu.pid, acceso, acceso.hechos)'
    BY <1>2 DEF Fiel, Fisica
  <2> QED
    BY <1>2, <1>3, <2>1 DEF AccesoFiel
<1>8. EscrituraFiel'
  BY <1>1 DEF EscrituraFiel, Fiel, Fisica
<1>9. TLBAlDia'
  <2>1. tlb'.entradas = s
    BY <1>1 DEF TiposTraduccion
  <2>2. ASSUME NEW i \in DOMAIN s, vida[s[i].pid] # "fin"
        PROVE  s[i].pagina < Len(tabla[s[i].pid]) /\ tabla[s[i].pid][s[i].pagina + 1] = s[i].marco
    <3>1. CASE /\ s[i].pid = cpu.pid /\ s[i].pagina = Pagina
               /\ s[i].marco = tabla[cpu.pid][Pagina + 1]
      <4>1. Pagina \in Nat /\ Pagina + 1 \in 1 .. Len(tabla[cpu.pid])
        BY DelFragmento
      <4>2. cpu.pid \in Pids
        BY <1>3, DelAcceso
      <4>3. Len(tabla[cpu.pid]) \in Nat
        BY <1>1, <4>2, LenProperties DEF TypeOK
      <4>4. Pagina < Len(tabla[cpu.pid])
        BY <4>1, <4>3
      <4> QED
        BY <3>1, <4>4
    <3>2. CASE \E j \in DOMAIN tlb.entradas : s[i] = tlb.entradas[j]
      BY <1>1, <2>2, <3>2 DEF TLBAlDia
    <3> QED
      BY <3>1, <3>2
  <2> QED
    BY <2>1, <2>2 DEF TLBAlDia
<1> QED
  BY <1>4, <1>5, <1>6, <1>7, <1>8, <1>9 DEF EnTraduccion

LEMMA EntradaBien ==
  ASSUME TiposTraduccion, NEW p \in Pids, NEW n \in Nat, NEW m \in Marcos
  PROVE  /\ Entrada(p, n, m) \in Entradas
         /\ Entrada(p, n, m).pid = p /\ Entrada(p, n, m).pagina = n /\ Entrada(p, n, m).marco = m
  BY DEF TiposTraduccion, Entrada, Entradas

LEMMA RecibirMarcoTraduce ==
  ASSUME InvTraduccion, EnMemoria', RecibirMarco
  PROVE  EnTraduccion'
<1> DEFINE p == cpu.pid
           m == tabla[p][Pagina + 1]
           e == Entrada(p, Pagina, m)
<1>1. TypeOK /\ TiposTraduccion /\ EnCurso /\ Traduciendo /\ cpu.op = "MARCO" /\ cpu.pc = "ejecutar"
  BY DEF InvTraduccion, EnMemoria, EnTraduccion, Inv, RecibirMarco, Traduciendo
<1>2. p \in Pids /\ Pagina \in Nat /\ m \in Marcos
  BY <1>1, DelAcceso, DelFragmento DEF Traduciendo
<1>3. cpu.arg = m
  BY <1>1 DEF EnCurso
<1>4. e \in Entradas /\ e.pid = p /\ e.pagina = Pagina /\ e.marco = m
  BY <1>1, <1>2, EntradaBien
<1>5. /\ Agregar(e) \in Seq(Entradas)
      /\ \A i \in DOMAIN Agregar(e) :
           Agregar(e)[i] = e \/ \E j \in DOMAIN tlb.entradas : Agregar(e)[i] = tlb.entradas[j]
  BY <1>1, <1>4, AgregarBien
<1>6. /\ tlb' = [tlb EXCEPT !.entradas = Agregar(e)] /\ Fragmento(m)
      /\ cpu' = [cpu EXCEPT !.op = "INSTRUCCION", !.arg = 0]
      /\ UNCHANGED <<struct, tabla, tamanio, vida, hiloCPU, reloj, memoriaUsuario, escritura>>
  BY <1>3 DEF RecibirMarco, paginas
<1>7. cpu'.pc = cpu.pc /\ cpu'.pid = cpu.pid /\ cpu'.op = "INSTRUCCION"
  BY <1>1, <1>6 DEF TypeOK
<1>8. \A i \in DOMAIN Agregar(e) :
        \/ /\ Agregar(e)[i].pid = p /\ Agregar(e)[i].pagina = Pagina /\ Agregar(e)[i].marco = m
        \/ \E j \in DOMAIN tlb.entradas : Agregar(e)[i] = tlb.entradas[j]
  BY <1>4, <1>5
<1> HIDE DEF e
<1> QED
  BY <1>1, <1>5, <1>6, <1>7, <1>8, FragmentoTraduce

LEMMA AciertoTraduce ==
  ASSUME InvTraduccion, EnMemoria', AciertoTLB
  PROVE  EnTraduccion'
<1> DEFINE p == cpu.pid
           m == tabla[p][Pagina + 1]
           e == Entrada(p, Pagina, m)
<1>1. /\ TypeOK /\ TiposTraduccion /\ EnCurso /\ TLBAlDia /\ Traduciendo /\ cpu.op # "MARCO"
      /\ cpu.pc = "ejecutar" /\ tlb.entradas \in Seq(Entradas)
  BY DEF InvTraduccion, EnMemoria, EnTraduccion, TiposTraduccion, Inv, AciertoTLB, Traduciendo
<1>2. p \in Pids /\ Pagina \in Nat /\ m \in Marcos /\ vida[p] # "fin"
  BY <1>1, DelAcceso, DelFragmento DEF Traduciendo, Vigente
<1>3. PICK i \in Aciertos(p, Pagina) :
        /\ tlb' = [tlb EXCEPT !.entradas[i] = Entrada(p, Pagina, tlb.entradas[i].marco)]
        /\ Fragmento(tlb.entradas[i].marco)
  BY DEF AciertoTLB
<1>4. i \in DOMAIN tlb.entradas /\ tlb.entradas[i].pid = p /\ tlb.entradas[i].pagina = Pagina
  BY <1>3 DEF Aciertos
<1>5. tlb.entradas[i].marco = m
  BY <1>1, <1>2, <1>4 DEF TLBAlDia
<1>6. e \in Entradas /\ e.pid = p /\ e.pagina = Pagina /\ e.marco = m
  BY <1>1, <1>2, EntradaBien
<1> DEFINE s == [tlb.entradas EXCEPT ![i] = e]
<1>7. s \in Seq(Entradas) /\ DOMAIN s = DOMAIN tlb.entradas /\ \A k \in DOMAIN s : s[k] \in {tlb.entradas[k], e}
  BY <1>1, <1>6, EntradaCambiada
<1>8. tlb' = [tlb EXCEPT !.entradas = s] /\ Fragmento(m)
  BY <1>3, <1>5
<1>9. \A k \in DOMAIN s :
        \/ s[k].pid = p /\ s[k].pagina = Pagina /\ s[k].marco = m
        \/ \E j \in DOMAIN tlb.entradas : s[k] = tlb.entradas[j]
  <2> HIDE DEF s, e
  <2> QED
    BY <1>6, <1>7
<1>10. UNCHANGED <<struct, tabla, tamanio, vida, hiloCPU, cpu, reloj, memoriaUsuario, escritura>>
  BY DEF AciertoTLB, vars, paginas
<1>11. cpu'.pc = cpu.pc /\ cpu'.pid = cpu.pid /\ cpu'.op = "INSTRUCCION"
  BY <1>1, <1>10 DEF EnCurso, TypeOK
<1> HIDE DEF s, e
<1> QED
  BY <1>1, <1>7, <1>8, <1>9, <1>10, <1>11, FragmentoTraduce

\* What a step that leaves the pages and the life of the processes leaves of the rest.
LEMMA PaginasQuietas ==
  ASSUME InvTraduccion, UNCHANGED <<struct, tabla, tamanio, vida, hiloCPU, tlb>>,
         hiloCPU.pc = "tomar" => cpu' = cpu
  PROVE  /\ Cubren' /\ TLBAlDia'
         /\ \A p \in Pids, a \in Accesos, n \in Nat : Fiel(p, a, n)' <=> Fiel(p, a, n)
         /\ escritura' = escritura => EscrituraFiel'
<1>1. Cubren /\ TLBAlDia /\ EscrituraFiel
  BY DEF InvTraduccion, EnTraduccion
<1>2. Cubren'
  BY <1>1 DEF Cubren, Vigente
<1>3. TLBAlDia'
  BY <1>1 DEF TLBAlDia
<1>4. \A p \in Pids, a \in Accesos, n \in Nat : Fiel(p, a, n)' <=> Fiel(p, a, n)
  BY DEF Fiel, Fisica
<1>5. escritura' = escritura => EscrituraFiel'
  BY <1>1 DEF EscrituraFiel, Fiel, Fisica
<1> QED
  BY <1>2, <1>3, <1>4, <1>5

LEMMA IniciarTraduce ==
  ASSUME InvTraduccion, NEW op \in {"MOV_IN", "MOV_OUT"}, NEW dir \in DOMAIN memoriaUsuario,
         NEW d \in Datos, IniciarAcceso(op, dir, d)
  PROVE  EnTraduccion'
<1>1. /\ TypeOK /\ TiposTraduccion /\ EnCurso /\ AccesoFiel
  BY DEF InvTraduccion, EnMemoria, EnTraduccion, Inv
<1>2. /\ cpu.pc = "ejecutar" /\ acceso.op = "ninguna" /\ dir + Len(d) <= tamanio[cpu.pid]
      /\ acceso' = [op |-> op, dir |-> dir, datos |-> d, hechos |-> 0, lista |-> <<>>]
      /\ UNCHANGED <<struct, tabla, tamanio, vida, hiloCPU, cpu, tlb, reloj, memoriaUsuario, escritura>>
  BY DEF IniciarAcceso, vars, paginas
<1>3. dir \in Nat /\ d \in Seq(Nat) /\ Len(d) \in Nat
  <2>1. DOMAIN memoriaUsuario = Direcciones
    BY <1>1 DEF TiposTraduccion
  <2>2. d \in Seq(Nat)
    BY ConstantesTraduccion
  <2> QED
    BY <2>1, <2>2, LenProperties, TamPaginaPositivo DEF Direcciones
<1>4. Cubren' /\ TLBAlDia' /\ EscrituraFiel'
  BY <1>2, PaginasQuietas
<1>5. acceso' \in Accesos
  BY <1>2, <1>3 DEF Accesos
<1>6. TiposTraduccion'
  BY <1>1, <1>2, <1>5 DEF TiposTraduccion
<1>7. EnCurso'
  BY <1>1, <1>2 DEF EnCurso
<1>8. AccesoFiel'
  <2>1. acceso'.op # "ninguna" /\ acceso'.hechos = 0 /\ acceso'.dir = dir /\ acceso'.datos = d
        /\ acceso'.lista = <<>>
    BY <1>2
  <2>2. Fiel(cpu.pid, acceso, acceso.hechos)'
    BY <1>2, <1>3, <2>1 DEF Fiel
  <2> QED
    BY <2>1, <2>2 DEF AccesoFiel
<1> QED
  BY <1>4, <1>6, <1>7, <1>8 DEF EnTraduccion

LEMMA EnviarTraduce ==
  ASSUME InvTraduccion, EnviarMovOut
  PROVE  EnTraduccion'
<1> DEFINE p == cpu.pid
<1>1. /\ TypeOK /\ TiposTraduccion /\ EnCurso /\ Cubren /\ CPUEspera /\ MarcoUnico
  BY DEF InvTraduccion, EnMemoria, EnTraduccion, Inv
<1>2. /\ cpu.pc = "ejecutar" /\ acceso.op = "MOV_OUT" /\ acceso.hechos = Len(acceso.datos)
      /\ cpu' = CPULibre /\ acceso' = SinAcceso /\ escritura' = [pid |-> p, acceso |-> acceso]
      /\ UNCHANGED <<struct, tabla, tamanio, vida, hiloCPU, tlb, reloj, memoriaUsuario>>
  BY DEF EnviarMovOut, Traducido, SinPedido, ClienteQuieto, paginas
<1>3. /\ p \in Pids /\ Vigente(p) /\ acceso \in Accesos /\ Len(acceso.datos) \in Nat
      /\ acceso.dir \in Nat /\ Fiel(p, acceso, Len(acceso.datos)) /\ tamanio[p] \in Nat
  BY <1>2, DelAcceso
<1>4. hiloCPU.pc # "tomar"
  BY <1>1, <1>2 DEF CPUEspera
<1>5. /\ Cubren' /\ TLBAlDia'
      /\ \A q \in Pids, a \in Accesos, n \in Nat : Fiel(q, a, n)' <=> Fiel(q, a, n)
  BY <1>2, <1>4, PaginasQuietas
<1>6. TiposTraduccion'
  <2>1. SinAcceso \in Accesos
    BY DEF SinAcceso, Accesos
  <2>2. [pid |-> p, acceso |-> acceso] \in [pid : Pids \cup {NULL}, acceso : Accesos]
    BY <1>3
  <2> QED
    BY <1>1, <1>2, <2>1, <2>2 DEF TiposTraduccion
<1>7. EnCurso'
  BY <1>2 DEF EnCurso, CPULibre, SinAcceso
<1>8. AccesoFiel'
  BY <1>2 DEF AccesoFiel, SinAcceso
<1>9. EscrituraFiel'
  <2>1. escritura'.pid = p /\ escritura'.acceso = acceso
    BY <1>2
  <2>2. Len(acceso.lista) = Len(acceso.datos)
    BY <1>3 DEF Fiel
  <2>3. ASSUME NEW q \in Pids \ {p}, NEW i \in 1 .. Len(tabla[q]), NEW k \in 1 .. Len(acceso.lista)
        PROVE  tabla[q][i] # acceso.lista[k] \div TAM_PAGINA
    <3>1. acceso.lista[k] = Fisica(p, acceso.dir + k) /\ acceso.dir + k \in 1 .. tamanio[p]
      BY <1>3, <2>2 DEF Fiel
    <3>2. \A j \in 1 .. tamanio[p] : tabla[q][i] # Fisica(p, j) \div TAM_PAGINA
      BY <1>1, <1>3, FisicaAjena
    <3> QED
      BY <3>1, <3>2
  <2>4. struct'[p] = "listo"
    BY <1>2, <1>3 DEF Vigente
  <2>5. Fiel(escritura.pid, escritura.acceso, Len(escritura.acceso.datos))'
    BY <1>2, <1>3, <2>1 DEF Fiel, Fisica
  <2> QED
    BY <1>2, <1>3, <2>1, <2>2, <2>3, <2>4, <2>5 DEF EscrituraFiel
<1> QED
  BY <1>5, <1>6, <1>7, <1>8, <1>9 DEF EnTraduccion

\* The addresses of a write are as many as its bytes.
LEMMA EscribirEnTipo ==
  ASSUME TiposTraduccion, EscrituraFiel, escritura # SinEscritura
  PROVE  escribir_memoria(escritura.acceso.lista, escritura.acceso.datos) \in [Direcciones -> Nat]
<1> DEFINE l == escritura.acceso.lista
           v == escritura.acceso.datos
<1>1. /\ l \in Seq(Nat) /\ v \in Seq(Nat) /\ memoriaUsuario \in [Direcciones -> Nat]
  BY DEF TiposTraduccion, Accesos
<1>2. Len(l) = Len(v)
  BY DEF EscrituraFiel
<1> HIDE DEF l, v
<1>3. DOMAIN l = 1 .. Len(v) /\ \A k \in 1 .. Len(v) : v[k] \in Nat
  BY <1>1, <1>2
<1>4. ASSUME NEW b \in Range(l) PROVE v[CHOOSE k \in DOMAIN l : l[k] = b] \in Nat
  <2>1. \E k \in DOMAIN l : l[k] = b
    BY DEF Range
  <2>2. (CHOOSE k \in DOMAIN l : l[k] = b) \in DOMAIN l
    BY <2>1
  <2> QED
    BY <1>3, <2>2
<1>5. escribir_memoria(l, v) \in [Direcciones -> Nat]
  BY <1>1, <1>4 DEF escribir_memoria
<1> QED
  BY <1>5 DEF l, v

LEMMA EscribirTraduce ==
  ASSUME InvTraduccion, EscribirMemoria
  PROVE  EnTraduccion'
<1>1. /\ TiposTraduccion /\ EnCurso /\ AccesoFiel /\ EscrituraFiel /\ escritura # SinEscritura
  BY DEF InvTraduccion, EnMemoria, EnTraduccion, EscribirMemoria
<1>2. /\ memoriaUsuario' = escribir_memoria(escritura.acceso.lista, escritura.acceso.datos)
      /\ escritura' = SinEscritura
      /\ UNCHANGED <<struct, tabla, tamanio, vida, hiloCPU, cpu, tlb, reloj, acceso>>
  BY DEF EscribirMemoria, vars, paginas
<1>3. Cubren' /\ TLBAlDia'
  BY <1>2, PaginasQuietas
<1>4. TiposTraduccion'
  <2>1. SinEscritura \in [pid : Pids \cup {NULL}, acceso : Accesos]
    BY DEF SinEscritura, SinAcceso, Accesos
  <2> QED
    BY <1>1, <1>2, <2>1, EscribirEnTipo DEF TiposTraduccion
<1>5. EnCurso'
  BY <1>1, <1>2 DEF EnCurso, Pagina, Direccion
<1>6. AccesoFiel'
  BY <1>1, <1>2 DEF AccesoFiel, Fiel, Fisica
<1>7. EscrituraFiel'
  BY <1>2 DEF EscrituraFiel
<1> QED
  BY <1>3, <1>4, <1>5, <1>6, <1>7 DEF EnTraduccion

LEMMA LeerTraduce ==
  ASSUME InvTraduccion, LeerMemoria
  PROVE  EnTraduccion'
<1>1. TiposTraduccion /\ CPUEspera
  BY DEF InvTraduccion, EnMemoria, EnTraduccion, Inv
<1>2. /\ cpu.pc = "ejecutar" /\ cpu' = CPULibre /\ acceso' = SinAcceso
      /\ UNCHANGED <<struct, tabla, tamanio, vida, hiloCPU, tlb, reloj, memoriaUsuario, escritura>>
  BY DEF LeerMemoria, Traducido, SinPedido, ClienteQuieto, paginas
<1>3. Cubren' /\ TLBAlDia' /\ EscrituraFiel'
  BY <1>1, <1>2, PaginasQuietas DEF CPUEspera
<1>4. TiposTraduccion'
  BY <1>1, <1>2 DEF TiposTraduccion, SinAcceso, Accesos
<1>5. EnCurso' /\ AccesoFiel'
  BY <1>2 DEF EnCurso, AccesoFiel, CPULibre, SinAcceso
<1> QED
  BY <1>3, <1>4, <1>5 DEF EnTraduccion

LEMMA QuietoTraduce ==
  ASSUME InvTraduccion, PasaSegundo \/ UNCHANGED todo
  PROVE  EnTraduccion'
<1>1. TiposTraduccion /\ EnCurso /\ AccesoFiel
  BY DEF InvTraduccion, EnTraduccion
<1>2. /\ reloj' \in Nat
      /\ UNCHANGED <<struct, tabla, tamanio, vida, hiloCPU, cpu, tlb, memoriaUsuario, acceso, escritura>>
  BY <1>1 DEF PasaSegundo, TiposTraduccion, todo, traduccion, vars, paginas
<1>3. Cubren' /\ TLBAlDia' /\ EscrituraFiel'
  BY <1>2, PaginasQuietas
<1>4. TiposTraduccion'
  BY <1>1, <1>2 DEF TiposTraduccion
<1>5. EnCurso' /\ AccesoFiel'
  BY <1>1, <1>2 DEF EnCurso, AccesoFiel, Fiel, Fisica, Pagina, Direccion
<1> QED
  BY <1>3, <1>4, <1>5 DEF EnTraduccion

LEMMA InvTraduccionInicial == InitTraduccion => InvTraduccion
<1> SUFFICES ASSUME InitTraduccion PROVE InvTraduccion
  OBVIOUS
<1>1. Init
  BY DEF InitTraduccion
<1>2. EnMemoria
  BY <1>1, InvInicial, OrdenadoInicial, MarcoUnicoInicial DEF EnMemoria, Init
<1>3. TiposTraduccion
  <2>1. PICK c \in ConfiguracionesTLB :
          tlb = [algoritmo |-> c.algoritmo, size_tlb |-> c.size_tlb, entradas |-> <<>>]
    BY DEF InitTraduccion
  <2>2. tlb \in [algoritmo : {"FIFO", "LRU"}, size_tlb : Nat, entradas : Seq(Entradas)]
    BY <2>1, ConstantesTraduccion
  <2>3. SinAcceso \in Accesos
    BY DEF SinAcceso, Accesos
  <2> QED
    BY <2>2, <2>3 DEF InitTraduccion, TiposTraduccion, SinEscritura, Direcciones
<1>4. Cubren
  BY <1>1 DEF Cubren, Vigente, Init, HiloEnRecv
<1>5. EnCurso /\ AccesoFiel /\ EscrituraFiel
  BY <1>1 DEF InitTraduccion, Init, EnCurso, AccesoFiel, EscrituraFiel, CPULibre, SinAcceso
<1>6. TLBAlDia
  <2>1. tlb.entradas = <<>>
    BY DEF InitTraduccion
  <2>2. DOMAIN <<>> = {}
    OBVIOUS
  <2> QED
    BY <2>1, <2>2 DEF TLBAlDia
<1> QED
  BY <1>2, <1>3, <1>4, <1>5, <1>6 DEF InvTraduccion, EnTraduccion

LEMMA InvTraduccionPaso ==
  ASSUME ~PuedeEncoger, InvTraduccion, [NextTraduccion]_todo
  PROVE  InvTraduccion'
<1>1. EnMemoria'
  BY MemoriaQueda
<1> SUFFICES EnTraduccion'
  BY <1>1 DEF InvTraduccion
<1>2. CASE Servidor /\ UNCHANGED traduccion
  BY <1>1, <1>2, HiloKernelTraduce, HiloCPUTraduce DEF Servidor
<1>3. CASE Programas /\ UNCHANGED traduccion
  BY <1>1, <1>3, ClientesTraducen DEF Programas
<1>4. CASE FallaTLB
  BY <1>1, <1>4, ClientesTraducen DEF FallaTLB
<1>5. CASE PasaSegundo \/ UNCHANGED todo
  BY <1>5, QuietoTraduce
<1>6. ASSUME NEW op \in {"MOV_IN", "MOV_OUT"}, NEW dir \in DOMAIN memoriaUsuario,
             NEW d \in Datos, IniciarAcceso(op, dir, d)
      PROVE  EnTraduccion'
  BY <1>6, IniciarTraduce
<1>7. CASE AciertoTLB \/ RecibirMarco
  BY <1>1, <1>7, AciertoTraduce, RecibirMarcoTraduce
<1>8. CASE EnviarMovOut \/ EscribirMemoria \/ LeerMemoria
  BY <1>8, EnviarTraduce, EscribirTraduce, LeerTraduce
<1> QED
  BY <1>2, <1>3, <1>4, <1>5, <1>6, <1>7, <1>8 DEF NextTraduccion

\* While no program asks for less memory than it has, what the TLB says of a process
\* that has not ended is what its page table says, with either algorithm, through
\* growths, ends of processes and the reuse of their frames.
THEOREM TLBFiel ==
  ASSUME ~PuedeEncoger
  PROVE  SpecTraduccion => []TLBAlDia
<1>1. InvTraduccion => TLBAlDia
  BY DEF InvTraduccion, EnTraduccion
<1>2. InvTraduccion /\ [NextTraduccion]_todo => InvTraduccion'
  BY InvTraduccionPaso
<1> QED
  BY <1>1, <1>2, InvTraduccionInicial, PTL DEF SpecTraduccion

-----------------------------------------------------------------------------
(* The translation implements EspacioLogico.                                *)

\* Byte i of process p, as its program sees it.
Byte(p, i) == IF escritura.pid = p /\ i - escritura.acceso.dir \in DOMAIN escritura.acceso.datos
              THEN escritura.acceso.datos[i - escritura.acceso.dir]
              ELSE memoriaUsuario[Fisica(p, i)]

BytesBien ==
  \A p \in Pids :
    /\ Vigente(p) => /\ Espacio[p] \in Seq(Nat) /\ Len(Espacio[p]) = tamanio[p]
                     /\ \A i \in 1 .. tamanio[p] : Espacio[p][i] = Byte(p, i)
                     /\ Espacio[p] = [i \in 1 .. tamanio[p] |-> Byte(p, i)]
    /\ ~Vigente(p) => Espacio[p] = <<>>

LEMMA BytesDe == InvTraduccion => BytesBien
<1>1. \A p \in Pids : ~Vigente(p) => Espacio[p] = <<>>
  BY DEF Espacio, Vigente
<1>2. SUFFICES ASSUME InvTraduccion, NEW p \in Pids, Vigente(p)
      PROVE /\ Espacio[p] \in Seq(Nat) /\ Len(Espacio[p]) = tamanio[p]
            /\ \A i \in 1 .. tamanio[p] : Espacio[p][i] = Byte(p, i)
            /\ Espacio[p] = [i \in 1 .. tamanio[p] |-> Byte(p, i)]
  BY <1>1 DEF BytesBien
<1>3. Espacio[p] = [i \in 1 .. tamanio[p] |-> Byte(p, i)]
  BY <1>2 DEF Espacio, Vigente, Bytes, Byte
<1>4. TypeOK /\ Cubren /\ TiposTraduccion
  BY <1>2 DEF InvTraduccion, EnMemoria, EnTraduccion, Inv
<1>5. ASSUME NEW i \in 1 .. tamanio[p] PROVE Byte(p, i) \in Nat
  <2>1. Fisica(p, i) \in Direcciones
    BY <1>2, <1>4, FisicaEnSuMarco
  <2>2. escritura.acceso.datos \in Seq(Nat)
    BY <1>4 DEF TiposTraduccion, Accesos
  <2>3. memoriaUsuario[Fisica(p, i)] \in Nat
    BY <1>4, <2>1 DEF TiposTraduccion
  <2>4. \A k \in DOMAIN escritura.acceso.datos : escritura.acceso.datos[k] \in Nat
    BY <2>2
  <2> QED
    BY <2>3, <2>4 DEF Byte
<1>6. Espacio[p] \in [1 .. tamanio[p] -> Nat]
  BY <1>3, <1>5
<1>7. tamanio[p] \in Nat
  BY <1>4 DEF TypeOK
<1>8. Espacio[p] \in Seq(Nat) /\ Len(Espacio[p]) = tamanio[p]
  BY <1>6, <1>7, ListaDeFuncion
<1> QED
  BY <1>3, <1>8

\* The order stays when the access does, and the CPU's process with it.
LEMMA OrdenQueda ==
  ASSUME InvTraduccion, acceso' = acceso, acceso.op # "ninguna" => cpu'.pid = cpu.pid
  PROVE  Orden' = Orden
<1>1. acceso.op = "ninguna" => acceso = SinAcceso
  BY DEF InvTraduccion, EnTraduccion, AccesoFiel
<1> QED
  BY <1>1 DEF Orden

\* What is written and where it goes stays, so the bytes of a process do.
LEMMA BytesQuedan ==
  ASSUME InvTraduccion, Conserva, memoriaUsuario' = memoriaUsuario, escritura' = escritura,
         NEW p \in Pids, Vigente(p), vida'[p] # "fin"
  PROVE  /\ Vigente(p)' /\ tamanio'[p] >= tamanio[p]
         /\ \A i \in 1 .. tamanio[p] : Byte(p, i)' = Byte(p, i)
<1>1. TypeOK /\ Cubren
  BY DEF InvTraduccion, EnMemoria, EnTraduccion, Inv
<1>2. /\ struct'[p] = "listo" /\ tamanio'[p] >= tamanio[p]
      /\ \A i \in 1 .. Len(tabla[p]) : tabla'[p][i] = tabla[p][i]
  BY DEF Conserva
<1>3. ASSUME NEW i \in 1 .. tamanio[p] PROVE Byte(p, i)' = Byte(p, i)
  <2>1. (i - 1) \div TAM_PAGINA + 1 \in 1 .. Len(tabla[p])
    BY <1>1, FisicaEnSuMarco
  <2>2. Fisica(p, i)' = Fisica(p, i)
    BY <1>2, <2>1 DEF Fisica
  <2> QED
    BY <2>2 DEF Byte
<1> QED
  BY <1>2, <1>3 DEF Vigente

LEMMA PrefijoDe ==
  ASSUME NEW s \in Seq(Nat), NEW t \in Seq(Nat), Len(s) <= Len(t),
         \A i \in 1 .. Len(s) : t[i] = s[i]
  PROVE  IsPrefix(s, t)
<1> DEFINE n == Len(s)
           a == SubSeq(s, 1, n)
           b == SubSeq(t, 1, n)
<1>1. /\ n \in Nat /\ n \in Int /\ 1 \in Int /\ Len(t) \in Nat /\ n - 1 + 1 = n
      /\ (IF 1 <= n THEN n - 1 + 1 ELSE 0) = n
      /\ \A i \in 1 .. n : s[i] \in Nat /\ t[i] \in Nat
  BY LenProperties
<1>2. /\ a \in Seq(Nat) /\ Len(a) = IF 1 <= n THEN n - 1 + 1 ELSE 0
      /\ \A i \in 1 .. n - 1 + 1 : a[i] = s[1 + i - 1]
  <2> HIDE DEF n
  <2> QED
    BY <1>1, SubSeqProperties
<1>3. /\ b \in Seq(Nat) /\ Len(b) = IF 1 <= n THEN n - 1 + 1 ELSE 0
      /\ \A i \in 1 .. n - 1 + 1 : b[i] = t[1 + i - 1]
  <2> HIDE DEF n
  <2> QED
    BY <1>1, SubSeqProperties
<1> HIDE DEF a, b
<1>4. /\ Len(a) = n /\ Len(b) = n /\ \A i \in 1 .. n : a[i] = s[i] /\ b[i] = t[i]
  BY <1>1, <1>2, <1>3
<1>5. \A i \in 1 .. Len(a) : a[i] = b[i]
  BY <1>4
<1>6. a = b
  BY <1>2, <1>3, <1>4, <1>5, SeqEqual
<1> QED
  BY <1>6 DEF IsPrefix, a, b

LEMMA VacioPrefijo ==
  ASSUME NEW t \in Seq(Nat)
  PROVE  IsPrefix(<<>>, t)
<1>1. <<>> \in Seq(Nat) /\ Len(<<>>) = 0 /\ Len(t) \in Nat
  BY EmptySeq, LenProperties
<1>2. Len(<<>>) <= Len(t) /\ \A i \in 1 .. Len(<<>>) : t[i] = <<>>[i]
  BY <1>1
<1> QED
  BY <1>1, <1>2, PrefijoDe

\* Two states in which a process has the same bytes.
LEMMA MismosBytes ==
  ASSUME InvTraduccion, InvTraduccion', NEW p \in Pids, Vigente(p), Vigente(p)',
         tamanio'[p] = tamanio[p], \A i \in 1 .. tamanio[p] : Byte(p, i)' = Byte(p, i)
  PROVE  Espacio'[p] = Espacio[p]
<1>1. BytesBien
  BY BytesDe
<1>2. BytesBien'
  <2>1. (InvTraduccion => BytesBien)'
    BY BytesDe, PTL
  <2> QED
    BY <2>1
<1>3. Espacio[p] = [i \in 1 .. tamanio[p] |-> Byte(p, i)]
  BY <1>1 DEF BytesBien
<1>4. Espacio'[p] = [i \in 1 .. tamanio'[p] |-> Byte(p, i)']
  BY <1>2 DEF BytesBien
<1> QED
  BY <1>3, <1>4

LEMMA EspacioIgual ==
  ASSUME \A p \in Pids : Espacio'[p] = Espacio[p]
  PROVE  Espacio' = Espacio
BY DEF Espacio

\* No process ends nor changes its size, and a new one has no bytes.
LEMMA EspacioDe ==
  ASSUME InvTraduccion, InvTraduccion', Conserva, UNCHANGED <<memoriaUsuario, escritura>>,
         NEW p \in Pids, Vigente(p) => vida'[p] # "fin" /\ tamanio'[p] = tamanio[p]
  PROVE  Espacio'[p] = Espacio[p]
<1>1. CASE Vigente(p)
  <2>1. Vigente(p)' /\ \A i \in 1 .. tamanio[p] : Byte(p, i)' = Byte(p, i)
    BY <1>1, BytesQuedan
  <2> QED
    BY <1>1, <2>1, MismosBytes
<1>2. CASE ~Vigente(p)
  <2>1. BytesBien /\ BytesBien'
    <3>1. (InvTraduccion => BytesBien)'
      BY BytesDe, PTL
    <3> QED
      BY <3>1, BytesDe
  <2>2. Espacio[p] = <<>>
    BY <1>2, <2>1 DEF BytesBien
  <2>3. CASE ~Vigente(p)'
    BY <2>1, <2>2, <2>3 DEF BytesBien
  <2>4. CASE Vigente(p)'
    <3>1. tamanio'[p] = 0
      BY <1>2, <2>4 DEF Conserva
    <3>2. Espacio'[p] \in Seq(Nat) /\ Len(Espacio'[p]) = 0
      BY <2>1, <2>4, <3>1 DEF BytesBien
    <3>3. Espacio'[p] = <<>>
      BY <3>2, EmptySeq
    <3> QED
      BY <2>2, <3>3
  <2> QED
    BY <2>3, <2>4
<1> QED
  BY <1>1, <1>2

LEMMA PasoHiloKernel ==
  ASSUME InvTraduccion, InvTraduccion', HiloKernel, UNCHANGED traduccion
  PROVE  UNCHANGED Logico!logico
<1>1. /\ Conserva /\ UNCHANGED <<vida, cpu>>
      /\ \A p \in Pids : Vigente(p) => tamanio'[p] = tamanio[p]
  BY ConservaHiloKernel DEF InvTraduccion, EnMemoria
<1>2. UNCHANGED <<memoriaUsuario, escritura, acceso, registro>>
  BY DEF traduccion
<1>3. \A p \in Pids : Vigente(p) => vida'[p] # "fin" /\ tamanio'[p] = tamanio[p]
  BY <1>1 DEF Vigente
<1>4. \A p \in Pids : Espacio'[p] = Espacio[p]
  BY <1>1, <1>2, <1>3, EspacioDe
<1>5. Espacio' = Espacio
  BY <1>4, EspacioIgual
<1>6. Orden' = Orden
  BY <1>1, <1>2, OrdenQueda
<1> QED
  BY <1>2, <1>5, <1>6 DEF Logico!logico

\* A growth lengthens the space of the process the CPU runs.
LEMMA PasoHiloCPU ==
  ASSUME InvTraduccion, InvTraduccion', HiloCPU, UNCHANGED traduccion
  PROVE  \E p \in Pids : Logico!Redimensionar(p)
<1>1. cpu.pc = "espera" /\ cpu.pid \in Pids
  BY HiloCPUContesta DEF InvTraduccion, EnMemoria, Inv, TypeOK
<1>2. PICK p \in Pids : p = cpu.pid
  BY <1>1
<1>3. /\ Conserva /\ struct' = struct
      /\ \A q \in Pids : vida'[q] = "fin" <=> vida[q] = "fin"
      /\ \A q \in Pids : tamanio'[q] # tamanio[q] => q = p
  BY <1>2, ConservaHiloCPU DEF InvTraduccion, EnMemoria, EnTraduccion
<1>4. UNCHANGED <<memoriaUsuario, escritura, acceso, registro>>
  BY DEF traduccion
<1>5. Orden' = Orden
  <2>1. ASSUME acceso.op # "ninguna" PROVE cpu'.pid = cpu.pid
    <3>1. cpu.op = "MARCO" /\ TypeOK
      BY <1>1, <2>1 DEF InvTraduccion, EnMemoria, EnTraduccion, EnCurso, Inv
    <3>2. cpu' = cpu \/ cpu' = [cpu EXCEPT !.pc = "ejecutar", !.arg = tabla[cpu.pid][cpu.arg + 1]]
      BY <3>1, HiloCPUContesta
    <3> QED
      BY <3>1, <3>2 DEF TypeOK
  <2> QED
    BY <1>4, <2>1, OrdenQueda
<1>6. \A q \in Pids \ {p} : Espacio'[q] = Espacio[q]
  <2>1. \A q \in Pids \ {p} : Vigente(q) => vida'[q] # "fin" /\ tamanio'[q] = tamanio[q]
    BY <1>3 DEF Vigente
  <2> QED
    BY <1>3, <1>4, <2>1, EspacioDe
<1>7. BytesBien /\ BytesBien'
  <2>1. (InvTraduccion => BytesBien)'
    BY BytesDe, PTL
  <2> QED
    BY <2>1, BytesDe
<1>8. IsPrefix(Espacio[p], Espacio'[p])
  <2>1. CASE ~Vigente(p)
    <3>1. Espacio[p] = <<>>
      BY <1>7, <2>1 DEF BytesBien
    <3>2. Espacio'[p] \in Seq(Nat)
      BY <1>7, EmptySeq DEF BytesBien
    <3> QED
      BY <3>1, <3>2, VacioPrefijo
  <2>2. CASE Vigente(p)
    <3>1. vida'[p] # "fin"
      BY <1>3, <2>2 DEF Vigente
    <3>2. /\ Vigente(p)' /\ tamanio'[p] >= tamanio[p]
          /\ \A i \in 1 .. tamanio[p] : Byte(p, i)' = Byte(p, i)
      BY <1>3, <1>4, <2>2, <3>1, BytesQuedan
    <3>3. /\ Espacio[p] \in Seq(Nat) /\ Len(Espacio[p]) = tamanio[p]
          /\ \A i \in 1 .. tamanio[p] : Espacio[p][i] = Byte(p, i)
      BY <1>7, <2>2 DEF BytesBien
    <3>4. /\ Espacio'[p] \in Seq(Nat) /\ Len(Espacio'[p]) = tamanio'[p]
          /\ \A i \in 1 .. tamanio'[p] : Espacio'[p][i] = Byte(p, i)'
      BY <1>7, <3>2 DEF BytesBien
    <3>5. tamanio[p] \in Nat /\ tamanio'[p] \in Nat
      BY DEF InvTraduccion, EnMemoria, Inv, TypeOK
    <3>6. ASSUME NEW i \in 1 .. tamanio[p] PROVE Espacio'[p][i] = Espacio[p][i]
      <4>1. i \in 1 .. tamanio'[p]
        BY <3>2, <3>5
      <4>2. Espacio'[p][i] = Byte(p, i)'
        BY <3>4, <4>1
      <4> QED
        BY <3>2, <3>3, <4>2
    <3> QED
      BY <3>2, <3>3, <3>4, <3>6, PrefijoDe
  <2> QED
    BY <2>1, <2>2
<1>9. Logico!Redimensionar(p)
  BY <1>4, <1>5, <1>6, <1>8 DEF Logico!Redimensionar, Logico!IsPrefix, IsPrefix
<1> QED
  BY <1>9

\* The end of a process empties its space; nothing else a client does touches one.
LEMMA PasoTerminar ==
  ASSUME InvTraduccion, InvTraduccion', NEW p \in Pids, TerminarProceso(p), UNCHANGED traduccion
  PROVE  Logico!Redimensionar(p)
<1>1. Conserva /\ UNCHANGED paginas
  BY ConservaClientes DEF InvTraduccion, EnMemoria
<1>2. cpu' = cpu /\ vida' = [vida EXCEPT ![p] = "fin"] /\ UNCHANGED <<struct, tabla, tamanio>>
  BY <1>1 DEF TerminarProceso, paginas
<1>3. UNCHANGED <<memoriaUsuario, escritura, acceso, registro>>
  BY DEF traduccion
<1>4. Orden' = Orden
  BY <1>2, <1>3, OrdenQueda
<1>5. vida \in [Pids -> {"no", "creado", "matado", "sin_memoria", "fin"}]
  BY DEF InvTraduccion, EnMemoria, Inv, TypeOK
<1>6. \A q \in Pids \ {p} : Espacio'[q] = Espacio[q]
  <2>1. \A q \in Pids \ {p} : Vigente(q) => vida'[q] # "fin" /\ tamanio'[q] = tamanio[q]
    BY <1>2, <1>5 DEF Vigente
  <2> QED
    BY <1>1, <1>3, <2>1, EspacioDe
<1>7. IsPrefix(Espacio'[p], Espacio[p])
  <2>1. BytesBien /\ BytesBien'
    <3>1. (InvTraduccion => BytesBien)'
      BY BytesDe, PTL
    <3> QED
      BY <3>1, BytesDe
  <2>2. ~Vigente(p)'
    BY <1>2, <1>5 DEF Vigente
  <2>3. Espacio'[p] = <<>>
    BY <2>1, <2>2 DEF BytesBien
  <2>4. Espacio[p] \in Seq(Nat)
    BY <2>1, EmptySeq DEF BytesBien
  <2> QED
    BY <2>3, <2>4, VacioPrefijo
<1> QED
  BY <1>3, <1>4, <1>6, <1>7 DEF Logico!Redimensionar, Logico!IsPrefix, IsPrefix

LEMMA PasoClientes ==
  ASSUME InvTraduccion, InvTraduccion', UNCHANGED traduccion,
         \/ \E p \in Pids : CrearProceso(p) \/ PedirInstruccion(p)
         \/ acceso = SinAcceso /\ (SinPedido \/ \E t \in Tamanios : PedirResize(t))
         \/ FallaTLB
  PROVE  UNCHANGED Logico!logico
<1>1. Conserva /\ UNCHANGED paginas
  BY ConservaClientes DEF InvTraduccion, EnMemoria, FallaTLB
<1>2. UNCHANGED <<memoriaUsuario, escritura, acceso, registro, struct, tabla, tamanio>>
  BY <1>1 DEF traduccion, paginas
<1>3. \/ vida' = vida
      \/ \E p \in Pids : vida' = [vida EXCEPT ![p] = "creado"]
  BY DEF CrearProceso, PedirInstruccion, SinPedido, PedirResize, FallaTLB, PedirMarco
<1>4. TypeOK /\ EnCurso
  BY DEF InvTraduccion, EnMemoria, EnTraduccion, Inv
<1>5. \A p \in Pids : Vigente(p) => vida'[p] # "fin" /\ tamanio'[p] = tamanio[p]
  BY <1>2, <1>3, <1>4 DEF Vigente, TypeOK
<1>6. \A p \in Pids : Espacio'[p] = Espacio[p]
  BY <1>1, <1>2, <1>5, EspacioDe
<1>7. Espacio' = Espacio
  BY <1>6, EspacioIgual
<1>8. acceso.op # "ninguna" => cpu'.pid = cpu.pid
  <2>1. ASSUME NEW p \in Pids, CrearProceso(p) PROVE cpu' = cpu
    BY <2>1 DEF CrearProceso
  <2>2. ASSUME NEW p \in Pids, PedirInstruccion(p) PROVE acceso.op = "ninguna"
    BY <1>4, <2>2 DEF PedirInstruccion, EnCurso
  <2>3. acceso = SinAcceso => acceso.op = "ninguna"
    BY DEF SinAcceso
  <2>4. CASE FallaTLB
    BY <1>4, <2>4 DEF FallaTLB, PedirMarco, TypeOK
  <2> QED
    BY <2>1, <2>2, <2>3, <2>4
<1>9. Orden' = Orden
  BY <1>2, <1>8, OrdenQueda
<1> QED
  BY <1>2, <1>7, <1>9 DEF Logico!logico

LEMMA EspacioQuieto ==
  ASSUME UNCHANGED <<struct, tabla, tamanio, vida, memoriaUsuario, escritura>>
  PROVE  Espacio' = Espacio
BY DEF Espacio, Bytes, Fisica

LEMMA PasoIniciar ==
  ASSUME InvTraduccion, NEW op \in {"MOV_IN", "MOV_OUT"}, NEW dir \in DOMAIN memoriaUsuario,
         NEW d \in Datos, IniciarAcceso(op, dir, d)
  PROVE  Logico!Ordenar
<1>1. /\ cpu.pc = "ejecutar" /\ acceso.op = "ninguna" /\ registro' = <<>>
      /\ acceso' = [op |-> op, dir |-> dir, datos |-> d, hechos |-> 0, lista |-> <<>>]
      /\ UNCHANGED <<struct, tabla, tamanio, vida, cpu, memoriaUsuario, escritura>>
  BY DEF IniciarAcceso, vars, paginas
<1>2. acceso = SinAcceso /\ cpu.pid \in Pids
  BY <1>1 DEF InvTraduccion, EnMemoria, EnTraduccion, AccesoFiel, Inv, TypeOK
<1>3. Orden = Logico!SinOrden
  BY <1>2 DEF Orden, Logico!SinOrden
<1>4. acceso' # SinAcceso
  BY <1>1 DEF SinAcceso
<1>5. Orden' = [pid |-> cpu.pid, op |-> op, dir |-> dir, datos |-> d]
  BY <1>1, <1>4 DEF Orden
<1> QED
  BY <1>1, <1>2, <1>3, <1>5, EspacioQuieto DEF Logico!Ordenar

\* A fragment more, and nothing the program sees.
LEMMA PasoFragmento ==
  ASSUME InvTraduccion, AciertoTLB \/ RecibirMarco
  PROVE  UNCHANGED Logico!logico
<1>1. /\ acceso \in Accesos /\ acceso.op # "ninguna" /\ TypeOK
  BY DEF InvTraduccion, EnMemoria, EnTraduccion, TiposTraduccion, Inv, AciertoTLB, RecibirMarco, Traduciendo
<1>2. /\ UNCHANGED <<struct, tabla, tamanio, vida, memoriaUsuario, escritura, registro>>
      /\ cpu' = cpu \/ cpu' = [cpu EXCEPT !.op = "INSTRUCCION", !.arg = 0]
  BY DEF AciertoTLB, RecibirMarco, vars, paginas
<1>3. \E m : Fragmento(m)
  BY DEF AciertoTLB, RecibirMarco
<1>4. acceso'.op = acceso.op /\ acceso'.dir = acceso.dir /\ acceso'.datos = acceso.datos
  BY <1>1, <1>3 DEF Fragmento, Accesos
<1>5. cpu'.pid = cpu.pid
  BY <1>1, <1>2 DEF TypeOK
<1>6. acceso # SinAcceso /\ acceso' # SinAcceso
  BY <1>1, <1>4 DEF SinAcceso
<1>7. Orden' = Orden
  BY <1>4, <1>5, <1>6 DEF Orden
<1> QED
  BY <1>2, <1>7, EspacioQuieto DEF Logico!logico

LEMMA PasoEnviar ==
  ASSUME InvTraduccion, EnviarMovOut
  PROVE  Logico!MovOut
<1> DEFINE a == acceso
<1>1. /\ cpu.pc = "ejecutar" /\ acceso.op = "MOV_OUT" /\ escritura = SinEscritura
      /\ acceso' = SinAcceso /\ escritura' = [pid |-> cpu.pid, acceso |-> acceso]
      /\ UNCHANGED <<struct, tabla, tamanio, vida, memoriaUsuario, registro>>
  BY DEF EnviarMovOut, Traducido, SinPedido, ClienteQuieto, paginas
<1>2. PICK p \in Pids : p = cpu.pid
  BY <1>1, DelAcceso
<1>3. /\ Vigente(p) /\ acceso.datos \in Seq(Nat) /\ tamanio[p] \in Nat
  BY <1>1, <1>2, DelAcceso
<1>4. escritura.pid = NULL /\ NULL \notin Pids
  BY <1>1, ConstantesMemoria DEF SinEscritura
<1>5. escritura'.pid = p /\ escritura'.acceso = acceso
  BY <1>1, <1>2
<1>6. Orden = [pid |-> p, op |-> "MOV_OUT", dir |-> acceso.dir, datos |-> acceso.datos]
  <2>1. acceso # SinAcceso
    BY <1>1 DEF SinAcceso
  <2> QED
    BY <1>1, <1>2, <2>1 DEF Orden
<1>7. Orden' = Logico!SinOrden
  BY <1>1 DEF Orden, Logico!SinOrden
<1>8. \A q \in Pids \ {p} : Espacio'[q] = Espacio[q]
  BY <1>1, <1>4, <1>5 DEF Espacio, Bytes, Fisica
<1>9. Espacio'[p] = Logico!Escrito(Espacio[p], acceso.dir, acceso.datos)
  <2>1. Len(Espacio[p]) = tamanio[p] /\ \A i \in 1 .. tamanio[p] : Espacio[p][i] = Byte(p, i)
    BY <1>3, BytesDe DEF BytesBien
  <2>2. \A i \in 1 .. tamanio[p] : Espacio[p][i] = memoriaUsuario[Fisica(p, i)]
    BY <1>4, <2>1 DEF Byte
  <2>3. Espacio'[p] = [i \in 1 .. tamanio[p] |->
                         IF i - acceso.dir \in DOMAIN acceso.datos THEN acceso.datos[i - acceso.dir]
                         ELSE memoriaUsuario[Fisica(p, i)]]
    BY <1>1, <1>3, <1>5 DEF Espacio, Bytes, Fisica, Vigente
  <2>4. DOMAIN acceso.datos = 1 .. Len(acceso.datos)
    BY <1>3
  <2> QED
    BY <2>1, <2>2, <2>3, <2>4 DEF Logico!Escrito
<1>10. Espacio' = [Espacio EXCEPT ![p] = Logico!Escrito(Espacio[p], acceso.dir, acceso.datos)]
  BY <1>8, <1>9 DEF Espacio
<1> QED
  BY <1>1, <1>6, <1>7, <1>10 DEF Logico!MovOut

\* The write reaches memory: each byte is where its program already saw it.
LEMMA PasoEscribir ==
  ASSUME InvTraduccion, InvTraduccion', EscribirMemoria
  PROVE  UNCHANGED Logico!logico
<1> DEFINE l == escritura.acceso.lista
           v == escritura.acceso.datos
           d == escritura.acceso.dir
<1>1. /\ TypeOK /\ Cubren /\ MarcoUnico /\ TiposTraduccion /\ EscrituraFiel /\ escritura # SinEscritura
  BY DEF InvTraduccion, EnMemoria, EnTraduccion, Inv, EscribirMemoria
<1>2. /\ memoriaUsuario' = escribir_memoria(l, v) /\ escritura' = SinEscritura
      /\ UNCHANGED <<struct, tabla, tamanio, vida, cpu, acceso, registro>>
  BY DEF EscribirMemoria, vars, paginas
<1>3. l \in Seq(Nat) /\ v \in Seq(Nat) /\ d \in Nat /\ memoriaUsuario \in [Direcciones -> Nat]
  BY <1>1 DEF TiposTraduccion, Accesos
<1>4. PICK p \in Pids : p = escritura.pid
  BY <1>1 DEF EscrituraFiel
<1>5. /\ Len(l) = Len(v)
      /\ Vigente(p) => Fiel(p, escritura.acceso, Len(v))
      /\ \A q \in Pids \ {p} : \A i \in 1 .. Len(tabla[q]), k \in 1 .. Len(l) :
           tabla[q][i] # l[k] \div TAM_PAGINA
  BY <1>1, <1>4 DEF EscrituraFiel, Vigente
<1>6. escritura'.pid = NULL /\ NULL \notin Pids
  BY <1>2, ConstantesMemoria DEF SinEscritura
<1>7. Vigente(p) => /\ d + Len(v) <= tamanio[p]
                    /\ \A k \in 1 .. Len(v) : l[k] = Fisica(p, d + k)
  BY <1>5 DEF Fiel
<1> HIDE DEF l, v, d
<1>8. DOMAIN l = 1 .. Len(v) /\ DOMAIN v = 1 .. Len(v) /\ Len(v) \in Nat
  BY <1>3, <1>5
<1>9. ASSUME NEW b \in Direcciones
      PROVE  memoriaUsuario'[b] = IF b \in Range(l) THEN v[CHOOSE k \in DOMAIN l : l[k] = b]
                                  ELSE memoriaUsuario[b]
  BY <1>2, <1>3 DEF escribir_memoria
<1>10. ASSUME NEW q \in Pids, Vigente(q), NEW i \in 1 .. tamanio[q]
       PROVE  Byte(q, i)' = Byte(q, i)
  <2>1. /\ (i - 1) \div TAM_PAGINA + 1 \in 1 .. Len(tabla[q]) /\ Fisica(q, i) \in Direcciones
        /\ Fisica(q, i) \div TAM_PAGINA = tabla[q][(i - 1) \div TAM_PAGINA + 1]
    BY <1>1, <1>10, FisicaEnSuMarco
  <2>2. Fisica(q, i)' = Fisica(q, i)
    BY <1>2 DEF Fisica
  <2>3. Byte(q, i)' = memoriaUsuario'[Fisica(q, i)]
    BY <1>6, <2>2 DEF Byte
  <2>4. CASE q # p
    <3>1. Fisica(q, i) \notin Range(l)
      <4>1. ASSUME NEW k \in DOMAIN l, l[k] = Fisica(q, i) PROVE FALSE
        <5>1. k \in 1 .. Len(l)
          BY <1>5, <1>8
        <5>2. tabla[q][(i - 1) \div TAM_PAGINA + 1] # l[k] \div TAM_PAGINA
          BY <1>5, <2>1, <2>4, <5>1
        <5> QED
          BY <2>1, <4>1, <5>2
      <4> QED
        BY <4>1 DEF Range
    <3>2. Byte(q, i) = memoriaUsuario[Fisica(q, i)]
      BY <1>4, <2>4 DEF Byte
    <3> QED
      BY <1>9, <2>1, <2>3, <3>1, <3>2
  <2>5. CASE q = p
    <3>1. /\ d + Len(v) <= tamanio[p] /\ \A k \in 1 .. Len(v) : l[k] = Fisica(p, d + k)
          /\ tamanio[p] \in Nat
      BY <1>1, <1>7, <1>10, <2>5 DEF TypeOK
    <3>2. ASSUME NEW k \in DOMAIN l, l[k] = Fisica(p, i) PROVE k = i - d
      <4>1. d + k \in 1 .. tamanio[p] /\ Fisica(p, d + k) = Fisica(p, i)
        BY SMTT(30), <1>3, <1>8, <3>1, <3>2
      <4>2. d + k = i
        <5>1. Vigente(p) /\ i \in 1 .. tamanio[p]
          BY <1>10, <2>5
        <5>2. \A x, y \in 1 .. tamanio[p] : Fisica(p, x) = Fisica(p, y) => x = y
          BY <1>1, <5>1, FisicaInyectiva
        <5> QED
          BY <4>1, <5>1, <5>2
      <4>3. k \in Nat /\ d \in Nat
        BY <1>3, <1>8
      <4> QED
        BY <4>2, <4>3
    <3>3. Byte(p, i) = IF i - d \in DOMAIN v THEN v[i - d] ELSE memoriaUsuario[Fisica(p, i)]
      BY <1>4 DEF Byte, d, v
    <3>4. CASE i - d \in DOMAIN v
      <4>1. i - d \in DOMAIN l /\ l[i - d] = Fisica(p, i)
        <5>1. d + (i - d) = i
          BY <1>3, <2>5, <3>1
        <5> QED
          BY <1>8, <3>1, <3>4, <5>1
      <4>2. Fisica(p, i) \in Range(l)
        BY <4>1 DEF Range
      <4>3. (CHOOSE k \in DOMAIN l : l[k] = Fisica(p, i)) = i - d
        BY <3>2, <4>1
      <4> QED
        BY <1>9, <2>1, <2>3, <2>5, <3>3, <3>4, <4>2, <4>3
    <3>5. CASE i - d \notin DOMAIN v
      <4>1. Fisica(p, i) \notin Range(l)
        BY <1>8, <3>2, <3>5 DEF Range
      <4> QED
        BY <1>9, <2>1, <2>3, <2>5, <3>3, <3>5, <4>1
    <3> QED
      BY <3>4, <3>5
  <2> QED
    BY <2>4, <2>5
<1>11. ASSUME NEW q \in Pids PROVE Espacio'[q] = Espacio[q]
  <2>1. CASE Vigente(q)
    <3>1. Vigente(q)' /\ tamanio'[q] = tamanio[q]
      BY <1>2, <2>1 DEF Vigente
    <3> QED
      BY <1>10, <2>1, <3>1, MismosBytes
  <2>2. CASE ~Vigente(q)
    BY <1>2, <2>2 DEF Espacio, Vigente
  <2> QED
    BY <2>1, <2>2
<1>12. Espacio' = Espacio
  BY <1>11, EspacioIgual
<1>13. Orden' = Orden
  BY <1>2 DEF Orden
<1> QED
  BY <1>2, <1>12, <1>13 DEF Logico!logico

LEMMA PasoLeer ==
  ASSUME InvTraduccion, LeerMemoria
  PROVE  Logico!MovIn
<1>1. /\ cpu.pc = "ejecutar" /\ acceso.op = "MOV_IN" /\ acceso.hechos = Len(acceso.datos)
      /\ escritura = SinEscritura /\ registro' = leer_memoria(acceso.lista) /\ acceso' = SinAcceso
      /\ UNCHANGED <<struct, tabla, tamanio, vida, memoriaUsuario, escritura>>
  BY DEF LeerMemoria, Traducido, SinPedido, ClienteQuieto, paginas
<1>2. PICK p \in Pids : p = cpu.pid
  BY <1>1, DelAcceso
<1> DEFINE n == Len(acceso.datos)
           d == acceso.dir
<1>3. /\ Vigente(p) /\ n \in Nat /\ d \in Nat /\ tamanio[p] \in Nat /\ d + n <= tamanio[p]
      /\ Fiel(p, acceso, n) /\ acceso.lista \in Seq(Nat)
  BY <1>1, <1>2, DelAcceso DEF Accesos
<1>4. Orden = [pid |-> p, op |-> "MOV_IN", dir |-> d, datos |-> acceso.datos]
  <2>1. acceso # SinAcceso
    BY <1>1 DEF SinAcceso
  <2> QED
    BY <1>1, <1>2, <2>1 DEF Orden
<1>5. Orden' = Logico!SinOrden
  BY <1>1 DEF Orden, Logico!SinOrden
<1>6. /\ Espacio[p] \in Seq(Nat) /\ Len(Espacio[p]) = tamanio[p]
      /\ \A i \in 1 .. tamanio[p] : Espacio[p][i] = Byte(p, i)
  BY <1>3, BytesDe DEF BytesBien
<1>7. DOMAIN acceso.lista = 1 .. n /\ \A k \in 1 .. n : acceso.lista[k] = Fisica(p, d + k)
  BY <1>3 DEF Fiel
<1> HIDE DEF n, d
<1>8. registro' = [k \in 1 .. n |-> memoriaUsuario[acceso.lista[k]]]
  BY <1>1, <1>7 DEF leer_memoria
<1>9. ASSUME NEW k \in 1 .. n PROVE memoriaUsuario[acceso.lista[k]] = Espacio[p][d + k]
  <2>1. d + k \in 1 .. tamanio[p]
    BY <1>3
  <2>2. escritura.pid # p
    BY <1>1, ConstantesMemoria DEF SinEscritura
  <2>3. Byte(p, d + k) = memoriaUsuario[Fisica(p, d + k)]
    BY <2>2 DEF Byte
  <2>4. acceso.lista[k] = Fisica(p, d + k)
    BY <1>7
  <2>5. Espacio[p][d + k] = Byte(p, d + k)
    BY <1>6, <2>1
  <2> QED
    BY <2>3, <2>4, <2>5
<1>10. registro' = SubSeq(Espacio[p], d + 1, d + n)
  <2> DEFINE s == SubSeq(Espacio[p], d + 1, d + n)
  <2>1. \A i \in d + 1 .. d + n : Espacio[p][i] \in Nat
    <3>1. \A i \in 1 .. tamanio[p] : Espacio[p][i] \in Nat
      BY <1>6
    <3>2. \A i \in d + 1 .. d + n : i \in 1 .. tamanio[p]
      BY <1>3
    <3> QED
      BY <3>1, <3>2
  <2>2. d + 1 \in Int /\ d + n \in Int
    BY <1>3
  <2>3. /\ s \in Seq(Nat)
        /\ Len(s) = IF d + 1 <= d + n THEN (d + n) - (d + 1) + 1 ELSE 0
        /\ \A i \in 1 .. (d + n) - (d + 1) + 1 : s[i] = Espacio[p][(d + 1) + i - 1]
    BY <2>1, <2>2, SubSeqProperties
  <2> HIDE DEF s
  <2>4. Len(s) = n
    BY <1>3, <2>3
  <2>5. ASSUME NEW k \in 1 .. n PROVE s[k] = Espacio[p][d + k]
    <3>1. k \in 1 .. (d + n) - (d + 1) + 1 /\ (d + 1) + k - 1 = d + k
      BY <1>3
    <3> QED
      BY <2>3, <3>1
  <2>6. s = [k \in 1 .. n |-> Espacio[p][d + k]]
    <3>1. DOMAIN s = 1 .. n /\ s = [k \in DOMAIN s |-> s[k]]
      BY <2>3, <2>4
    <3> QED
      BY <2>5, <3>1
  <2> QED
    BY <1>8, <1>9, <2>6 DEF s
<1> QED
  BY <1>1, <1>4, <1>5, <1>10, EspacioQuieto DEF Logico!MovIn, n, d

LEMMA PasoLogico ==
  ASSUME ~PuedeEncoger, InvTraduccion, [NextTraduccion]_todo
  PROVE  [Logico!Next]_(Logico!logico)
<1>1. InvTraduccion'
  BY InvTraduccionPaso
<1> SUFFICES Logico!Next \/ UNCHANGED Logico!logico
  OBVIOUS
<1>2. CASE HiloKernel /\ UNCHANGED traduccion
  BY <1>1, <1>2, PasoHiloKernel
<1>3. CASE HiloCPU /\ UNCHANGED traduccion
  BY <1>1, <1>3, PasoHiloCPU DEF Logico!Next
<1>4. ASSUME NEW p \in Pids, TerminarProceso(p), UNCHANGED traduccion
      PROVE  Logico!Next
  BY <1>1, <1>4, PasoTerminar DEF Logico!Next
<1>5. CASE /\ UNCHANGED traduccion
           /\ \/ \E p \in Pids : CrearProceso(p) \/ PedirInstruccion(p)
              \/ acceso = SinAcceso /\ (SinPedido \/ \E t \in Tamanios : PedirResize(t))
              \/ FallaTLB
  BY <1>1, <1>5, PasoClientes
<1>6. ASSUME NEW op \in {"MOV_IN", "MOV_OUT"}, NEW dir \in DOMAIN memoriaUsuario,
             NEW d \in Datos, IniciarAcceso(op, dir, d)
      PROVE  Logico!Next
  BY <1>6, PasoIniciar DEF Logico!Next
<1>7. CASE AciertoTLB \/ RecibirMarco
  BY <1>7, PasoFragmento
<1>8. CASE EnviarMovOut \/ LeerMemoria
  BY <1>8, PasoEnviar, PasoLeer DEF Logico!Next
<1>9. CASE EscribirMemoria
  BY <1>1, <1>9, PasoEscribir
<1>10. CASE PasaSegundo \/ UNCHANGED todo
  <2>1. UNCHANGED <<struct, tabla, tamanio, vida, memoriaUsuario, escritura, acceso, cpu, registro>>
    BY <1>10 DEF PasaSegundo, todo, traduccion, vars, paginas
  <2> QED
    BY <2>1, EspacioQuieto DEF Logico!logico, Orden
<1> QED
  <2>1. CASE Servidor /\ UNCHANGED traduccion
    BY <1>2, <1>3, <2>1 DEF Servidor
  <2>2. CASE Programas /\ UNCHANGED traduccion
    BY <1>4, <1>5, <2>2 DEF Programas
  <2>3. CASE FallaTLB
    BY <1>5, <2>3 DEF FallaTLB
  <2> QED
    BY <1>6, <1>7, <1>8, <1>9, <1>10, <2>1, <2>2, <2>3 DEF NextTraduccion

LEMMA LogicoInicial == InitTraduccion => Logico!Init
<1> SUFFICES ASSUME InitTraduccion PROVE Logico!Init
  OBVIOUS
<1>1. acceso = SinAcceso /\ registro = <<>> /\ \A p \in Pids : struct[p] = "no"
  BY DEF InitTraduccion, Init
<1>2. Espacio = [p \in Pids |-> <<>>]
  BY <1>1 DEF Espacio
<1>3. Orden = Logico!SinOrden
  BY <1>1 DEF Orden, Logico!SinOrden
<1> QED
  BY <1>1, <1>2, <1>3 DEF Logico!Init

\* Refinement: while no program asks for less memory than it has, the CPU, its TLB and
\* the memory give each program an array of bytes of its own.  An access is cut at the
\* page limits and translated fragment by fragment, by the TLB or by the memory; a
\* MOV_OUT reaches memory after the CPU has gone on; frames are reused.  And yet a
\* MOV_OUT writes the bytes its program names and no other, and a MOV_IN reads them.
THEOREM TraduccionImplementaEspacioLogico ==
  ASSUME ~PuedeEncoger
  PROVE  SpecTraduccion => EspacioPropio
<1>1. InvTraduccion /\ [NextTraduccion]_todo => InvTraduccion'
  BY InvTraduccionPaso
<1>2. InvTraduccion /\ [NextTraduccion]_todo => [Logico!Next]_(Logico!logico)
  BY PasoLogico
<1> QED
  BY <1>1, <1>2, InvTraduccionInicial, LogicoInicial, PTL DEF SpecTraduccion, EspacioPropio, Logico!Spec
=============================================================================
