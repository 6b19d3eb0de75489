----------------------------- MODULE Interfaces -----------------------------
(***************************************************************************)
(* The connections between the kernel and the I/O interfaces.              *)
(*                                                                         *)
(* Every interface is a process of its own that connects, announces its    *)
(* name and type, serves one request at a time and, on SIGINT, says        *)
(* goodbye and exits.  The kernel gives each connection a thread           *)
(* (procesar_conexion_kernel) that adds a node to interfaces_conectadas,   *)
(* handles the ends of I/O and removes the node.  The short-term scheduler *)
(* looks the interface up by name, queues the process in its node and      *)
(* sends the request, three steps without a common lock.                   *)
(*                                                                         *)
(* A node of the heap has the identity of the thread that allocates it.    *)
(* The global interfaz_aux is where every thread keeps its node until it   *)
(* is in the list.  What a request carries is in CicloDeInstruccion, the   *)
(* processes' other states and FINALIZAR_PROCESO are in Planificador.      *)
(***************************************************************************)
EXTENDS Integers, Sequences, SequencesExt, FiniteSetsExt

CONSTANTS
  Pids,
  Conexiones,   \* every run of an interface program
  NULL,
  Nombres,      \* the configurations an interface program can be started with
  TipoDe        \* TIPO_INTERFAZ of each

ASSUME ConstantesInterfaces ==
  /\ NULL \notin Pids /\ NULL \notin Conexiones /\ NULL \notin Nombres
  /\ DOMAIN TipoDe = Nombres

Tipos == {TipoDe[n] : n \in Nombres}

Mensaje(op, p) == [op |-> op, pid |-> p]

VARIABLES
  interfaz,      \* interface program: "no", "conectada" or "cerrada"
  nombre,        \* interfaz_actual->nombre_interfaz
  trabajo,       \* the process it is working for
  pedidos,       \* requests on their way to it
  avisos,        \* its messages on their way to the kernel
  hilo,          \* control point of procesar_conexion_kernel
  interfaz_aux,
  nodo,          \* the t_interfaz_recibida each thread allocates
  interfaces_conectadas,
  hallado,       \* interfaz_recibida of each thread, from its search to its squeue_pop
  proceso,       \* "listo" (it may ask for I/O), "bloqueado", "fin" or "perdido" (in no queue)
  corto,         \* control point of ejecutar_intruccion_io
  roto,          \* connections whose peer has answered with a reset
  caida,         \* the kernel has died
  pide,          \* history: the name each process asked for
  conQuien,      \* history: the connection its request was sent on
  pisado,        \* history: a thread took interfaz_aux while another one was using it
  cruzado,       \* history: a thread looked up its name and worked on another one's node
  colgado        \* history: a freed node or a closed connection was used

programa == <<interfaz, nombre, trabajo>>
canales  == <<pedidos, avisos, roto>>
servidor == <<hilo, interfaz_aux, interfaces_conectadas, hallado, cruzado>>
vars == <<programa, canales, servidor, nodo, proceso, corto, caida,
          pide, conQuien, pisado, colgado>>

NodoNulo == [estado |-> "no", de |-> NULL, cola |-> <<>>]
Libre    == [pc |-> "elegir", pid |-> NULL, tipo |-> NULL, nodo |-> NULL]

Init ==
  /\ interfaz = [c \in Conexiones |-> "no"]
  /\ nombre = [c \in Conexiones |-> NULL]
  /\ trabajo = [c \in Conexiones |-> NULL]
  /\ pedidos = [c \in Conexiones |-> <<>>] /\ avisos = [c \in Conexiones |-> <<>>]
  /\ roto = [c \in Conexiones |-> FALSE]
  /\ hilo = [c \in Conexiones |-> "no"]
  /\ interfaz_aux = NULL
  /\ nodo = [c \in Conexiones |-> NodoNulo]
  /\ interfaces_conectadas = <<>> /\ hallado = [c \in Conexiones |-> NULL]
  /\ proceso = [p \in Pids |-> "listo"]
  /\ corto = Libre
  /\ caida = FALSE
  /\ pide = [p \in Pids |-> NULL] /\ conQuien = [p \in Pids |-> NULL]
  /\ pisado = FALSE /\ cruzado = FALSE /\ colgado = FALSE

-----------------------------------------------------------------------------
(* The interface program                                                    *)

\* iniciar_conexiones: the program connects and announces itself.  Two runs of the same
\* configuration are never up at the same time.
Conectar(c, n) ==
  /\ ~caida /\ interfaz[c] = "no"
  /\ \A d \in Conexiones : interfaz[d] = "conectada" => nombre[d] # n
  /\ nombre' = [nombre EXCEPT ![c] = n]
  /\ interfaz' = [interfaz EXCEPT ![c] = "conectada"]
  /\ avisos' = [avisos EXCEPT ![c] = <<Mensaje("CONEXION_INTERFAZ", NULL)>>]
  /\ UNCHANGED <<trabajo, pedidos, roto, servidor, nodo, proceso, corto, caida,
                 pide, conQuien, pisado, colgado>>

\* procesar_conexion_IO receives a request.
Recibir(c) ==
  /\ ~caida /\ interfaz[c] = "conectada" /\ trabajo[c] = NULL /\ pedidos[c] # <<>>
  /\ trabajo' = [trabajo EXCEPT ![c] = Head(pedidos[c])]
  /\ pedidos' = [pedidos EXCEPT ![c] = Tail(@)]
  /\ UNCHANGED <<interfaz, nombre, avisos, roto, servidor, nodo, proceso, corto, caida,
                 pide, conQuien, pisado, colgado>>

\* Mutant: a procesar_* that returns without its answer.
Responder_SinAviso(c) ==
  /\ ~caida /\ interfaz[c] = "conectada" /\ trabajo[c] # NULL
  /\ trabajo' = [trabajo EXCEPT ![c] = NULL]
  /\ UNCHANGED avisos
  /\ UNCHANGED <<interfaz, nombre, pedidos, roto, servidor, nodo, proceso, corto, caida,
                 pide, conQuien, pisado, colgado>>

\* The work is done and the kernel is told.  Only procesar_dialfs_truncate has a path that
\* returns without it, for want of space: that case is in DialFS.
Responder(c) ==
  /\ ~caida /\ interfaz[c] = "conectada" /\ trabajo[c] # NULL
  /\ avisos' = [avisos EXCEPT ![c] = Append(@, Mensaje("FINALIZACION_INTERFAZ", trabajo[c]))]
  /\ trabajo' = [trabajo EXCEPT ![c] = NULL]
  /\ UNCHANGED <<interfaz, nombre, pedidos, roto, servidor, nodo, proceso, corto, caida,
                 pide, conQuien, pisado, colgado>>

\* manejador_signals: SIGINT at any point.  A socket closed with requests unread answers
\* with a reset.
Salir(c) ==
  /\ ~caida /\ interfaz[c] = "conectada"
  /\ interfaz' = [interfaz EXCEPT ![c] = "cerrada"]
  /\ avisos' = [avisos EXCEPT ![c] = Append(@, Mensaje("DESCONEXION_INTERFAZ", NULL))]
  /\ roto' = [roto EXCEPT ![c] = pedidos[c] # <<>>]
  /\ trabajo' = [trabajo EXCEPT ![c] = NULL]
  /\ pedidos' = [pedidos EXCEPT ![c] = <<>>]
  /\ UNCHANGED <<nombre, servidor, nodo, proceso, corto, caida, pide, conQuien, pisado, colgado>>

-----------------------------------------------------------------------------
(* The kernel's thread of a connection                                      *)

\* buscar_interfaz_por_nombre: the first node with the name.
Coincide(i, n) ==
  LET v == nodo[interfaces_conectadas[i]] IN v.estado = "vivo" /\ nombre[v.de] = n

Posiciones(n) == {i \in DOMAIN interfaces_conectadas : Coincide(i, n)}

buscar(n) ==
  IF Posiciones(n) = {} THEN NULL ELSE interfaces_conectadas[Min(Posiciones(n))]

\* The search compares the name of a node that was never filled or has been freed.
RecorreBasura(n) ==
  \E i \in DOMAIN interfaces_conectadas :
    /\ nodo[interfaces_conectadas[i]].estado # "vivo"
    /\ \A j \in Posiciones(n) : i < j

\* Undefined behaviour that ends in SIGSEGV, or a SIGPIPE.
Caer == caida' = TRUE

\* Mutant: interfaz_aux is allocated once for every connection.
Iniciar_Unica(c) ==
  /\ ~caida /\ hilo[c] = "no" /\ interfaz[c] # "no"
  /\ hilo' = [hilo EXCEPT ![c] = "presentacion"]
  /\ IF interfaz_aux # NULL
     THEN UNCHANGED <<interfaz_aux, nodo>>
     ELSE interfaz_aux' = c /\ nodo' = [nodo EXCEPT ![c].estado = "nuevo"]
  /\ pisado' = (pisado \/ \E d \in Conexiones : hilo[d] \in {"presentacion", "agregar"})
  /\ UNCHANGED <<programa, canales, interfaces_conectadas, hallado, proceso, corto, caida,
                 pide, conQuien, cruzado, colgado>>

\* server_escuchar has accepted the connection; its thread allocates interfaz_aux.
Iniciar(c) ==
  /\ ~caida /\ hilo[c] = "no" /\ interfaz[c] # "no"
  /\ hilo' = [hilo EXCEPT ![c] = "presentacion"]
  /\ interfaz_aux' = c
  /\ nodo' = [nodo EXCEPT ![c].estado = "nuevo"]
  /\ pisado' = (pisado \/ \E d \in Conexiones : hilo[d] \in {"presentacion", "agregar"})
  /\ UNCHANGED <<programa, canales, interfaces_conectadas, hallado, proceso, corto, caida,
                 pide, conQuien, cruzado, colgado>>

Recibido(c, op) ==
  /\ ~caida /\ avisos[c] # <<>> /\ Head(avisos[c]).op = op
  /\ avisos' = [avisos EXCEPT ![c] = Tail(@)]

\* agregar_interfaz_a_lista fills whatever interfaz_aux points to...
Completar(c) ==
  /\ hilo[c] = "presentacion" /\ Recibido(c, "CONEXION_INTERFAZ")
  /\ \/ /\ nodo[interfaz_aux].estado # "libre"
        /\ nodo' = [nodo EXCEPT ![interfaz_aux] = [estado |-> "vivo", de |-> c, cola |-> <<>>]]
        /\ UNCHANGED <<caida, colgado>>
     \/ /\ nodo[interfaz_aux].estado = "libre"
        /\ colgado' = TRUE /\ (Caer \/ UNCHANGED caida) /\ UNCHANGED nodo
  /\ hilo' = [hilo EXCEPT ![c] = "agregar"]
  /\ UNCHANGED <<programa, pedidos, roto, interfaz_aux, interfaces_conectadas, hallado, proceso, corto,
                 pide, conQuien, pisado, cruzado>>

\* ... and adds it to the list.
Agregar(c) ==
  /\ ~caida /\ hilo[c] = "agregar"
  /\ interfaces_conectadas' = Append(interfaces_conectadas, interfaz_aux)
  /\ hilo' = [hilo EXCEPT ![c] = "atender"]
  /\ UNCHANGED <<programa, canales, interfaz_aux, hallado, nodo, proceso, corto, caida,
                 pide, conQuien, pisado, cruzado, colgado>>

\* FINALIZACION_INTERFAZ*: desbloquear_proceso...
Desbloquear(c) ==
  /\ hilo[c] = "atender" /\ Recibido(c, "FINALIZACION_INTERFAZ")
  /\ LET p == Head(avisos[c]).pid IN
       /\ proceso' = IF proceso[p] = "bloqueado" THEN [proceso EXCEPT ![p] = "listo"] ELSE proceso
       /\ conQuien' = [conQuien EXCEPT ![p] = NULL]
       /\ pide' = [pide EXCEPT ![p] = NULL]
  /\ hilo' = [hilo EXCEPT ![c] = "buscar"]
  /\ UNCHANGED <<programa, pedidos, roto, interfaz_aux, interfaces_conectadas, hallado, nodo, corto,
                 caida, pisado, cruzado, colgado>>

\* ... the search for the name the answer carries, NULL included: the mutex of the list is
\* held by the search alone...
BuscarNodo(c) ==
  /\ ~caida /\ hilo[c] = "buscar"
  /\ LET v == buscar(nombre[c]) IN
       \/ /\ v = NULL \/ RecorreBasura(nombre[c])
          /\ Caer /\ UNCHANGED <<hilo, hallado>>
       \/ /\ v # NULL
          /\ hallado' = [hallado EXCEPT ![c] = v]
          /\ hilo' = [hilo EXCEPT ![c] = "sacar"]
          /\ UNCHANGED caida
  /\ cruzado' = (cruzado \/ buscar(nombre[c]) # c)
  /\ UNCHANGED <<programa, canales, interfaz_aux, interfaces_conectadas, nodo, proceso, corto,
                 pide, conQuien, pisado, colgado>>

Desencolar(cola) == IF cola = <<>> THEN cola ELSE Tail(cola)

\* Mutant: the node's last process is taken out (squeue_pop taken for a stack).
Sacar_Ultimo(c) ==
  /\ ~caida /\ hilo[c] = "sacar"
  /\ hilo' = [hilo EXCEPT ![c] = "atender"] /\ hallado' = [hallado EXCEPT ![c] = NULL]
  /\ LET v == hallado[c] IN
       \/ /\ nodo[v].estado # "libre"
          /\ nodo' = [nodo EXCEPT ![v].cola = IF @ = <<>> THEN @ ELSE Front(@)]
          /\ UNCHANGED <<caida, colgado>>
       \/ /\ nodo[v].estado = "libre"
          /\ colgado' = TRUE /\ (Caer \/ UNCHANGED caida) /\ UNCHANGED nodo
  /\ UNCHANGED <<programa, canales, interfaz_aux, interfaces_conectadas, proceso, corto,
                 pide, conQuien, pisado, cruzado>>

\* ... and squeue_pop of the node found, which another thread may have freed since.
Sacar(c) ==
  /\ ~caida /\ hilo[c] = "sacar"
  /\ hilo' = [hilo EXCEPT ![c] = "atender"] /\ hallado' = [hallado EXCEPT ![c] = NULL]
  /\ LET v == hallado[c] IN
       \/ /\ nodo[v].estado # "libre"
          /\ nodo' = [nodo EXCEPT ![v].cola = Desencolar(@)]
          /\ UNCHANGED <<caida, colgado>>
       \/ /\ nodo[v].estado = "libre"
          /\ colgado' = TRUE /\ (Caer \/ UNCHANGED caida) /\ UNCHANGED nodo
  /\ UNCHANGED <<programa, canales, interfaz_aux, interfaces_conectadas, proceso, corto,
                 pide, conQuien, pisado, cruzado>>

\* DESCONEXION_INTERFAZ: eliminar_interfaz_de_lista frees the first node with the name.
Eliminar(c) ==
  /\ hilo[c] = "atender" /\ Recibido(c, "DESCONEXION_INTERFAZ")
  /\ \/ RecorreBasura(nombre[c]) /\ Caer /\ UNCHANGED <<nodo, interfaces_conectadas>>
     \/ /\ UNCHANGED caida
        /\ LET v == buscar(nombre[c]) IN
             IF v = NULL
             THEN UNCHANGED <<nodo, interfaces_conectadas>>
             ELSE /\ nodo' = [nodo EXCEPT ![v].estado = "libre", ![v].cola = <<>>]
                  /\ interfaces_conectadas' =
                       RemoveAt(interfaces_conectadas, Min(Posiciones(nombre[c])))
  /\ hilo' = [hilo EXCEPT ![c] = "fin"]
  /\ cruzado' = (cruzado \/ buscar(nombre[c]) # c)
  /\ UNCHANGED <<programa, pedidos, roto, interfaz_aux, hallado, proceso, corto,
                 pide, conQuien, pisado, colgado>>

-----------------------------------------------------------------------------
(* ejecutar_intruccion_io, in the short-term scheduler's thread             *)

\* The lookup, for a process that asks interface n for an operation of type t.
Buscar(p, n, t) ==
  /\ ~caida /\ corto.pc = "elegir" /\ proceso[p] = "listo"
  /\ LET v == buscar(n) IN
       \/ RecorreBasura(n) /\ Caer /\ UNCHANGED <<proceso, corto, pide>>
       \/ /\ v = NULL                                \* INVALID_INTERFACE
          /\ proceso' = [proceso EXCEPT ![p] = "fin"]
          /\ UNCHANGED <<corto, caida, pide>>
       \/ /\ v # NULL
          /\ pide' = [pide EXCEPT ![p] = n]
          /\ corto' = [pc |-> "bloquear", pid |-> p, tipo |-> t, nodo |-> v]
          /\ UNCHANGED <<proceso, caida>>
  /\ UNCHANGED <<programa, canales, servidor, nodo, conQuien, pisado, colgado>>

\* The type is not the operation's: finalizar_proceso.
Rechazar ==
  /\ ~caida /\ corto.pc = "bloquear"
  /\ nodo[corto.nodo].estado # "libre" /\ TipoDe[nombre[nodo[corto.nodo].de]] # corto.tipo
  /\ proceso' = [proceso EXCEPT ![corto.pid] = "fin"]
  /\ pide' = [pide EXCEPT ![corto.pid] = NULL]
  /\ corto' = Libre
  /\ UNCHANGED <<programa, canales, servidor, nodo, caida, conQuien, pisado, colgado>>

\* bloquear_procesosIO
Bloquear ==
  /\ ~caida /\ corto.pc = "bloquear"
  /\ nodo[corto.nodo].estado # "libre" /\ TipoDe[nombre[nodo[corto.nodo].de]] = corto.tipo
  /\ proceso' = [proceso EXCEPT ![corto.pid] = "bloqueado"]
  /\ nodo' = [nodo EXCEPT ![corto.nodo].cola = Append(@, corto.pid)]
  /\ corto' = [corto EXCEPT !.pc = "enviar"]
  /\ UNCHANGED <<programa, canales, servidor, caida, pide, conQuien, pisado, colgado>>

\* The node has been freed since the lookup: its type decides anything, its queue's mutex
\* and list are gone.
BloquearLiberado ==
  /\ ~caida /\ corto.pc = "bloquear" /\ nodo[corto.nodo].estado = "libre"
  /\ colgado' = TRUE
  /\ \/ Caer /\ UNCHANGED <<proceso, corto>>
     \/ \E s \in {"fin", "perdido"} : proceso' = [proceso EXCEPT ![corto.pid] = s]
        /\ corto' = Libre /\ UNCHANGED caida
     \/ /\ proceso' = [proceso EXCEPT ![corto.pid] = "bloqueado"]
        /\ corto' = [corto EXCEPT !.pc = "enviar"] /\ UNCHANGED caida
  /\ UNCHANGED <<programa, canales, servidor, nodo, pide, conQuien, pisado>>

\* Mutant: the request is sent on the connection that announced itself last.
Enviar_Ultima ==
  /\ ~caida /\ corto.pc = "enviar" /\ nodo[corto.nodo].estado # "libre"
  /\ LET c == nodo[interfaz_aux].de IN
       /\ c # NULL /\ interfaz[c] = "conectada"
       /\ pedidos' = [pedidos EXCEPT ![c] = Append(@, corto.pid)]
       /\ conQuien' = [conQuien EXCEPT ![corto.pid] = c]
  /\ corto' = Libre
  /\ UNCHANGED <<programa, avisos, roto, servidor, nodo, proceso, caida, pide, pisado, colgado>>

\* enviar_Interfaz* on the node's socket.
Enviar ==
  /\ ~caida /\ corto.pc = "enviar" /\ nodo[corto.nodo].estado # "libre"
  /\ LET c == nodo[corto.nodo].de IN
       /\ interfaz[c] = "conectada"
       /\ pedidos' = [pedidos EXCEPT ![c] = Append(@, corto.pid)]
       /\ conQuien' = [conQuien EXCEPT ![corto.pid] = c]
  /\ corto' = Libre
  /\ UNCHANGED <<programa, avisos, roto, servidor, nodo, proceso, caida, pide, pisado, colgado>>

\* The node is freed, or the program at the other end has closed: the request is lost, and
\* a second send after the reset raises SIGPIPE.
EnviarPerdido ==
  /\ ~caida /\ corto.pc = "enviar"
  /\ LET v == nodo[corto.nodo] IN
       \/ /\ v.estado = "libre"
          /\ (Caer \/ UNCHANGED caida) /\ UNCHANGED <<roto, conQuien>>
       \/ /\ v.estado # "libre" /\ interfaz[v.de] = "cerrada"
          /\ roto' = [roto EXCEPT ![v.de] = TRUE]
          /\ conQuien' = [conQuien EXCEPT ![corto.pid] = v.de]
          /\ (roto[v.de] /\ Caer) \/ UNCHANGED caida
  /\ colgado' = TRUE
  /\ corto' = Libre
  /\ UNCHANGED <<programa, pedidos, avisos, servidor, nodo, proceso, pide, pisado>>

-----------------------------------------------------------------------------

EjecutarIO == Rechazar \/ Bloquear \/ BloquearLiberado \/ Enviar \/ EnviarPerdido
Atender(c) == \/ Iniciar(c) \/ Completar(c) \/ Agregar(c)
              \/ Desbloquear(c) \/ BuscarNodo(c) \/ Sacar(c) \/ Eliminar(c)
Trabajar(c) == Recibir(c) \/ Responder(c)

Next ==
  \/ \E c \in Conexiones : (\E n \in Nombres : Conectar(c, n)) \/ Salir(c) \/ Trabajar(c) \/ Atender(c)
  \/ \E p \in Pids, n \in Nombres, t \in Tipos : Buscar(p, n, t)
  \/ EjecutarIO

Spec == Init /\ [][Next]_vars

\* The kernel's threads run and an interface that stays up finishes each piece of work
\* (the user answers IO_STDIN_READ).  Nothing makes a process ask, connect or leave.
SpecJusta ==
  /\ Spec
  /\ WF_vars(EjecutarIO)
  /\ \A c \in Conexiones : WF_vars(Atender(c)) /\ WF_vars(Trabajar(c))

-----------------------------------------------------------------------------
(* Properties                                                               *)

\* The processes interface c has not answered for yet, oldest first: those of its answers on
\* their way to the kernel (its other messages, the first and the last, name none), the one
\* it works for, those of its requests and the one about to be sent to it.
Avisados(c) == [i \in DOMAIN avisos[c] |-> avisos[c][i].pid]
EnCurso(c) ==
  Avisados(c) \o (IF trabajo[c] = NULL THEN <<>> ELSE <<trabajo[c]>>) \o pedidos[c]
    \o (IF corto.pc = "enviar" /\ nodo[corto.nodo].de = c THEN <<corto.pid>> ELSE <<>>)

\* The queue in an interface's node holds exactly the processes it still owes an answer, in
\* the order it will answer them, unless two connections started at once or a thread took
\* the node of an earlier run of its interface for its own.  The queue is popped without
\* looking at whom the answer is for (FINALIZACION_INTERFAZ* and bloquear_procesosIO).
ColaAlDia ==
  ~pisado /\ ~cruzado /\ ~caida =>
    \A i \in DOMAIN interfaces_conectadas :
      LET c == interfaces_conectadas[i] IN
        interfaz[c] = "conectada" =>
          EnCurso(c) = IF hilo[c] \in {"buscar", "sacar"} THEN Tail(nodo[c].cola) ELSE nodo[c].cola

\* A blocked process is being worked for, unless the interface it was sent to has gone: its
\* request or its answer is in exactly one place (ejecutar_intruccion_io, procesar_conexion_IO
\* and the FINALIZACION_INTERFAZ* cases).
BloqueadoPorAlguien ==
  ~pisado /\ ~colgado /\ ~caida =>
    \A p \in Pids : proceso[p] = "bloqueado" =>
      \/ corto.pc = "enviar" /\ corto.pid = p
      \/ /\ conQuien[p] # NULL
         /\ \/ interfaz[conQuien[p]] = "cerrada"
            \/ Cardinality({i \in DOMAIN EnCurso(conQuien[p]) : EnCurso(conQuien[p])[i] = p}) = 1

\* What an interface is asked to do was asked of it by name, unless two connections have
\* shared interfaz_aux (procesar_conexion_kernel, agregar_interfaz_a_lista).
LlegaALaPedida ==
  ~pisado =>
    \A c \in Conexiones, p \in Pids :
      p = trabajo[c] \/ p \in Range(pedidos[c]) => pide[p] = nombre[c]

\* The end of an I/O finds its interface in the list, and the kernel dies only after an
\* overlap of two connections or the use of a node or a socket that has gone
\* (buscar_interfaz_por_nombre, squeue_pop, eliminar_interfaz_de_lista).
NuncaCae == caida => pisado \/ colgado

\* A process blocked on an interface that stays connected is unblocked, if the connections
\* came one at a time (FINALIZACION_INTERFAZ*, desbloquear_proceso).
SeFue(p) == conQuien[p] # NULL /\ interfaz[conQuien[p]] = "cerrada"
Contesta ==
  \A p \in Pids : proceso[p] = "bloqueado" ~>
    proceso[p] = "listo" \/ SeFue(p) \/ pisado \/ colgado \/ caida

=============================================================================
