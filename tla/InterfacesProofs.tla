-------------------------- MODULE InterfacesProofs --------------------------
(***************************************************************************)
(* Theorems of the connections between the kernel and the interfaces:      *)
(* their types, that what is asked of an interface reaches the one that    *)
(* was named, that the thread which ends an I/O or a connection finds a    *)
(* node of the name, that a node's queue is what the interface owes, and   *)
(* that a blocked process is owed an answer, for any number of processes,  *)
(* interfaces and restarts.                                                *)
(***************************************************************************)
EXTENDS Interfaces, ListasProofs

Avisos == [op : {"CONEXION_INTERFAZ", "DESCONEXION_INTERFAZ"}, pid : {NULL}]
          \cup [op : {"FINALIZACION_INTERFAZ"}, pid : Pids]

Nodos == [estado : {"no", "nuevo", "vivo", "libre"}, de : Conexiones \cup {NULL}, cola : Seq(Pids)]

\* The types of the interface programs, the kernel's threads, the nodes and the sockets.
TypeOK ==
  /\ interfaz \in [Conexiones -> {"no", "conectada", "cerrada"}]
  /\ nombre \in [Conexiones -> Nombres \cup {NULL}]
  /\ trabajo \in [Conexiones -> Pids \cup {NULL}]
  /\ pedidos \in [Conexiones -> Seq(Pids)]
  /\ avisos \in [Conexiones -> Seq(Avisos)]
  /\ hilo \in [Conexiones -> {"no", "presentacion", "agregar", "atender", "buscar", "sacar", "fin"}]
  /\ interfaz_aux \in Conexiones \cup {NULL}
  /\ hallado \in [Conexiones -> Conexiones \cup {NULL}]
  /\ nodo \in [Conexiones -> Nodos]
  /\ interfaces_conectadas \in Seq(Conexiones)
  /\ proceso \in [Pids -> {"listo", "bloqueado", "fin", "perdido"}]
  /\ corto \in [pc : {"elegir"}, pid : {NULL}, tipo : {NULL}, nodo : {NULL}]
               \cup [pc : {"bloquear", "enviar"}, pid : Pids, tipo : Tipos, nodo : Conexiones]
  /\ roto \in [Conexiones -> BOOLEAN]
  /\ caida \in BOOLEAN /\ pisado \in BOOLEAN /\ cruzado \in BOOLEAN /\ colgado \in BOOLEAN
  /\ pide \in [Pids -> Nombres \cup {NULL}]
  /\ conQuien \in [Pids -> Conexiones \cup {NULL}]

\* Connection c owes process p an answer, or has one on its way.
Final(p)       == Mensaje("FINALIZACION_INTERFAZ", p)
Finales        == {Final(p) : p \in Pids}
EnCamino(c, p) == trabajo[c] = p \/ En(pedidos[c], p) \/ En(avisos[c], Final(p))

\* It owes it once...
UnaVez ==
  \A c \in Conexiones :
    /\ UnaVezEn(pedidos[c], Pids) /\ UnaVezEn(avisos[c], Finales)
    /\ \A p \in Pids : /\ ~(trabajo[c] = p /\ En(pedidos[c], p))
                       /\ ~(trabajo[c] = p /\ En(avisos[c], Final(p)))
                       /\ ~(En(pedidos[c], p) /\ En(avisos[c], Final(p)))

\* ... to a process that waits for it and for nothing else.
Espera ==
  \A c \in Conexiones, p \in Pids :
    EnCamino(c, p) => conQuien[p] = c /\ proceso[p] = "bloqueado" /\ corto.pid # p

\* A connection starts with the program, and its node with the connection.
Comienzo ==
  \A c \in Conexiones :
    /\ interfaz[c] = "no" =>
         hilo[c] = "no" /\ trabajo[c] = NULL /\ pedidos[c] = <<>> /\ avisos[c] = <<>>
    /\ hilo[c] = "no" => nodo[c].estado = "no" /\ interfaz_aux # c
    /\ hilo[c] # "no" => interfaz_aux # NULL

\* A thread about to pop has found a node.
Hallados == \A c \in Conexiones : hilo[c] = "sacar" => hallado[c] # NULL

\* While connections come one at a time, each thread fills and adds its own node.
NodoPropio ==
  ~pisado => \A c \in Conexiones :
    /\ hilo[c] \in {"presentacion", "agregar"} => interfaz_aux = c
    /\ hilo[c] = "presentacion" => nodo[c].estado = "nuevo"
    /\ nodo[c].estado = "vivo" => nodo[c].de = c

\* The node that the scheduler holds was of the interface the process named.
NodoBuscado ==
  corto.pc # "elegir" =>
    /\ proceso[corto.pid] = IF corto.pc = "bloquear" THEN "listo" ELSE "bloqueado"
    /\ nodo[corto.nodo].estado \in {"vivo", "libre"}
    /\ ~pisado /\ nodo[corto.nodo].estado = "vivo" =>
         pide[corto.pid] = nombre[nodo[corto.nodo].de]

Pedida ==
  ~pisado => \A c \in Conexiones, p \in Pids :
    trabajo[c] = p \/ En(pedidos[c], p) => pide[p] = nombre[c]

Inv == TypeOK /\ Hallados /\ UnaVez /\ Espera /\ Comienzo /\ NodoPropio /\ NodoBuscado /\ Pedida

-----------------------------------------------------------------------------
(* Queues                                                                   *)

\* A queue of one message that is not an answer.
LEMMA DeUno ==
  ASSUME NEW e, NEW x, NEW X, e # x, e \notin X
  PROVE  ~En(<<e>>, x) /\ UnaVezEn(<<e>>, X)
  BY DEF En, UnaVezEn

\* Only the ends of I/O are answers.
LEMMA OtroAviso ==
  ASSUME NEW op \in {"CONEXION_INTERFAZ", "DESCONEXION_INTERFAZ"}, NEW p, NEW q
  PROVE  Mensaje(op, q) # Final(p) /\ Mensaje(op, q) \notin Finales
  BY DEF Mensaje, Final, Finales

LEMMA FinalesDistintos ==
  ASSUME NEW p, NEW q, Final(p) = Final(q)
  PROVE  p = q
  BY DEF Final, Mensaje

-----------------------------------------------------------------------------
(* Types                                                                    *)

LEMMA BuscarEncuentra ==
  ASSUME TypeOK, NEW n, buscar(n) # NULL
  PROVE  /\ buscar(n) \in Conexiones
         /\ nodo[buscar(n)].estado = "vivo" /\ nombre[nodo[buscar(n)].de] = n
         /\ Min(Posiciones(n)) \in 1 .. Len(interfaces_conectadas)
<1>1. interfaces_conectadas \in Seq(Conexiones)
  BY DEF TypeOK
<1>2. DOMAIN interfaces_conectadas = 1 .. Len(interfaces_conectadas)
  BY <1>1, LenProperties
<1>3. Posiciones(n) \in SUBSET Nat /\ Posiciones(n) # {}
  BY <1>2 DEF Posiciones, buscar
<1>4. Min(Posiciones(n)) \in Posiciones(n)
  BY <1>3, MinDeNaturales
<1>5. buscar(n) = interfaces_conectadas[Min(Posiciones(n))]
  BY <1>3 DEF buscar
<1>6. interfaces_conectadas[Min(Posiciones(n))] \in Conexiones
  BY <1>1, <1>2, <1>4, ElementOfSeq DEF Posiciones
<1> QED
  BY <1>2, <1>4, <1>5, <1>6 DEF Posiciones, Coincide

LEMMA SinPosicion ==
  ASSUME NEW S, NEW s \in Seq(S), NEW i \in 1 .. Len(s)
  PROVE  RemoveAt(s, i) \in Seq(S)
<1>1. Len(s) \in Nat /\ \A j \in 1 .. Len(s) : s[j] \in S
  BY LenProperties, ElementOfSeq
<1>2. SubSeq(s, 1, i - 1) \in Seq(S) /\ SubSeq(s, i + 1, Len(s)) \in Seq(S)
  BY <1>1, SubSeqProperties
<1> QED
  BY <1>2, ConcatProperties DEF RemoveAt

LEMMA NodoCambiado ==
  ASSUME NEW r \in Nodos, NEW q \in Seq(Pids)
  PROVE  /\ [r EXCEPT !.cola = q] \in Nodos
         /\ [r EXCEPT !.estado = "libre", !.cola = q] \in Nodos
<1> DEFINE Q == Seq(Pids)
<1>1. r \in [estado : {"no", "nuevo", "vivo", "libre"}, de : Conexiones \cup {NULL}, cola : Q] /\ q \in Q
  BY DEF Nodos
<1> HIDE DEF Q
<1>2. /\ [r EXCEPT !.cola = q]
           \in [estado : {"no", "nuevo", "vivo", "libre"}, de : Conexiones \cup {NULL}, cola : Q]
      /\ [r EXCEPT !.estado = "libre", !.cola = q]
           \in [estado : {"no", "nuevo", "vivo", "libre"}, de : Conexiones \cup {NULL}, cola : Q]
  BY <1>1
<1> QED
  BY <1>2 DEF Nodos, Q

\* The message at the head of a connection, and those behind it.
LEMMA PrimerAviso ==
  ASSUME TypeOK, NEW c \in Conexiones, NEW op, Recibido(c, op)
  PROVE  /\ avisos[c] \in Seq(Avisos) /\ avisos[c] # <<>>
         /\ Head(avisos[c]) \in Avisos /\ Head(avisos[c]).op = op
         /\ Tail(avisos[c]) \in Seq(Avisos)
         /\ avisos' = [avisos EXCEPT ![c] = Tail(avisos[c])]
<1>1. avisos[c] \in Seq(Avisos) /\ avisos[c] # <<>>
  BY DEF TypeOK, Recibido
<1> HIDE DEF Avisos
<1>2. Head(avisos[c]) \in Avisos /\ Tail(avisos[c]) \in Seq(Avisos)
  BY <1>1, HeadTailProperties
<1> QED
  BY <1>1, <1>2 DEF Recibido

LEMMA TipoInicial == Init => TypeOK
<1> SUFFICES ASSUME Init PROVE TypeOK
  OBVIOUS
<1>1. NodoNulo \in Nodos
  BY DEF NodoNulo, Nodos
<1>2. nodo \in [Conexiones -> Nodos]
  BY <1>1 DEF Init
<1>3. pedidos \in [Conexiones -> Seq(Pids)] /\ avisos \in [Conexiones -> Seq(Avisos)]
  BY DEF Init
<1>4. interfaces_conectadas \in Seq(Conexiones)
  BY DEF Init
<1> QED
  BY <1>2, <1>3, <1>4 DEF Init, TypeOK, Libre

\* The interface programs.
LEMMA TipoPrograma ==
  ASSUME TypeOK, NEW c \in Conexiones,
         (\E n \in Nombres : Conectar(c, n)) \/ Recibir(c) \/ Responder(c) \/ Salir(c)
  PROVE  TypeOK'
<1> USE DEF servidor
<1>1. ASSUME NEW n \in Nombres, Conectar(c, n) PROVE TypeOK'
  <2>1. <<Mensaje("CONEXION_INTERFAZ", NULL)>> \in Seq(Avisos)
    BY DEF Avisos, Mensaje
  <2> QED
    BY <1>1, <2>1 DEF Conectar, TypeOK
<1>2. CASE Recibir(c)
  <2>1. Head(pedidos[c]) \in Pids /\ Tail(pedidos[c]) \in Seq(Pids)
    BY <1>2, HeadTailProperties DEF TypeOK, Recibir
  <2> QED
    BY <1>2, <2>1 DEF Recibir, TypeOK
<1>3. CASE Responder(c)
  <2>1. Mensaje("FINALIZACION_INTERFAZ", trabajo[c]) \in Avisos
    BY <1>3 DEF Responder, TypeOK, Avisos, Mensaje
  <2>2. Append(avisos[c], Mensaje("FINALIZACION_INTERFAZ", trabajo[c])) \in Seq(Avisos)
    BY <2>1, AppendProperties DEF TypeOK
  <2> QED
    BY <1>3, <2>2 DEF Responder, TypeOK
<1>4. CASE Salir(c)
  <2>1. Mensaje("DESCONEXION_INTERFAZ", NULL) \in Avisos
    BY DEF Avisos, Mensaje
  <2>2. Append(avisos[c], Mensaje("DESCONEXION_INTERFAZ", NULL)) \in Seq(Avisos)
    BY <2>1, AppendProperties DEF TypeOK
  <2>3. (pedidos[c] # <<>>) \in BOOLEAN /\ <<>> \in Seq(Pids)
    OBVIOUS
  <2> QED
    BY <1>4, <2>2, <2>3 DEF Salir, TypeOK
<1> QED
  BY <1>1, <1>2, <1>3, <1>4

\* A node whose state changes is a node.
LEMMA NodoConEstado ==
  ASSUME NEW n \in Nodos, NEW e \in {"no", "nuevo", "vivo", "libre"}
  PROVE  [n EXCEPT !.estado = e] \in Nodos
<1> DEFINE Colas == Seq(Pids)
<1>1. Nodos = [estado : {"no", "nuevo", "vivo", "libre"}, de : Conexiones \cup {NULL},
               cola : Colas]
  BY DEF Nodos
<1> HIDE DEF Colas
<1> QED
  BY <1>1

\* The kernel's threads.
LEMMA TipoServidor ==
  ASSUME TypeOK, Hallados, Comienzo, NEW c \in Conexiones, Atender(c)
  PROVE  TypeOK'
<1> USE DEF programa, canales
<1>1. CASE Iniciar(c)
  <2>1. [nodo[c] EXCEPT !.estado = "nuevo"] \in Nodos
    BY NodoConEstado DEF TypeOK
  <2>2. nodo' = [nodo EXCEPT ![c] = [nodo[c] EXCEPT !.estado = "nuevo"]]
    BY <1>1 DEF Iniciar
  <2>3. nodo' \in [Conexiones -> Nodos]
    BY <2>1, <2>2 DEF TypeOK
  <2>4. /\ hilo' \in [Conexiones -> {"no", "presentacion", "agregar", "atender", "buscar", "sacar", "fin"}]
        /\ interfaz_aux' \in Conexiones \cup {NULL} /\ pisado' \in BOOLEAN
    BY <1>1 DEF Iniciar, TypeOK
  <2> QED
    BY <1>1, <2>3, <2>4 DEF Iniciar, TypeOK
<1>2. CASE Completar(c)
  <2>1. Tail(avisos[c]) \in Seq(Avisos) /\ avisos' = [avisos EXCEPT ![c] = Tail(avisos[c])]
    BY <1>2, PrimerAviso DEF Completar
  <2>2. [estado |-> "vivo", de |-> c, cola |-> <<>>] \in Nodos
    BY DEF Nodos
  <2>3. nodo' \in [Conexiones -> Nodos]
    BY <1>2, <2>2 DEF Completar, TypeOK
  <2> QED
    BY <1>2, <2>1, <2>3 DEF Completar, TypeOK, Caer
<1>3. CASE Agregar(c)
  <2>1. interfaz_aux \in Conexiones
    BY <1>3 DEF Agregar, Comienzo, TypeOK
  <2>2. Append(interfaces_conectadas, interfaz_aux) \in Seq(Conexiones)
    BY <2>1, AppendProperties DEF TypeOK
  <2> QED
    BY <1>3, <2>2 DEF Agregar, TypeOK
<1>4. CASE Desbloquear(c)
  <2>1. Tail(avisos[c]) \in Seq(Avisos) /\ avisos' = [avisos EXCEPT ![c] = Tail(avisos[c])]
    BY <1>4, PrimerAviso DEF Desbloquear
  <2> QED
    BY <1>4, <2>1 DEF Desbloquear, TypeOK
<1>5. CASE Sacar(c)
  <2> DEFINE v == hallado[c]
  <2>0. /\ v \in Conexiones
        /\ hallado' \in [Conexiones -> Conexiones \cup {NULL}]
        /\ hilo' \in [Conexiones -> {"no", "presentacion", "agregar", "atender", "buscar", "sacar", "fin"}]
    BY <1>5 DEF Sacar, TypeOK, Hallados
  <2> HIDE DEF v
  <2>1. CASE nodo' = [nodo EXCEPT ![v].cola = Desencolar(nodo[v].cola)] /\ UNCHANGED <<caida, colgado>>
    <3>2. Desencolar(nodo[v].cola) \in Seq(Pids)
      BY <2>0, HeadTailProperties DEF Desencolar, TypeOK, Nodos
    <3>3. [nodo[v] EXCEPT !.cola = Desencolar(nodo[v].cola)] \in Nodos
      BY <2>0, <3>2, NodoCambiado DEF TypeOK
    <3>4. nodo' \in [Conexiones -> Nodos]
      BY <2>1, <3>3 DEF TypeOK
    <3> QED
      BY <1>5, <2>0, <2>1, <3>4 DEF Sacar, TypeOK
  <2>2. CASE UNCHANGED nodo /\ colgado' = TRUE /\ (caida' = TRUE \/ UNCHANGED caida)
    <3>1. caida' \in BOOLEAN
      BY <2>2, Zenon DEF TypeOK
    <3> QED
      BY <1>5, <2>0, <2>2, <3>1 DEF Sacar, TypeOK
  <2> QED
    BY <1>5, <2>1, <2>2 DEF Sacar, Caer, v
<1>7. CASE BuscarNodo(c)
  <2>1. buscar(nombre[c]) # NULL => buscar(nombre[c]) \in Conexiones
    BY BuscarEncuentra
  <2>2. cruzado' \in BOOLEAN
    <3>1. cruzado' = (cruzado \/ buscar(nombre[c]) # c)
      BY <1>7 DEF BuscarNodo
    <3> QED
      BY <3>1
  <2>3. \/ caida' = TRUE /\ UNCHANGED <<hilo, hallado>>
        \/ /\ buscar(nombre[c]) # NULL /\ UNCHANGED caida
           /\ hallado' = [hallado EXCEPT ![c] = buscar(nombre[c])]
           /\ hilo' = [hilo EXCEPT ![c] = "sacar"]
    BY <1>7 DEF BuscarNodo, Caer
  <2>4. /\ hallado' \in [Conexiones -> Conexiones \cup {NULL}]
        /\ hilo' \in [Conexiones -> {"no", "presentacion", "agregar", "atender", "buscar", "sacar", "fin"}]
    <3> DEFINE v == buscar(nombre[c])
    <3>1. \/ UNCHANGED <<hilo, hallado>>
          \/ v \in Conexiones /\ hallado' = [hallado EXCEPT ![c] = v] /\ hilo' = [hilo EXCEPT ![c] = "sacar"]
      BY <2>1, <2>3
    <3> HIDE DEF v
    <3>2. hallado' \in [Conexiones -> Conexiones \cup {NULL}]
      BY <3>1 DEF TypeOK
    <3>3. hilo' \in [Conexiones -> {"no", "presentacion", "agregar", "atender", "buscar", "sacar", "fin"}]
      BY <3>1 DEF TypeOK
    <3> QED
      BY <3>2, <3>3
  <2>5. caida' \in BOOLEAN
    <3>1. caida' = TRUE \/ caida' = caida
      <4>1. caida' = TRUE \/ UNCHANGED caida
        BY <2>3, Zenon
      <4> QED
        BY <4>1
    <3> QED
      BY <3>1, Zenon DEF TypeOK
  <2> QED
    BY <1>7, <2>2, <2>4, <2>5 DEF BuscarNodo, TypeOK
<1>6. CASE Eliminar(c)
  <2>1. Tail(avisos[c]) \in Seq(Avisos) /\ avisos' = [avisos EXCEPT ![c] = Tail(avisos[c])]
    BY <1>6, PrimerAviso DEF Eliminar
  <2>2. CASE UNCHANGED <<nodo, interfaces_conectadas>>
    BY <1>6, <2>1, <2>2 DEF Eliminar, TypeOK, Caer
  <2>3. CASE ~ UNCHANGED <<nodo, interfaces_conectadas>>
    <3> DEFINE v == buscar(nombre[c])
               i == Min(Posiciones(nombre[c]))
    <3>1. /\ v # NULL /\ UNCHANGED caida
          /\ nodo' = [nodo EXCEPT ![v].estado = "libre", ![v].cola = <<>>]
          /\ interfaces_conectadas' = RemoveAt(interfaces_conectadas, i)
      BY <1>6, <2>3 DEF Eliminar
    <3>2. v \in Conexiones /\ i \in 1 .. Len(interfaces_conectadas)
      BY <3>1, BuscarEncuentra
    <3>3. RemoveAt(interfaces_conectadas, i) \in Seq(Conexiones)
      BY <3>2, SinPosicion DEF TypeOK
    <3> HIDE DEF v, i
    <3>4. nodo' \in [Conexiones -> Nodos]
      <4>1. nodo[v] \in Nodos /\ <<>> \in Seq(Pids)
        BY <3>2 DEF TypeOK
      <4>2. [nodo[v] EXCEPT !.estado = "libre", !.cola = <<>>] \in Nodos
        BY <4>1, NodoCambiado
      <4> QED
        BY <3>1, <3>2, <4>2 DEF TypeOK
    <3> QED
      BY <1>6, <2>1, <3>1, <3>3, <3>4 DEF Eliminar, TypeOK
  <2> QED
    BY <2>2, <2>3
<1> QED
  BY <1>1, <1>2, <1>3, <1>4, <1>5, <1>6, <1>7 DEF Atender

LEMMA HalladosServidor ==
  ASSUME TypeOK, Hallados, NEW c \in Conexiones, Atender(c)
  PROVE  Hallados'
<1>1. CASE BuscarNodo(c)
  BY <1>1 DEF BuscarNodo, Hallados, TypeOK
<1>2. CASE ~BuscarNodo(c)
  <2>1. \E x \in {"presentacion", "agregar", "atender", "buscar", "fin"} : hilo' = [hilo EXCEPT ![c] = x]
    BY <1>2 DEF Atender, Iniciar, Completar, Agregar, Desbloquear, Sacar, Eliminar
  <2>2. hallado' = hallado \/ hallado' = [hallado EXCEPT ![c] = NULL]
    BY <1>2 DEF Atender, Iniciar, Completar, Agregar, Desbloquear, Sacar, Eliminar
  <2> QED
    BY <2>1, <2>2 DEF Hallados, TypeOK
<1> QED
  BY <1>1, <1>2

\* The scheduler.
LEMMA TipoPlanificador ==
  ASSUME TypeOK,
         EjecutarIO \/ \E p \in Pids, n \in Nombres, t \in Tipos : Buscar(p, n, t)
  PROVE  TypeOK'
<1> USE DEF programa, canales, servidor, Libre
<1>1. ASSUME NEW p \in Pids, NEW n \in Nombres, NEW t \in Tipos, Buscar(p, n, t) PROVE TypeOK'
  <2> DEFINE v == buscar(n)
  <2>1. v # NULL => v \in Conexiones
    BY BuscarEncuentra
  <2>2. \/ UNCHANGED corto
        \/ v # NULL /\ corto' = [pc |-> "bloquear", pid |-> p, tipo |-> t, nodo |-> v]
    BY <1>1 DEF Buscar
  <2>3. /\ pide' \in [Pids -> Nombres \cup {NULL}]
        /\ proceso' \in [Pids -> {"listo", "bloqueado", "fin", "perdido"}]
        /\ caida' \in BOOLEAN
    <3>1. \/ caida' = TRUE /\ UNCHANGED <<proceso, pide>>
          \/ proceso' = [proceso EXCEPT ![p] = "fin"] /\ UNCHANGED <<caida, pide>>
          \/ pide' = [pide EXCEPT ![p] = n] /\ UNCHANGED <<proceso, caida>>
      BY <1>1 DEF Buscar, Caer
    <3>2. /\ pide' \in [Pids -> Nombres \cup {NULL}]
          /\ proceso' \in [Pids -> {"listo", "bloqueado", "fin", "perdido"}]
      <4>1. /\ pide' = pide \/ pide' = [pide EXCEPT ![p] = n]
            /\ proceso' = proceso \/ proceso' = [proceso EXCEPT ![p] = "fin"]
        BY <3>1
      <4>2. pide' \in [Pids -> Nombres \cup {NULL}]
        BY <4>1 DEF TypeOK
      <4>3. proceso' \in [Pids -> {"listo", "bloqueado", "fin", "perdido"}]
        BY <4>1 DEF TypeOK
      <4> QED
        BY <4>2, <4>3
    <3>3. caida' \in BOOLEAN
      <4>1. caida' = TRUE \/ UNCHANGED caida
        BY <3>1, Zenon
      <4>2. CASE UNCHANGED caida
        BY <4>2 DEF TypeOK
      <4> QED
        BY <4>1, <4>2
    <3> QED
      BY <3>2, <3>3
  <2> HIDE DEF v
  <2> QED
    BY <1>1, <2>1, <2>2, <2>3 DEF Buscar, TypeOK
<1>2. CASE Rechazar
  BY <1>2 DEF Rechazar, TypeOK
<1>3. CASE Bloquear
  <2>1. corto.pid \in Pids /\ corto.nodo \in Conexiones
    BY <1>3 DEF Bloquear, TypeOK
  <2>2. Append(nodo[corto.nodo].cola, corto.pid) \in Seq(Pids)
    BY <2>1, AppendProperties DEF TypeOK, Nodos
  <2>3. nodo' \in [Conexiones -> Nodos]
    <3>1. [nodo[corto.nodo] EXCEPT !.cola = Append(nodo[corto.nodo].cola, corto.pid)] \in Nodos
      BY <2>1, <2>2, NodoCambiado DEF TypeOK
    <3>2. nodo' = [nodo EXCEPT ![corto.nodo].cola = Append(nodo[corto.nodo].cola, corto.pid)]
      BY <1>3 DEF Bloquear
    <3> QED
      BY <2>1, <3>1, <3>2 DEF TypeOK
  <2>4. /\ corto' \in [pc : {"bloquear", "enviar"}, pid : Pids, tipo : Tipos, nodo : Conexiones]
        /\ proceso' \in [Pids -> {"listo", "bloqueado", "fin", "perdido"}]
    BY <1>3, <2>1 DEF Bloquear, TypeOK
  <2> QED
    BY <1>3, <2>3, <2>4 DEF Bloquear, TypeOK
<1>4. CASE BloquearLiberado
  <2>1. corto.pid \in Pids /\ corto \in [pc : {"bloquear", "enviar"}, pid : Pids, tipo : Tipos, nodo : Conexiones]
    BY <1>4 DEF BloquearLiberado, TypeOK
  <2>2. \/ UNCHANGED <<proceso, corto>> /\ caida' = TRUE
        \/ \E s \in {"fin", "perdido"} : proceso' = [proceso EXCEPT ![corto.pid] = s]
           /\ corto' = Libre /\ UNCHANGED caida
        \/ /\ proceso' = [proceso EXCEPT ![corto.pid] = "bloqueado"]
           /\ corto' = [corto EXCEPT !.pc = "enviar"] /\ UNCHANGED caida
    BY <1>4 DEF BloquearLiberado, Caer
  <2>3. /\ proceso' \in [Pids -> {"listo", "bloqueado", "fin", "perdido"}]
        /\ caida' \in BOOLEAN
        /\ corto' \in [pc : {"elegir"}, pid : {NULL}, tipo : {NULL}, nodo : {NULL}]
               \cup [pc : {"bloquear", "enviar"}, pid : Pids, tipo : Tipos, nodo : Conexiones]
    <3> DEFINE C == [pc : {"bloquear", "enviar"}, pid : Pids, tipo : Tipos, nodo : Conexiones]
    <3>1. corto \in C /\ [corto EXCEPT !.pc = "enviar"] \in C
      BY <2>1
    <3>2. Libre \in [pc : {"elegir"}, pid : {NULL}, tipo : {NULL}, nodo : {NULL}]
      OBVIOUS
    <3>3. corto' \in C \/ corto' \in [pc : {"elegir"}, pid : {NULL}, tipo : {NULL}, nodo : {NULL}]
      <4>1. \/ corto' = corto
            \/ corto' = Libre
            \/ corto' = [corto EXCEPT !.pc = "enviar"]
        BY <2>2
      <4> HIDE DEF C, Libre
      <4> QED
        BY <3>1, <3>2, <4>1
    <3>4. proceso' \in [Pids -> {"listo", "bloqueado", "fin", "perdido"}] /\ caida' \in BOOLEAN
      <4>1. /\ \/ proceso' = proceso
               \/ \E s \in {"fin", "perdido", "bloqueado"} : proceso' = [proceso EXCEPT ![corto.pid] = s]
            /\ caida' = TRUE \/ caida' = caida
        BY <2>2
      <4>2. proceso' \in [Pids -> {"listo", "bloqueado", "fin", "perdido"}]
        BY <4>1 DEF TypeOK
      <4>3. caida' \in BOOLEAN
        BY <4>1, Zenon DEF TypeOK
      <4> QED
        BY <4>2, <4>3
    <3> QED
      BY <3>3, <3>4
  <2> QED
    BY <1>4, <2>3 DEF BloquearLiberado, TypeOK
<1>5. CASE Enviar
  <2> DEFINE c == nodo[corto.nodo].de
  <2>1. corto.pid \in Pids /\ corto.nodo \in Conexiones /\ c \in Conexiones \cup {NULL}
    BY <1>5 DEF Enviar, TypeOK, Nodos
  <2>2. c \in Conexiones => Append(pedidos[c], corto.pid) \in Seq(Pids)
    BY <2>1, AppendProperties DEF TypeOK
  <2>3. /\ pedidos' = [pedidos EXCEPT ![c] = Append(pedidos[c], corto.pid)]
        /\ conQuien' = [conQuien EXCEPT ![corto.pid] = c]
    BY <1>5 DEF Enviar
  <2> HIDE DEF c
  <2>4. pedidos' \in [Conexiones -> Seq(Pids)] /\ conQuien' \in [Pids -> Conexiones \cup {NULL}]
    BY <2>1, <2>2, <2>3 DEF TypeOK
  <2> QED
    BY <1>5, <2>4 DEF Enviar, TypeOK
<1>6. CASE EnviarPerdido
  BY <1>6 DEF EnviarPerdido, TypeOK, Caer, Nodos
<1> QED
  BY <1>1, <1>2, <1>3, <1>4, <1>5, <1>6 DEF EjecutarIO

-----------------------------------------------------------------------------
(* Messages                                                                 *)

\* A step that adds nothing on its way to an interface or back, and repeats nothing.
LEMMA MensajesQuietos ==
  ASSUME UnaVez, UNCHANGED <<trabajo, pedidos, avisos>>
  PROVE  /\ UnaVez'
         /\ \A c \in Conexiones, p \in Pids : EnCamino(c, p)' <=> EnCamino(c, p)
  BY DEF UnaVez, EnCamino, En, UnaVezEn

LEMMA MensajesRecibir ==
  ASSUME TypeOK, UnaVez, NEW c \in Conexiones, Recibir(c)
  PROVE  /\ UnaVez'
         /\ \A d \in Conexiones, p \in Pids :
              /\ EnCamino(d, p)' <=> EnCamino(d, p)
              /\ trabajo'[d] = p \/ En(pedidos'[d], p) => trabajo[d] = p \/ En(pedidos[d], p)
<1> DEFINE h == Head(pedidos[c])
<1>1. /\ pedidos[c] \in Seq(Pids) /\ pedidos[c] # <<>> /\ trabajo[c] = NULL
      /\ trabajo' = [trabajo EXCEPT ![c] = h]
      /\ pedidos' = [pedidos EXCEPT ![c] = Tail(pedidos[c])]
      /\ UNCHANGED avisos
  BY DEF TypeOK, Recibir
<1>2. UnaVezEn(pedidos[c], Pids)
  BY DEF UnaVez
<1>3. h \in Pids
  BY <1>1, HeadTailProperties
<1>4. \A p : En(pedidos[c], p) <=> En(Tail(pedidos[c]), p) \/ p = h
  BY <1>1, EnTail
<1>5. UnaVezEn(Tail(pedidos[c]), Pids) /\ ~En(Tail(pedidos[c]), h)
  BY <1>1, <1>2, <1>3, UnaVezTail
<1> HIDE DEF h
<1>6. /\ NULL \notin Pids
      /\ trabajo'[c] = h /\ pedidos'[c] = Tail(pedidos[c])
      /\ \A d \in Conexiones \ {c} : trabajo'[d] = trabajo[d] /\ pedidos'[d] = pedidos[d]
  BY <1>1, ConstantesInterfaces DEF TypeOK
<1>7. UnaVez'
  <2> SUFFICES ASSUME NEW d \in Conexiones
               PROVE  /\ UnaVezEn(pedidos'[d], Pids) /\ UnaVezEn(avisos[d], Finales)
                      /\ \A p \in Pids : /\ ~(trabajo'[d] = p /\ En(pedidos'[d], p))
                                         /\ ~(trabajo'[d] = p /\ En(avisos[d], Final(p)))
                                         /\ ~(En(pedidos'[d], p) /\ En(avisos[d], Final(p)))
    BY <1>1 DEF UnaVez
  <2> QED
    BY <1>4, <1>5, <1>6 DEF UnaVez
<1> QED
  BY <1>1, <1>4, <1>6, <1>7 DEF EnCamino

LEMMA MensajesResponder ==
  ASSUME TypeOK, UnaVez, NEW c \in Conexiones, Responder(c)
  PROVE  /\ UnaVez'
         /\ \A d \in Conexiones, p \in Pids :
              /\ EnCamino(d, p)' <=> EnCamino(d, p)
              /\ trabajo'[d] = p \/ En(pedidos'[d], p) => trabajo[d] = p \/ En(pedidos[d], p)
<1> DEFINE t == trabajo[c]
           s == avisos[c]
<1>1. /\ t \in Pids /\ s \in Seq(Avisos) /\ UNCHANGED pedidos
      /\ trabajo' = [trabajo EXCEPT ![c] = NULL]
      /\ avisos' = [avisos EXCEPT ![c] = Append(s, Final(t))]
  BY DEF TypeOK, Responder, Final
<1>2. Final(t) \in Avisos
  BY <1>1 DEF Final, Mensaje, Avisos
<1>3. ~En(s, Final(t)) /\ ~En(pedidos[c], t) /\ UnaVezEn(s, Finales)
  BY <1>1 DEF UnaVez
<1>4. UnaVezEn(Append(s, Final(t)), Finales)
  <2> HIDE DEF t, s
  <2> QED
    BY <1>1, <1>2, <1>3, UnaVezAppend
<1>5. \A p : En(Append(s, Final(t)), Final(p)) <=> En(s, Final(p)) \/ p = t
  <2> HIDE DEF t, s
  <2>1. \A p : En(Append(s, Final(t)), Final(p)) <=> En(s, Final(p)) \/ Final(p) = Final(t)
    BY <1>1, <1>2, EnAppend
  <2> QED
    BY <2>1, FinalesDistintos
<1>6. /\ trabajo'[c] = NULL /\ avisos'[c] = Append(s, Final(t))
      /\ \A d \in Conexiones \ {c} : trabajo'[d] = trabajo[d] /\ avisos'[d] = avisos[d]
  BY <1>1 DEF TypeOK
<1>7. NULL \notin Pids
  BY ConstantesInterfaces
<1>8. UnaVez'
  <2> SUFFICES ASSUME NEW d \in Conexiones
               PROVE  /\ UnaVezEn(pedidos[d], Pids) /\ UnaVezEn(avisos'[d], Finales)
                      /\ \A p \in Pids : /\ ~(trabajo'[d] = p /\ En(pedidos[d], p))
                                         /\ ~(trabajo'[d] = p /\ En(avisos'[d], Final(p)))
                                         /\ ~(En(pedidos[d], p) /\ En(avisos'[d], Final(p)))
    BY <1>1 DEF UnaVez
  <2> QED
    BY <1>3, <1>4, <1>5, <1>6, <1>7 DEF UnaVez
<1> QED
  BY <1>1, <1>5, <1>6, <1>7, <1>8 DEF EnCamino

LEMMA MensajesSalir ==
  ASSUME TypeOK, UnaVez, NEW c \in Conexiones, Salir(c)
  PROVE  /\ UnaVez'
         /\ \A d \in Conexiones, p \in Pids :
              /\ EnCamino(d, p)' => EnCamino(d, p)
              /\ trabajo'[d] = p \/ En(pedidos'[d], p) => trabajo[d] = p \/ En(pedidos[d], p)
<1> DEFINE s == avisos[c]
           e == Mensaje("DESCONEXION_INTERFAZ", NULL)
<1>1. /\ s \in Seq(Avisos)
      /\ trabajo' = [trabajo EXCEPT ![c] = NULL] /\ pedidos' = [pedidos EXCEPT ![c] = <<>>]
      /\ avisos' = [avisos EXCEPT ![c] = Append(s, e)]
  BY DEF TypeOK, Salir
<1>2. e \in Avisos /\ e \notin Finales /\ \A p : e # Final(p)
  BY OtroAviso DEF Avisos, Mensaje
<1>3. UnaVezEn(s, Finales)
  BY DEF UnaVez
<1>4. UnaVezEn(Append(s, e), Finales) /\ \A p : En(Append(s, e), Final(p)) <=> En(s, Final(p))
  <2> HIDE DEF s, e
  <2> QED
    BY <1>1, <1>2, <1>3, UnaVezAppend, EnAppend
<1>5. /\ trabajo'[c] = NULL /\ pedidos'[c] = <<>> /\ avisos'[c] = Append(s, e)
      /\ \A d \in Conexiones \ {c} :
           trabajo'[d] = trabajo[d] /\ pedidos'[d] = pedidos[d] /\ avisos'[d] = avisos[d]
  BY <1>1 DEF TypeOK
<1>6. NULL \notin Pids
  BY ConstantesInterfaces
<1>7. UnaVezEn(<<>>, Pids) /\ \A p : ~En(<<>>, p)
  BY Vacia
<1>8. UnaVez'
  <2> SUFFICES ASSUME NEW d \in Conexiones
               PROVE  /\ UnaVezEn(pedidos'[d], Pids) /\ UnaVezEn(avisos'[d], Finales)
                      /\ \A p \in Pids : /\ ~(trabajo'[d] = p /\ En(pedidos'[d], p))
                                         /\ ~(trabajo'[d] = p /\ En(avisos'[d], Final(p)))
                                         /\ ~(En(pedidos'[d], p) /\ En(avisos'[d], Final(p)))
    BY DEF UnaVez
  <2> HIDE DEF s, e
  <2> QED
    BY <1>4, <1>5, <1>6, <1>7 DEF UnaVez
<1> HIDE DEF s, e
<1> QED
  BY <1>4, <1>5, <1>6, <1>7, <1>8 DEF EnCamino, s

\* A thread of the kernel takes the message at the head.
LEMMA MensajesRecibido ==
  ASSUME TypeOK, UnaVez, NEW c \in Conexiones, NEW op, Recibido(c, op), UNCHANGED <<trabajo, pedidos>>
  PROVE  /\ UnaVez'
         /\ \A d \in Conexiones, p \in Pids : EnCamino(d, p)' => EnCamino(d, p)
         /\ \A d \in Conexiones, p \in Pids :
              EnCamino(d, p) => EnCamino(d, p)' \/ (d = c /\ Head(avisos[c]) = Final(p))
         /\ op = "FINALIZACION_INTERFAZ" =>
              \E p \in Pids : p = Head(avisos[c]).pid /\ EnCamino(c, p) /\ ~EnCamino(c, p)'
<1> DEFINE s == avisos[c]
           h == Head(avisos[c])
<1>1. /\ s \in Seq(Avisos) /\ s # <<>> /\ h \in Avisos /\ h.op = op
      /\ avisos' = [avisos EXCEPT ![c] = Tail(s)]
  BY PrimerAviso
<1>2. UnaVezEn(s, Finales)
  BY DEF UnaVez
<1>3. /\ UnaVezEn(Tail(s), Finales)
      /\ h \in Finales => ~En(Tail(s), h)
      /\ \A x : En(s, x) <=> En(Tail(s), x) \/ x = h
  BY <1>1, <1>2, UnaVezTail, EnTail
<1>4. op = "FINALIZACION_INTERFAZ" => h.pid \in Pids /\ h = Final(h.pid) /\ h \in Finales
  BY <1>1 DEF Avisos, Final, Mensaje, Finales
<1> HIDE DEF s, h
<1>5. avisos'[c] = Tail(s) /\ \A d \in Conexiones \ {c} : avisos'[d] = avisos[d]
  BY <1>1 DEF TypeOK
<1>6. UnaVez'
  <2> SUFFICES ASSUME NEW d \in Conexiones
               PROVE  /\ UnaVezEn(pedidos[d], Pids) /\ UnaVezEn(avisos'[d], Finales)
                      /\ \A p \in Pids : /\ ~(trabajo[d] = p /\ En(pedidos[d], p))
                                         /\ ~(trabajo[d] = p /\ En(avisos'[d], Final(p)))
                                         /\ ~(En(pedidos[d], p) /\ En(avisos'[d], Final(p)))
    BY DEF UnaVez
  <2> QED
    BY <1>3, <1>5 DEF UnaVez, s
<1>7. \A d \in Conexiones, p \in Pids : EnCamino(d, p)' => EnCamino(d, p)
  BY <1>3, <1>5 DEF EnCamino, s
<1>8. \A d \in Conexiones, p \in Pids : EnCamino(d, p) => EnCamino(d, p)' \/ (d = c /\ h = Final(p))
  BY <1>3, <1>5 DEF EnCamino, s
<1>9. ASSUME op = "FINALIZACION_INTERFAZ"
      PROVE  \E p \in Pids : p = h.pid /\ EnCamino(c, p) /\ ~EnCamino(c, p)'
  <2>1. PICK p \in Pids : p = h.pid /\ h = Final(p)
    BY <1>4, <1>9
  <2>2. En(avisos[c], Final(p)) /\ ~En(avisos'[c], Final(p))
    BY <1>3, <1>4, <1>5, <1>9, <2>1 DEF s
  <2>3. trabajo[c] # p /\ ~En(pedidos[c], p)
    BY <2>2 DEF UnaVez
  <2> QED
    BY <2>1, <2>2, <2>3 DEF EnCamino
<1> QED
  BY <1>6, <1>7, <1>8, <1>9 DEF h

LEMMA MensajesConectar ==
  ASSUME TypeOK, UnaVez, Comienzo, NEW c \in Conexiones, NEW n \in Nombres, Conectar(c, n)
  PROVE  /\ UnaVez'
         /\ \A d \in Conexiones, p \in Pids : EnCamino(d, p)' <=> EnCamino(d, p)
<1> DEFINE e == Mensaje("CONEXION_INTERFAZ", NULL)
<1>1. /\ trabajo[c] = NULL /\ pedidos[c] = <<>> /\ avisos[c] = <<>>
      /\ UNCHANGED <<trabajo, pedidos>>
      /\ avisos' = [avisos EXCEPT ![c] = <<e>>]
  BY DEF Conectar, Comienzo
<1>2. e \notin Finales /\ \A p : e # Final(p)
  BY OtroAviso
<1> HIDE DEF e
<1>3. UnaVezEn(<<e>>, Finales) /\ \A p : ~En(<<e>>, Final(p)) /\ ~En(<<>>, Final(p))
  BY <1>2, DeUno, Vacia
<1>4. avisos'[c] = <<e>> /\ \A d \in Conexiones \ {c} : avisos'[d] = avisos[d]
  BY <1>1 DEF TypeOK
<1>5. UnaVez'
  <2> SUFFICES ASSUME NEW d \in Conexiones
               PROVE  /\ UnaVezEn(pedidos[d], Pids) /\ UnaVezEn(avisos'[d], Finales)
                      /\ \A p \in Pids : /\ ~(trabajo[d] = p /\ En(pedidos[d], p))
                                         /\ ~(trabajo[d] = p /\ En(avisos'[d], Final(p)))
                                         /\ ~(En(pedidos[d], p) /\ En(avisos'[d], Final(p)))
    BY <1>1 DEF UnaVez
  <2> QED
    BY <1>3, <1>4 DEF UnaVez
<1> QED
  BY <1>1, <1>3, <1>4, <1>5 DEF EnCamino

\* The scheduler sends a request.
LEMMA MensajesEnviar ==
  ASSUME TypeOK, UnaVez, Espera, NodoBuscado, Enviar
  PROVE  /\ UnaVez'
         /\ nodo[corto.nodo].de \in Conexiones =>
              \A d \in Conexiones, p \in Pids :
                /\ EnCamino(d, p) \/ (d = nodo[corto.nodo].de /\ p = corto.pid) => EnCamino(d, p)'
                /\ EnCamino(d, p)' => EnCamino(d, p) \/ (d = nodo[corto.nodo].de /\ p = corto.pid)
                /\ trabajo'[d] = p \/ En(pedidos'[d], p) =>
                     \/ trabajo[d] = p \/ En(pedidos[d], p)
                     \/ (d = nodo[corto.nodo].de /\ p = corto.pid)
         /\ nodo[corto.nodo].de \notin Conexiones => UNCHANGED <<trabajo, pedidos, avisos>>
<1> DEFINE c == nodo[corto.nodo].de
           q == corto.pid
<1>1. /\ q \in Pids /\ UNCHANGED <<trabajo, avisos>>
      /\ pedidos' = [pedidos EXCEPT ![c] = Append(pedidos[c], q)]
  BY DEF TypeOK, Enviar, programa
<1>2. \A d \in Conexiones : ~EnCamino(d, q)
  BY <1>1 DEF Espera
<1> HIDE DEF c, q
<1>3. CASE c \notin Conexiones
  <2>1. UNCHANGED pedidos
    BY <1>1, <1>3 DEF TypeOK
  <2>2. UnaVez'
    BY <1>1, <2>1, MensajesQuietos
  <2> QED
    BY <1>1, <1>3, <2>1, <2>2 DEF c
<1>4. CASE c \in Conexiones
  <2>1. pedidos[c] \in Seq(Pids) /\ UnaVezEn(pedidos[c], Pids) /\ ~En(pedidos[c], q)
    BY <1>1, <1>2, <1>4 DEF TypeOK, UnaVez, EnCamino
  <2>2. /\ UnaVezEn(Append(pedidos[c], q), Pids)
        /\ \A p : En(Append(pedidos[c], q), p) <=> En(pedidos[c], p) \/ p = q
    BY <1>1, <2>1, UnaVezAppend, EnAppend
  <2>3. /\ pedidos'[c] = Append(pedidos[c], q)
        /\ \A d \in Conexiones \ {c} : pedidos'[d] = pedidos[d]
    BY <1>1, <1>4 DEF TypeOK
  <2>4. UnaVez'
    <3> SUFFICES ASSUME NEW d \in Conexiones
                 PROVE  /\ UnaVezEn(pedidos'[d], Pids) /\ UnaVezEn(avisos[d], Finales)
                        /\ \A p \in Pids : /\ ~(trabajo[d] = p /\ En(pedidos'[d], p))
                                           /\ ~(trabajo[d] = p /\ En(avisos[d], Final(p)))
                                           /\ ~(En(pedidos'[d], p) /\ En(avisos[d], Final(p)))
      BY <1>1 DEF UnaVez
    <3>1. CASE d = c
      BY <1>2, <1>4, <2>2, <2>3, <3>1 DEF UnaVez, EnCamino
    <3>2. CASE d # c
      BY <2>3, <3>2 DEF UnaVez
    <3> QED
      BY <3>1, <3>2
  <2>5. \A d \in Conexiones, p \in Pids :
          En(pedidos'[d], p) <=> En(pedidos[d], p) \/ (d = c /\ p = q)
    BY <2>2, <2>3
  <2>6. \A d \in Conexiones, p \in Pids :
          /\ EnCamino(d, p) \/ (d = c /\ p = q) => EnCamino(d, p)'
          /\ EnCamino(d, p)' => EnCamino(d, p) \/ (d = c /\ p = q)
          /\ trabajo'[d] = p \/ En(pedidos'[d], p) =>
               trabajo[d] = p \/ En(pedidos[d], p) \/ (d = c /\ p = q)
    BY <1>1, <2>5 DEF EnCamino
  <2> QED
    BY <1>4, <2>4, <2>6 DEF c, q
<1> QED
  BY <1>3, <1>4

-----------------------------------------------------------------------------
(* The invariant                                                            *)

LEMMA InvInicial == Init => Inv
<1> SUFFICES ASSUME Init PROVE Inv
  OBVIOUS
<1>1. TypeOK
  BY TipoInicial
<1>2. NULL \notin Pids
  BY ConstantesInterfaces
<1>3. \A c \in Conexiones : trabajo[c] = NULL /\ pedidos[c] = <<>> /\ avisos[c] = <<>>
  BY DEF Init
<1>4. \A c \in Conexiones, p \in Pids : ~EnCamino(c, p)
  BY <1>2, <1>3, Vacia DEF EnCamino
<1>5. UnaVez
  BY <1>2, <1>3, Vacia DEF UnaVez
<1>6. Espera /\ Pedida
  BY <1>4 DEF Espera, Pedida, EnCamino
<1>7. Comienzo /\ NodoPropio
  BY ConstantesInterfaces DEF Init, Comienzo, NodoPropio, NodoNulo
<1>8. NodoBuscado /\ Hallados
  BY DEF Init, NodoBuscado, Hallados, Libre
<1> QED
  BY <1>1, <1>5, <1>6, <1>7, <1>8 DEF Inv

\* The processes that wait for an interface are not disturbed.
LEMMA EsperaQuieta ==
  ASSUME Espera, UNCHANGED <<conQuien, proceso, corto>>,
         \A c \in Conexiones, p \in Pids : EnCamino(c, p)' => EnCamino(c, p)
  PROVE  Espera'
<1> SUFFICES ASSUME NEW c \in Conexiones, NEW p \in Pids, EnCamino(c, p)'
             PROVE  conQuien'[p] = c /\ proceso'[p] = "bloqueado" /\ corto'.pid # p
  BY DEF Espera
<1> QED
  BY DEF Espera

LEMMA PedidaQuieta ==
  ASSUME Pedida, UNCHANGED <<pide, nombre>>, ~pisado' => ~pisado,
         \A c \in Conexiones, p \in Pids :
           trabajo'[c] = p \/ En(pedidos'[c], p) => trabajo[c] = p \/ En(pedidos[c], p)
  PROVE  Pedida'
  BY DEF Pedida

\* The interface programs.
LEMMA InvPrograma ==
  ASSUME Inv, NEW c \in Conexiones,
         (\E n \in Nombres : Conectar(c, n)) \/ Recibir(c) \/ Responder(c) \/ Salir(c)
  PROVE  Inv'
<1> USE DEF Inv
<1>1. TypeOK' /\ Hallados'
  <2>1. UNCHANGED <<hilo, hallado>>
    BY DEF Conectar, Recibir, Responder, Salir, servidor
  <2> QED
    BY <2>1, TipoPrograma DEF Hallados
<1>2. ASSUME NEW n \in Nombres, Conectar(c, n) PROVE Inv'
  <2> USE DEF servidor
  <2>1. /\ UnaVez'
        /\ \A d \in Conexiones, p \in Pids : EnCamino(d, p)' => EnCamino(d, p)
    BY <1>2, MensajesConectar
  <2>2. Espera'
    BY <1>2, <2>1, EsperaQuieta DEF Conectar
  <2>3. Comienzo'
    BY <1>2 DEF Conectar, Comienzo, TypeOK
  <2>4. NodoPropio'
    BY <1>2 DEF Conectar, NodoPropio
  <2>5. /\ interfaz[c] = "no" /\ hilo[c] = "no" /\ nodo[c].estado = "no"
        /\ trabajo[c] = NULL /\ pedidos[c] = <<>>
        /\ \A d \in Conexiones \ {c} : nombre'[d] = nombre[d]
    BY <1>2 DEF Conectar, Comienzo, TypeOK
  <2>6. NodoBuscado'
    <3>1. ASSUME corto.pc # "elegir", ~pisado, nodo[corto.nodo].estado = "vivo"
          PROVE  nombre'[nodo[corto.nodo].de] = nombre[nodo[corto.nodo].de]
      <4>1. corto.nodo \in Conexiones /\ corto.nodo # c
        BY <2>5, <3>1 DEF TypeOK
      <4>2. nodo[corto.nodo].de = corto.nodo
        BY <3>1, <4>1 DEF NodoPropio
      <4> QED
        BY <2>5, <4>1, <4>2
    <3> QED
      BY <1>2, <3>1 DEF Conectar, NodoBuscado
  <2>7. Pedida'
    <3>1. \A p \in Pids : trabajo[c] # p /\ ~En(pedidos[c], p)
      BY <2>5, Vacia, ConstantesInterfaces
    <3> QED
      BY <1>2, <2>5, <3>1 DEF Conectar, Pedida
  <2> QED
    BY <1>1, <2>1, <2>2, <2>3, <2>4, <2>6, <2>7
<1>3. CASE Recibir(c) \/ Responder(c) \/ Salir(c)
  <2>1. /\ UnaVez'
        /\ \A d \in Conexiones, p \in Pids :
             /\ EnCamino(d, p)' => EnCamino(d, p)
             /\ trabajo'[d] = p \/ En(pedidos'[d], p) => trabajo[d] = p \/ En(pedidos[d], p)
    BY <1>3, MensajesRecibir, MensajesResponder, MensajesSalir
  <2>2. UNCHANGED <<nombre, hilo, interfaz_aux, nodo, proceso, corto, pide, conQuien, pisado>>
    BY <1>3 DEF Recibir, Responder, Salir, servidor
  <2>3. Espera' /\ Pedida'
    BY <2>1, <2>2, EsperaQuieta, PedidaQuieta
  <2>4. Comienzo'
    <3>1. interfaz[c] = "conectada" /\ interfaz'[c] # "no"
          /\ \A d \in Conexiones \ {c} : /\ interfaz'[d] = interfaz[d] /\ trabajo'[d] = trabajo[d]
                                         /\ pedidos'[d] = pedidos[d] /\ avisos'[d] = avisos[d]
      BY <1>3 DEF Recibir, Responder, Salir, TypeOK
    <3> QED
      BY <2>2, <3>1 DEF Comienzo
  <2>5. NodoPropio' /\ NodoBuscado'
    BY <2>2 DEF NodoPropio, NodoBuscado
  <2> QED
    BY <1>1, <2>1, <2>3, <2>4, <2>5
<1> QED
  BY <1>2, <1>3

\* The thread of a connection.
LEMMA InvServidor ==
  ASSUME Inv, NEW c \in Conexiones, Atender(c)
  PROVE  Inv'
<1> USE DEF Inv
<1>1. TypeOK' /\ Hallados'
  BY TipoServidor, HalladosServidor
<1>2. CASE Iniciar(c)
  <2> USE DEF programa, canales
  <2>1. UnaVez' /\ \A d \in Conexiones, p \in Pids : EnCamino(d, p)' <=> EnCamino(d, p)
    BY <1>2, MensajesQuietos DEF Iniciar
  <2>2. Espera' /\ Pedida'
    BY <1>2, <2>1, EsperaQuieta, PedidaQuieta DEF Iniciar
  <2>3. /\ hilo[c] = "no" /\ nodo[c].estado = "no" /\ interfaz[c] # "no"
        /\ nodo'[c].estado = "nuevo" /\ hilo'[c] = "presentacion"
        /\ \A d \in Conexiones \ {c} : nodo'[d] = nodo[d] /\ hilo'[d] = hilo[d]
    BY <1>2 DEF Iniciar, Comienzo, TypeOK, Nodos
  <2>4. Comienzo'
    BY <1>2, <2>3, ConstantesInterfaces DEF Iniciar, Comienzo
  <2>5. NodoPropio'
    <3>1. ASSUME ~pisado'
          PROVE  ~pisado /\ \A d \in Conexiones : hilo[d] \notin {"presentacion", "agregar"}
      BY <1>2, <3>1, Zenon DEF Iniciar
    <3> QED
      BY <1>2, <2>3, <3>1 DEF Iniciar, NodoPropio
  <2>6. NodoBuscado'
    <3>1. corto.pc # "elegir" => corto.nodo \in Conexiones \ {c}
      BY <2>3 DEF NodoBuscado, TypeOK
    <3>2. ~pisado' => ~pisado
      BY <1>2, Zenon DEF Iniciar
    <3> QED
      BY <1>2, <2>3, <3>1, <3>2 DEF Iniciar, NodoBuscado
  <2> QED
    BY <1>1, <2>1, <2>2, <2>4, <2>5, <2>6
<1>3. CASE Completar(c)
  <2> USE DEF programa
  <2>1. UnaVez' /\ \A d \in Conexiones, p \in Pids : EnCamino(d, p)' => EnCamino(d, p)
    BY <1>3, MensajesRecibido DEF Completar
  <2>2. Espera' /\ Pedida'
    BY <1>3, <2>1, EsperaQuieta, PedidaQuieta DEF Completar
  <2>3. /\ hilo[c] = "presentacion" /\ hilo'[c] = "agregar" /\ interfaz_aux \in Conexiones
        /\ \A d \in Conexiones \ {c} : hilo'[d] = hilo[d]
        /\ \A d \in Conexiones \ {interfaz_aux} : nodo'[d] = nodo[d]
    BY <1>3 DEF Completar, Comienzo, TypeOK
  <2>4. \/ nodo'[interfaz_aux] = [estado |-> "vivo", de |-> c, cola |-> <<>>]
        \/ nodo[interfaz_aux].estado = "libre" /\ nodo' = nodo
    BY <1>3, <2>3 DEF Completar, TypeOK
  <2>5. Comienzo'
    <3>1. interfaz[c] # "no" /\ avisos'[c] \in Seq(Avisos) /\ \A d \in Conexiones \ {c} : avisos'[d] = avisos[d]
      BY <1>3, <2>3 DEF Completar, Recibido, Comienzo, TypeOK
    <3>2. hilo[interfaz_aux] # "no" /\ UNCHANGED <<interfaz, trabajo, pedidos, interfaz_aux>>
      BY <1>3, <2>3 DEF Completar, Comienzo
    <3> QED
      BY <2>3, <3>1, <3>2 DEF Comienzo
  <2>6. NodoPropio'
    BY <1>3, <2>3, <2>4 DEF Completar, NodoPropio
  <2>7. NodoBuscado'
    <3>1. ASSUME corto.pc # "elegir", ~pisado PROVE corto.nodo \in Conexiones \ {interfaz_aux}
      BY <2>3, <3>1 DEF NodoBuscado, NodoPropio, TypeOK
    <3>2. ASSUME corto.pc # "elegir" PROVE nodo'[corto.nodo].estado \in {"vivo", "libre"}
      <4>1. corto.nodo \in Conexiones /\ nodo[corto.nodo].estado \in {"vivo", "libre"}
        BY <3>2 DEF NodoBuscado, TypeOK
      <4> QED
        BY <2>3, <2>4, <4>1
    <3>3. UNCHANGED <<corto, proceso, pide, nombre, pisado>>
      BY <1>3 DEF Completar
    <3> QED
      BY <2>3, <3>1, <3>2, <3>3 DEF NodoBuscado
  <2> QED
    BY <1>1, <2>1, <2>2, <2>5, <2>6, <2>7
<1>4. CASE Agregar(c)
  <2> USE DEF programa, canales
  <2>1. UnaVez' /\ \A d \in Conexiones, p \in Pids : EnCamino(d, p)' <=> EnCamino(d, p)
    BY <1>4, MensajesQuietos DEF Agregar
  <2>2. Espera' /\ Pedida'
    BY <1>4, <2>1, EsperaQuieta, PedidaQuieta DEF Agregar
  <2>3. Comienzo' /\ NodoPropio' /\ NodoBuscado'
    BY <1>4 DEF Agregar, Comienzo, NodoPropio, NodoBuscado, TypeOK
  <2> QED
    BY <1>1, <2>1, <2>2, <2>3
<1>5. CASE Desbloquear(c)
  <2> USE DEF programa
  <2>1. /\ UnaVez'
        /\ \A d \in Conexiones, q \in Pids : EnCamino(d, q)' => EnCamino(d, q)
        /\ \E q \in Pids : q = Head(avisos[c]).pid /\ EnCamino(c, q) /\ ~EnCamino(c, q)'
    BY <1>5, MensajesRecibido DEF Desbloquear
  <2>2. PICK p \in Pids : p = Head(avisos[c]).pid /\ EnCamino(c, p) /\ ~EnCamino(c, p)'
    BY <2>1
  <2>3. /\ proceso' = IF proceso[p] = "bloqueado" THEN [proceso EXCEPT ![p] = "listo"] ELSE proceso
        /\ conQuien' = [conQuien EXCEPT ![p] = NULL] /\ pide' = [pide EXCEPT ![p] = NULL]
        /\ hilo' = [hilo EXCEPT ![c] = "buscar"] /\ hilo[c] = "atender"
        /\ UNCHANGED <<interfaz, nombre, trabajo, pedidos, interfaz_aux, nodo, corto, pisado>>
    BY <1>5, <2>2 DEF Desbloquear
  <2>4. conQuien[p] = c /\ corto.pid # p
    BY <2>2 DEF Espera
  <2>5. \A d \in Conexiones : ~EnCamino(d, p)'
    BY <2>1, <2>2, <2>4 DEF Espera
  <2>6. Espera'
    <3> SUFFICES ASSUME NEW d \in Conexiones, NEW q \in Pids, EnCamino(d, q)'
                 PROVE  conQuien'[q] = d /\ proceso'[q] = "bloqueado" /\ corto'.pid # q
      BY DEF Espera
    <3>1. q # p /\ EnCamino(d, q)
      BY <2>1, <2>5
    <3> QED
      BY <2>3, <3>1 DEF Espera, TypeOK
  <2>7. Comienzo'
    <3>1. interfaz[c] # "no" /\ \A d \in Conexiones \ {c} : avisos'[d] = avisos[d] /\ hilo'[d] = hilo[d]
      BY <1>5, <2>3 DEF Desbloquear, Recibido, Comienzo, TypeOK
    <3> QED
      BY <2>3, <3>1 DEF Comienzo, TypeOK
  <2>8. NodoPropio'
    BY <2>3 DEF NodoPropio, TypeOK
  <2>9. NodoBuscado'
    BY <2>3, <2>4 DEF NodoBuscado, TypeOK
  <2>10. Pedida'
    <3> SUFFICES ASSUME ~pisado, NEW d \in Conexiones, NEW q \in Pids, trabajo[d] = q \/ En(pedidos[d], q)
                 PROVE  pide'[q] = nombre[d]
      BY <2>3 DEF Pedida
    <3>1. q # p
      BY <2>3, <2>5 DEF EnCamino
    <3> QED
      BY <2>3, <3>1 DEF Pedida, TypeOK
  <2> QED
    BY <1>1, <2>1, <2>6, <2>7, <2>8, <2>9, <2>10
<1>6. CASE Sacar(c)
  <2> USE DEF programa, canales
  <2>1. UnaVez' /\ \A d \in Conexiones, p \in Pids : EnCamino(d, p)' <=> EnCamino(d, p)
    BY <1>6, MensajesQuietos DEF Sacar
  <2>2. Espera' /\ Pedida'
    BY <1>6, <2>1, EsperaQuieta, PedidaQuieta DEF Sacar
  <2>3. \A d \in Conexiones : nodo'[d].estado = nodo[d].estado /\ nodo'[d].de = nodo[d].de
    <3> DEFINE v == hallado[c]
    <3>1. nodo' = nodo \/ nodo' = [nodo EXCEPT ![v].cola = Desencolar(nodo[v].cola)]
      BY <1>6 DEF Sacar
    <3>2. v \in Conexiones
      BY <1>6 DEF Sacar, Hallados, TypeOK
    <3> HIDE DEF v
    <3>3. CASE nodo' = nodo
      BY <3>3
    <3>4. CASE nodo' = [nodo EXCEPT ![v].cola = Desencolar(nodo[v].cola)]
      <4>1. v \in Conexiones /\ nodo[v] \in Nodos
        BY <3>2, <3>4 DEF TypeOK
      <4>2. /\ nodo'[v] = [nodo[v] EXCEPT !.cola = Desencolar(nodo[v].cola)]
            /\ \A d \in Conexiones \ {v} : nodo'[d] = nodo[d]
        BY <3>4, <4>1 DEF TypeOK
      <4>3. nodo'[v].estado = nodo[v].estado /\ nodo'[v].de = nodo[v].de
        BY <4>1, <4>2 DEF Nodos
      <4> QED
        BY <4>2, <4>3
    <3> QED
      BY <3>1, <3>3, <3>4
  <2>4. /\ hilo[c] = "sacar" /\ hilo' = [hilo EXCEPT ![c] = "atender"]
        /\ UNCHANGED <<interfaz, nombre, trabajo, pedidos, avisos, interfaz_aux, proceso, corto, pide, pisado>>
    BY <1>6 DEF Sacar
  <2>5. Comienzo' /\ NodoPropio'
    <3>1. hilo'[c] = "atender" /\ \A d \in Conexiones \ {c} : hilo'[d] = hilo[d]
      BY <2>4 DEF TypeOK
    <3>2. Comienzo'
      BY <2>3, <2>4, <3>1 DEF Comienzo
    <3> QED
      BY <2>3, <2>4, <3>1, <3>2 DEF NodoPropio
  <2>6. NodoBuscado'
    BY <2>3, <2>4 DEF NodoBuscado, TypeOK
  <2> QED
    BY <1>1, <2>1, <2>2, <2>5, <2>6
<1>7. CASE Eliminar(c)
  <2> USE DEF programa
  <2>1. UnaVez' /\ \A d \in Conexiones, p \in Pids : EnCamino(d, p)' => EnCamino(d, p)
    BY <1>7, MensajesRecibido DEF Eliminar
  <2>2. Espera' /\ Pedida'
    BY <1>7, <2>1, EsperaQuieta, PedidaQuieta DEF Eliminar
  <2>3. \A d \in Conexiones : \/ nodo'[d] = nodo[d]
                              \/ nodo[d].estado = "vivo" /\ nodo'[d].estado = "libre"
    <3> DEFINE v == buscar(nombre[c])
    <3>1. \/ nodo' = nodo
          \/ v # NULL /\ nodo' = [nodo EXCEPT ![v].estado = "libre", ![v].cola = <<>>]
      BY <1>7 DEF Eliminar
    <3>2. v # NULL => v \in Conexiones /\ nodo[v].estado = "vivo"
      BY BuscarEncuentra
    <3> HIDE DEF v
    <3> QED
      BY <3>1, <3>2 DEF TypeOK, Nodos
  <2>4. /\ hilo[c] = "atender" /\ hilo' = [hilo EXCEPT ![c] = "fin"]
        /\ UNCHANGED <<interfaz, nombre, trabajo, pedidos, interfaz_aux, proceso, corto, pide, pisado>>
    BY <1>7 DEF Eliminar
  <2>5. Comienzo'
    <3>1. interfaz[c] # "no" /\ \A d \in Conexiones \ {c} : avisos'[d] = avisos[d] /\ hilo'[d] = hilo[d]
      BY <1>7, <2>4 DEF Eliminar, Recibido, Comienzo, TypeOK
    <3>2. hilo'[c] = "fin"
      BY <2>4 DEF TypeOK
    <3> QED
      BY <2>3, <2>4, <3>1, <3>2 DEF Comienzo
  <2>6. NodoPropio'
    <3>1. hilo'[c] = "fin" /\ \A d \in Conexiones \ {c} : hilo'[d] = hilo[d]
      BY <2>4 DEF TypeOK
    <3>2. \A d \in Conexiones : nodo'[d].estado \in {"nuevo", "vivo"} => nodo'[d] = nodo[d]
      BY <2>3
    <3>3. \A d \in Conexiones : hilo'[d] = "presentacion" => nodo'[d] = nodo[d] \/ nodo[d].estado = "vivo"
      BY <2>3
    <3> QED
      BY <2>4, <3>1, <3>2, <3>3 DEF NodoPropio
  <2>7. NodoBuscado'
    BY <2>3, <2>4 DEF NodoBuscado, TypeOK
  <2> QED
    BY <1>1, <2>1, <2>2, <2>5, <2>6, <2>7
<1>8. CASE BuscarNodo(c)
  <2> USE DEF programa, canales
  <2>1. UnaVez' /\ \A d \in Conexiones, p \in Pids : EnCamino(d, p)' <=> EnCamino(d, p)
    BY <1>8, MensajesQuietos DEF BuscarNodo
  <2>2. Espera' /\ Pedida'
    BY <1>8, <2>1, EsperaQuieta, PedidaQuieta DEF BuscarNodo
  <2>3. /\ hilo[c] = "buscar" /\ hilo'[c] \in {"buscar", "sacar"}
        /\ \A d \in Conexiones \ {c} : hilo'[d] = hilo[d]
    BY <1>8 DEF BuscarNodo, TypeOK
  <2>4. UNCHANGED <<interfaz, nombre, trabajo, pedidos, avisos, interfaz_aux, nodo, proceso, corto, pide, pisado>>
    BY <1>8 DEF BuscarNodo
  <2>5. Comienzo' /\ NodoPropio'
    <3>1. Comienzo'
      BY <2>3, <2>4 DEF Comienzo
    <3> QED
      BY <2>3, <2>4, <3>1 DEF NodoPropio
  <2>6. NodoBuscado'
    BY <2>3, <2>4 DEF NodoBuscado, TypeOK
  <2> QED
    BY <1>1, <2>1, <2>2, <2>5, <2>6
<1> QED
  BY <1>2, <1>3, <1>4, <1>5, <1>6, <1>7, <1>8 DEF Atender

\* The scheduler.
LEMMA InvPlanificador ==
  ASSUME Inv,
         EjecutarIO \/ \E p \in Pids, n \in Nombres, t \in Tipos : Buscar(p, n, t)
  PROVE  Inv'
<1> USE DEF Inv, programa, canales, servidor
<1>1. TypeOK' /\ Hallados'
  <2>1. UNCHANGED <<hilo, hallado>>
    BY DEF EjecutarIO, Buscar, Rechazar, Bloquear, BloquearLiberado, Enviar, EnviarPerdido
  <2> QED
    BY <2>1, TipoPlanificador DEF Hallados
<1>2. ASSUME NEW p \in Pids, NEW n \in Nombres, NEW t \in Tipos, Buscar(p, n, t) PROVE Inv'
  <2> DEFINE v == buscar(n)
  <2>1. UnaVez' /\ \A d \in Conexiones, q \in Pids : EnCamino(d, q)' <=> EnCamino(d, q)
    BY <1>2, MensajesQuietos DEF Buscar
  <2>2. v # NULL => v \in Conexiones /\ nodo[v].estado = "vivo" /\ nombre[nodo[v].de] = n
    BY BuscarEncuentra
  <2>3. /\ proceso[p] = "listo" /\ corto.pc = "elegir"
        /\ \/ UNCHANGED <<proceso, corto, pide>>
           \/ proceso' = [proceso EXCEPT ![p] = "fin"] /\ UNCHANGED <<corto, pide>>
           \/ /\ v # NULL /\ pide' = [pide EXCEPT ![p] = n] /\ UNCHANGED proceso
              /\ corto' = [pc |-> "bloquear", pid |-> p, tipo |-> t, nodo |-> v]
        /\ UNCHANGED <<interfaz, nombre, trabajo, pedidos, avisos, hilo, interfaz_aux, nodo, conQuien, pisado>>
    BY <1>2 DEF Buscar
  <2> HIDE DEF v
  <2>4. \A d \in Conexiones : ~EnCamino(d, p)
    BY <2>3 DEF Espera
  <2>5. Espera'
    BY <2>1, <2>3, <2>4 DEF Espera, TypeOK
  <2>6. Comienzo' /\ NodoPropio'
    BY <2>3 DEF Comienzo, NodoPropio
  <2>7. NodoBuscado'
    BY <2>2, <2>3 DEF NodoBuscado, TypeOK
  <2>8. Pedida'
    BY <2>3, <2>4 DEF Pedida, EnCamino, TypeOK
  <2> QED
    BY <1>1, <2>1, <2>5, <2>6, <2>7, <2>8
<1>3. CASE Rechazar \/ Bloquear \/ BloquearLiberado \/ EnviarPerdido
  <2>1. /\ corto.pc # "elegir" /\ corto.pid \in Pids /\ corto.nodo \in Conexiones
        /\ UNCHANGED <<interfaz, nombre, trabajo, pedidos, avisos, hilo, interfaz_aux, pisado>>
    BY <1>3 DEF Rechazar, Bloquear, BloquearLiberado, EnviarPerdido, TypeOK
  <2>2. UnaVez' /\ \A d \in Conexiones, q \in Pids : EnCamino(d, q)' <=> EnCamino(d, q)
    BY <2>1, MensajesQuietos
  <2>3. \A d \in Conexiones : ~EnCamino(d, corto.pid)
    BY <2>1 DEF Espera
  <2>4. /\ \A q \in Pids \ {corto.pid} :
             proceso'[q] = proceso[q] /\ conQuien'[q] = conQuien[q] /\ pide'[q] = pide[q]
        /\ corto'.pid \in {corto.pid, NULL}
    BY <1>3, <2>1 DEF Rechazar, Bloquear, BloquearLiberado, EnviarPerdido, TypeOK, Libre
  <2>5. Espera'
    <3> SUFFICES ASSUME NEW d \in Conexiones, NEW q \in Pids, EnCamino(d, q)
                 PROVE  conQuien'[q] = d /\ proceso'[q] = "bloqueado" /\ corto'.pid # q
      BY <2>2 DEF Espera
    <3> QED
      BY <2>3, <2>4, ConstantesInterfaces DEF Espera
  <2>6. \A d \in Conexiones : nodo'[d].estado = nodo[d].estado /\ nodo'[d].de = nodo[d].de
    <3>1. CASE Bloquear
      <4> DEFINE v == corto.nodo
      <4>1. nodo' = [nodo EXCEPT ![v].cola = Append(nodo[v].cola, corto.pid)]
        BY <3>1 DEF Bloquear
      <4>2. v \in Conexiones /\ nodo[v] \in Nodos
        BY <2>1 DEF TypeOK
      <4> HIDE DEF v
      <4>3. /\ nodo'[v] = [nodo[v] EXCEPT !.cola = Append(nodo[v].cola, corto.pid)]
            /\ \A d \in Conexiones \ {v} : nodo'[d] = nodo[d]
        BY <4>1, <4>2 DEF TypeOK
      <4>4. nodo'[v].estado = nodo[v].estado /\ nodo'[v].de = nodo[v].de
        BY <4>2, <4>3 DEF Nodos
      <4> QED
        BY <4>3, <4>4
    <3>2. CASE Rechazar \/ BloquearLiberado \/ EnviarPerdido
      BY <3>2 DEF Rechazar, BloquearLiberado, EnviarPerdido
    <3> QED
      BY <1>3, <3>1, <3>2
  <2>7. Comienzo' /\ NodoPropio'
    BY <2>1, <2>6 DEF Comienzo, NodoPropio
  <2>8. NodoBuscado'
    <3>1. CASE corto'.pc = "elegir"
      BY <3>1 DEF NodoBuscado
    <3>2. CASE corto'.pc # "elegir"
      <4>1. \/ UNCHANGED <<proceso, corto, pide>>
            \/ /\ corto' = [corto EXCEPT !.pc = "enviar"] /\ UNCHANGED pide
               /\ proceso' = [proceso EXCEPT ![corto.pid] = "bloqueado"]
        BY <1>3, <3>2 DEF Rechazar, Bloquear, BloquearLiberado, EnviarPerdido, Libre
      <4>2. /\ corto'.pid = corto.pid /\ corto'.nodo = corto.nodo /\ UNCHANGED pide
            /\ proceso'[corto.pid] = IF corto'.pc = "bloquear" THEN "listo" ELSE "bloqueado"
        BY <2>1, <4>1 DEF NodoBuscado, TypeOK
      <4> QED
        BY <2>1, <2>6, <4>2 DEF NodoBuscado
    <3> QED
      BY <3>1, <3>2
  <2>9. Pedida'
    <3> SUFFICES ASSUME ~pisado, NEW d \in Conexiones, NEW q \in Pids, trabajo[d] = q \/ En(pedidos[d], q)
                 PROVE  pide'[q] = nombre[d]
      BY <2>1 DEF Pedida
    <3>1. q # corto.pid
      BY <2>3 DEF EnCamino
    <3> QED
      BY <2>4, <3>1 DEF Pedida
  <2> QED
    BY <1>1, <2>2, <2>5, <2>7, <2>8, <2>9
<1>4. CASE Enviar
  <2> DEFINE c == nodo[corto.nodo].de
             q == corto.pid
  <2>1. /\ UnaVez'
        /\ c \in Conexiones =>
             \A d \in Conexiones, p \in Pids :
               /\ EnCamino(d, p)' => EnCamino(d, p) \/ (d = c /\ p = q)
               /\ trabajo'[d] = p \/ En(pedidos'[d], p) =>
                    \/ trabajo[d] = p \/ En(pedidos[d], p)
                    \/ (d = c /\ p = q)
        /\ c \notin Conexiones => UNCHANGED <<trabajo, pedidos, avisos>>
    BY <1>4, MensajesEnviar
  <2>2. /\ corto.pc = "enviar" /\ q \in Pids /\ corto.nodo \in Conexiones /\ nodo[corto.nodo].estado # "libre"
        /\ interfaz[c] = "conectada" /\ corto' = Libre
        /\ conQuien' = [conQuien EXCEPT ![q] = c]
        /\ pedidos' = [pedidos EXCEPT ![c] = Append(pedidos[c], q)]
        /\ UNCHANGED <<interfaz, nombre, trabajo, avisos, hilo, interfaz_aux, nodo, proceso, pide, pisado>>
    BY <1>4 DEF Enviar, TypeOK
  <2>3. nodo[corto.nodo].estado = "vivo" /\ proceso[q] = "bloqueado"
    BY <2>2 DEF NodoBuscado
  <2>4. \A d \in Conexiones : ~EnCamino(d, q)
    BY <2>2 DEF Espera
  <2>5. ~pisado => c \in Conexiones /\ pide[q] = nombre[c]
    BY <2>2, <2>3 DEF NodoPropio, NodoBuscado
  <2> HIDE DEF c, q
  <2>6. \A d \in Conexiones, p \in Pids : EnCamino(d, p)' => EnCamino(d, p) \/ (d = c /\ p = q)
    <3>1. c \notin Conexiones => \A d \in Conexiones, p \in Pids : EnCamino(d, p)' <=> EnCamino(d, p)
      BY <2>1, MensajesQuietos
    <3> QED
      BY <2>1, <3>1
  <2>7. Espera'
    <3> SUFFICES ASSUME NEW d \in Conexiones, NEW p \in Pids, EnCamino(d, p)'
                 PROVE  conQuien'[p] = d /\ proceso'[p] = "bloqueado" /\ corto'.pid # p
      BY DEF Espera
    <3>1. corto'.pid = NULL /\ p # NULL
      BY <2>2, ConstantesInterfaces DEF Libre
    <3>2. CASE d = c /\ p = q
      BY <2>2, <2>3, <3>1, <3>2 DEF TypeOK
    <3>3. CASE EnCamino(d, p)
      <4>1. p # q
        BY <2>4, <3>3
      <4> QED
        BY <2>2, <3>1, <3>3, <4>1 DEF Espera, TypeOK
    <3> QED
      BY <2>6, <3>2, <3>3
  <2>8. Comienzo'
    <3>1. \A d \in Conexiones : interfaz[d] = "no" => pedidos'[d] = pedidos[d]
      BY <2>2 DEF TypeOK
    <3> QED
      BY <2>2, <3>1 DEF Comienzo
  <2>9. NodoPropio' /\ NodoBuscado'
    BY <2>2 DEF NodoPropio, NodoBuscado, Libre
  <2>10. Pedida'
    BY <2>1, <2>2, <2>5 DEF Pedida
  <2> QED
    BY <1>1, <2>1, <2>7, <2>8, <2>9, <2>10
<1> QED
  BY <1>2, <1>3, <1>4 DEF EjecutarIO

\* Every step.
LEMMA InvPaso == Inv /\ [Next]_vars => Inv'
<1> SUFFICES ASSUME Inv, [Next]_vars PROVE Inv'
  OBVIOUS
<1>1. ASSUME NEW c \in Conexiones,
             (\E n \in Nombres : Conectar(c, n)) \/ Recibir(c) \/ Responder(c) \/ Salir(c)
      PROVE  Inv'
  BY <1>1, InvPrograma
<1>2. ASSUME NEW c \in Conexiones, Atender(c) PROVE Inv'
  BY <1>2, InvServidor
<1>3. CASE EjecutarIO \/ \E p \in Pids, n \in Nombres, t \in Tipos : Buscar(p, n, t)
  BY <1>3, InvPlanificador
<1>4. CASE UNCHANGED vars
  <2> USE DEF vars, programa, canales, servidor
  <2>1. UnaVez' /\ \A c \in Conexiones, p \in Pids : EnCamino(c, p)' <=> EnCamino(c, p)
    BY <1>4, MensajesQuietos DEF Inv
  <2>2. Espera' /\ Pedida'
    BY <1>4, <2>1, EsperaQuieta, PedidaQuieta DEF Inv
  <2>3. TypeOK' /\ Hallados' /\ Comienzo' /\ NodoPropio' /\ NodoBuscado'
    BY <1>4 DEF Inv, TypeOK, Hallados, Comienzo, NodoPropio, NodoBuscado
  <2> QED
    BY <2>1, <2>2, <2>3 DEF Inv
<1> QED
  BY <1>1, <1>2, <1>3, <1>4 DEF Next, Trabajar

-----------------------------------------------------------------------------
(* Theorems                                                                 *)

\* A process has one request on its way, to the interface it named, and each thread of the
\* kernel works on its own node as long as connections come one at a time.
THEOREM Invariante == Spec => []Inv
<1>1. Init => Inv
  BY InvInicial
<1>2. Inv /\ [Next]_vars => Inv'
  BY InvPaso
<1> QED
  BY <1>1, <1>2, PTL DEF Spec

\* The kernel's threads, its list of interfaces and the interface programs keep their
\* types, whatever connects, leaves or uses a node that another thread has freed.
THEOREM TipoCorrecto == Spec => []TypeOK
<1>1. Inv => TypeOK
  BY DEF Inv
<1> QED
  BY <1>1, Invariante, PTL

\* While no two connections have used interfaz_aux at once, an interface is only asked for
\* what was asked of it by name: the node found by procesar_conexion_kernel's list leads to
\* the connection that announced the name (agregar_interfaz_a_lista, ejecutar_intruccion_io),
\* and a process has one request at a time.
THEOREM PedidosALaNombrada == Spec => []LlegaALaPedida
<1>1. Inv => LlegaALaPedida
  <2> SUFFICES ASSUME Inv, ~pisado, NEW c \in Conexiones, NEW p \in Pids,
                      p = trabajo[c] \/ p \in Range(pedidos[c])
               PROVE  pide[p] = nombre[c]
    BY DEF LlegaALaPedida
  <2>1. ASSUME p \in Range(pedidos[c]) PROVE En(pedidos[c], p)
    <3>1. pedidos[c] \in Seq(Pids)
      BY DEF Inv, TypeOK
    <3> QED
      BY <2>1, <3>1, LenProperties DEF Range, En
  <2> QED
    BY <2>1 DEF Inv, Pedida
<1> QED
  BY <1>1, Invariante, PTL

-----------------------------------------------------------------------------
(* The end of an I/O finds its interface                                    *)

MismaCantidad(A, B) == IsFiniteSet(A) /\ IsFiniteSet(B) /\ Cardinality(A) = Cardinality(B)

\* The nodes in the list and the threads that still serve a connection, of each name.
EnLista(n)   == {c \in Conexiones : En(interfaces_conectadas, c) /\ nombre[c] = n}
Atendidas(n) == {c \in Conexiones : hilo[c] \in {"atender", "buscar", "sacar"} /\ nombre[c] = n}

\* While connections come one at a time, the list has live nodes only, none twice, and for
\* every name as many as threads serve it.  Whose node a thread finds may be another's.
Presencia ==
  ~pisado =>
    /\ UnaVezEn(interfaces_conectadas, Conexiones)
    /\ \A c \in Conexiones :
         /\ En(interfaces_conectadas, c) => nodo[c].estado = "vivo"
         /\ hilo[c] = "agregar" => ~En(interfaces_conectadas, c) /\ nodo[c].estado = "vivo"
    /\ \A n \in Nombres \cup {NULL} : MismaCantidad(EnLista(n), Atendidas(n))

LEMMA UnoMas ==
  ASSUME NEW A, NEW B, MismaCantidad(A, B), NEW x, x \notin A, NEW y, y \notin B
  PROVE  MismaCantidad(A \cup {x}, B \cup {y})
<1>1. IsFiniteSet(A \cup {x}) /\ Cardinality(A \cup {x}) = Cardinality(A) + 1
  BY FS_AddElement DEF MismaCantidad
<1>2. IsFiniteSet(B \cup {y}) /\ Cardinality(B \cup {y}) = Cardinality(B) + 1
  BY FS_AddElement DEF MismaCantidad
<1> QED
  BY <1>1, <1>2 DEF MismaCantidad

LEMMA UnoMenos ==
  ASSUME NEW A, NEW B, MismaCantidad(A, B), NEW x \in A, NEW y \in B
  PROVE  MismaCantidad(A \ {x}, B \ {y})
<1>1. IsFiniteSet(A \ {x}) /\ Cardinality(A \ {x}) = Cardinality(A) - 1
  BY FS_RemoveElement DEF MismaCantidad
<1>2. IsFiniteSet(B \ {y}) /\ Cardinality(B \ {y}) = Cardinality(B) - 1
  BY FS_RemoveElement DEF MismaCantidad
<1> QED
  BY <1>1, <1>2 DEF MismaCantidad

\* If the one is not empty neither is the other.
LEMMA AlgunoHay ==
  ASSUME NEW A, NEW B, MismaCantidad(A, B), B # {}
  PROVE  A # {}
BY FS_EmptySet DEF MismaCantidad

\* Only a queue changes.
LEMMA ColaNueva ==
  ASSUME NEW v \in Conexiones, NEW q, nodo' = [nodo EXCEPT ![v].cola = q], TypeOK
  PROVE  \A d \in Conexiones : nodo'[d].estado = nodo[d].estado /\ nodo'[d].de = nodo[d].de
<1>1. nodo'[v] = [nodo[v] EXCEPT !.cola = q] /\ nodo[v] \in Nodos
  BY DEF TypeOK
<1>2. nodo'[v].estado = nodo[v].estado /\ nodo'[v].de = nodo[v].de
  BY <1>1 DEF Nodos
<1>3. \A d \in Conexiones \ {v} : nodo'[d] = nodo[d]
  BY DEF TypeOK
<1> QED
  BY <1>2, <1>3

\* A thread that serves a connection finds a node of its name, and no search compares the
\* name of a node that is not one.
LEMMA BusquedaSegura ==
  ASSUME Inv, Presencia, ~pisado
  PROVE  /\ \A n : ~RecorreBasura(n)
         /\ \A c \in Conexiones : hilo[c] \in {"atender", "buscar", "sacar"} => buscar(nombre[c]) # NULL
<1>1. /\ interfaces_conectadas \in Seq(Conexiones)
      /\ DOMAIN interfaces_conectadas = 1 .. Len(interfaces_conectadas)
  BY LenProperties DEF Inv, TypeOK
<1>2. \A i \in DOMAIN interfaces_conectadas :
        interfaces_conectadas[i] \in Conexiones /\ nodo[interfaces_conectadas[i]].estado = "vivo"
  BY <1>1, ElementOfSeq DEF Presencia, En
<1>3. ASSUME NEW c \in Conexiones, hilo[c] \in {"atender", "buscar", "sacar"} PROVE buscar(nombre[c]) # NULL
  <2>1. nombre[c] \in Nombres \cup {NULL} /\ c \in Atendidas(nombre[c])
    BY <1>3 DEF Atendidas, Inv, TypeOK
  <2>2. EnLista(nombre[c]) # {}
    BY <2>1, AlgunoHay DEF Presencia
  <2>3. PICK d \in Conexiones : En(interfaces_conectadas, d) /\ nombre[d] = nombre[c]
    BY <2>2 DEF EnLista
  <2>4. PICK i \in DOMAIN interfaces_conectadas : interfaces_conectadas[i] = d
    BY <1>1, <2>3 DEF En
  <2>5. nodo[d].estado = "vivo" /\ nodo[d].de = d
    BY <1>2, <2>4 DEF Inv, NodoPropio
  <2>6. i \in Posiciones(nombre[c])
    BY <2>3, <2>4, <2>5 DEF Posiciones, Coincide
  <2>7. Min(Posiciones(nombre[c])) \in DOMAIN interfaces_conectadas
    <3>1. Posiciones(nombre[c]) \in SUBSET Nat
      BY <1>1 DEF Posiciones
    <3>2. Min(Posiciones(nombre[c])) \in Posiciones(nombre[c])
      BY <2>6, <3>1, MinDeNaturales
    <3> QED
      BY <3>2 DEF Posiciones
  <2> QED
    BY <1>2, <2>6, <2>7, ConstantesInterfaces DEF buscar
<1> QED
  BY <1>2, <1>3 DEF RecorreBasura

\* A step that leaves the list alone keeps it all, if it keeps the nodes in the list alive
\* and the connections served.
LEMMA PresenciaQuieta ==
  ASSUME Inv, Presencia, ~pisado' => ~pisado, interfaces_conectadas' = interfaces_conectadas,
         ~pisado => \A c \in Conexiones :
           /\ En(interfaces_conectadas, c) => nombre'[c] = nombre[c] /\ nodo'[c].estado = nodo[c].estado
           /\ hilo'[c] \in {"atender", "buscar", "sacar"} <=> hilo[c] \in {"atender", "buscar", "sacar"}
           /\ hilo[c] \in {"atender", "buscar", "sacar"} => nombre'[c] = nombre[c]
           /\ hilo'[c] = "agregar" => ~En(interfaces_conectadas, c) /\ nodo'[c].estado = "vivo"
  PROVE  Presencia'
<1> SUFFICES ASSUME ~pisado' PROVE Presencia'
  BY DEF Presencia
<1>1. \A n : EnLista(n)' = EnLista(n)
  BY DEF EnLista, En
<1>2. \A n : Atendidas(n)' = Atendidas(n)
  BY DEF Atendidas
<1>3. \A n \in Nombres \cup {NULL} : MismaCantidad(EnLista(n)', Atendidas(n)')
  BY <1>1, <1>2 DEF Presencia
<1>4. /\ UnaVezEn(interfaces_conectadas, Conexiones)'
      /\ \A c \in Conexiones :
           /\ En(interfaces_conectadas, c)' => nodo'[c].estado = "vivo"
           /\ hilo'[c] = "agregar" => ~En(interfaces_conectadas, c)' /\ nodo'[c].estado = "vivo"
  BY DEF Presencia, En, UnaVezEn
<1> QED
  BY <1>3, <1>4 DEF Presencia, MismaCantidad

LEMMA PresenciaInicial == Init => Presencia /\ NuncaCae
<1> SUFFICES ASSUME Init PROVE Presencia /\ NuncaCae
  OBVIOUS
<1>1. \A c \in Conexiones : ~En(interfaces_conectadas, c) /\ hilo[c] = "no"
  BY Vacia DEF Init
<1>2. \A n : EnLista(n) = {} /\ Atendidas(n) = {}
  BY <1>1 DEF EnLista, Atendidas
<1>3. \A n : MismaCantidad(EnLista(n), Atendidas(n))
  BY <1>2, FS_EmptySet DEF MismaCantidad
<1>4. UnaVezEn(interfaces_conectadas, Conexiones)
  BY Vacia DEF Init
<1> QED
  BY <1>1, <1>3, <1>4 DEF Presencia, NuncaCae, Init

\* The interface programs: only a program whose connection has no thread yet is renamed.
LEMMA PresenciaPrograma ==
  ASSUME Inv, Presencia, NEW c \in Conexiones,
         (\E n \in Nombres : Conectar(c, n)) \/ Recibir(c) \/ Responder(c) \/ Salir(c)
  PROVE  Presencia' /\ UNCHANGED <<caida, pisado, colgado>>
<1>1. CASE \E n \in Nombres : Conectar(c, n)
  <2>1. PICK n \in Nombres : Conectar(c, n)
    BY <1>1
  <2>2. hilo[c] = "no" /\ nodo[c].estado = "no"
    BY <2>1 DEF Conectar, Inv, Comienzo
  <2>3. /\ UNCHANGED <<hilo, nodo, interfaces_conectadas, caida, pisado, colgado>>
        /\ \A d \in Conexiones \ {c} : nombre'[d] = nombre[d]
    BY <2>1 DEF Conectar, servidor, Inv, TypeOK
  <2>4. ~pisado => ~En(interfaces_conectadas, c)
    BY <2>2 DEF Presencia
  <2>5. Presencia'
    BY <2>2, <2>3, <2>4, PresenciaQuieta DEF Presencia
  <2> QED
    BY <2>3, <2>5
<1>2. CASE Recibir(c) \/ Responder(c) \/ Salir(c)
  <2>1. UNCHANGED <<nombre, hilo, nodo, interfaces_conectadas, caida, pisado, colgado>>
    BY <1>2 DEF Recibir, Responder, Salir, servidor
  <2>2. Presencia'
    BY <2>1, PresenciaQuieta DEF Presencia
  <2> QED
    BY <2>1, <2>2
<1> QED
  BY <1>1, <1>2

\* A connection's node goes into the list with its thread...
LEMMA PresenciaAgregar ==
  ASSUME Inv, Presencia, NEW c \in Conexiones, Agregar(c)
  PROVE  Presencia'
<1> SUFFICES ASSUME ~pisado PROVE Presencia'
  BY DEF Agregar, Presencia
<1> DEFINE L == interfaces_conectadas
<1>1. hilo[c] = "agregar" /\ interfaz_aux = c /\ ~En(L, c) /\ nodo[c].estado = "vivo"
  BY DEF Agregar, Inv, NodoPropio, Presencia
<1>2. /\ hilo'[c] = "atender" /\ \A d \in Conexiones \ {c} : hilo'[d] = hilo[d]
      /\ L' = Append(L, c) /\ UNCHANGED <<nodo, nombre>>
  BY <1>1 DEF Agregar, programa, Inv, TypeOK
<1>3. L \in Seq(Conexiones)
  BY DEF Inv, TypeOK
<1>4. \A d \in Conexiones : En(L', d) <=> En(L, d) \/ d = c
  BY <1>2, <1>3, EnAppend
<1>5. UnaVezEn(L', Conexiones)
  BY <1>1, <1>2, <1>3, UnaVezAppend DEF Presencia
<1>6. \A n \in Nombres \cup {NULL} : MismaCantidad(EnLista(n)', Atendidas(n)')
  <2> TAKE n \in Nombres \cup {NULL}
  <2>1. EnLista(n)' = {d \in Conexiones : En(L', d) /\ nombre'[d] = n}
    BY DEF EnLista, En
  <2>2. Atendidas(n)' = {d \in Conexiones : hilo'[d] \in {"atender", "buscar", "sacar"} /\ nombre'[d] = n}
    BY DEF Atendidas
  <2>3. MismaCantidad(EnLista(n), Atendidas(n))
    BY DEF Presencia
  <2>4. CASE nombre[c] = n
    <3>1. EnLista(n)' = EnLista(n) \cup {c} /\ c \notin EnLista(n)
      BY <1>1, <1>2, <1>4, <2>1, <2>4 DEF EnLista
    <3>2. Atendidas(n)' = Atendidas(n) \cup {c} /\ c \notin Atendidas(n)
      BY <1>1, <1>2, <2>2, <2>4 DEF Atendidas
    <3> QED
      BY <2>3, <3>1, <3>2, UnoMas
  <2>5. CASE nombre[c] # n
    <3>1. EnLista(n)' = EnLista(n)
      BY <1>2, <1>4, <2>1, <2>5 DEF EnLista
    <3>2. Atendidas(n)' = Atendidas(n)
      BY <1>1, <1>2, <2>2, <2>5 DEF Atendidas
    <3> QED
      BY <2>3, <3>1, <3>2
  <2> QED
    BY <2>4, <2>5
<1>7. \A d \in Conexiones :
        /\ En(L', d) => nodo'[d].estado = "vivo"
        /\ hilo'[d] = "agregar" => ~En(L', d) /\ nodo'[d].estado = "vivo"
  BY <1>1, <1>2, <1>4 DEF Presencia
<1> QED
  BY <1>5, <1>6, <1>7 DEF Presencia, MismaCantidad, UnaVezEn, En

\* ... and one of its name leaves it with its thread.
LEMMA PresenciaEliminar ==
  ASSUME Inv, Presencia, NEW c \in Conexiones, Eliminar(c), ~pisado
  PROVE  Presencia' /\ caida' = caida
<1> DEFINE L == interfaces_conectadas
           v == buscar(nombre[c])
           k == Min(Posiciones(nombre[c]))
<1>1. hilo[c] = "atender" /\ ~RecorreBasura(nombre[c]) /\ v # NULL
  BY BusquedaSegura DEF Eliminar
<1>2. /\ L \in Seq(Conexiones) /\ UnaVezEn(L, Conexiones)
      /\ k \in 1 .. Len(L) /\ v = L[k]
      /\ v \in Conexiones /\ nodo[v].estado = "vivo" /\ nombre[nodo[v].de] = nombre[c]
  BY <1>1, BuscarEncuentra DEF Inv, TypeOK, Presencia, buscar
<1>3. nombre[v] = nombre[c] /\ En(L, v)
  BY <1>2 DEF Inv, NodoPropio, En
<1>4. /\ L' = RemoveAt(L, k) /\ caida' = caida
      /\ nodo' = [nodo EXCEPT ![v].estado = "libre", ![v].cola = <<>>]
      /\ hilo' = [hilo EXCEPT ![c] = "fin"] /\ UNCHANGED <<nombre, pisado>>
  BY <1>1 DEF Eliminar, programa
<1> HIDE DEF v, k
<1>5. UnaVezEn(L', Conexiones) /\ \A d \in Conexiones : En(L', d) <=> En(L, d) /\ d # v
  BY <1>2, <1>4, SinLugarQuita
<1>6. /\ \A d \in Conexiones \ {v} : nodo'[d] = nodo[d]
      /\ hilo'[c] = "fin" /\ \A d \in Conexiones \ {c} : hilo'[d] = hilo[d]
  BY <1>4 DEF Inv, TypeOK
<1>7. \A n \in Nombres \cup {NULL} : MismaCantidad(EnLista(n)', Atendidas(n)')
  <2> TAKE n \in Nombres \cup {NULL}
  <2>1. EnLista(n)' = {d \in Conexiones : En(L', d) /\ nombre'[d] = n}
    BY DEF EnLista, En
  <2>2. Atendidas(n)' = {d \in Conexiones : hilo'[d] \in {"atender", "buscar", "sacar"} /\ nombre'[d] = n}
    BY DEF Atendidas
  <2>3. MismaCantidad(EnLista(n), Atendidas(n))
    BY DEF Presencia
  <2>4. CASE nombre[c] = n
    <3>1. EnLista(n)' = EnLista(n) \ {v} /\ v \in EnLista(n)
      BY <1>2, <1>3, <1>4, <1>5, <2>1, <2>4 DEF EnLista
    <3>2. Atendidas(n)' = Atendidas(n) \ {c} /\ c \in Atendidas(n)
      BY <1>1, <1>4, <1>6, <2>2, <2>4 DEF Atendidas
    <3> QED
      BY <2>3, <3>1, <3>2, UnoMenos
  <2>5. CASE nombre[c] # n
    <3>1. EnLista(n)' = EnLista(n)
      BY <1>3, <1>4, <1>5, <2>1, <2>5 DEF EnLista
    <3>2. Atendidas(n)' = Atendidas(n)
      BY <1>4, <1>6, <2>2, <2>5 DEF Atendidas
    <3> QED
      BY <2>3, <3>1, <3>2
  <2> QED
    BY <2>4, <2>5
<1>8. \A d \in Conexiones :
        /\ En(L', d) => nodo'[d].estado = "vivo"
        /\ hilo'[d] = "agregar" => ~En(L', d) /\ nodo'[d].estado = "vivo"
  BY <1>3, <1>5, <1>6 DEF Presencia
<1>9. Presencia'
  BY <1>5, <1>7, <1>8 DEF Presencia, MismaCantidad, UnaVezEn, En
<1> QED
  BY <1>4, <1>9

\* The kernel's thread of a connection.
LEMMA PresenciaServidor ==
  ASSUME Inv, Presencia, NuncaCae, NEW c \in Conexiones, Atender(c)
  PROVE  Presencia' /\ NuncaCae'
<1>1. CASE Iniciar(c)
  <2>1. /\ hilo[c] = "no" /\ nodo[c].estado = "no" /\ hilo'[c] = "presentacion"
        /\ \A d \in Conexiones \ {c} : nodo'[d] = nodo[d] /\ hilo'[d] = hilo[d]
        /\ UNCHANGED <<nombre, interfaces_conectadas, caida, colgado>>
    BY <1>1 DEF Iniciar, programa, Inv, Comienzo, TypeOK
  <2>2. ~pisado' => ~pisado
    BY <1>1, Zenon DEF Iniciar
  <2>3. ~pisado => ~En(interfaces_conectadas, c)
    BY <2>1 DEF Presencia
  <2>4. Presencia'
    BY <2>1, <2>2, <2>3, PresenciaQuieta DEF Presencia
  <2> QED
    BY <2>1, <2>2, <2>4 DEF NuncaCae
<1>2. CASE Completar(c)
  <2>1. /\ hilo[c] = "presentacion" /\ hilo'[c] = "agregar"
        /\ \A d \in Conexiones \ {c} : hilo'[d] = hilo[d]
        /\ UNCHANGED <<nombre, interfaces_conectadas, pisado>>
    BY <1>2 DEF Completar, programa, Inv, TypeOK
  <2>2. ASSUME ~pisado
        PROVE  /\ nodo[c].estado = "nuevo" /\ nodo'[c].estado = "vivo"
               /\ \A d \in Conexiones \ {c} : nodo'[d] = nodo[d]
               /\ UNCHANGED <<caida, colgado>>
    <3>1. interfaz_aux = c /\ nodo[c].estado = "nuevo"
      BY <2>1, <2>2 DEF Inv, NodoPropio
    <3>2. /\ nodo' = [nodo EXCEPT ![c] = [estado |-> "vivo", de |-> c, cola |-> <<>>]]
          /\ UNCHANGED <<caida, colgado>>
      BY <1>2, <3>1 DEF Completar
    <3> QED
      BY <3>1, <3>2 DEF Inv, TypeOK
  <2>3. ~pisado => ~En(interfaces_conectadas, c)
    BY <2>2 DEF Presencia
  <2>4. Presencia'
    BY <2>1, <2>2, <2>3, PresenciaQuieta DEF Presencia
  <2> QED
    BY <2>1, <2>2, <2>4 DEF NuncaCae
<1>3. CASE Agregar(c)
  BY <1>3, PresenciaAgregar DEF Agregar, NuncaCae
<1>4. CASE Desbloquear(c)
  <2>1. /\ hilo[c] = "atender" /\ hilo'[c] = "buscar"
        /\ \A d \in Conexiones \ {c} : hilo'[d] = hilo[d]
        /\ UNCHANGED <<nombre, nodo, interfaces_conectadas, pisado, caida, colgado>>
    BY <1>4 DEF Desbloquear, programa, Inv, TypeOK
  <2>2. Presencia'
    BY <2>1, PresenciaQuieta DEF Presencia
  <2> QED
    BY <2>1, <2>2 DEF NuncaCae
<1>5. CASE Sacar(c)
  <2>1. /\ hilo[c] = "sacar" /\ hilo'[c] = "atender"
        /\ \A d \in Conexiones \ {c} : hilo'[d] = hilo[d]
        /\ UNCHANGED <<nombre, interfaces_conectadas, pisado>>
    BY <1>5 DEF Sacar, programa, Inv, TypeOK
  <2>2. colgado' \/ UNCHANGED <<caida, colgado>>
    BY <1>5 DEF Sacar
  <2>3. \A d \in Conexiones : nodo'[d].estado = nodo[d].estado
    <3> DEFINE v == hallado[c]
    <3>1. nodo' = nodo \/ nodo' = [nodo EXCEPT ![v].cola = Desencolar(nodo[v].cola)]
      BY <1>5 DEF Sacar
    <3>2. v \in Conexiones
      BY <1>5 DEF Sacar, Inv, Hallados, TypeOK
    <3> HIDE DEF v
    <3> QED
      BY <3>1, <3>2, ColaNueva DEF Inv, TypeOK
  <2>4. Presencia'
    BY <2>1, <2>3, PresenciaQuieta DEF Presencia
  <2> QED
    BY <2>1, <2>2, <2>4 DEF NuncaCae
<1>6. CASE Eliminar(c)
  <2>1. UNCHANGED <<pisado, colgado>>
    BY <1>6 DEF Eliminar
  <2>2. CASE pisado
    BY <2>1, <2>2 DEF Presencia, NuncaCae
  <2>3. CASE ~pisado
    BY <1>6, <2>1, <2>3, PresenciaEliminar DEF NuncaCae
  <2> QED
    BY <2>2, <2>3
<1>7. CASE BuscarNodo(c)
  <2>1. /\ hilo[c] = "buscar" /\ hilo'[c] \in {"buscar", "sacar"}
        /\ \A d \in Conexiones \ {c} : hilo'[d] = hilo[d]
        /\ UNCHANGED <<nombre, nodo, interfaces_conectadas, pisado, colgado>>
    BY <1>7 DEF BuscarNodo, programa, Inv, TypeOK
  <2>2. ~pisado => caida' = caida
    BY <1>7, <2>1, BusquedaSegura DEF BuscarNodo
  <2>3. Presencia'
    BY <2>1, PresenciaQuieta DEF Presencia
  <2> QED
    BY <2>1, <2>2, <2>3 DEF NuncaCae
<1> QED
  BY <1>1, <1>2, <1>3, <1>4, <1>5, <1>6, <1>7 DEF Atender

\* The scheduler.
LEMMA PresenciaPlanificador ==
  ASSUME Inv, Presencia, NuncaCae,
         EjecutarIO \/ \E p \in Pids, n \in Nombres, t \in Tipos : Buscar(p, n, t)
  PROVE  Presencia' /\ NuncaCae'
<1>1. UNCHANGED <<nombre, hilo, interfaces_conectadas, pisado>>
  BY SMTT(30) DEF EjecutarIO, Buscar, Rechazar, Bloquear, BloquearLiberado, Enviar, EnviarPerdido,
         programa, servidor
<1>2. colgado => colgado'
  BY DEF EjecutarIO, Buscar, Rechazar, Bloquear, BloquearLiberado, Enviar, EnviarPerdido
<1>3. \A d \in Conexiones : nodo'[d].estado = nodo[d].estado
  <2>1. CASE Bloquear
    <3>1. /\ corto.nodo \in Conexiones
          /\ nodo' = [nodo EXCEPT ![corto.nodo].cola = Append(nodo[corto.nodo].cola, corto.pid)]
      BY SMTT(30), <2>1 DEF Bloquear, Inv, TypeOK
    <3> QED
      BY <3>1, ColaNueva DEF Inv, TypeOK
  <2>2. CASE ~Bloquear
    BY <2>2 DEF EjecutarIO, Buscar, Rechazar, BloquearLiberado, Enviar, EnviarPerdido
  <2> QED
    BY <2>1, <2>2
<1>4. Presencia'
  BY <1>1, <1>3, PresenciaQuieta DEF Presencia
<1>5. ~pisado => caida' = caida \/ colgado'
  <2>1. ASSUME NEW p \in Pids, NEW n \in Nombres, NEW t \in Tipos, Buscar(p, n, t), ~pisado
        PROVE  caida' = caida
    BY SMTT(30), <2>1, BusquedaSegura DEF Buscar
  <2>2. EjecutarIO => caida' = caida \/ colgado'
    BY DEF EjecutarIO, Rechazar, Bloquear, BloquearLiberado, Enviar, EnviarPerdido
  <2> QED
    BY <2>1, <2>2
<1> QED
  BY SMTT(30), <1>1, <1>2, <1>4, <1>5 DEF NuncaCae

LEMMA PresenciaPaso == Inv /\ Presencia /\ NuncaCae /\ [Next]_vars => Presencia' /\ NuncaCae'
<1> SUFFICES ASSUME Inv, Presencia, NuncaCae, [Next]_vars PROVE Presencia' /\ NuncaCae'
  OBVIOUS
<1>1. ASSUME NEW c \in Conexiones,
             (\E n \in Nombres : Conectar(c, n)) \/ Recibir(c) \/ Responder(c) \/ Salir(c)
      PROVE  Presencia' /\ NuncaCae'
  BY <1>1, PresenciaPrograma DEF NuncaCae
<1>2. ASSUME NEW c \in Conexiones, Atender(c) PROVE Presencia' /\ NuncaCae'
  BY <1>2, PresenciaServidor
<1>3. CASE EjecutarIO \/ \E p \in Pids, n \in Nombres, t \in Tipos : Buscar(p, n, t)
  BY <1>3, PresenciaPlanificador
<1>4. CASE UNCHANGED vars
  <2> USE DEF vars, programa, servidor
  <2>1. Presencia'
    BY <1>4, PresenciaQuieta DEF Presencia
  <2> QED
    BY <1>4, <2>1 DEF NuncaCae
<1> QED
  BY <1>1, <1>2, <1>3, <1>4 DEF Next, Trabajar

\* The search by name of the thread that ends an I/O or a connection finds a node, its own
\* or one of the same name, whatever order the runs of the interfaces come and go in: the
\* kernel does not pop or free NULL (FINALIZACION_INTERFAZ*, eliminar_interfaz_de_lista),
\* unless two connections used interfaz_aux at once or a freed node was used: by the
\* scheduler after its lookup, or by a thread between its search and its squeue_pop.
THEOREM KernelSigue == Spec => []NuncaCae
<1>1. Init => Presencia /\ NuncaCae
  BY PresenciaInicial
<1>2. Inv /\ Presencia /\ NuncaCae /\ [Next]_vars => Presencia' /\ NuncaCae'
  BY PresenciaPaso
<1> QED
  BY <1>1, <1>2, Invariante, PTL DEF Spec

-----------------------------------------------------------------------------
(* Moving along a queue                                                     *)

LEMMA TailConcat ==
  ASSUME NEW S, NEW s \in Seq(S), NEW t \in Seq(S), s # <<>>
  PROVE  s \o t # <<>> /\ Tail(s \o t) = Tail(s) \o t
<1> DEFINE n == Len(s)
           m == Len(t)
<1>1. /\ n \in Nat \ {0} /\ m \in Nat /\ s \o t \in Seq(S) /\ Len(s \o t) = n + m
      /\ \A i \in 1 .. n + m : (s \o t)[i] = IF i <= n THEN s[i] ELSE t[i - n]
  BY ConcatProperties, LenProperties, EmptySeq
<1>2. s \o t # <<>>
  BY <1>1, EmptySeq
<1>3. /\ Tail(s \o t) \in Seq(S) /\ Len(Tail(s \o t)) = (n + m) - 1
      /\ \A i \in 1 .. (n + m) - 1 : Tail(s \o t)[i] = (s \o t)[i + 1]
  BY <1>1, <1>2, HeadTailProperties
<1>4. /\ Tail(s) \in Seq(S) /\ Len(Tail(s)) = n - 1
      /\ \A i \in 1 .. n - 1 : Tail(s)[i] = s[i + 1]
  BY HeadTailProperties
<1>5. /\ Tail(s) \o t \in Seq(S) /\ Len(Tail(s) \o t) = (n - 1) + m
      /\ \A i \in 1 .. (n - 1) + m :
           (Tail(s) \o t)[i] = IF i <= n - 1 THEN Tail(s)[i] ELSE t[i - (n - 1)]
  BY <1>4, ConcatProperties
<1> HIDE DEF n, m
<1>6. ASSUME NEW i \in 1 .. (n + m) - 1 PROVE Tail(s \o t)[i] = (Tail(s) \o t)[i]
  <2>1. i + 1 \in 1 .. n + m /\ i \in 1 .. (n - 1) + m
    BY <1>1
  <2>2. Tail(s \o t)[i] = IF i + 1 <= n THEN s[i + 1] ELSE t[(i + 1) - n]
    BY <1>1, <1>3, <2>1
  <2>3. CASE i <= n - 1
    <3>1. i \in 1 .. n - 1 /\ i + 1 <= n
      BY <1>1, <2>3
    <3> QED
      BY <1>4, <1>5, <2>1, <2>2, <2>3, <3>1
  <2>4. CASE ~(i <= n - 1)
    <3>1. ~(i + 1 <= n) /\ (i + 1) - n = i - (n - 1)
      BY <1>1, <2>4
    <3> QED
      BY <1>5, <2>1, <2>2, <2>4, <3>1
  <2> QED
    BY <2>3, <2>4
<1>7. (n + m) - 1 = (n - 1) + m
  BY <1>1
<1>8. Tail(s \o t) = Tail(s) \o t
  BY <1>3, <1>5, <1>6, <1>7, SeqEqual
<1> QED
  BY <1>2, <1>8

\* The first of a queue is the same after one more has come.
LEMMA LlegaOtro ==
  ASSUME NEW S, NEW s \in Seq(S), NEW e \in S
  PROVE  Append(s, e) # <<>> /\ (s # <<>> => Tail(Append(s, e)) = Append(Tail(s), e))
<1>1. Append(s, e) # <<>>
  BY AppendProperties
<1>2. Tail(Append(s, e)) = IF s = <<>> THEN <<>> ELSE Append(Tail(s), e)
  BY HeadTailAppend
<1> QED
  BY <1>1, <1>2

LEMMA HeadMasTail ==
  ASSUME NEW S, NEW s \in Seq(S), s # <<>>
  PROVE  <<Head(s)>> \o Tail(s) = s
<1>1. /\ Len(s) \in Nat \ {0} /\ Head(s) = s[1] /\ Head(s) \in S /\ Tail(s) \in Seq(S)
      /\ Len(Tail(s)) = Len(s) - 1 /\ \A i \in 1 .. Len(s) - 1 : Tail(s)[i] = s[i + 1]
  BY HeadTailProperties, EmptySeq
<1>2. <<Head(s)>> \in Seq(S) /\ Len(<<Head(s)>>) = 1 /\ <<Head(s)>>[1] = Head(s)
  BY <1>1
<1> DEFINE r == <<Head(s)>> \o Tail(s)
<1>3. /\ r \in Seq(S) /\ Len(r) = 1 + (Len(s) - 1)
      /\ \A i \in 1 .. 1 + (Len(s) - 1) : r[i] = IF i <= 1 THEN <<Head(s)>>[i] ELSE Tail(s)[i - 1]
  BY <1>1, <1>2, ConcatProperties
<1> HIDE DEF r
<1>4. Len(r) = Len(s) /\ \A i \in 1 .. Len(s) : r[i] = s[i]
  <2>1. ASSUME NEW i \in 1 .. Len(s) PROVE r[i] = s[i]
    <3>1. CASE i = 1
      BY <1>1, <1>2, <1>3, <3>1
    <3>2. CASE i # 1
      <4>1. i - 1 \in 1 .. Len(s) - 1 /\ (i - 1) + 1 = i /\ ~(i <= 1) /\ i \in 1 .. 1 + (Len(s) - 1)
        BY <1>1, <3>2
      <4> QED
        BY <1>1, <1>3, <4>1
    <3> QED
      BY <3>1, <3>2
  <2> QED
    BY <1>1, <1>3, <2>1
<1> QED
  BY <1>3, <1>4, SeqEqual DEF r

\* A process moves from one part of a queue of four parts to the one before it.
LEMMA PasaAlAnterior ==
  ASSUME NEW S, NEW s \in Seq(S), NEW t \in Seq(S), NEW u \in Seq(S), NEW v \in Seq(S), NEW e \in S
  PROVE  /\ Append(s, e) \o <<>> \o u \o v = s \o <<e>> \o u \o v
         /\ u # <<>> => s \o <<>> \o u \o v = s \o <<Head(u)>> \o Tail(u) \o v
         /\ s \o t \o Append(u, e) \o <<>> = s \o t \o u \o <<e>>
         /\ s \o t \o u \o <<e>> = Append(s \o t \o u \o <<>>, e)
<1>1. <<e>> \in Seq(S) /\ <<>> \in Seq(S)
  BY EmptySeq
<1>2. s \o t \in Seq(S) /\ (s \o t) \o u \in Seq(S)
  BY ConcatProperties
<1>3. Append(s, e) = s \o <<e>> /\ s \o <<e>> \in Seq(S) /\ Append(u, e) = u \o <<e>>
  BY <1>1, AppendIsConcat, ConcatProperties
<1>4. Append(s, e) \o <<>> = s \o <<e>>
  BY <1>1, <1>3, ConcatEmptySeq
<1>5. ASSUME u # <<>> PROVE (s \o <<>>) \o u = (s \o <<Head(u)>>) \o Tail(u)
  <2>1. <<Head(u)>> \in Seq(S) /\ Tail(u) \in Seq(S) /\ <<Head(u)>> \o Tail(u) = u
    BY <1>5, HeadTailProperties, HeadMasTail
  <2>2. (s \o <<Head(u)>>) \o Tail(u) = s \o u
    BY SMTT(30), <2>1, ConcatAssociative
  <2> QED
    BY <2>2, ConcatEmptySeq
<1>6. ((s \o t) \o (u \o <<e>>)) \o <<>> = ((s \o t) \o u) \o <<e>>
  <2> DEFINE f == <<e>>
  <2>0. f \in Seq(S)
    BY <1>1
  <2> HIDE DEF f
  <2>1. ((s \o t) \o u) \o f = (s \o t) \o (u \o f)
    <3> DEFINE w == s \o t
    <3>1. w \in Seq(S)
      BY <1>2
    <3> HIDE DEF w
    <3>2. (w \o u) \o f = w \o (u \o f)
      BY SMTT(30), <2>0, <3>1, ConcatAssociative
    <3> QED
      BY <3>2 DEF w
  <2>2. (s \o t) \o (u \o f) \in Seq(S)
    BY <2>0, <1>2, ConcatProperties
  <2>3. ((s \o t) \o (u \o f)) \o <<>> = (s \o t) \o (u \o f)
    BY <2>2, ConcatEmptySeq
  <2> QED
    BY <2>1, <2>3 DEF f
<1>7. ((s \o t) \o u) \o <<e>> = Append(((s \o t) \o u) \o <<>>, e)
  <2>1. ((s \o t) \o u) \o <<>> = (s \o t) \o u
    BY <1>2, ConcatEmptySeq
  <2>2. Append((s \o t) \o u, e) = ((s \o t) \o u) \o <<e>>
    BY <1>2, AppendIsConcat
  <2> QED
    BY <2>1, <2>2
<1> QED
  BY <1>3, <1>4, <1>5, <1>6, <1>7

\* And its first process leaves.
Cuatro(s, t, u, v) == s \o t \o u \o v

LEMMA SaleElPrimero ==
  ASSUME NEW S, NEW s \in Seq(S), NEW t \in Seq(S), NEW u \in Seq(S), NEW v \in Seq(S), s # <<>>
  PROVE  Cuatro(s, t, u, v) # <<>> /\ Tail(Cuatro(s, t, u, v)) = Cuatro(Tail(s), t, u, v)
<1>1. s \o t \in Seq(S) /\ (s \o t) \o u \in Seq(S)
  BY ConcatProperties
<1>2. s \o t # <<>> /\ Tail(s \o t) = Tail(s) \o t
  BY TailConcat
<1>3. (s \o t) \o u # <<>> /\ Tail((s \o t) \o u) = Tail(s \o t) \o u
  BY <1>1, <1>2, TailConcat
<1>4. ((s \o t) \o u) \o v # <<>> /\ Tail(((s \o t) \o u) \o v) = Tail((s \o t) \o u) \o v
  BY <1>1, <1>3, TailConcat
<1> QED
  BY <1>2, <1>3, <1>4 DEF Cuatro

-----------------------------------------------------------------------------
(* What an interface still owes                                             *)

Quien         == Pids \cup {NULL}
DePids(s)     == [i \in DOMAIN s |-> s[i].pid]
Trabajando(c) == IF trabajo[c] = NULL THEN <<>> ELSE <<trabajo[c]>>
Enviando(c)   == IF corto.pc = "enviar" /\ nodo[corto.nodo].de = c THEN <<corto.pid>> ELSE <<>>

LEMMA LosPids ==
  ASSUME NEW s \in Seq(Avisos)
  PROVE  /\ DePids(s) \in Seq(Quien) /\ Len(DePids(s)) = Len(s)
         /\ \A i \in 1 .. Len(s) : DePids(s)[i] = s[i].pid
<1>1. Len(s) \in Nat /\ DOMAIN s = 1 .. Len(s) /\ \A i \in 1 .. Len(s) : s[i] \in Avisos
  BY LenProperties, ElementOfSeq
<1>2. \A m \in Avisos : m.pid \in Quien
  BY DEF Avisos, Quien
<1>3. DePids(s) = [i \in 1 .. Len(s) |-> s[i].pid]
  BY <1>1 DEF DePids
<1>4. DePids(s) \in Seq(Quien) /\ Len(DePids(s)) = Len(s)
  <2> DEFINE n == Len(s)
             f == DePids(s)
  <2>1. n \in Nat /\ f \in [1 .. n -> Quien]
    BY <1>1, <1>2, <1>3
  <2> HIDE DEF n, f
  <2>2. f \in Seq(Quien)
    BY <2>1, ListaDeFuncion
  <2>3. Len(f) = n
    BY <2>1, <2>2, ListaDeFuncion
  <2> QED
    BY <2>2, <2>3 DEF n, f
<1> QED
  BY <1>3, <1>4

LEMMA PidsMas ==
  ASSUME NEW s \in Seq(Avisos), NEW m \in Avisos
  PROVE  DePids(Append(s, m)) = Append(DePids(s), m.pid)
<1> DEFINE n == Len(s)
           a == DePids(Append(s, m))
           b == Append(DePids(s), m.pid)
<1>1. /\ n \in Nat /\ Append(s, m) \in Seq(Avisos) /\ Len(Append(s, m)) = n + 1
      /\ Append(s, m)[n + 1] = m /\ \A i \in 1 .. n : Append(s, m)[i] = s[i]
  BY AppendProperties, LenProperties
<1>2. m.pid \in Quien
  BY DEF Avisos, Quien
<1>3. /\ a \in Seq(Quien) /\ Len(a) = n + 1 /\ \A i \in 1 .. n + 1 : a[i] = Append(s, m)[i].pid
  BY <1>1, LosPids
<1>4. DePids(s) \in Seq(Quien) /\ Len(DePids(s)) = n /\ \A i \in 1 .. n : DePids(s)[i] = s[i].pid
  BY LosPids
<1>5. /\ b \in Seq(Quien) /\ Len(b) = n + 1 /\ b[n + 1] = m.pid
      /\ \A i \in 1 .. n : b[i] = DePids(s)[i]
  BY <1>2, <1>4, AppendProperties
<1> HIDE DEF a, b, n
<1>6. \A i \in 1 .. n + 1 : i \in 1 .. n \/ i = n + 1
  BY <1>1
<1>7. \A i \in 1 .. n + 1 : a[i] = b[i]
  BY <1>1, <1>3, <1>4, <1>5, <1>6
<1>8. a = b
  BY <1>3, <1>5, <1>7, SeqEqual
<1> QED
  BY <1>8 DEF a, b

LEMMA PidsMenos ==
  ASSUME NEW s \in Seq(Avisos), s # <<>>
  PROVE  DePids(s) # <<>> /\ DePids(Tail(s)) = Tail(DePids(s))
<1> DEFINE n == Len(s)
           a == DePids(Tail(s))
           d == DePids(s)
<1>1. /\ n \in Nat \ {0} /\ Tail(s) \in Seq(Avisos) /\ Len(Tail(s)) = n - 1
      /\ \A i \in 1 .. n - 1 : Tail(s)[i] = s[i + 1]
  BY HeadTailProperties, EmptySeq
<1>2. d \in Seq(Quien) /\ Len(d) = n /\ \A i \in 1 .. n : d[i] = s[i].pid
  BY SMTT(30), LosPids
<1>3. a \in Seq(Quien) /\ Len(a) = n - 1 /\ \A i \in 1 .. n - 1 : a[i] = Tail(s)[i].pid
  BY <1>1, LosPids
<1> HIDE DEF a, d, n
<1>4. d # <<>>
  BY <1>1, <1>2, EmptySeq
<1>5. Tail(d) \in Seq(Quien) /\ Len(Tail(d)) = n - 1 /\ \A i \in 1 .. n - 1 : Tail(d)[i] = d[i + 1]
  BY <1>2, <1>4, HeadTailProperties
<1>6. \A i \in 1 .. n - 1 : i + 1 \in 1 .. n
  BY <1>1
<1>7. \A i \in 1 .. n - 1 : a[i] = Tail(d)[i]
  BY <1>1, <1>2, <1>3, <1>5, <1>6
<1>8. a = Tail(d)
  BY <1>3, <1>5, <1>7, SeqEqual
<1> QED
  BY <1>4, <1>8 DEF a, d

\* Its four parts.
LEMMA PartesDeEnCurso ==
  ASSUME NEW c
  PROVE  EnCurso(c) = DePids(avisos[c]) \o Trabajando(c) \o pedidos[c] \o Enviando(c)
  BY DEF EnCurso, Avisados, DePids, Trabajando, Enviando

LEMMA TipoDePartes ==
  ASSUME TypeOK, NEW c \in Conexiones
  PROVE  /\ avisos[c] \in Seq(Avisos) /\ DePids(avisos[c]) \in Seq(Quien)
         /\ Trabajando(c) \in Seq(Quien)
         /\ pedidos[c] \in Seq(Pids) /\ pedidos[c] \in Seq(Quien) /\ Enviando(c) \in Seq(Quien)
<1>1. avisos[c] \in Seq(Avisos) /\ pedidos[c] \in Seq(Pids) /\ trabajo[c] \in Pids \cup {NULL}
  BY DEF TypeOK
<1>2. pedidos[c] \in Seq(Quien)
  BY <1>1, SeqMonotonic DEF Quien
<1>3. DePids(avisos[c]) \in Seq(Quien)
  BY <1>1, LosPids
<1>4. \A x \in Quien : <<x>> \in Seq(Quien)
  OBVIOUS
<1>5. <<>> \in Seq(Quien)
  BY EmptySeq
<1>6. trabajo[c] \in Quien
  BY <1>1 DEF Quien
<1>7. Trabajando(c) \in Seq(Quien)
  BY <1>4, <1>5, <1>6 DEF Trabajando
<1>8. corto.pc = "enviar" => corto.pid \in Quien
  BY DEF TypeOK, Quien
<1>9. Enviando(c) \in Seq(Quien)
  BY <1>4, <1>5, <1>8 DEF Enviando
<1> QED
  BY <1>1, <1>2, <1>3, <1>7, <1>9

\* It does not change with the messages of other connections.
LEMMA EnCursoIgual ==
  ASSUME NEW c, avisos'[c] = avisos[c], trabajo'[c] = trabajo[c], pedidos'[c] = pedidos[c],
         Enviando(c)' = Enviando(c)
  PROVE  EnCurso(c)' = EnCurso(c)
<1>1. EnCurso(c)' = DePids(avisos'[c]) \o Trabajando(c)' \o pedidos'[c] \o Enviando(c)'
  BY DEF EnCurso, Avisados, DePids, Trabajando, Enviando
<1>2. Trabajando(c)' = Trabajando(c)
  BY DEF Trabajando
<1> QED
  BY <1>1, <1>2, PartesDeEnCurso

-----------------------------------------------------------------------------
(* The queue of an interface's node is what the interface owes              *)

\* No thread has taken another one's node.
EnPie == ~pisado /\ ~cruzado /\ ~caida

\* An interface whose node is not in the list yet has only announced itself.
Nueva(c) ==
  /\ trabajo[c] = NULL /\ pedidos[c] = <<>>
  /\ avisos[c] = IF hilo[c] = "agregar" THEN <<>> ELSE <<Mensaje("CONEXION_INTERFAZ", NULL)>>

\* A node is in the list, and the scheduler holds it, only once its thread serves it.
Servidas ==
  EnPie =>
    /\ \A c \in Conexiones :
         /\ nodo[c].de \in {NULL, c}
         /\ En(interfaces_conectadas, c) => hilo[c] \in {"atender", "buscar", "sacar"}
         /\ hilo[c] = "agregar" => nodo[c].cola = <<>>
         /\ hilo[c] = "sacar" => hallado[c] = c
         /\ interfaz[c] = "conectada" /\ hilo[c] \in {"no", "presentacion", "agregar"} => Nueva(c)
    /\ corto.pc # "elegir" => hilo[corto.nodo] \in {"atender", "buscar", "sacar", "fin"}

\* Between the answer and the squeue_pop the queue has one process more.
AlDia(c) ==
  IF hilo[c] \in {"buscar", "sacar"}
  THEN nodo[c].cola # <<>> /\ EnCurso(c) = Tail(nodo[c].cola)
  ELSE EnCurso(c) = nodo[c].cola

Presente(c) == En(interfaces_conectadas, c) /\ interfaz[c] = "conectada"
Colas       == EnPie => \A c \in Conexiones : Presente(c) => AlDia(c)

LEMMA AlDiaIgual ==
  ASSUME NEW c, AlDia(c), EnCurso(c)' = EnCurso(c), nodo'[c].cola = nodo[c].cola,
         hilo'[c] \in {"buscar", "sacar"} <=> hilo[c] \in {"buscar", "sacar"}
  PROVE  AlDia(c)'
<1>1. AlDia(c)' <=> IF hilo'[c] \in {"buscar", "sacar"}
                    THEN nodo'[c].cola # <<>> /\ EnCurso(c)' = Tail(nodo'[c].cola)
                    ELSE EnCurso(c)' = nodo'[c].cola
  BY DEF AlDia
<1> QED
  BY <1>1 DEF AlDia

LEMMA ColasInicial == Init => Servidas /\ Colas
<1> SUFFICES ASSUME Init PROVE Servidas /\ Colas
  OBVIOUS
<1>1. \A c \in Conexiones :
        nodo[c].de = NULL /\ hilo[c] = "no" /\ interfaz[c] = "no" /\ ~En(interfaces_conectadas, c)
  BY Vacia DEF Init, NodoNulo
<1> QED
  BY <1>1 DEF Init, Servidas, Colas, Presente, Libre

\* The interface programs: a request becomes work and the work an answer.
LEMMA ColasPrograma ==
  ASSUME Inv, Servidas, Colas, NEW c \in Conexiones,
         (\E n \in Nombres : Conectar(c, n)) \/ Recibir(c) \/ Responder(c) \/ Salir(c)
  PROVE  Servidas' /\ Colas'
<1>1. /\ UNCHANGED <<hilo, hallado, interfaces_conectadas, nodo, corto, caida, pisado, cruzado>>
      /\ \A d \in Conexiones \ {c} :
           /\ interfaz'[d] = interfaz[d] /\ trabajo'[d] = trabajo[d]
           /\ pedidos'[d] = pedidos[d] /\ avisos'[d] = avisos[d]
  BY SMTT(30) DEF Conectar, Recibir, Responder, Salir, servidor, Inv, TypeOK
<1>2. SUFFICES ASSUME EnPie PROVE Servidas' /\ Colas'
  BY <1>1 DEF EnPie, Servidas, Colas
<1>3. /\ interfaz'[c] = "conectada" /\ hilo[c] \in {"no", "presentacion", "agregar"} => Nueva(c)'
      /\ Presente(c)' => Presente(c) /\ EnCurso(c)' = EnCurso(c)
  <2>1. /\ avisos[c] \in Seq(Avisos) /\ DePids(avisos[c]) \in Seq(Quien)
        /\ trabajo[c] \in Pids \cup {NULL}
        /\ pedidos[c] \in Seq(Pids) /\ pedidos[c] \in Seq(Quien) /\ Enviando(c) \in Seq(Quien)
    BY TipoDePartes DEF Inv, TypeOK
  <2>2. Enviando(c)' = Enviando(c) /\ (En(interfaces_conectadas, c)' <=> En(interfaces_conectadas, c))
    BY <1>1 DEF Enviando, En
  <2>3. NULL \notin Pids
    BY ConstantesInterfaces
  <2>4. ASSUME NEW n \in Nombres, Conectar(c, n)
        PROVE  Nueva(c)' /\ ~Presente(c)'
    <3>1. /\ hilo[c] = "no" /\ trabajo[c] = NULL /\ pedidos[c] = <<>>
          /\ UNCHANGED <<trabajo, pedidos>>
          /\ avisos'[c] = <<Mensaje("CONEXION_INTERFAZ", NULL)>>
      BY <2>4 DEF Conectar, Inv, Comienzo, TypeOK
    <3>2. ~En(interfaces_conectadas, c)
      BY <1>2, <3>1 DEF Servidas
    <3> QED
      BY <1>1, <2>2, <3>1, <3>2 DEF Nueva, Presente
  <2>5. CASE Recibir(c)
    <3>1. /\ interfaz[c] = "conectada" /\ interfaz' = interfaz /\ trabajo[c] = NULL /\ pedidos[c] # <<>>
          /\ trabajo'[c] = Head(pedidos[c]) /\ pedidos'[c] = Tail(pedidos[c]) /\ avisos'[c] = avisos[c]
      BY <2>5 DEF Recibir, Inv, TypeOK
    <3>2. Head(pedidos[c]) \in Pids
      BY <2>1, <3>1, HeadTailProperties
    <3>3. Trabajando(c) = <<>> /\ Trabajando(c)' = <<Head(pedidos[c])>>
      BY SMTT(30), <2>3, <3>1, <3>2 DEF Trabajando
    <3>4. EnCurso(c)' = DePids(avisos[c]) \o <<Head(pedidos[c])>> \o Tail(pedidos[c]) \o Enviando(c)
      BY <2>2, <3>1, <3>3 DEF EnCurso, Avisados, DePids, Trabajando, Enviando
    <3>5. EnCurso(c)' = EnCurso(c)
      <4> DEFINE s == DePids(avisos[c])
                 u == pedidos[c]
                 v == Enviando(c)
      <4>1. s \in Seq(Quien) /\ u \in Seq(Quien) /\ v \in Seq(Quien) /\ u # <<>> /\ NULL \in Quien
        BY <2>1, <3>1 DEF Quien
      <4>2. EnCurso(c) = s \o <<>> \o u \o v
        BY <3>3, PartesDeEnCurso
      <4>3. EnCurso(c)' = s \o <<Head(u)>> \o Tail(u) \o v
        BY <3>4
      <4> HIDE DEF s, u, v
      <4> QED
        BY SMTT(30), <4>1, <4>2, <4>3, PasaAlAnterior
    <3>6. hilo[c] \notin {"no", "presentacion", "agregar"}
      BY <1>2, <3>1 DEF Servidas, Nueva
    <3> QED
      BY <2>2, <3>1, <3>5, <3>6 DEF Presente
  <2>6. CASE Responder(c)
    <3>1. /\ interfaz[c] = "conectada" /\ interfaz' = interfaz /\ trabajo[c] \in Pids
          /\ trabajo'[c] = NULL /\ pedidos'[c] = pedidos[c]
          /\ avisos'[c] = Append(avisos[c], Final(trabajo[c]))
      BY <2>1, <2>6 DEF Responder, Inv, TypeOK, Final
    <3>2. Final(trabajo[c]) \in Avisos /\ Final(trabajo[c]).pid = trabajo[c]
      BY <3>1 DEF Final, Mensaje, Avisos
    <3>3. DePids(avisos'[c]) = Append(DePids(avisos[c]), trabajo[c])
      BY <2>1, <3>1, <3>2, PidsMas
    <3>4. Trabajando(c) = <<trabajo[c]>> /\ Trabajando(c)' = <<>>
      BY <2>3, <3>1 DEF Trabajando
    <3>5. EnCurso(c)' = EnCurso(c)
      <4> DEFINE s == DePids(avisos[c])
                 t == trabajo[c]
                 u == pedidos[c]
                 v == Enviando(c)
      <4>1. s \in Seq(Quien) /\ u \in Seq(Quien) /\ v \in Seq(Quien) /\ t \in Quien
        BY <2>1, <3>1 DEF Quien
      <4>2. EnCurso(c) = s \o <<t>> \o u \o v
        BY <3>4, PartesDeEnCurso
      <4>3. EnCurso(c)' = DePids(avisos'[c]) \o Trabajando(c)' \o pedidos'[c] \o Enviando(c)'
        BY DEF EnCurso, Avisados, DePids, Trabajando, Enviando
      <4>4. EnCurso(c)' = Append(s, t) \o <<>> \o u \o v
        BY <2>2, <3>1, <3>3, <3>4, <4>3
      <4> HIDE DEF s, t, u, v
      <4> QED
        BY SMTT(30), <4>1, <4>2, <4>4, PasaAlAnterior
    <3>6. hilo[c] \notin {"no", "presentacion", "agregar"}
      BY <1>2, <2>3, <3>1 DEF Servidas, Nueva
    <3> QED
      BY <2>2, <3>1, <3>5, <3>6 DEF Presente
  <2>7. CASE Salir(c)
    BY <2>7 DEF Salir, Inv, TypeOK, Presente
  <2> QED
    BY <2>4, <2>5, <2>6, <2>7
<1>4. ASSUME NEW d \in Conexiones \ {c}
      PROVE  /\ Nueva(d)' <=> Nueva(d)
             /\ Presente(d)' <=> Presente(d)
             /\ EnCurso(d)' = EnCurso(d)
  <2>1. Enviando(d)' = Enviando(d)
    BY <1>1 DEF Enviando
  <2>2. EnCurso(d)' = EnCurso(d)
    BY <1>1, <2>1, EnCursoIgual
  <2> QED
    BY <1>1, <2>2 DEF Nueva, Presente, En
<1>5. Servidas'
  <2>1. /\ \A d \in Conexiones :
             /\ nodo'[d].de \in {NULL, d}
             /\ En(interfaces_conectadas, d)' => hilo'[d] \in {"atender", "buscar", "sacar"}
             /\ hilo'[d] = "agregar" => nodo'[d].cola = <<>>
             /\ hilo'[d] = "sacar" => hallado'[d] = d
        /\ corto'.pc # "elegir" => hilo'[corto'.nodo] \in {"atender", "buscar", "sacar", "fin"}
    BY <1>1, <1>2 DEF Servidas, En
  <2>2. ASSUME NEW d \in Conexiones,
               interfaz'[d] = "conectada", hilo'[d] \in {"no", "presentacion", "agregar"}
        PROVE  Nueva(d)'
    <3>1. CASE d = c
      BY <1>1, <1>3, <2>2, <3>1
    <3>2. CASE d # c
      BY <1>1, <1>2, <1>4, <2>2, <3>2 DEF Servidas
    <3> QED
      BY <3>1, <3>2
  <2> QED
    BY <2>1, <2>2 DEF Servidas
<1>6. Colas'
  <2> SUFFICES ASSUME NEW d \in Conexiones, Presente(d)' PROVE AlDia(d)'
    BY DEF Colas
  <2>1. Presente(d) /\ EnCurso(d)' = EnCurso(d)
    BY <1>3, <1>4
  <2>2. AlDia(d)
    BY <1>2, <2>1 DEF Colas
  <2> QED
    BY <1>1, <2>1, <2>2, AlDiaIgual
<1> QED
  BY <1>5, <1>6

\* A connection that does not act, when the nodes keep their owners.
LEMMA OtraConexion ==
  ASSUME NEW c \in Conexiones, AlDia(c),
         avisos'[c] = avisos[c], UNCHANGED <<trabajo, pedidos, corto>>, hilo'[c] = hilo[c],
         nodo'[c].cola = nodo[c].cola,
         corto.pc = "enviar" => nodo'[corto.nodo].de = nodo[corto.nodo].de
  PROVE  AlDia(c)'
<1>1. Enviando(c)' = Enviando(c)
  BY DEF Enviando
<1>2. EnCurso(c)' = EnCurso(c)
  BY <1>1, EnCursoIgual
<1> QED
  BY <1>2, AlDiaIgual

\* A connection begins: its node is nobody's until it is filled and nowhere until it is added.
LEMMA ColasComienzo ==
  ASSUME Inv, Presencia, Servidas, Colas, EnPie, NEW c \in Conexiones,
         Iniciar(c) \/ Completar(c) \/ Agregar(c), EnPie'
  PROVE  Servidas' /\ Colas'
<1>1. /\ UNCHANGED <<interfaz, trabajo, pedidos, hallado, corto>>
      /\ \A d \in Conexiones \ {c} : hilo'[d] = hilo[d] /\ avisos'[d] = avisos[d] /\ nodo'[d] = nodo[d]
      /\ nodo'[c].de \in {NULL, c}
      /\ hilo[c] \in {"no", "presentacion", "agregar"}
  <2>1. CASE Iniciar(c)
    <3>1. nodo' = [nodo EXCEPT ![c].estado = "nuevo"] /\ nodo[c] \in Nodos
      BY <2>1 DEF Iniciar, Inv, TypeOK
    <3>2. nodo'[c].de = nodo[c].de /\ \A d \in Conexiones \ {c} : nodo'[d] = nodo[d]
      <4>1. nodo'[c] = [nodo[c] EXCEPT !.estado = "nuevo"]
        BY <3>1 DEF Inv, TypeOK
      <4> QED
        BY <3>1, <4>1 DEF Nodos, Inv, TypeOK
    <3> QED
      BY <2>1, <3>2 DEF Iniciar, programa, canales, Servidas, Inv, TypeOK
  <2>2. CASE Completar(c)
    <3>1. interfaz_aux = c /\ nodo[c].estado = "nuevo"
      BY <2>2 DEF Completar, EnPie, Inv, NodoPropio
    <3>2. nodo' = [nodo EXCEPT ![c] = [estado |-> "vivo", de |-> c, cola |-> <<>>]]
      BY <2>2, <3>1 DEF Completar
    <3> QED
      BY <2>2, <3>2 DEF Completar, Recibido, programa, Inv, TypeOK
  <2>3. CASE Agregar(c)
    BY <2>3 DEF Agregar, programa, canales, Servidas, Inv, TypeOK
  <2> QED
    BY <2>1, <2>2, <2>3
<1>2. corto.pc # "elegir" => corto.nodo \in Conexiones \ {c}
  BY <1>1 DEF Servidas, Inv, TypeOK
<1>3. Enviando(c) = <<>> /\ Enviando(c)' = <<>>
  <2>1. corto.pc = "enviar" => nodo[corto.nodo].de # c /\ nodo'[corto.nodo].de = nodo[corto.nodo].de
    BY <1>1, <1>2, ConstantesInterfaces DEF Servidas
  <2> QED
    BY <1>1, <2>1 DEF Enviando
<1>4. ~En(interfaces_conectadas, c)
  BY <1>1 DEF Servidas
<1>5. /\ \A d \in Conexiones \ {c} :
           En(interfaces_conectadas', d) <=> En(interfaces_conectadas, d)
      /\ En(interfaces_conectadas', c) => Agregar(c)
  <2>1. CASE Agregar(c)
    <3>1. interfaces_conectadas' = Append(interfaces_conectadas, c) /\ interfaces_conectadas \in Seq(Conexiones)
      BY <2>1 DEF Agregar, EnPie, Inv, NodoPropio, TypeOK
    <3> QED
      BY <2>1, <3>1, EnAppend
  <2>2. CASE ~Agregar(c)
    BY <1>4, <2>2 DEF Iniciar, Completar
  <2> QED
    BY <2>1, <2>2
<1>6. interfaz[c] = "conectada" => Nueva(c)
  BY <1>1 DEF Servidas
<1>7. \/ /\ hilo'[c] \in {"presentacion", "agregar"}
         /\ hilo'[c] = "agregar" => nodo'[c].cola = <<>>
         /\ interfaz[c] = "conectada" => Nueva(c)'
      \/ Agregar(c) /\ hilo'[c] = "atender"
  <2>1. CASE Iniciar(c)
    <3>1. hilo[c] = "no" /\ hilo'[c] = "presentacion" /\ avisos' = avisos
      BY <2>1 DEF Iniciar, canales, Inv, TypeOK
    <3> QED
      BY <1>1, <1>6, <3>1 DEF Nueva
  <2>2. CASE Completar(c)
    <3>1. /\ hilo[c] = "presentacion" /\ hilo'[c] = "agregar" /\ avisos'[c] = Tail(avisos[c])
          /\ interfaz_aux = c /\ nodo[c].estado = "nuevo"
      BY <2>2 DEF Completar, Recibido, EnPie, Inv, NodoPropio, TypeOK
    <3>2. nodo' = [nodo EXCEPT ![c] = [estado |-> "vivo", de |-> c, cola |-> <<>>]]
      BY <2>2, <3>1 DEF Completar
    <3>3. nodo'[c].cola = <<>>
      BY <3>2 DEF Inv, TypeOK
    <3>4. ASSUME interfaz[c] = "conectada" PROVE avisos'[c] = <<>>
      <4>1. avisos[c] = <<Mensaje("CONEXION_INTERFAZ", NULL)>>
        BY <1>6, <3>1, <3>4 DEF Nueva
      <4>2. Tail(<<Mensaje("CONEXION_INTERFAZ", NULL)>>) = <<>>
        OBVIOUS
      <4> QED
        BY <3>1, <4>1, <4>2
    <3> QED
      BY <1>1, <1>6, <3>1, <3>3, <3>4 DEF Nueva
  <2>3. CASE Agregar(c)
    BY <2>3 DEF Agregar, Inv, TypeOK
  <2> QED
    BY <2>1, <2>2, <2>3
<1>8. Servidas'
  <2>1. ASSUME NEW d \in Conexiones
        PROVE  /\ nodo'[d].de \in {NULL, d}
               /\ En(interfaces_conectadas', d) => hilo'[d] \in {"atender", "buscar", "sacar"}
               /\ hilo'[d] = "agregar" => nodo'[d].cola = <<>>
               /\ hilo'[d] = "sacar" => hallado'[d] = d
               /\ interfaz'[d] = "conectada" /\ hilo'[d] \in {"no", "presentacion", "agregar"} => Nueva(d)'
    <3>1. CASE d = c
      <4>1. Agregar(c) => hilo'[c] = "atender"
        BY DEF Agregar, Inv, TypeOK
      <4> QED
        BY <1>1, <1>5, <1>7, <3>1, <4>1
    <3>2. CASE d # c
      <4>1. Nueva(d)' <=> Nueva(d)
        BY <1>1, <3>2 DEF Nueva
      <4> QED
        BY <1>1, <1>5, <3>2, <4>1 DEF Servidas
    <3> QED
      BY <3>1, <3>2
  <2>2. corto'.pc # "elegir" => hilo'[corto'.nodo] \in {"atender", "buscar", "sacar", "fin"}
    BY <1>1, <1>2 DEF Servidas
  <2> QED
    BY <2>1, <2>2 DEF Servidas, En
<1>9. Colas'
  <2> SUFFICES ASSUME NEW d \in Conexiones, Presente(d)' PROVE AlDia(d)'
    BY DEF Colas
  <2>0. En(interfaces_conectadas', d) /\ interfaz'[d] = "conectada"
    BY DEF Presente, En
  <2>1. CASE d = c
    <3>1. /\ Agregar(c) /\ hilo[c] = "agregar" /\ hilo'[c] = "atender" /\ interfaz[c] = "conectada"
          /\ UNCHANGED <<trabajo, pedidos, avisos, nodo>>
      BY <1>1, <1>5, <2>0, <2>1 DEF Agregar, programa, canales, Inv, TypeOK
    <3>2. trabajo'[c] = NULL /\ pedidos'[c] = <<>> /\ avisos'[c] = <<>> /\ nodo'[c].cola = <<>>
      BY <1>6, <3>1 DEF Nueva, Servidas
    <3>3. EnCurso(c)' = DePids(<<>>) \o <<>> \o <<>> \o <<>>
      <4>1. EnCurso(c)' = DePids(avisos'[c]) \o Trabajando(c)' \o pedidos'[c] \o Enviando(c)'
        BY DEF EnCurso, Avisados, DePids, Trabajando, Enviando
      <4>2. Trabajando(c)' = <<>>
        BY <3>2 DEF Trabajando
      <4> QED
        BY <1>3, <3>2, <4>1, <4>2
    <3>4. DePids(<<>>) = <<>>
      BY DEF DePids
    <3>5. <<>> \o <<>> \o <<>> \o <<>> = <<>>
      BY EmptySeq, ConcatEmptySeq
    <3> QED
      BY <2>1, <3>1, <3>2, <3>3, <3>4, <3>5 DEF AlDia
  <2>2. CASE d # c
    <3>1. AlDia(d)
      BY <1>1, <1>5, <2>0, <2>2 DEF Colas, Presente
    <3> QED
      BY <1>1, <1>2, <2>2, <3>1, OtraConexion
  <2> QED
    BY <2>1, <2>2
<1> QED
  BY <1>8, <1>9

\* The answers: the thread takes one, pops its queue and, at the last message, frees its node.
LEMMA ColasServicio ==
  ASSUME Inv, Presencia, Servidas, Colas, EnPie, NEW c \in Conexiones,
         Desbloquear(c) \/ BuscarNodo(c) \/ Sacar(c) \/ Eliminar(c), EnPie'
  PROVE  Servidas' /\ Colas'
<1> DEFINE L == interfaces_conectadas
<1>1. /\ UNCHANGED <<interfaz, trabajo, pedidos, corto>>
      /\ \A d \in Conexiones \ {c} :
           hilo'[d] = hilo[d] /\ avisos'[d] = avisos[d] /\ hallado'[d] = hallado[d]
      /\ hilo[c] \in {"atender", "buscar", "sacar"} /\ hilo'[c] \in {"atender", "buscar", "sacar", "fin"}
  BY DEF Desbloquear, BuscarNodo, Sacar, Eliminar, Recibido, programa, canales, Inv, TypeOK
<1>0. hilo'[c] = "sacar" => BuscarNodo(c) /\ hallado'[c] = c
  <2>1. ASSUME hilo'[c] = "sacar" PROVE BuscarNodo(c)
    BY <2>1 DEF Desbloquear, BuscarNodo, Sacar, Eliminar, Inv, TypeOK
  <2>2. ASSUME BuscarNodo(c) PROVE buscar(nombre[c]) = c /\ hallado'[c] = c
    <3>1. buscar(nombre[c]) = c /\ ~caida'
      BY <2>2 DEF EnPie, BuscarNodo
    <3> QED
      BY <2>2, <3>1 DEF BuscarNodo, Caer, Inv, TypeOK
  <2> QED
    BY <2>1, <2>2
<1>2. /\ \A d \in Conexiones : nodo'[d].de = nodo[d].de
      /\ \A d \in Conexiones \ {c} : nodo'[d].cola = nodo[d].cola
      /\ Sacar(c) /\ En(L, c) => nodo' = [nodo EXCEPT ![c].cola = Desencolar(nodo[c].cola)]
  <2>1. CASE Desbloquear(c) \/ BuscarNodo(c)
    BY <2>1, <1>1 DEF Desbloquear, BuscarNodo, Sacar, Inv, TypeOK
  <2>2. CASE Sacar(c)
    <3>0. hallado[c] = c
      BY <2>2 DEF Sacar, Servidas
    <3>1. CASE nodo' = [nodo EXCEPT ![c].cola = Desencolar(nodo[c].cola)]
      <4>1. \A d \in Conexiones : nodo'[d].de = nodo[d].de
        BY <3>1, ColaNueva DEF Inv
      <4>2. \A d \in Conexiones \ {c} : nodo'[d] = nodo[d]
        BY <3>1 DEF Inv, TypeOK
      <4> QED
        BY <3>1, <4>1, <4>2
    <3>2. CASE nodo' = nodo /\ nodo[c].estado = "libre"
      <4>1. ~En(L, c)
        BY <3>2 DEF Presencia, EnPie
      <4> QED
        BY <3>2, <4>1
    <3> QED
      BY <2>2, <3>0, <3>1, <3>2 DEF Sacar
  <2>3. CASE Eliminar(c)
    <3>1. buscar(nombre[c]) = c /\ ~caida' /\ c # NULL /\ ~Sacar(c)
      BY <2>3, ConstantesInterfaces DEF EnPie, Sacar, Eliminar
    <3>2. nodo' = [nodo EXCEPT ![c].estado = "libre", ![c].cola = <<>>]
      BY <2>3, <3>1 DEF Eliminar, Caer
    <3>3. nodo'[c] = [nodo[c] EXCEPT !.estado = "libre", !.cola = <<>>] /\ nodo[c] \in Nodos
      BY <3>2 DEF Inv, TypeOK
    <3>4. nodo'[c].de = nodo[c].de
      BY <3>3 DEF Nodos
    <3>5. \A d \in Conexiones \ {c} : nodo'[d] = nodo[d]
      BY <3>2 DEF Inv, TypeOK
    <3> QED
      BY <3>1, <3>4, <3>5
  <2> QED
    BY <2>1, <2>2, <2>3
<1>3. \A d \in Conexiones : En(L', d) => En(L, d) /\ (d = c => ~Eliminar(c))
  <2>1. CASE Eliminar(c)
    <3> DEFINE k == Min(Posiciones(nombre[c]))
    <3>1. buscar(nombre[c]) = c /\ ~caida' /\ c # NULL
      BY <2>1, ConstantesInterfaces DEF EnPie, Eliminar
    <3>2. L' = RemoveAt(L, k)
      BY <2>1, <3>1 DEF Eliminar, Caer
    <3>3. k \in 1 .. Len(L) /\ L[k] = c
      BY <3>1, BuscarEncuentra DEF buscar, Inv
    <3>4. L \in Seq(Conexiones) /\ UnaVezEn(L, Conexiones)
      BY DEF Inv, TypeOK, Presencia, EnPie
    <3> HIDE DEF k
    <3> QED
      BY <3>2, <3>3, <3>4, SinLugarQuita
  <2>2. CASE ~Eliminar(c)
    <3>1. L' = L
      BY <2>2 DEF Desbloquear, BuscarNodo, Sacar
    <3> QED
      BY <2>2, <3>1
  <2> QED
    BY <2>1, <2>2
<1>4. Eliminar(c) \/ hilo'[c] \in {"atender", "buscar", "sacar"}
  BY DEF Desbloquear, BuscarNodo, Sacar, Eliminar, Inv, TypeOK
<1>5. Servidas'
  <2>1. ASSUME NEW d \in Conexiones
        PROVE  /\ nodo'[d].de \in {NULL, d}
               /\ En(L', d) => hilo'[d] \in {"atender", "buscar", "sacar"}
               /\ hilo'[d] = "agregar" => nodo'[d].cola = <<>>
               /\ hilo'[d] = "sacar" => hallado'[d] = d
               /\ interfaz'[d] = "conectada" /\ hilo'[d] \in {"no", "presentacion", "agregar"} => Nueva(d)'
    <3>1. CASE d = c
      BY <1>0, <1>1, <1>2, <1>3, <1>4, <3>1 DEF Servidas
    <3>2. CASE d # c
      <4>1. Nueva(d)' <=> Nueva(d)
        BY <1>1, <3>2 DEF Nueva
      <4> QED
        BY <1>1, <1>2, <1>3, <3>2, <4>1 DEF Servidas
    <3> QED
      BY <3>1, <3>2
  <2>2. corto'.pc # "elegir" => hilo'[corto'.nodo] \in {"atender", "buscar", "sacar", "fin"}
    <3>1. corto.pc # "elegir" => corto.nodo \in Conexiones
      BY DEF Inv, TypeOK
    <3> QED
      BY <1>1, <3>1 DEF Servidas
  <2> QED
    BY <2>1, <2>2 DEF Servidas, En
<1>6. corto.pc = "enviar" => nodo'[corto.nodo].de = nodo[corto.nodo].de
  BY <1>2 DEF Inv, TypeOK
<1>7. Enviando(c)' = Enviando(c)
  BY <1>1, <1>6 DEF Enviando
<1>8. ASSUME Desbloquear(c), AlDia(c) PROVE AlDia(c)'
  <2>1. /\ hilo[c] = "atender" /\ hilo'[c] = "buscar" /\ avisos[c] \in Seq(Avisos) /\ avisos[c] # <<>>
        /\ avisos'[c] = Tail(avisos[c]) /\ nodo' = nodo
    BY <1>8 DEF Desbloquear, Recibido, Inv, TypeOK
  <2>2. DePids(avisos[c]) # <<>> /\ DePids(Tail(avisos[c])) = Tail(DePids(avisos[c]))
    BY <2>1, PidsMenos
  <2>3. Trabajando(c)' = Trabajando(c)
    BY <1>1 DEF Trabajando
  <2>4. EnCurso(c) # <<>> /\ EnCurso(c)' = Tail(EnCurso(c))
    <3> DEFINE s == DePids(avisos[c])
               t == Trabajando(c)
               u == pedidos[c]
               v == Enviando(c)
    <3>1. /\ s \in Seq(Quien) /\ t \in Seq(Quien) /\ u \in Seq(Quien) /\ v \in Seq(Quien)
          /\ s # <<>>
      BY <2>2, TipoDePartes DEF Inv
    <3>2. EnCurso(c) = Cuatro(s, t, u, v)
      BY PartesDeEnCurso DEF Cuatro
    <3>3. EnCurso(c)' = DePids(avisos'[c]) \o Trabajando(c)' \o pedidos'[c] \o Enviando(c)'
      BY DEF EnCurso, Avisados, DePids, Trabajando, Enviando
    <3>4. EnCurso(c)' = Cuatro(Tail(s), t, u, v)
      BY <1>1, <1>7, <2>1, <2>2, <2>3, <3>3 DEF Cuatro
    <3> HIDE DEF s, t, u, v
    <3>5. Cuatro(s, t, u, v) # <<>> /\ Tail(Cuatro(s, t, u, v)) = Cuatro(Tail(s), t, u, v)
      BY <3>1, SaleElPrimero
    <3> QED
      BY <3>2, <3>4, <3>5
  <2>5. EnCurso(c) = nodo[c].cola
    BY <1>8, <2>1 DEF AlDia
  <2>6. hilo'[c] = "buscar" /\ nodo'[c].cola # <<>> /\ EnCurso(c)' = Tail(nodo'[c].cola)
    BY <2>1, <2>4, <2>5
  <2> QED
    BY <2>6 DEF AlDia
<1>9. ASSUME BuscarNodo(c), AlDia(c) PROVE AlDia(c)'
  <2>1. hilo[c] = "buscar" /\ hilo'[c] \in {"buscar", "sacar"} /\ avisos' = avisos /\ nodo' = nodo
    BY <1>9 DEF BuscarNodo, canales, Inv, TypeOK
  <2>2. EnCurso(c)' = EnCurso(c)
    BY <1>1, <1>7, <2>1, EnCursoIgual
  <2> QED
    BY <1>9, <2>1, <2>2, AlDiaIgual
<1>10. ASSUME Sacar(c), En(L, c), AlDia(c) PROVE AlDia(c)'
  <2>1. hilo[c] = "sacar" /\ hilo'[c] = "atender" /\ avisos' = avisos
    BY <1>10 DEF Sacar, canales, Inv, TypeOK
  <2>2. EnCurso(c)' = EnCurso(c)
    BY <1>1, <1>7, <2>1, EnCursoIgual
  <2>3. nodo[c].cola # <<>> /\ EnCurso(c) = Tail(nodo[c].cola)
    BY <1>10, <2>1 DEF AlDia
  <2>4. nodo'[c] = [nodo[c] EXCEPT !.cola = Tail(nodo[c].cola)] /\ nodo[c] \in Nodos
    BY <1>2, <1>10, <2>3 DEF Desencolar, Inv, TypeOK
  <2>5. nodo'[c].cola = Tail(nodo[c].cola)
    BY <2>4 DEF Nodos
  <2>6. hilo'[c] = "atender" /\ EnCurso(c)' = nodo'[c].cola
    BY <2>1, <2>2, <2>3, <2>5
  <2> QED
    BY <2>6 DEF AlDia
<1>11. Colas'
  <2> SUFFICES ASSUME NEW d \in Conexiones, Presente(d)' PROVE AlDia(d)'
    BY DEF Colas
  <2>1. En(L', d) /\ Presente(d)
    BY <1>1, <1>3 DEF Presente, En
  <2>2. AlDia(d)
    BY <2>1 DEF Colas
  <2>3. CASE d = c
    <3>1. ~Eliminar(c)
      BY <1>3, <2>1, <2>3
    <3> QED
      BY <1>8, <1>9, <1>10, <2>1, <2>2, <2>3, <3>1 DEF Presente
  <2>4. CASE d # c
    BY <1>1, <1>2, <1>6, <2>2, <2>4, OtraConexion
  <2> QED
    BY <2>3, <2>4
<1> QED
  BY <1>5, <1>11

\* The scheduler's steps, other than the lookup, leave the threads, the list and the
\* connections in place.
LEMMA ColasPlanificador ==
  ASSUME Inv, Presencia, Servidas, Colas, EnPie, EjecutarIO, EnPie'
  PROVE  Servidas' /\ Colas'
<1>0. corto.pc # "elegir"
  BY DEF EjecutarIO, Rechazar, Bloquear, BloquearLiberado, Enviar, EnviarPerdido
<1>00. PICK n \in Conexiones, q \in Pids : n = corto.nodo /\ q = corto.pid
  BY <1>0 DEF Inv, TypeOK
<1> DEFINE v == nodo[n]
<1>1. /\ UNCHANGED <<interfaz, trabajo, avisos, hilo, hallado, interfaces_conectadas>>
      /\ hilo[n] \in {"atender", "buscar", "sacar", "fin"}
      /\ corto'.pc # "elegir" => corto'.nodo = n /\ corto'.pid = q
  <2>1. UNCHANGED <<interfaz, trabajo, avisos, hilo, hallado, interfaces_conectadas>>
    BY SMTT(30) DEF EjecutarIO, Rechazar, Bloquear, BloquearLiberado, Enviar, EnviarPerdido,
           programa, canales, servidor
  <2>2. corto' = Libre \/ corto' = [corto EXCEPT !.pc = "enviar"] \/ corto' = corto
    BY SMTT(30) DEF EjecutarIO, Rechazar, Bloquear, BloquearLiberado, Enviar, EnviarPerdido
  <2>3. hilo[n] \in {"atender", "buscar", "sacar", "fin"}
    BY <1>0, <1>00 DEF Servidas
  <2>4. corto'.pc # "elegir" => corto'.nodo = n /\ corto'.pid = q
    BY <1>0, <1>00, <2>2 DEF Libre, Inv, TypeOK
  <2> QED
    BY SMTT(30), <2>1, <2>3, <2>4
<1>2. /\ v.de \in {NULL, n}
      /\ v.estado # "libre" => v.de = n
      /\ Presente(n) => v.estado # "libre"
  <2>1. v.estado # "libre" => v.de = n
    BY <1>0, <1>00 DEF Inv, NodoBuscado, NodoPropio, EnPie
  <2>2. Presente(n) => v.estado # "libre"
    BY <1>1 DEF Presente, Presencia, EnPie
  <2> QED
    BY <1>1, <2>1, <2>2 DEF Servidas
<1>3. /\ \A d \in Conexiones : nodo'[d].de = nodo[d].de
      /\ \A d \in Conexiones \ {n} : nodo'[d] = nodo[d] /\ pedidos'[d] = pedidos[d]
  <2>1. CASE Bloquear
    <3>1. nodo' = [nodo EXCEPT ![n].cola = Append(v.cola, q)] /\ pedidos' = pedidos
      BY <1>00, <2>1 DEF Bloquear, canales
    <3>2. \A d \in Conexiones : nodo'[d].de = nodo[d].de
      BY <1>1, <3>1, ColaNueva DEF Inv
    <3> QED
      BY <3>1, <3>2 DEF Inv, TypeOK
  <2>2. CASE Enviar
    <3>1. nodo' = nodo /\ pedidos' = [pedidos EXCEPT ![v.de] = Append(pedidos[v.de], q)] /\ v.de = n
      BY <1>00, <1>2, <2>2 DEF Enviar
    <3> QED
      BY <3>1 DEF Inv, TypeOK
  <2>3. CASE Rechazar \/ BloquearLiberado \/ EnviarPerdido
    BY <2>3 DEF Rechazar, BloquearLiberado, EnviarPerdido, canales
  <2> QED
    BY <2>1, <2>2, <2>3 DEF EjecutarIO
<1>4. \A d \in Conexiones \ {n} : Enviando(d) = <<>> /\ Enviando(d)' = <<>>
  <2> TAKE d \in Conexiones \ {n}
  <2>1. v.de # d
    BY <1>2, ConstantesInterfaces
  <2>2. corto'.pc # "elegir" => nodo'[corto'.nodo].de # d
    BY <1>1, <1>3, <2>1
  <2> QED
    BY <1>00, <2>1, <2>2 DEF Enviando
<1>5. ASSUME NEW d \in Conexiones \ {n} PROVE EnCurso(d)' = EnCurso(d)
  BY <1>1, <1>3, <1>4, EnCursoIgual
<1>6. /\ q \in Quien /\ v.cola \in Seq(Pids)
      /\ DePids(avisos[n]) \in Seq(Quien) /\ Trabajando(n) \in Seq(Quien) /\ pedidos[n] \in Seq(Quien)
  <2>1. v \in Nodos
    BY DEF Inv, TypeOK
  <2> QED
    BY <2>1, TipoDePartes DEF Inv, Quien, Nodos
<1>7. Trabajando(n)' = Trabajando(n)
  BY <1>1 DEF Trabajando
<1>8. ASSUME Presente(n), AlDia(n) PROVE AlDia(n)'
  <2> DEFINE s == DePids(avisos[n])
             t == Trabajando(n)
             u == pedidos[n]
  <2>1. EnCurso(n) = s \o t \o u \o Enviando(n)
    BY PartesDeEnCurso
  <2>2. EnCurso(n)' = s \o t \o pedidos'[n] \o Enviando(n)'
    <3>1. EnCurso(n)' = DePids(avisos'[n]) \o Trabajando(n)' \o pedidos'[n] \o Enviando(n)'
      BY DEF EnCurso, Avisados, DePids, Trabajando, Enviando
    <3> QED
      BY <1>1, <1>7, <3>1
  <2>3. s \in Seq(Quien) /\ t \in Seq(Quien) /\ u \in Seq(Quien) /\ <<>> \in Seq(Quien)
    BY <1>6, EmptySeq
  <2> HIDE DEF s, t, u
  <2>4. CASE Rechazar
    <3>1. corto.pc = "bloquear" /\ corto' = Libre /\ UNCHANGED <<nodo, pedidos>>
      BY <2>4 DEF Rechazar, canales
    <3>2. Enviando(n) = <<>> /\ Enviando(n)' = <<>>
      BY <3>1 DEF Enviando, Libre
    <3>3. EnCurso(n)' = EnCurso(n)
      BY <2>1, <2>2, <3>1, <3>2 DEF u
    <3> QED
      BY <1>1, <1>8, <3>1, <3>3, AlDiaIgual
  <2>5. CASE Bloquear
    <3>1. /\ corto.pc = "bloquear" /\ pedidos' = pedidos /\ v.estado # "libre"
          /\ corto' = [corto EXCEPT !.pc = "enviar"]
          /\ nodo' = [nodo EXCEPT ![n].cola = Append(v.cola, q)]
      BY <1>00, <2>5 DEF Bloquear, canales
    <3>2. /\ corto'.pc = "enviar" /\ nodo'[n].cola = Append(v.cola, q) /\ nodo'[n].de = n
      <4>1. nodo'[n] = [v EXCEPT !.cola = Append(v.cola, q)] /\ v \in Nodos
        BY <3>1 DEF Inv, TypeOK
      <4>2. nodo'[n].cola = Append(v.cola, q)
        BY <4>1 DEF Nodos
      <4>3. corto'.pc = "enviar"
        BY <1>0, <3>1 DEF Inv, TypeOK
      <4> QED
        BY <1>2, <1>3, <3>1, <4>2, <4>3
    <3>3. Enviando(n) = <<>> /\ Enviando(n)' = <<q>>
      BY <1>1, <3>1, <3>2 DEF Enviando
    <3>4. EnCurso(n) = s \o t \o u \o <<>> /\ EnCurso(n)' = s \o t \o u \o <<q>>
      BY <2>1, <2>2, <3>1, <3>3 DEF u
    <3>5. EnCurso(n)' = Append(EnCurso(n), q)
      BY <1>6, <2>3, <3>4, PasaAlAnterior
    <3>6. /\ Append(v.cola, q) # <<>>
          /\ v.cola # <<>> => Tail(Append(v.cola, q)) = Append(Tail(v.cola), q)
      BY <1>6, LlegaOtro
    <3>7. IF hilo'[n] \in {"buscar", "sacar"}
          THEN nodo'[n].cola # <<>> /\ EnCurso(n)' = Tail(nodo'[n].cola)
          ELSE EnCurso(n)' = nodo'[n].cola
      BY <1>1, <1>8, <3>2, <3>5, <3>6 DEF AlDia
    <3> QED
      BY <3>7 DEF AlDia
  <2>6. CASE BloquearLiberado
    BY <1>00, <1>2, <1>8, <2>6 DEF BloquearLiberado
  <2>7. CASE Enviar
    <3>1. /\ corto.pc = "enviar" /\ corto' = Libre /\ v.de = n /\ nodo' = nodo
          /\ pedidos'[n] = Append(u, q)
      BY <1>00, <1>2, <2>7 DEF Enviar, Inv, TypeOK, u
    <3>2. Enviando(n) = <<q>> /\ Enviando(n)' = <<>>
      BY <1>00, <3>1 DEF Enviando, Libre
    <3>3. EnCurso(n) = s \o t \o u \o <<q>> /\ EnCurso(n)' = s \o t \o Append(u, q) \o <<>>
      BY <2>1, <2>2, <3>1, <3>2
    <3>4. EnCurso(n)' = EnCurso(n)
      BY <1>6, <2>3, <3>3, PasaAlAnterior
    <3> QED
      BY <1>1, <1>8, <3>1, <3>4, AlDiaIgual
  <2>8. CASE EnviarPerdido
    BY <1>00, <1>2, <1>8, <2>8 DEF EnviarPerdido, Presente
  <2> QED
    BY <2>4, <2>5, <2>6, <2>7, <2>8 DEF EjecutarIO
<1>9. Colas'
  <2> SUFFICES ASSUME NEW d \in Conexiones, Presente(d)' PROVE AlDia(d)'
    BY DEF Colas
  <2>1. Presente(d) /\ AlDia(d)
    BY <1>1 DEF Presente, En, Colas
  <2>2. CASE d = n
    BY <1>8, <2>1, <2>2
  <2>3. CASE d # n
    BY <1>1, <1>3, <1>5, <2>1, <2>3, AlDiaIgual
  <2> QED
    BY <2>2, <2>3
<1>10. Servidas'
  <2>1. ASSUME NEW d \in Conexiones, interfaz[d] = "conectada", hilo[d] \in {"no", "presentacion", "agregar"}
        PROVE  Nueva(d)'
    BY <1>1, <1>3, <2>1 DEF Servidas, Nueva
  <2>2. ASSUME NEW d \in Conexiones, hilo[d] = "agregar" PROVE nodo'[d].cola = <<>>
    BY <1>1, <1>3, <2>2 DEF Servidas
  <2> QED
    BY <1>1, <1>3, <2>1, <2>2 DEF Servidas, En
<1> QED
  BY SMTT(30), <1>9, <1>10

\* The lookup takes a node of the list.
LEMMA ColasBuscar ==
  ASSUME Inv, Servidas, Colas, EnPie, EnPie',
         NEW p \in Pids, NEW n \in Nombres, NEW t \in Tipos, Buscar(p, n, t)
  PROVE  Servidas' /\ Colas'
<1>1. /\ UNCHANGED <<interfaz, trabajo, pedidos, avisos, hilo, hallado, interfaces_conectadas, nodo>>
      /\ corto.pc = "elegir"
      /\ corto' = corto \/ (buscar(n) # NULL /\ corto'.pc = "bloquear" /\ corto'.nodo = buscar(n))
  BY SMTT(30) DEF Buscar, programa, canales, servidor
<1>2. corto'.pc # "elegir" => hilo[corto'.nodo] \in {"atender", "buscar", "sacar", "fin"}
  <2>1. ASSUME buscar(n) # NULL PROVE buscar(n) \in Conexiones /\ En(interfaces_conectadas, buscar(n))
    BY <2>1, BuscarEncuentra DEF buscar, En, Inv
  <2> QED
    BY <1>1, <2>1 DEF Servidas
<1>3. Servidas'
  BY <1>1, <1>2 DEF Servidas, En, Nueva
<1>4. ASSUME NEW c \in Conexiones, Presente(c)' PROVE AlDia(c)'
  <2>1. Presente(c) /\ AlDia(c)
    BY <1>1, <1>4 DEF Presente, En, Colas
  <2>2. Enviando(c)' = Enviando(c)
    BY <1>1 DEF Enviando
  <2>3. EnCurso(c)' = EnCurso(c)
    BY <1>1, <2>2, EnCursoIgual
  <2> QED
    BY <1>1, <2>1, <2>3, AlDiaIgual
<1> QED
  BY <1>3, <1>4 DEF Colas

LEMMA ColasPaso == Inv /\ Presencia /\ Servidas /\ Colas /\ [Next]_vars => Servidas' /\ Colas'
<1> SUFFICES ASSUME Inv, Presencia, Servidas, Colas, [Next]_vars PROVE Servidas' /\ Colas'
  OBVIOUS
<1>1. ASSUME NEW c \in Conexiones,
             (\E n \in Nombres : Conectar(c, n)) \/ Recibir(c) \/ Responder(c) \/ Salir(c)
      PROVE  Servidas' /\ Colas'
  BY <1>1, ColasPrograma
<1>2. CASE ~EnPie'
  BY <1>2 DEF Servidas, Colas
<1>3. CASE EnPie'
  <2>1. ASSUME NEW c \in Conexiones, Atender(c) PROVE Servidas' /\ Colas'
    <3>1. EnPie
      <4>1. ~caida
        BY <2>1 DEF Atender, Iniciar, Completar, Agregar, Desbloquear, BuscarNodo, Sacar, Eliminar, Recibido
      <4>2. (pisado => pisado') /\ (cruzado => cruzado')
        <5>1. pisado => pisado'
          BY <2>1, Zenon DEF Atender, Iniciar, Completar, Agregar, Desbloquear, BuscarNodo, Sacar, Eliminar
        <5>2. cruzado => cruzado'
          BY <2>1, Zenon DEF Atender, Iniciar, Completar, Agregar, Desbloquear, BuscarNodo, Sacar, Eliminar
        <5> QED
          BY <5>1, <5>2
      <4> QED
        BY <1>3, <4>1, <4>2 DEF EnPie
    <3>2. CASE Iniciar(c) \/ Completar(c) \/ Agregar(c)
      BY <1>3, <3>1, <3>2, ColasComienzo
    <3>3. CASE Desbloquear(c) \/ BuscarNodo(c) \/ Sacar(c) \/ Eliminar(c)
      BY <1>3, <3>1, <3>3, ColasServicio
    <3> QED
      BY <2>1, <3>2, <3>3 DEF Atender
  <2>2. CASE EjecutarIO
    <3>1. EnPie
      BY SMTT(30), <1>3, <2>2 DEF EnPie, EjecutarIO, Rechazar, Bloquear, BloquearLiberado, Enviar, EnviarPerdido,
            servidor
    <3> QED
      BY SMTT(30), <1>3, <2>2, <3>1, ColasPlanificador
  <2>3. ASSUME NEW p \in Pids, NEW n \in Nombres, NEW t \in Tipos, Buscar(p, n, t)
        PROVE  Servidas' /\ Colas'
    <3>1. EnPie
      BY <1>3, <2>3 DEF EnPie, Buscar, servidor
    <3> QED
      BY <1>3, <2>3, <3>1, ColasBuscar
  <2>4. CASE UNCHANGED vars
    <3>1. /\ UNCHANGED <<interfaz, trabajo, pedidos, avisos, hilo, hallado, interfaces_conectadas, nodo, corto>>
          /\ EnPie
      BY <1>3, <2>4 DEF vars, programa, canales, servidor, EnPie
    <3>2. Servidas'
      BY <3>1 DEF Servidas, En, Nueva
    <3>3. ASSUME NEW c \in Conexiones, Presente(c)' PROVE AlDia(c)'
      <4>1. Presente(c) /\ AlDia(c)
        BY <3>1, <3>3 DEF Presente, En, Colas
      <4> QED
        BY <3>1, <4>1, OtraConexion
    <3> QED
      BY <3>2, <3>3 DEF Colas
  <2> QED
    BY <1>1, <2>1, <2>2, <2>3, <2>4 DEF Next, Trabajar
<1> QED
  BY <1>2, <1>3

\* The queue in an interface's node holds the processes the interface still owes, in the
\* order it will answer them, so that popping it without looking at whom the answer is for
\* takes the right one (FINALIZACION_INTERFAZ*, bloquear_procesosIO), whatever the requests,
\* answers, connections and exits, unless two connections used interfaz_aux at once or a
\* thread worked on the node of another run of its interface.
THEOREM ColaComoLoQueSeDebe == Spec => []ColaAlDia
<1>1. Init => Presencia /\ NuncaCae /\ Servidas /\ Colas
  BY PresenciaInicial, ColasInicial
<1>2. Inv /\ (Presencia /\ NuncaCae /\ Servidas /\ Colas) /\ [Next]_vars
        => (Presencia /\ NuncaCae /\ Servidas /\ Colas)'
  BY PresenciaPaso, ColasPaso
<1>3. Inv /\ (Presencia /\ NuncaCae /\ Servidas /\ Colas) => ColaAlDia
  <2> SUFFICES ASSUME Inv, Colas, EnPie, NEW i \in DOMAIN interfaces_conectadas,
                      NEW c, c = interfaces_conectadas[i], interfaz[c] = "conectada"
               PROVE  EnCurso(c) = IF hilo[c] \in {"buscar", "sacar"} THEN Tail(nodo[c].cola) ELSE nodo[c].cola
    BY DEF ColaAlDia, EnPie
  <2>1. interfaces_conectadas \in Seq(Conexiones)
    BY DEF Inv, TypeOK
  <2>2. i \in 1 .. Len(interfaces_conectadas) /\ c \in Conexiones
    BY <2>1, LenProperties, ElementOfSeq
  <2>3. Presente(c)
    BY <2>2 DEF Presente, En
  <2> QED
    BY <2>2, <2>3 DEF Colas, AlDia
<1> QED
  BY <1>1, <1>2, <1>3, Invariante, PTL DEF Spec

-----------------------------------------------------------------------------
(* Somebody works for every blocked process                                 *)

\* The scheduler is about to send it, its interface has gone, or the interface owes it.
Atendido(p) ==
  \/ corto.pc = "enviar" /\ corto.pid = p
  \/ conQuien[p] # NULL /\ (interfaz[conQuien[p]] = "cerrada" \/ EnCamino(conQuien[p], p))

Debida == ~pisado /\ ~colgado /\ ~caida => \A p \in Pids : proceso[p] = "bloqueado" => Atendido(p)

\* A step that unblocks nobody and loses nothing.
LEMMA AtendidoIgual ==
  ASSUME TypeOK, NEW p \in Pids, Atendido(p), ~(corto.pc = "enviar" /\ corto.pid = p),
         conQuien'[p] = conQuien[p],
         \A c \in Conexiones : interfaz[c] = "cerrada" => interfaz'[c] = "cerrada",
         \A c \in Conexiones : EnCamino(c, p) => EnCamino(c, p)' \/ interfaz'[c] = "cerrada"
  PROVE  Atendido(p)'
<1>1. PICK c \in Conexiones : conQuien[p] = c /\ c # NULL /\ (interfaz[c] = "cerrada" \/ EnCamino(c, p))
  BY DEF Atendido, TypeOK
<1>2. interfaz'[c] = "cerrada" \/ EnCamino(c, p)'
  BY <1>1
<1>3. conQuien'[p] = c /\ c # NULL
  BY <1>1
<1>4. trabajo'[c] = p \/ En(pedidos'[c], p) \/ En(avisos'[c], Final(p)) \/ interfaz'[c] = "cerrada"
  BY <1>2 DEF EnCamino
<1> QED
  BY <1>3, <1>4 DEF Atendido, EnCamino

\* The same with the scheduler where it was.
LEMMA AtendidoQuieto ==
  ASSUME TypeOK, NEW p \in Pids, Atendido(p), UNCHANGED corto, conQuien'[p] = conQuien[p],
         \A c \in Conexiones : interfaz[c] = "cerrada" => interfaz'[c] = "cerrada",
         \A c \in Conexiones : EnCamino(c, p) => EnCamino(c, p)' \/ interfaz'[c] = "cerrada"
  PROVE  Atendido(p)'
<1>1. CASE corto.pc = "enviar" /\ corto.pid = p
  BY <1>1 DEF Atendido
<1>2. CASE ~(corto.pc = "enviar" /\ corto.pid = p)
  BY <1>2, AtendidoIgual
<1> QED
  BY <1>1, <1>2

LEMMA DebidaPrograma ==
  ASSUME Inv, Debida, NEW c \in Conexiones,
         (\E n \in Nombres : Conectar(c, n)) \/ Recibir(c) \/ Responder(c) \/ Salir(c)
  PROVE  Debida'
<1>1. /\ UNCHANGED <<proceso, corto, conQuien, pisado, colgado, caida>>
      /\ \A d \in Conexiones : interfaz[d] = "cerrada" => interfaz'[d] = "cerrada"
  BY SMTT(30) DEF Conectar, Recibir, Responder, Salir, Inv, TypeOK
<1>2. \A d \in Conexiones, p \in Pids : EnCamino(d, p) => EnCamino(d, p)' \/ interfaz'[d] = "cerrada"
  <2>1. CASE \E n \in Nombres : Conectar(c, n)
    BY <2>1, MensajesConectar DEF Inv
  <2>2. CASE Recibir(c)
    BY <2>2, MensajesRecibir DEF Inv
  <2>3. CASE Responder(c)
    BY <2>3, MensajesResponder DEF Inv
  <2>4. CASE Salir(c)
    <3>1. /\ interfaz'[c] = "cerrada"
          /\ \A d \in Conexiones \ {c} :
               trabajo'[d] = trabajo[d] /\ pedidos'[d] = pedidos[d] /\ avisos'[d] = avisos[d]
      BY <2>4 DEF Salir, Inv, TypeOK
    <3> QED
      BY <3>1 DEF EnCamino
  <2> QED
    BY <2>1, <2>2, <2>3, <2>4
<1>3. SUFFICES ASSUME ~pisado, ~colgado, ~caida, NEW p \in Pids, proceso[p] = "bloqueado"
               PROVE  Atendido(p)'
  BY <1>1 DEF Debida
<1> QED
  BY <1>1, <1>2, <1>3, AtendidoQuieto DEF Debida, Inv

LEMMA DebidaServidor ==
  ASSUME Inv, Debida, NEW c \in Conexiones, Atender(c)
  PROVE  Debida'
<1> SUFFICES ASSUME ~pisado', ~colgado', ~caida', NEW p \in Pids, proceso'[p] = "bloqueado"
             PROVE  Atendido(p)'
  BY DEF Debida
<1>1. UNCHANGED <<interfaz, trabajo, pedidos, corto>> /\ ~caida
  BY SMTT(30) DEF Atender, Iniciar, Completar, Agregar, Desbloquear, BuscarNodo, Sacar, Eliminar, Recibido, programa, canales
<1>2. ~pisado /\ ~colgado
  <2>1. pisado => pisado'
    BY Zenon DEF Atender, Iniciar, Completar, Agregar, Desbloquear, BuscarNodo, Sacar, Eliminar
  <2>2. colgado => colgado'
    BY DEF Atender, Iniciar, Completar, Agregar, Desbloquear, BuscarNodo, Sacar, Eliminar
  <2> QED
    BY <2>1, <2>2
<1>3. CASE Desbloquear(c)
  <2>1. /\ \A d \in Conexiones, q \in Pids :
             EnCamino(d, q) => EnCamino(d, q)' \/ (d = c /\ Head(avisos[c]) = Final(q))
        /\ \E q \in Pids : q = Head(avisos[c]).pid /\ EnCamino(c, q) /\ ~EnCamino(c, q)'
    BY <1>1, <1>3, MensajesRecibido DEF Desbloquear, Inv
  <2>2. PICK q \in Pids : q = Head(avisos[c]).pid /\ EnCamino(c, q)
    BY <2>1
  <2>3. /\ proceso[q] = "bloqueado" /\ proceso' = [proceso EXCEPT ![q] = "listo"]
        /\ conQuien' = [conQuien EXCEPT ![q] = NULL]
    BY <1>3, <2>2 DEF Desbloquear, Inv, Espera
  <2>4. p # q /\ conQuien'[p] = conQuien[p] /\ proceso[p] = "bloqueado"
    BY <2>3 DEF Inv, TypeOK
  <2>5. Head(avisos[c]) # Final(p)
    BY <2>2, <2>4 DEF Final, Mensaje
  <2>6. Atendido(p)
    BY <1>1, <1>2, <2>4 DEF Debida
  <2> QED
    BY <1>1, <2>1, <2>4, <2>5, <2>6, AtendidoQuieto DEF Inv
<1>4. CASE ~Desbloquear(c)
  <2>1. UNCHANGED <<proceso, conQuien>>
    BY <1>4 DEF Atender, Iniciar, Completar, Agregar, BuscarNodo, Sacar, Eliminar
  <2>2. \A d \in Conexiones, q \in Pids : EnCamino(d, q) => EnCamino(d, q)'
    <3>1. CASE Completar(c) \/ Eliminar(c)
      <4>1. PICK op \in {"CONEXION_INTERFAZ", "DESCONEXION_INTERFAZ"} : Recibido(c, op)
        BY <3>1 DEF Completar, Eliminar
      <4>2. \A q : Head(avisos[c]) # Final(q)
        BY <4>1 DEF Recibido, Final, Mensaje
      <4>3. \A d \in Conexiones, q \in Pids :
              EnCamino(d, q) => EnCamino(d, q)' \/ (d = c /\ Head(avisos[c]) = Final(q))
        BY <1>1, <4>1, MensajesRecibido DEF Inv
      <4> QED
        BY <4>2, <4>3
    <3>2. CASE Iniciar(c) \/ Agregar(c) \/ BuscarNodo(c) \/ Sacar(c)
      <4>1. UNCHANGED avisos
        BY <3>2 DEF Iniciar, Agregar, BuscarNodo, Sacar, canales
      <4> QED
        BY <1>1, <4>1 DEF EnCamino
    <3> QED
      BY <1>4, <3>1, <3>2 DEF Atender
  <2>3. Atendido(p)
    BY <1>1, <1>2, <2>1 DEF Debida
  <2> QED
    BY <1>1, <2>1, <2>2, <2>3, AtendidoQuieto DEF Inv
<1> QED
  BY <1>3, <1>4

LEMMA DebidaPlanificador ==
  ASSUME Inv, Debida, EjecutarIO \/ \E p \in Pids, n \in Nombres, t \in Tipos : Buscar(p, n, t)
  PROVE  Debida'
<1> SUFFICES ASSUME ~pisado', ~colgado', ~caida', NEW p \in Pids, proceso'[p] = "bloqueado"
             PROVE  Atendido(p)'
  BY DEF Debida
<1>1. /\ UNCHANGED <<interfaz, trabajo, avisos, pisado>>
      /\ ~caida /\ ~colgado
      /\ Rechazar \/ Bloquear \/ Enviar \/ \E r \in Pids, n \in Nombres, t \in Tipos : Buscar(r, n, t)
  <2>1. ASSUME NEW r \in Pids, NEW n \in Nombres, NEW t \in Tipos, Buscar(r, n, t)
        PROVE  UNCHANGED <<interfaz, trabajo, avisos, pisado>> /\ ~caida /\ ~colgado
    BY <2>1 DEF Buscar, programa, canales
  <2>2. CASE Rechazar
    BY <2>2 DEF Rechazar, programa, canales
  <2>3. CASE Bloquear
    BY <2>3 DEF Bloquear, programa, canales
  <2>4. CASE Enviar
    BY <2>4 DEF Enviar, programa
  <2>5. ~BloquearLiberado /\ ~EnviarPerdido
    BY DEF BloquearLiberado, EnviarPerdido
  <2> QED
    BY <2>1, <2>2, <2>3, <2>4, <2>5 DEF EjecutarIO
<1>2. proceso[p] = "bloqueado" => Atendido(p)
  BY <1>1 DEF Debida
<1>3. CASE Enviar
  <2> DEFINE n == corto.nodo
             c == nodo[corto.nodo].de
             q == corto.pid
  <2>1. /\ corto.pc = "enviar" /\ n \in Conexiones /\ q \in Pids /\ c = n
        /\ proceso' = proceso /\ conQuien' = [conQuien EXCEPT ![q] = c]
    <3>1. corto.pc = "enviar" /\ nodo[corto.nodo].estado # "libre"
      BY <1>3 DEF Enviar
    <3>2. n \in Conexiones /\ q \in Pids /\ nodo[n].estado = "vivo"
      BY <3>1 DEF Inv, TypeOK, NodoBuscado
    <3>3. c = n
      BY <1>1, <3>2 DEF Inv, NodoPropio
    <3> QED
      BY <1>3, <3>1, <3>2, <3>3 DEF Enviar
  <2>2. PICK k \in Conexiones, r \in Pids : k = c /\ r = q
    BY <2>1
  <2>3. \A d \in Conexiones, x \in Pids : EnCamino(d, x) \/ (d = k /\ x = r) => EnCamino(d, x)'
    BY <1>3, <2>1, <2>2, MensajesEnviar DEF Inv
  <2>4. conQuien' = [conQuien EXCEPT ![r] = k]
    BY <2>1, <2>2
  <2>5. CASE p = r
    <3>1. conQuien'[r] = k /\ k # NULL
      BY <2>4, ConstantesInterfaces DEF Inv, TypeOK
    <3>2. EnCamino(k, r)'
      BY <2>3
    <3>3. trabajo'[k] = r \/ En(pedidos'[k], r) \/ En(avisos'[k], Final(r))
      BY <3>2 DEF EnCamino
    <3> QED
      BY <2>5, <3>1, <3>3 DEF Atendido, EnCamino
  <2>6. CASE p # r
    <3>1. conQuien'[p] = conQuien[p] /\ proceso[p] = "bloqueado"
      BY <2>1, <2>4, <2>6 DEF Inv, TypeOK
    <3>2. Atendido(p) /\ ~(corto.pc = "enviar" /\ corto.pid = p)
      BY <1>2, <2>2, <2>6, <3>1
    <3> QED
      BY <1>1, <2>3, <3>1, <3>2, AtendidoIgual DEF Inv
  <2> QED
    BY <2>5, <2>6
<1>4. CASE ~Enviar
  <2>1. /\ UNCHANGED <<pedidos, conQuien>> /\ corto.pc # "enviar"
        /\ \/ proceso'[p] = proceso[p]
           \/ corto'.pc = "enviar" /\ corto'.pid = p
    <3>1. CASE Rechazar
      BY <3>1 DEF Rechazar, canales, Inv, TypeOK
    <3>2. CASE Bloquear
      BY <3>2 DEF Bloquear, canales, Inv, TypeOK
    <3>3. ASSUME NEW r \in Pids, NEW n \in Nombres, NEW t \in Tipos, Buscar(r, n, t)
          PROVE  UNCHANGED <<pedidos, conQuien>> /\ corto.pc # "enviar" /\ proceso'[p] = proceso[p]
      BY <3>3 DEF Buscar, canales, Inv, TypeOK
    <3> QED
      BY <1>1, <1>4, <3>1, <3>2, <3>3
  <2>2. CASE corto'.pc = "enviar" /\ corto'.pid = p
    BY <2>2 DEF Atendido
  <2>3. CASE proceso'[p] = proceso[p]
    <3>1. Atendido(p) /\ \A d \in Conexiones : EnCamino(d, p) => EnCamino(d, p)'
      BY <1>1, <1>2, <2>1, <2>3 DEF EnCamino
    <3> QED
      BY <1>1, <2>1, <3>1, AtendidoIgual DEF Inv
  <2> QED
    BY <2>1, <2>2, <2>3
<1> QED
  BY <1>3, <1>4

LEMMA DebidaPaso == Inv /\ Debida /\ [Next]_vars => Debida'
<1> SUFFICES ASSUME Inv, Debida, [Next]_vars PROVE Debida'
  OBVIOUS
<1>1. ASSUME NEW c \in Conexiones,
             (\E n \in Nombres : Conectar(c, n)) \/ Recibir(c) \/ Responder(c) \/ Salir(c)
      PROVE  Debida'
  BY <1>1, DebidaPrograma
<1>2. ASSUME NEW c \in Conexiones, Atender(c) PROVE Debida'
  BY <1>2, DebidaServidor
<1>3. CASE EjecutarIO \/ \E p \in Pids, n \in Nombres, t \in Tipos : Buscar(p, n, t)
  BY <1>3, DebidaPlanificador
<1>4. CASE UNCHANGED vars
  BY <1>4 DEF vars, programa, canales, Debida, Atendido, EnCamino, En
<1> QED
  BY <1>1, <1>2, <1>3, <1>4 DEF Next, Trabajar

LEMMA UnoTrasOtro ==
  ASSUME NEW S, NEW s \in Seq(S), NEW t \in Seq(S), NEW p,
         UnaVezEn(s, {p}), UnaVezEn(t, {p}), ~(En(s, p) /\ En(t, p))
  PROVE  s \o t \in Seq(S) /\ UnaVezEn(s \o t, {p}) /\ (En(s \o t, p) <=> En(s, p) \/ En(t, p))
<1>1. s \o t \in Seq(S)
  BY ConcatProperties
<1>2. En(s \o t, p) <=> En(s, p) \/ En(t, p)
  BY EnConcat
<1>3. UnaVezEn(s \o t, {p})
  BY UnaVezConcat
<1> QED
  BY <1>1, <1>2, <1>3

\* The place of a process in what its interface owes.
LEMMA UnSoloLugar ==
  ASSUME Inv, NEW c \in Conexiones, NEW p \in Pids, EnCamino(c, p)
  PROVE  Cuantas(EnCurso(c), p) = 1
<1> DEFINE s == DePids(avisos[c])
           t == Trabajando(c)
           u == pedidos[c]
           v == Enviando(c)
<1>1. s \in Seq(Quien) /\ t \in Seq(Quien) /\ u \in Seq(Quien) /\ v \in Seq(Quien)
  BY TipoDePartes DEF Inv
<1>2. /\ En(s, p) <=> En(avisos[c], Final(p))
      /\ UnaVezEn(s, {p})
  <2>1. avisos[c] \in Seq(Avisos) /\ UnaVezEn(avisos[c], Finales)
    BY DEF Inv, TypeOK, UnaVez
  <2>2. Len(s) = Len(avisos[c]) /\ \A i \in 1 .. Len(avisos[c]) : s[i] = avisos[c][i].pid
    BY <2>1, LosPids
  <2>3. ASSUME NEW i \in 1 .. Len(avisos[c]) PROVE avisos[c][i].pid = p <=> avisos[c][i] = Final(p)
    <3>1. avisos[c][i] \in Avisos
      BY <2>1, ElementOfSeq
    <3>2. ASSUME avisos[c][i].pid = p PROVE avisos[c][i] = Final(p)
      BY <3>1, <3>2, ConstantesInterfaces DEF Avisos, Final, Mensaje
    <3> QED
      BY <3>2 DEF Final, Mensaje
  <2>4. Final(p) \in Finales
    BY DEF Finales
  <2> HIDE DEF s
  <2> QED
    BY <2>1, <2>2, <2>3, <2>4 DEF En, UnaVezEn
<1>3. (En(t, p) <=> trabajo[c] = p) /\ UnaVezEn(t, {p})
  <2>1. trabajo[c] # NULL => Trabajando(c) = <<trabajo[c]>>
    BY DEF Trabajando
  <2>2. trabajo[c] = NULL => Trabajando(c) = <<>> /\ trabajo[c] # p
    BY ConstantesInterfaces DEF Trabajando
  <2> QED
    BY <2>1, <2>2, Vacia DEF En, UnaVezEn
<1>4. UnaVezEn(u, {p})
  BY DEF Inv, UnaVez, UnaVezEn
<1>5. ~En(v, p) /\ UnaVezEn(v, {p})
  <2>1. corto.pid # p
    BY DEF Inv, Espera
  <2>2. v = <<>> \/ v = <<corto.pid>>
    BY DEF Enviando
  <2> QED
    BY <2>1, <2>2, Vacia DEF En, UnaVezEn
<1>6. /\ ~(En(s, p) /\ En(t, p)) /\ ~(En(s, p) /\ En(u, p)) /\ ~(En(t, p) /\ En(u, p))
      /\ En(s, p) \/ En(t, p) \/ En(u, p)
  BY <1>2, <1>3 DEF Inv, UnaVez, EnCamino
<1>7. EnCurso(c) = ((s \o t) \o u) \o v
  BY PartesDeEnCurso
<1> HIDE DEF s, t, u, v
<1>8. PICK w : w = s \o t
  OBVIOUS
<1>9. w \in Seq(Quien) /\ UnaVezEn(w, {p}) /\ (En(w, p) <=> En(s, p) \/ En(t, p))
  BY <1>1, <1>2, <1>3, <1>6, <1>8, UnoTrasOtro
<1>10. PICK y : y = w \o u
  OBVIOUS
<1>11. y \in Seq(Quien) /\ UnaVezEn(y, {p}) /\ (En(y, p) <=> En(w, p) \/ En(u, p))
  BY <1>1, <1>4, <1>6, <1>9, <1>10, UnoTrasOtro
<1>12. y \o v \in Seq(Quien) /\ UnaVezEn(y \o v, {p}) /\ (En(y \o v, p) <=> En(y, p) \/ En(v, p))
  BY <1>1, <1>5, <1>11, UnoTrasOtro
<1>13. EnCurso(c) \in Seq(Quien) /\ UnaVezEn(EnCurso(c), {p}) /\ En(EnCurso(c), p)
  BY <1>6, <1>7, <1>8, <1>9, <1>10, <1>11, <1>12
<1> QED
  BY <1>13, CuentaUna

\* A process is not left blocked with nobody working for it: its request or its answer is in
\* one place, and in one only, between the scheduler's send and desbloquear_proceso, unless
\* its interface left, was used after it left, or connected at the same time as another.
THEOREM BloqueadoYAtendido == Spec => []BloqueadoPorAlguien
<1>1. Init => Debida
  BY DEF Init, Debida
<1>2. Inv /\ Debida /\ [Next]_vars => Debida'
  BY DebidaPaso
<1>3. Inv /\ Debida => BloqueadoPorAlguien
  <2> SUFFICES ASSUME Inv, Debida, ~pisado, ~colgado, ~caida, NEW p \in Pids, proceso[p] = "bloqueado",
                      ~(corto.pc = "enviar" /\ corto.pid = p)
               PROVE  /\ conQuien[p] # NULL
                      /\ \/ interfaz[conQuien[p]] = "cerrada"
                         \/ Cardinality({i \in DOMAIN EnCurso(conQuien[p]) :
                                           EnCurso(conQuien[p])[i] = p}) = 1
    BY DEF BloqueadoPorAlguien
  <2>1. /\ conQuien[p] # NULL /\ conQuien[p] \in Conexiones
        /\ interfaz[conQuien[p]] = "cerrada" \/ EnCamino(conQuien[p], p)
    BY DEF Debida, Atendido, Inv, TypeOK
  <2>2. EnCamino(conQuien[p], p) => Cuantas(EnCurso(conQuien[p]), p) = 1
    BY <2>1, UnSoloLugar
  <2> QED
    BY <2>1, <2>2 DEF Cuantas, Donde
<1> QED
  BY <1>1, <1>2, <1>3, Invariante, PTL DEF Spec
=============================================================================
