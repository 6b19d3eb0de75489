----------------------------- MODULE CicloProofs -----------------------------
(***************************************************************************)
(* Theorems of the path of an instruction, for any programs, interfaces,   *)
(* page tables and number of processes: what an interface works on is what *)
(* the program asked for and is memory of its own, and what it reads from  *)
(* memory is what the program has written.                                 *)
(***************************************************************************)
EXTENDS CicloDeInstruccion, ListasProofs

-----------------------------------------------------------------------------
(* The invariant                                                            *)

EsSeq(s) == s \in Seq({s[k] : k \in DOMAIN s})

CamposPCB == {"pid", "registros", "motivo_desalojo"}
CamposG   == {"nombre_interfaz", "instruccion", "unidades_de_trabajo", "direcciones",
              "nombre_archivo", "tamanio", "puntero"}

\* The fields of the request of each I/O instruction.
CamposDe(instr) ==
  {"instruccion", "nombre_interfaz"} \cup
  CASE instr = "IO_GEN_SLEEP" -> {"unidades_de_trabajo"}
    [] instr \in {"IO_STDIN_READ", "IO_STDOUT_WRITE"} -> {"direcciones"}
    [] instr \in {"IO_FS_CREATE", "IO_FS_DELETE"} -> {"nombre_archivo"}
    [] instr = "IO_FS_TRUNCATE" -> {"nombre_archivo", "tamanio"}
    [] instr \in {"IO_FS_WRITE", "IO_FS_READ"} -> {"nombre_archivo", "direcciones", "tamanio", "puntero"}

\* A list of fragments of process p's pages.
Propias(p) == {(m * TAM_PAGINA) + k : m \in Range(Marcos[p]), k \in 0 .. TAM_PAGINA - 1}
Tramos     == [direccion_fisica : Nat, tamanio : Nat]
De(p, lista) ==
  /\ lista \in Seq(Tramos)
  /\ \A k \in DOMAIN lista :
       \A b \in lista[k].direccion_fisica .. lista[k].direccion_fisica + lista[k].tamanio - 1 :
         b \in Propias(p)

Atendible(q) == q.nombre_interfaz \in Interfaces /\ q.instruccion \in Sabe(TipoDe[q.nombre_interfaz])
Bueno(p, q) ==
  /\ q.instruccion \in InstruccionesIO
  /\ DOMAIN q = CamposDe(q.instruccion)
  /\ q.instruccion \in ConDirecciones => De(p, q.direcciones) /\ Atendible(q)

\* A process is in the ready queue once, on the CPU, or neither; who waits for an interface
\* is not in them.  The kernel has sent all the addresses it was given.
Turnos ==
  /\ listo \in Seq(Pids) /\ \A k, l \in DOMAIN listo : listo[k] = listo[l] => k = l
  /\ \A k \in DOMAIN listo : listo[k] \notin bloqueados /\ listo[k] # ejecutando
  /\ ejecutando \in Pids \cup {NULL} /\ ejecutando \notin bloqueados
  /\ bloqueados \subseteq Pids
  /\ DOMAIN pcb = Pids /\ \A p \in Pids : DOMAIN pcb[p] = CamposPCB /\ pcb[p].pid = p
  /\ DOMAIN g = CamposG /\ g.direcciones = <<>>
  /\ DOMAIN pedido = Pids

\* The process on the CPU is in one place, with the reason it comes back for.
Prestado ==
  /\ DOMAIN pcb_actual = CamposPCB
  /\ DOMAIN cpu = {"pc", "instr"}
  /\ cpu.pc \in {"recv", "ciclo", "fetch", "mov_in", "llamar", "devolver"}
  /\ dispatch # <<>> => /\ ejecutando \in Pids /\ dispatch = <<enviar_pcb(pcb[ejecutando])>>
                        /\ cpu.pc = "recv" /\ respuesta = <<>>
  /\ cpu.pc # "recv" => /\ ejecutando \in Pids /\ pcb_actual.pid = ejecutando
                        /\ dispatch = <<>> /\ respuesta = <<>>
  /\ respuesta # <<>> =>
       /\ ejecutando \in Pids /\ pcb_actual.pid = ejecutando /\ dispatch = <<>> /\ cpu.pc = "recv"
       /\ IF pcb_actual.motivo_desalojo = "INTERRUPCION_BLOQUEO"
          THEN /\ Bueno(ejecutando, pedido[ejecutando])
               /\ respuesta = <<EnviarIO(Junto(pcb_actual, pedido[ejecutando]))>>
          ELSE respuesta = <<enviar_pcb(pcb_actual)>>
  /\ cpu.pc = "recv" => ~interrupcion
  /\ cpu.pc \in {"ciclo", "fetch", "mov_in"} /\ interrupcion =>
       pcb_actual.motivo_desalojo = "INTERRUPCION_FIN_QUANTUM"
  /\ cpu.pc = "devolver" => pcb_actual.motivo_desalojo \in {"FINALIZACION", "INTERRUPCION_FIN_QUANTUM"}
  /\ cpu.pc = "llamar" =>
       /\ pcb_actual.motivo_desalojo = "INTERRUPCION_BLOQUEO"
       /\ PedidoIO(pcb_actual.registros, cpu.instr) = pedido[ejecutando] /\ Bueno(ejecutando, pedido[ejecutando])

\* The CPU's connection to memory: requests a, answers d.  The CPU waits for one answer, to
\* the last thing it sent.
SinRespuesta == {"PEDIDO_MOV_OUT", "PEDIDO_COPY_STRING"}
Sirve(a, d, pc, pid) ==
  /\ EsSeq(a) /\ EsSeq(d)
  /\ \A k \in DOMAIN a :
       /\ a[k].cop \in SinRespuesta \cup {"PEDIDO_INSTRUCCION", "PEDIDO_MOV_IN"}
       /\ a[k].cop \notin SinRespuesta => k = Len(a) /\ d = <<>>
       /\ a[k].cop = "PEDIDO_INSTRUCCION" => pc = "fetch" /\ a[k].stream[1] = pid
       /\ a[k].cop = "PEDIDO_MOV_IN" => pc = "mov_in"
  /\ d # <<>> => pc \in {"fetch", "mov_in"} /\ Len(d) = 1

Conexion ==
  /\ programa \in Programas
  /\ DOMAIN aMemoria = Clientes /\ DOMAIN deMemoria = Clientes
  /\ Sirve(aMemoria["CPU"], deMemoria["CPU"], cpu.pc, pcb_actual.pid)
  /\ cpu.pc = "fetch" /\ deMemoria["CPU"] # <<>> =>
       \E n \in DOMAIN programa[pcb_actual.pid] : Instruccion = programa[pcb_actual.pid][n]

\* What the reader of a request takes from it, m, is what the process asked interface i for:
\* it is one of B, who wait, and P has what each asked for.
Fiel(i, cop, m, B, P) ==
  /\ m.pid \in B
  /\ Bueno(m.pid, P[m.pid]) /\ P[m.pid].nombre_interfaz = i
  /\ cop = CodigoDe(P[m.pid].instruccion)
  /\ \A c \in DOMAIN m \ {"pid"} : m[c] = P[m.pid][c]
  /\ P[m.pid].instruccion \in ConDirecciones <=> "direcciones" \in DOMAIN m

\* Interface i, with requests a in front of it, in state z, and answers d behind it...
EnCamino(i, a, z, d, B, P) ==
  /\ EsSeq(a) /\ EsSeq(d) /\ DOMAIN z = {"pc", "cop", "m"}
  /\ \A k \in DOMAIN a : Fiel(i, a[k].cop, LeerPedido(a[k]), B, P)
  /\ z.pc # "recv" => Fiel(i, z.cop, z.m, B, P)
  /\ \A k \in DOMAIN d : PidDe(d[k]) \in B /\ P[PidDe(d[k])].nombre_interfaz = i

\* ... is named each process at most once.
SinRepetir(a, z, d) ==
  /\ \A k, l \in DOMAIN a : LeerPedido(a[k]).pid = LeerPedido(a[l]).pid => k = l
  /\ \A k, l \in DOMAIN d : PidDe(d[k]) = PidDe(d[l]) => k = l
  /\ \A k \in DOMAIN a, l \in DOMAIN d : LeerPedido(a[k]).pid # PidDe(d[l])
  /\ z.pc # "recv" => /\ \A k \in DOMAIN a : LeerPedido(a[k]).pid # z.m.pid
                      /\ \A k \in DOMAIN d : PidDe(d[k]) # z.m.pid

Camino(i, a, z, d, B, P) == EnCamino(i, a, z, d, B, P) /\ SinRepetir(a, z, d)

\* Who waits for an interface has one request or one answer on its way.
Pedidos ==
  /\ DOMAIN aInterfaz = Interfaces /\ DOMAIN deInterfaz = Interfaces /\ DOMAIN interfaz = Interfaces
  /\ \A i \in Interfaces : Camino(i, aInterfaz[i], interfaz[i], deInterfaz[i], bloqueados, pedido)

\* What the CPU has sent to be written is of a process that waits for no interface: a
\* process's next instruction comes behind its writes.
Ajeno(lista, B) == \E p \in Pids \ B : De(p, lista)
Escribe(q, B) ==
  /\ q.cop = "PEDIDO_MOV_OUT" =>
       LET m == deserializar_datos_mov_out(q) IN Ajeno(m.direcciones, B) /\ Len(m.valor) \in Nat
  /\ q.cop = "PEDIDO_COPY_STRING" =>
       LET m == deserializar_datos_copystring(q.stream)
       IN  Ajeno(m.escritura, B) /\ \E p \in Pids : De(p, m.lectura)
Todas(a, B) == \A k \in DOMAIN a : Escribe(a[k], B)
SinEscrituras == aMemoria["CPU"] = <<>> /\ copia = SinCopia
\* The process has fetched its next instruction, or asked for I/O.
TrasSusEscrituras ==
  \/ cpu.pc = "fetch" /\ deMemoria["CPU"] # <<>>
  \/ cpu.pc = "llamar"
  \/ respuesta # <<>> /\ pcb_actual.motivo_desalojo = "INTERRUPCION_BLOQUEO"

Escrituras ==
  /\ \A p \in Pids : Propias(p) \subseteq DOMAIN memoriaUsuario
  /\ copia # SinCopia => Ajeno(copia.escritura, bloqueados) /\ Len(copia.dato) \in Nat
  /\ Todas(aMemoria["CPU"], bloqueados)
  /\ TrasSusEscrituras => SinEscrituras

\* Interface z has sent memory the requests a and has the answers d: it waits for one, to
\* the last thing it sent, the addresses it is working on.
Consulta(z, a, d) ==
  /\ EsSeq(a) /\ EsSeq(d)
  /\ \A k \in DOMAIN a : a[k].cop = "PEDIDO_A_LEER_DATO_STDOUT" =>
       /\ z.pc = "esperar" /\ d = <<>> /\ k = Len(a)
       /\ deserializar_direcciones_de_stdout(a[k].stream).direcciones = z.m.direcciones
  /\ d # <<>> => z.pc = "esperar" /\ Len(d) = 1
  /\ z.pc = "esperar" => z.cop \in {"PEDIDO_IO_STDOUT_WRITE", "PEDIDO_IO_FS_WRITE"}
Lecturas == \A i \in Interfaces : Consulta(interfaz[i], aMemoria[i], deMemoria[i])

InvCiclo == Turnos /\ Prestado /\ Conexion /\ Pedidos

-----------------------------------------------------------------------------
(* Sequences                                                                *)

LEMMA EsSeqDe == ASSUME NEW S, NEW s \in Seq(S) PROVE EsSeq(s)
  BY DEF EsSeq

LEMMA EsSeqUna == ASSUME NEW x PROVE EsSeq(<<x>>) /\ EsSeq(<<>>)
  BY DEF EsSeq

\* The last place of a queue after a push, and the places after a pop.
LEMMA AlFinal ==
  ASSUME NEW s, EsSeq(s), NEW x
  PROVE  /\ EsSeq(Append(s, x)) /\ Append(s, x) # <<>>
         /\ Len(s) \in Nat /\ DOMAIN s = 1 .. Len(s)
         /\ Len(Append(s, x)) = Len(s) + 1 /\ DOMAIN Append(s, x) = 1 .. Len(s) + 1
         /\ Append(s, x)[Len(s) + 1] = x
         /\ \A k \in DOMAIN s : Append(s, x)[k] = s[k]
<1> DEFINE S == {s[k] : k \in DOMAIN s} \cup {x}
<1>1. s \in Seq(S) /\ x \in S
  <2>1. s \in Seq({s[k] : k \in DOMAIN s})
    BY DEF EsSeq
  <2> QED
    BY <2>1
<1> HIDE DEF S
<1>2. Append(s, x) \in Seq(S)
  BY <1>1
<1>3. EsSeq(Append(s, x))
  BY <1>2, EsSeqDe
<1> QED
  BY <1>1, <1>2, <1>3

LEMMA SinLaCabeza ==
  ASSUME NEW s, EsSeq(s), s # <<>>
  PROVE  /\ EsSeq(Tail(s)) /\ Head(s) = s[1]
         /\ Len(s) \in Nat \ {0} /\ DOMAIN s = 1 .. Len(s) /\ 1 \in DOMAIN s
         /\ Len(Tail(s)) = Len(s) - 1 /\ DOMAIN Tail(s) = 1 .. Len(s) - 1
         /\ \A k \in DOMAIN Tail(s) : k + 1 \in DOMAIN s /\ Tail(s)[k] = s[k + 1]
         /\ Len(s) = 1 => Tail(s) = <<>>
<1> DEFINE S == {s[k] : k \in DOMAIN s}
<1>1. s \in Seq(S)
  BY DEF EsSeq
<1> HIDE DEF S
<1>2. Tail(s) \in Seq(S) /\ Len(s) # 0
  BY <1>1
<1>3. EsSeq(Tail(s))
  BY <1>2, EsSeqDe
<1>4. Len(Tail(s)) = Len(s) - 1 /\ \A k \in 1 .. Len(Tail(s)) : Tail(s)[k] = s[k + 1]
  BY <1>1, HeadTailProperties
<1>5. ASSUME Len(s) = 1 PROVE Tail(s) = <<>>
  <2>1. Len(Tail(s)) = 0
    BY <1>4, <1>5
  <2> QED
    BY <1>2, <2>1, EmptySeq
<1>6. Len(s) \in Nat \ {0} /\ DOMAIN s = 1 .. Len(s) /\ Head(s) = s[1]
  BY <1>1, <1>2
<1>7. DOMAIN Tail(s) = 1 .. Len(s) - 1
  BY <1>2, <1>4, <1>6, LenProperties
<1> QED
  BY <1>3, <1>4, <1>5, <1>6, <1>7

-----------------------------------------------------------------------------
(* Packets                                                                  *)

\* A reader that takes the fields in the order of the writer gets what was sent.
LEMMA IdaYVuelta ==
  ASSUME NEW campos, NEW m
  PROVE  Deserializar(campos, Serializar(campos, m)) = [c \in Range(campos) |-> m[c]]
  BY DEF Deserializar, Serializar, Range

\* What is read where a field was written.
LEMMA Campo ==
  ASSUME NEW campos, NEW m, NEW k \in DOMAIN campos
  PROVE  Serializar(campos, m)[k] = m[campos[k]]
  BY DEF Serializar

LEMMA EnJunto ==
  ASSUME NEW m, NEW n
  PROVE  /\ DOMAIN Junto(m, n) = DOMAIN m \cup DOMAIN n
         /\ \A c \in DOMAIN m : Junto(m, n)[c] = m[c]
         /\ \A c \in DOMAIN n \ DOMAIN m : Junto(m, n)[c] = n[c]
  BY DEF Junto

\* The fields of the messages of the CPU.
LEMMA CamposDelPCB == Range(PCB) = CamposPCB
  BY DEF Range, PCB, CamposPCB

LEMMA CamposGenerica ==
  Range(PCB \o <<"unidades_de_trabajo", "nombre_interfaz", "instruccion">>)
    = CamposPCB \cup CamposDe("IO_GEN_SLEEP")
  BY DEF Range, PCB, CamposPCB, CamposDe

LEMMA CamposStd ==
  /\ Range(PCB \o <<"nombre_interfaz", "instruccion", "direcciones">>)
       = CamposPCB \cup CamposDe("IO_STDIN_READ")
  /\ CamposDe("IO_STDOUT_WRITE") = CamposDe("IO_STDIN_READ")
  BY DEF Range, PCB, CamposPCB, CamposDe

LEMMA CamposCreate ==
  /\ Range(PCB \o <<"nombre_interfaz", "nombre_archivo", "instruccion">>)
       = CamposPCB \cup CamposDe("IO_FS_CREATE")
  /\ CamposDe("IO_FS_DELETE") = CamposDe("IO_FS_CREATE")
  BY DEF Range, PCB, CamposPCB, CamposDe

LEMMA CamposTruncate ==
  Range(PCB \o <<"nombre_interfaz", "nombre_archivo", "tamanio">>)
    = CamposPCB \cup (CamposDe("IO_FS_TRUNCATE") \ {"instruccion"})
  BY DEF Range, PCB, CamposPCB, CamposDe

LEMMA CamposWriteRead ==
  /\ Range(PCB \o <<"nombre_interfaz", "nombre_archivo", "direcciones", "tamanio", "puntero",
                    "instruccion">>)
       = CamposPCB \cup CamposDe("IO_FS_WRITE")
  /\ CamposDe("IO_FS_READ") = CamposDe("IO_FS_WRITE")
  BY DEF Range, PCB, CamposPCB, CamposDe

LEMMA ConCampoDirecciones ==
  ASSUME NEW instr \in InstruccionesIO
  PROVE  /\ "direcciones" \in CamposDe(instr) <=> instr \in ConDirecciones
         /\ CamposDe(instr) \subseteq CamposG
         /\ {"instruccion", "nombre_interfaz"} \subseteq CamposDe(instr)
         /\ CamposDe(instr) \cap CamposPCB = {} /\ "pid" \notin CamposG
  BY DEF InstruccionesIO, InstruccionesDialFS, CamposDe, ConDirecciones, CamposG, CamposPCB

\* What the kernel has after reading request q of process m.
Recibido(v, m, q) ==
  /\ DOMAIN v.pcb = CamposPCB /\ \A c \in CamposPCB : v.pcb[c] = m[c]
  /\ DOMAIN v.g = CamposG /\ \A c \in DOMAIN q : v.g[c] = q[c]
  /\ "direcciones" \notin DOMAIN q => v.g.direcciones = <<>>

\* The addresses are added to a list that was empty.
LEMMA GuardarPedido ==
  ASSUME NEW p, NEW q, Bueno(p, q), NEW m, NEW G, DOMAIN G = CamposG, G.direcciones = <<>>,
         NEW r, DOMAIN r = CamposPCB \cup DOMAIN q,
         \A c \in CamposPCB : r[c] = m[c], \A c \in DOMAIN q : r[c] = q[c]
  PROVE  Recibido(Guardar(G, r), m, q)
<1> DEFINE v == Guardar(G, r)
<1>1. /\ DOMAIN q = CamposDe(q.instruccion) /\ q.instruccion \in InstruccionesIO
      /\ "direcciones" \in DOMAIN q => q.direcciones \in Seq(Tramos)
  BY ConCampoDirecciones DEF Bueno, De
<1>2. DOMAIN q \subseteq CamposG /\ DOMAIN q \cap CamposPCB = {}
  BY <1>1, ConCampoDirecciones
<1>3. DOMAIN v.pcb = CamposPCB /\ \A c \in CamposPCB : v.pcb[c] = m[c]
  BY CamposDelPCB DEF Guardar
<1>4. /\ DOMAIN v.g = CamposG
      /\ \A c \in CamposG : v.g[c] = IF c \notin DOMAIN r THEN G[c]
                                     ELSE IF c = "direcciones" THEN G[c] \o r[c] ELSE r[c]
  BY DEF Guardar
<1>5. ASSUME NEW c \in DOMAIN q PROVE v.g[c] = q[c]
  <2>1. CASE c = "direcciones"
    <3>1. r[c] = q.direcciones /\ q.direcciones \in Seq(Tramos) /\ G[c] = <<>>
      BY <1>1, <2>1
    <3>2. <<>> \o q.direcciones = q.direcciones
      BY <3>1, ConcatEmptySeq
    <3> QED
      BY <1>2, <1>4, <2>1, <3>1, <3>2
  <2> QED
    BY <1>2, <1>4, <2>1
<1>6. "direcciones" \notin DOMAIN q => v.g.direcciones = <<>>
  BY <1>4 DEF CamposG, CamposPCB
<1> QED
  BY <1>3, <1>4, <1>5, <1>6 DEF Recibido

\* Each reader of the kernel takes what the CPU has sent.
LEMMA LeeDelCPU ==
  ASSUME NEW p, NEW q, Bueno(p, q), NEW m, DOMAIN m = CamposPCB,
         DOMAIN g = CamposG, g.direcciones = <<>>
  PROVE  /\ Recibido(recibir_pcb_CPU(EnviarIO(Junto(m, q))), m, q)
         /\ EnviarIO(Junto(m, q)).cop # "PCB"
<1> DEFINE j == Junto(m, q)
           instr == q.instruccion
           k == EnviarIO(j)
<1>1. /\ DOMAIN q = CamposDe(instr) /\ instr \in InstruccionesIO
      /\ {"instruccion", "nombre_interfaz"} \subseteq DOMAIN q /\ DOMAIN q \cap CamposPCB = {}
  BY ConCampoDirecciones DEF Bueno
<1>2. /\ \A c \in CamposPCB : j[c] = m[c]
      /\ \A c \in DOMAIN q : j[c] = q[c]
  BY <1>1 DEF Junto
<1>3. j.instruccion = instr
  BY <1>1, <1>2
<1> HIDE DEF j, instr
<1>4. ASSUME NEW r, DOMAIN r = CamposPCB \cup DOMAIN q, \A c \in DOMAIN r : r[c] = j[c]
      PROVE  Recibido(Guardar(g, r), m, q)
  <2>1. (\A c \in CamposPCB : r[c] = m[c]) /\ (\A c \in DOMAIN q : r[c] = q[c])
    BY <1>2, <1>4
  <2> QED
    BY <1>4, <2>1, GuardarPedido
<1> SUFFICES Recibido(recibir_pcb_CPU(k), m, q) /\ k.cop # "PCB"
  BY DEF k, j
<1> HIDE DEF k
<1>5. CASE instr = "IO_GEN_SLEEP"
  <2> DEFINE campos == PCB \o <<"unidades_de_trabajo", "nombre_interfaz", "instruccion">>
             r == Deserializar(campos, k.stream)
  <2>1. k.cop = "ENVIAR_INTERFAZ" /\ k.stream = Serializar(campos, j)
    BY <1>3, <1>5 DEF k, EnviarIO, enviar_interfaz_IO, Paquete
  <2>2. recibir_pcb_CPU(k) = Guardar(g, r)
    BY <2>1 DEF recibir_pcb_CPU, deserializar_pcb_para_interfaz
  <2>3. r = [c \in CamposPCB \cup DOMAIN q |-> j[c]]
    BY <1>1, <1>5, <2>1, IdaYVuelta, CamposGenerica
  <2> HIDE DEF campos, r
  <2> QED
    BY <1>4, <2>1, <2>2, <2>3
<1>6. CASE instr = "IO_STDIN_READ"
  <2> DEFINE campos == PCB \o <<"nombre_interfaz", "instruccion", "direcciones">>
             r == Deserializar(campos, k.stream)
  <2>1. k.cop = "ENVIAR_INTERFAZ_STDIN" /\ k.stream = Serializar(campos, j)
    BY <1>3, <1>6 DEF k, EnviarIO, enviar_interfaz_IO_stdin, Paquete
  <2>2. recibir_pcb_CPU(k) = Guardar(g, r)
    BY <2>1 DEF recibir_pcb_CPU, deserializar_pcb_para_interfaz_stdin
  <2>3. r = [c \in CamposPCB \cup DOMAIN q |-> j[c]]
    BY <1>1, <1>6, <2>1, IdaYVuelta, CamposStd
  <2> HIDE DEF campos, r
  <2> QED
    BY <1>4, <2>1, <2>2, <2>3
<1>7. CASE instr = "IO_STDOUT_WRITE"
  <2> DEFINE campos == PCB \o <<"nombre_interfaz", "instruccion", "direcciones">>
             r == Deserializar(campos, k.stream)
  <2>1. k.cop = "ENVIAR_INTERFAZ_STDOUT" /\ k.stream = Serializar(campos, j)
    BY <1>3, <1>7 DEF k, EnviarIO, enviar_interfaz_IO_stdout, Paquete
  <2>2. recibir_pcb_CPU(k) = Guardar(g, r)
    BY <2>1 DEF recibir_pcb_CPU, deserializar_pcb_para_interfaz_stdin
  <2>3. r = [c \in CamposPCB \cup DOMAIN q |-> j[c]]
    BY <1>1, <1>7, <2>1, IdaYVuelta, CamposStd
  <2> HIDE DEF campos, r
  <2> QED
    BY <1>4, <2>1, <2>2, <2>3
<1>8. CASE instr \in {"IO_FS_CREATE", "IO_FS_DELETE"}
  <2> DEFINE campos == PCB \o <<"nombre_interfaz", "nombre_archivo", "instruccion">>
             r == Deserializar(campos, k.stream)
  <2>1. k.cop = "FS_CREATE_DELETE" /\ k.stream = Serializar(campos, j)
    BY <1>3, <1>8 DEF k, EnviarIO, enviar_fs_create_delete, Paquete
  <2>2. recibir_pcb_CPU(k) = Guardar(g, r)
    BY <2>1 DEF recibir_pcb_CPU, deserializar_pcb_fs_create_delete
  <2>3. r = [c \in CamposPCB \cup DOMAIN q |-> j[c]]
    BY <1>1, <1>8, <2>1, IdaYVuelta, CamposCreate
  <2> HIDE DEF campos, r
  <2> QED
    BY <1>4, <2>1, <2>2, <2>3
<1>9. CASE instr \in {"IO_FS_WRITE", "IO_FS_READ"}
  <2> DEFINE campos == PCB \o <<"nombre_interfaz", "nombre_archivo", "direcciones", "tamanio",
                              "puntero", "instruccion">>
             r == Deserializar(campos, k.stream)
  <2>1. k.cop = "FS_WRITE_READ" /\ k.stream = Serializar(campos, j)
    BY <1>3, <1>9 DEF k, EnviarIO, enviar_interfaz_fs_write_read, Paquete
  <2>2. recibir_pcb_CPU(k) = Guardar(g, r)
    BY <2>1 DEF recibir_pcb_CPU, deserializar_pcb_fs_write_read
  <2>3. r = [c \in CamposPCB \cup DOMAIN q |-> j[c]]
    BY <1>1, <1>9, <2>1, IdaYVuelta, CamposWriteRead
  <2> HIDE DEF campos, r
  <2> QED
    BY <1>4, <2>1, <2>2, <2>3
<1>10. CASE instr = "IO_FS_TRUNCATE"
  <2> DEFINE campos == PCB \o <<"nombre_interfaz", "nombre_archivo", "tamanio">>
             leido == Deserializar(campos, k.stream)
             r == Junto(leido, [instruccion |-> "IO_FS_TRUNCATE"])
  <2>1. k.cop = "FS_TRUNCATE" /\ k.stream = Serializar(campos, j)
    BY <1>3, <1>10 DEF k, EnviarIO, enviar_fs_truncate, Paquete
  <2>2. recibir_pcb_CPU(k) = Guardar(g, r)
    BY <2>1 DEF recibir_pcb_CPU, deserializar_pcb_fs_truncate
  <2>3. leido = [c \in CamposPCB \cup (DOMAIN q \ {"instruccion"}) |-> j[c]]
    BY <1>1, <1>10, <2>1, IdaYVuelta, CamposTruncate
  <2> HIDE DEF campos, leido
  <2>4. /\ DOMAIN r = CamposPCB \cup DOMAIN q
        /\ \A c \in DOMAIN r : r[c] = j[c]
    BY <1>1, <1>3, <1>10, <2>3 DEF Junto, CamposPCB
  <2> HIDE DEF r
  <2> QED
    BY <1>4, <2>1, <2>2, <2>4
<1> QED
  BY <1>1, <1>5, <1>6, <1>7, <1>8, <1>9, <1>10 DEF InstruccionesIO, InstruccionesDialFS

\* What the reader of packet k takes from it is request q, of process e.
Leido(k, e, q) ==
  /\ k.cop = CodigoDe(q.instruccion)
  /\ LeerPedido(k).pid = e
  /\ \A c \in DOMAIN LeerPedido(k) \ {"pid"} : LeerPedido(k)[c] = q[c]
  /\ q.instruccion \in ConDirecciones <=> "direcciones" \in DOMAIN LeerPedido(k)

\* Each reader of an interface takes what the kernel has sent.
LEMMA LeeDelKernel ==
  ASSUME NEW p, NEW q, Bueno(p, q), Atendible(q), NEW e,
         NEW G, DOMAIN G = CamposG, \A c \in DOMAIN q : G[c] = q[c]
  PROVE  Leido(Enviar(TipoDe[q.nombre_interfaz], Junto(G, [pid |-> e])), e, q)
<1> DEFINE instr == q.instruccion
           tipo == TipoDe[q.nombre_interfaz]
           j == Junto(G, [pid |-> e])
           k == Enviar(tipo, j)
<1>1. /\ DOMAIN q = CamposDe(instr) /\ instr \in InstruccionesIO
      /\ DOMAIN q \subseteq CamposG /\ "instruccion" \in DOMAIN q /\ "pid" \notin CamposG
  BY ConCampoDirecciones DEF Bueno
<1>2. /\ j["pid"] = e /\ j.instruccion = instr
      /\ \A c \in DOMAIN q : j[c] = q[c]
  BY <1>1 DEF Junto
<1>3. tipo \in {"GENERICA", "STDIN", "STDOUT", "DIALFS"} /\ instr \in Sabe(tipo)
  BY ConstantesCiclo DEF Atendible, Interfaces
<1> SUFFICES Leido(k, e, q)
  OBVIOUS
<1> HIDE DEF instr, tipo, j, k
<1>0. instr = q.instruccion
  BY DEF instr
<1>4. CASE instr = "IO_GEN_SLEEP"
  <2> DEFINE campos == <<"unidades_de_trabajo", "pid", "nombre_interfaz">>
  <2>1. k.cop = CodigoDe(instr) /\ k.stream = Serializar(campos, j)
    BY <1>2, <1>3, <1>4 DEF k, Enviar, enviar_InterfazGenerica, Paquete, CodigoDe, Sabe, InstruccionesDialFS
  <2>2. LeerPedido(k) = Deserializar(campos, k.stream)
    BY <1>4, <2>1 DEF LeerPedido, CodigoDe, deserializar_InterfazGenerica
  <2>3. LeerPedido(k) = [c \in Range(campos) |-> j[c]]
    BY <2>1, <2>2, IdaYVuelta
  <2>4. /\ Range(campos) \ {"pid"} \subseteq DOMAIN q /\ "pid" \in Range(campos)
        /\ instr \in ConDirecciones <=> "direcciones" \in Range(campos)
    BY <1>1, <1>4 DEF CamposDe, Range, ConDirecciones
  <2> HIDE DEF campos
  <2> QED
    BY <1>0, <1>2, <2>1, <2>3, <2>4 DEF Leido
<1>5. CASE instr = "IO_STDIN_READ"
  <2> DEFINE campos == <<"pid", "nombre_interfaz", "direcciones">>
  <2>1. k.cop = CodigoDe(instr) /\ k.stream = Serializar(campos, j)
    BY <1>2, <1>3, <1>5 DEF k, Enviar, enviar_InterfazStdin, Paquete, CodigoDe, Sabe, InstruccionesDialFS
  <2>2. LeerPedido(k) = Deserializar(campos, k.stream)
    BY <1>5, <2>1 DEF LeerPedido, CodigoDe, deserializar_InterfazStdin
  <2>3. LeerPedido(k) = [c \in Range(campos) |-> j[c]]
    BY <2>1, <2>2, IdaYVuelta
  <2>4. /\ Range(campos) \ {"pid"} \subseteq DOMAIN q /\ "pid" \in Range(campos)
        /\ instr \in ConDirecciones <=> "direcciones" \in Range(campos)
    BY <1>1, <1>5 DEF CamposDe, Range, ConDirecciones
  <2> HIDE DEF campos
  <2> QED
    BY <1>0, <1>2, <2>1, <2>3, <2>4 DEF Leido
<1>6. CASE instr = "IO_STDOUT_WRITE"
  <2> DEFINE campos == <<"pid", "nombre_interfaz", "direcciones">>
  <2>1. k.cop = CodigoDe(instr) /\ k.stream = Serializar(campos, j)
    BY <1>2, <1>3, <1>6 DEF k, Enviar, enviar_InterfazStdout, Paquete, CodigoDe, Sabe, InstruccionesDialFS
  <2>2. LeerPedido(k) = Deserializar(campos, k.stream)
    BY <1>6, <2>1 DEF LeerPedido, CodigoDe, deserializar_InterfazStdout
  <2>3. LeerPedido(k) = [c \in Range(campos) |-> j[c]]
    BY <2>1, <2>2, IdaYVuelta
  <2>4. /\ Range(campos) \ {"pid"} \subseteq DOMAIN q /\ "pid" \in Range(campos)
        /\ instr \in ConDirecciones <=> "direcciones" \in Range(campos)
    BY <1>1, <1>6 DEF CamposDe, Range, ConDirecciones
  <2> HIDE DEF campos
  <2> QED
    BY <1>0, <1>2, <2>1, <2>3, <2>4 DEF Leido
<1>7. CASE instr \in {"IO_FS_CREATE", "IO_FS_DELETE"}
  <2> DEFINE campos == <<"pid", "nombre_archivo", "nombre_interfaz">>
  <2>1. k.cop = CodigoDe(instr) /\ k.stream = Serializar(campos, j)
    BY <1>2, <1>3, <1>7 DEF k, Enviar, enviar_InterfazDialFS, enviar_interfaz_dialFS_create_delete, Paquete, CodigoDe, Sabe, InstruccionesDialFS
  <2>2. LeerPedido(k) = Deserializar(campos, k.stream)
    BY <1>7, <2>1 DEF LeerPedido, CodigoDe, deserializar_InterfazDialfs,
                      deserializar_interfaz_dialfs_create_delete
  <2>3. LeerPedido(k) = [c \in Range(campos) |-> j[c]]
    BY <2>1, <2>2, IdaYVuelta
  <2>4. /\ Range(campos) \ {"pid"} \subseteq DOMAIN q /\ "pid" \in Range(campos)
        /\ instr \in ConDirecciones <=> "direcciones" \in Range(campos)
    BY <1>1, <1>7 DEF CamposDe, Range, ConDirecciones
  <2> HIDE DEF campos
  <2> QED
    BY <1>0, <1>2, <2>1, <2>3, <2>4 DEF Leido
<1>8. CASE instr = "IO_FS_TRUNCATE"
  <2> DEFINE campos == <<"pid", "nombre_archivo", "nombre_interfaz", "tamanio">>
  <2>1. k.cop = CodigoDe(instr) /\ k.stream = Serializar(campos, j)
    BY <1>2, <1>3, <1>8 DEF k, Enviar, enviar_InterfazDialFS, enviar_interfaz_dialFS_truncate, Paquete, CodigoDe, Sabe, InstruccionesDialFS
  <2>2. LeerPedido(k) = Deserializar(campos, k.stream)
    BY <1>8, <2>1 DEF LeerPedido, CodigoDe, deserializar_InterfazDialfs,
                      deserializar_interfaz_dialfs_truncate
  <2>3. LeerPedido(k) = [c \in Range(campos) |-> j[c]]
    BY <2>1, <2>2, IdaYVuelta
  <2>4. /\ Range(campos) \ {"pid"} \subseteq DOMAIN q /\ "pid" \in Range(campos)
        /\ instr \in ConDirecciones <=> "direcciones" \in Range(campos)
    BY <1>1, <1>8 DEF CamposDe, Range, ConDirecciones
  <2> HIDE DEF campos
  <2> QED
    BY <1>0, <1>2, <2>1, <2>3, <2>4 DEF Leido
<1>9. CASE instr \in {"IO_FS_WRITE", "IO_FS_READ"}
  <2> DEFINE campos == <<"pid", "nombre_archivo", "nombre_interfaz", "tamanio", "direcciones",
                          "puntero">>
  <2>1. k.cop = CodigoDe(instr) /\ k.stream = Serializar(campos, j)
    BY <1>2, <1>3, <1>9 DEF k, Enviar, enviar_InterfazDialFS, enviar_interfaz_dialFS_write_read, Paquete, CodigoDe, Sabe, InstruccionesDialFS
  <2>2. LeerPedido(k) = Deserializar(campos, k.stream)
    BY <1>9, <2>1 DEF LeerPedido, CodigoDe, deserializar_InterfazDialfs,
                      deserializar_interfaz_dialfs_write_read
  <2>3. LeerPedido(k) = [c \in Range(campos) |-> j[c]]
    BY <2>1, <2>2, IdaYVuelta
  <2>4. /\ Range(campos) \ {"pid"} \subseteq DOMAIN q /\ "pid" \in Range(campos)
        /\ instr \in ConDirecciones <=> "direcciones" \in Range(campos)
    BY <1>1, <1>9 DEF CamposDe, Range, ConDirecciones
  <2> HIDE DEF campos
  <2> QED
    BY <1>0, <1>2, <2>1, <2>3, <2>4 DEF Leido
<1> QED
  BY <1>1, <1>4, <1>5, <1>6, <1>7, <1>8, <1>9 DEF InstruccionesIO, InstruccionesDialFS

\* The answer of an interface names the process of the request.
LEMMA NombraAlProceso ==
  ASSUME NEW instr \in InstruccionesIO, NEW m
  PROVE  PidDe(Fin(CodigoDe(instr), m)) = m.pid
<1> DEFINE generica == <<"unidades_de_trabajo", "pid", "nombre_interfaz">>
           estandar == <<"pid", "nombre_interfaz", "direcciones">>
           dialfs == <<"pid", "nombre_interfaz">>
<1>1. \A campos \in {generica, estandar, dialfs} :
        Deserializar(campos, Serializar(campos, m)).pid = m.pid
  <2> TAKE campos \in {generica, estandar, dialfs}
  <2>1. "pid" \in Range(campos)
    BY DEF Range
  <2>2. Deserializar(campos, Serializar(campos, m)) = [c \in Range(campos) |-> m[c]]
    BY IdaYVuelta
  <2> QED
    BY <2>1, <2>2
<1>2. CASE instr = "IO_GEN_SLEEP"
  BY <1>1, <1>2 DEF CodigoDe, Fin, PidDe, enviar_InterfazGenericaConCodigoOP,
                    deserializar_InterfazGenerica, Paquete
<1>3. CASE instr = "IO_STDIN_READ"
  BY <1>1, <1>3 DEF CodigoDe, Fin, PidDe, enviar_InterfazStdinConCodigoOPaKernel,
                    deserializar_InterfazStdin, Paquete
<1>4. CASE instr = "IO_STDOUT_WRITE"
  BY <1>1, <1>4 DEF CodigoDe, Fin, PidDe, enviar_InterfazStdoutConCodigoOPaKernel,
                    deserializar_InterfazStdout, Paquete
<1>5. CASE instr \in InstruccionesDialFS
  BY <1>1, <1>5 DEF CodigoDe, Fin, PidDe, enviar_dialfs_terminado,
                    deserializar_InterfazDialfs_terminada, Paquete, InstruccionesDialFS
<1> QED
  BY <1>2, <1>3, <1>4, <1>5 DEF InstruccionesIO

-----------------------------------------------------------------------------
(* Translation                                                              *)

LEMMA Producto ==
  ASSUME NEW a \in Nat
  PROVE  a * TAM_PAGINA \in Nat /\ (a + 1) * TAM_PAGINA = a * TAM_PAGINA + TAM_PAGINA
  BY ConstantesCiclo

LEMMA CocienteYResto ==
  ASSUME NEW n \in Nat
  PROVE  /\ n \div TAM_PAGINA \in Nat /\ (n % TAM_PAGINA) \in 0 .. TAM_PAGINA - 1
         /\ n = (n \div TAM_PAGINA) * TAM_PAGINA + (n % TAM_PAGINA)
  BY ConstantesCiclo

LEMMA MultiploSinResto ==
  ASSUME NEW n \in Nat
  PROVE  ((n * TAM_PAGINA) % TAM_PAGINA) = 0
  BY ConstantesCiclo

\* A page that begins before the end of the space is one of its pages.
LEMMA PaginaDentro ==
  ASSUME NEW n \in Nat, NEW m \in Nat, n * TAM_PAGINA < m * TAM_PAGINA
  PROVE  n < m
<1>1. TAM_PAGINA \in Nat /\ TAM_PAGINA > 0
  BY ConstantesCiclo
<1> QED
  BY <1>1

\* From r on, a page of T bytes at x has room for what goes from d to h.
LEMMA CabeEnLaPagina ==
  ASSUME NEW T \in Nat, NEW x \in Nat, NEW y \in Nat, NEW r \in 0 .. T - 1,
         NEW d \in Nat, NEW h \in Nat, d = y + r, d <= h, h <= y + T
  PROVE  /\ x + r \in Nat /\ h - d \in Nat
         /\ \A b \in x + r .. x + r + (h - d) - 1 : b - x \in 0 .. T - 1 /\ b = x + (b - x)
  OBVIOUS

\* The part of an access that is in one page.
LEMMA UnTramo ==
  ASSUME NEW p \in Pids, NEW P \in Nat, P < Len(Marcos[p]), NEW d \in Nat, NEW h \in Nat,
         P * TAM_PAGINA <= d, d <= h, d < (P + 1) * TAM_PAGINA, h <= (P + 1) * TAM_PAGINA,
         NEW r, r = (d % TAM_PAGINA), d = P * TAM_PAGINA + r,
         NEW F, F = (Marcos[p][P + 1] * TAM_PAGINA) + r
  PROVE  /\ F \in Nat /\ h - d \in Nat
         /\ \A b \in F .. F + (h - d) - 1 : b \in Propias(p)
<1> DEFINE m == Marcos[p][P + 1]
           T == TAM_PAGINA
<1>1. T \in Nat /\ T > 0
  BY ConstantesCiclo
<1>2. Marcos[p] \in Seq(Nat)
  BY ConstantesCiclo
<1>3. m \in Nat /\ m \in Range(Marcos[p])
  BY SMTT(30), <1>2 DEF Range
<1>4. r \in 0 .. T - 1
  BY CocienteYResto
<1>5. m * T \in Nat /\ P * T \in Nat /\ (P + 1) * T = P * T + T
  BY <1>3, Producto
<1> DEFINE x == m * T
           y == P * T
<1>6. /\ F = x + r /\ x + r \in Nat /\ h - d \in Nat
      /\ \A b \in x + r .. x + r + (h - d) - 1 : b - x \in 0 .. T - 1 /\ b = x + (b - x)
  <2>1. d = y + r /\ h <= y + T /\ x \in Nat /\ y \in Nat
    BY <1>5
  <2> HIDE DEF x, y
  <2>2. F = x + r
    BY DEF x
  <2> QED
    BY <1>1, <1>4, <2>1, <2>2, CabeEnLaPagina
<1>7. ASSUME NEW b \in F .. F + (h - d) - 1 PROVE b \in Propias(p)
  <2>1. b - x \in 0 .. T - 1 /\ b = x + (b - x)
    BY <1>6
  <2> HIDE DEF m, T
  <2> QED
    BY <1>3, <2>1 DEF Propias, T
<1> QED
  BY <1>6, <1>7

\* traducir_direccion gives fragments of the process's pages, if the access is within them.
LEMMA Traducido ==
  ASSUME NEW p \in Pids, NEW e, e = Len(Marcos[p]) * TAM_PAGINA,
         NEW dl \in 0 .. e - 1, NEW tam \in Nat, dl + tam <= e
  PROVE  De(p, traducir_direccion(p, dl, tam))
<1> DEFINE T == TAM_PAGINA
           n == dl \div T
           fin == dl + tam
           Pagina(k) == n + k - 1
           Desde(k) == IF k = 1 THEN dl ELSE Pagina(k) * T
           Hasta(k) == IF fin < (Pagina(k) + 1) * T THEN fin ELSE (Pagina(k) + 1) * T
           u == (fin - 1) \div T
           C == IF tam = 0 THEN 1 ELSE u - n + 1
           Fisica(k) == (Marcos[p][Pagina(k) + 1] * T) + (Desde(k) % T)
           lista == [k \in 1 .. C |-> [direccion_fisica |-> Fisica(k), tamanio |-> Hasta(k) - Desde(k)]]
<1>1. traducir_direccion(p, dl, tam) = lista
  BY DEF traducir_direccion
<1>2. T \in Nat /\ T > 0 /\ Len(Marcos[p]) \in Nat /\ e \in Nat
  BY ConstantesCiclo
<1>3. dl \in Nat /\ fin \in Nat /\ fin <= e /\ dl <= fin
  BY <1>2
<1>4. n \in Nat /\ n * T <= dl /\ dl < (n + 1) * T /\ dl = n * T + (dl % T)
  <2>1. dl = n * T + (dl % T) /\ n \in Nat /\ (dl % T) \in 0 .. T - 1
    BY <1>3, CocienteYResto
  <2>2. n * T \in Nat /\ (n + 1) * T = n * T + T
    BY <1>2, <2>1
  <2> QED
    BY <1>2, <1>3, <2>1, <2>2
<1>5. tam > 0 => u \in Nat /\ u * T <= fin - 1 /\ n <= u
  <2> SUFFICES ASSUME tam > 0 PROVE u \in Nat /\ u * T <= fin - 1 /\ n <= u
    OBVIOUS
  <2>1. fin - 1 \in Nat /\ dl <= fin - 1
    BY <1>3
  <2>2. u \in Nat /\ fin - 1 = u * T + ((fin - 1) % T) /\ ((fin - 1) % T) \in 0 .. T - 1
    BY <2>1, CocienteYResto
  <2>3. u * T \in Nat /\ (u + 1) * T = u * T + T
    BY <1>2, <2>2
  <2>4. u * T <= fin - 1 /\ n * T < (u + 1) * T
    BY <1>2, <1>4, <2>1, <2>2, <2>3
  <2>5. n < u + 1
    BY <1>4, <2>2, <2>4, PaginaDentro
  <2> QED
    BY <1>4, <2>2, <2>4, <2>5
<1>6. C \in Nat
  BY <1>4, <1>5
<1> HIDE DEF T, n, fin, u
<1>7. ASSUME NEW k \in 1 .. C
      PROVE  /\ Pagina(k) \in Nat /\ Pagina(k) * T \in Nat
             /\ Pagina(k) * T <= fin /\ Pagina(k) * T < e /\ (k > 1 => Pagina(k) * T < fin)
  <2>1. CASE tam = 0
    <3>1. k = 1 /\ Pagina(k) = n
      BY <1>4, <2>1
    <3> QED
      BY <1>2, <1>3, <1>4, <3>1
  <2>2. CASE tam > 0
    <3>1. Pagina(k) \in Nat /\ Pagina(k) <= u /\ u \in Nat /\ u * T <= fin - 1
      BY <1>4, <1>5, <2>2
    <3> DEFINE P == Pagina(k)
    <3> HIDE DEF P
    <3>2. P \in Nat /\ P <= u /\ u \in Nat
      BY <3>1 DEF P
    <3>3. P * T <= u * T /\ P * T \in Nat /\ u * T \in Nat
      BY <1>2, <3>2
    <3> QED
      BY SMTT(30), <1>3, <3>1, <3>3 DEF P
  <2> QED
    BY <2>1, <2>2
<1>8. ASSUME NEW k \in 1 .. C
      PROVE  /\ lista[k] \in Tramos
             /\ \A b \in lista[k].direccion_fisica .. lista[k].direccion_fisica + lista[k].tamanio - 1 :
                  b \in Propias(p)
  <2> DEFINE P == Pagina(k)
             d == Desde(k)
             h == Hasta(k)
  <2>1. P \in Nat /\ P < Len(Marcos[p])
    BY <1>2, <1>7, PaginaDentro DEF T
  <2>2. (P + 1) * T = P * T + T /\ P * T \in Nat /\ P * T <= fin
    BY <1>2, <1>7, <2>1
  <2>3. /\ d \in Nat /\ P * T <= d /\ d < (P + 1) * T /\ d <= fin
        /\ d = P * T + (d % T)
    <3>1. CASE k = 1
      <4>1. P = n /\ d = dl
        BY <1>4, <3>1
      <4> QED
        BY <1>3, <1>4, <4>1
    <3>2. CASE k > 1
      <4>1. d = P * T
        BY <3>2
      <4>2. (d % T) = 0
        BY <2>1, <4>1, MultiploSinResto DEF T
      <4> HIDE DEF d, P
      <4> QED
        BY <1>2, <2>2, <4>1, <4>2
    <3> QED
      BY <1>6, <3>1, <3>2
  <2>4. h \in Nat /\ d <= h /\ h <= (P + 1) * T
    <3> DEFINE z == (P + 1) * T
    <3>1. z \in Nat /\ h = IF fin < z THEN fin ELSE z
      BY <1>2, <2>2
    <3>2. d \in Nat /\ d < z /\ d <= fin
      BY <2>3
    <3> HIDE DEF z, h, d
    <3>3. h \in Nat /\ d <= h /\ h <= z
      BY <1>3, <3>1, <3>2
    <3> QED
      BY <3>3 DEF z
  <2>5. /\ Fisica(k) \in Nat /\ h - d \in Nat
        /\ \A b \in Fisica(k) .. Fisica(k) + (h - d) - 1 : b \in Propias(p)
    <3>1. Fisica(k) = (Marcos[p][P + 1] * T) + (d % T)
      OBVIOUS
    <3> HIDE DEF P, d, h
    <3> QED
      BY <2>1, <2>3, <2>4, <3>1, UnTramo DEF T
  <2>6. lista[k].direccion_fisica = Fisica(k) /\ lista[k].tamanio = h - d
    OBVIOUS
  <2>7. lista[k] = [direccion_fisica |-> Fisica(k), tamanio |-> h - d]
    OBVIOUS
  <2> QED
    BY <2>5, <2>6, <2>7 DEF Tramos
<1> HIDE DEF lista
<1>9. lista \in Seq(Tramos) /\ Len(lista) = C /\ DOMAIN lista = 1 .. C
  <2>1. lista \in [1 .. C -> Tramos]
    BY <1>8 DEF lista
  <2> QED
    BY <1>6, <2>1, ListaDeFuncion
<1> QED
  BY <1>1, <1>8, <1>9 DEF De

\* What an I/O instruction asks for, if its data are within the process.
LEMMA PedidoBueno ==
  ASSUME NEW p \in Pids, pcb_actual.pid = p, NEW reg, NEW i, i[1] \in InstruccionesIO,
         i[1] \in ConDirecciones => i[2] \in Interfaces /\ i[1] \in Sabe(TipoDe[i[2]]),
         NEW e, e = Len(Marcos[p]) * TAM_PAGINA,
         \A a \in Accesos(reg, i) : a[1] \in 0 .. e - 1 /\ a[2] \in Nat /\ a[1] + a[2] <= e
  PROVE  Bueno(p, PedidoIO(reg, i))
<1> DEFINE q == PedidoIO(reg, i)
           Dirs(k) == traducir_direccion(p, reg[i[k]], reg[i[k + 1]])
<1>1. q.instruccion = i[1] /\ q.nombre_interfaz = i[2] /\ DOMAIN q = CamposDe(i[1])
  <2>1. CASE i[1] = "IO_GEN_SLEEP"
    BY <2>1 DEF PedidoIO, CamposDe
  <2>2. CASE i[1] \in {"IO_STDIN_READ", "IO_STDOUT_WRITE"}
    BY <2>2 DEF PedidoIO, CamposDe
  <2>3. CASE i[1] \in {"IO_FS_CREATE", "IO_FS_DELETE"}
    BY <2>3 DEF PedidoIO, CamposDe
  <2>4. CASE i[1] = "IO_FS_TRUNCATE"
    BY <2>4 DEF PedidoIO, CamposDe
  <2>5. CASE i[1] \in {"IO_FS_WRITE", "IO_FS_READ"}
    BY <2>5 DEF PedidoIO, CamposDe
  <2> QED
    BY <2>1, <2>2, <2>3, <2>4, <2>5 DEF InstruccionesIO, InstruccionesDialFS
<1>2. ASSUME i[1] \in ConDirecciones PROVE De(p, q.direcciones)
  <2>1. CASE i[1] \in {"IO_STDIN_READ", "IO_STDOUT_WRITE"}
    <3>1. q.direcciones = Dirs(3)
      BY <2>1 DEF PedidoIO
    <3>2. <<reg[i[3]], reg[i[4]]>> \in Accesos(reg, i)
      BY <2>1 DEF Accesos
    <3>3. reg[i[3]] \in 0 .. e - 1 /\ reg[i[4]] \in Nat /\ reg[i[3]] + reg[i[4]] <= e
      BY <3>2
    <3> QED
      BY <3>1, <3>3, Traducido
  <2>2. CASE i[1] \in {"IO_FS_WRITE", "IO_FS_READ"}
    <3>1. q.direcciones = Dirs(4)
      BY <2>2 DEF PedidoIO
    <3>2. <<reg[i[4]], reg[i[5]]>> \in Accesos(reg, i)
      BY <2>2 DEF Accesos
    <3>3. reg[i[4]] \in 0 .. e - 1 /\ reg[i[5]] \in Nat /\ reg[i[4]] + reg[i[5]] <= e
      BY <3>2
    <3> QED
      BY SMTT(30), <3>1, <3>3, Traducido
  <2> QED
    BY <1>2, <2>1, <2>2 DEF ConDirecciones
<1> HIDE DEF q
<1> QED
  BY <1>1, <1>2 DEF Bueno, Atendible, q

-----------------------------------------------------------------------------
(* What each program's steps leave alone                                    *)

LEMMA NoTocaCPU ==
  ASSUME CPU PROVE UNCHANGED <<programa, kernel, memoria, canalesI, io, interrupciones>>
  BY DEF CPU, RecibirPCB, Fetch, EjecutarAritmetica, EjecutarMovIn, EjecutarMovOut, UsarMemoria,
         EjecutarCopyString, EjecutarIOCPU, Llamar, EjecutarExit, RecibirMovIn, Devolver, Ejecutar,
         historia

LEMMA NoTocaKernel ==
  ASSUME Kernel \/ \E i \in Interfaces : Desbloquear(i)
  PROVE  UNCHANGED <<programa, procesador, canalesM, memoria, io, interrupciones, pedido>>
  BY DEF Kernel, Despachar, FinDeQuantum, Finalizar, EjecutarIO, RechazarIO, Volver, Desbloquear,
         historia

LEMMA NoTocaMemoria ==
  ASSUME MemoriaCPU \/ \E i \in Interfaces : EscribirStdin(i) \/ LeerStdout(i)
  PROVE  UNCHANGED <<programa, kernel, dispatch, respuesta, procesador, canalesI, io,
                     interrupciones, pedido>>
  BY DEF MemoriaCPU, AtenderInstruccion, AtenderMovIn, AtenderMovOut, CopyLeer, CopyEscribir,
         EscribirStdin, LeerStdout, Atender, historia

LEMMA NoTocaInterfaz ==
  ASSUME NEW i \in Interfaces, Interfaz(i)
  PROVE  UNCHANGED <<programa, kernel, dispatch, respuesta, procesador, memoria, historia>>
  BY DEF Interfaz, RecibirPedido, procesar_sleep, procesar_stdin, procesar_dialfs_read, PedirDato,
         RecibirDato, Trabaja

LEMMA Quienes ==
  ASSUME Next
  PROVE  \/ CPU \/ Kernel \/ MemoriaCPU \/ Interrumpir
         \/ \E i \in Interfaces : Interfaz(i) \/ Desbloquear(i) \/ EscribirStdin(i) \/ LeerStdout(i)
  BY DEF Next, Sistema

-----------------------------------------------------------------------------
(* The kernel and the process that comes back                               *)

\* What the kernel has when the process comes back.
LEMMA Vuelve ==
  ASSUME Turnos, Prestado, respuesta # <<>>
  PROVE  /\ ejecutando \in Pids /\ Tail(respuesta) = <<>>
         /\ DOMAIN Vuelto.pcb = CamposPCB /\ Vuelto.pcb.pid = ejecutando
         /\ Vuelto.pcb.motivo_desalojo = pcb_actual.motivo_desalojo
         /\ IF pcb_actual.motivo_desalojo = "INTERRUPCION_BLOQUEO"
            THEN /\ Bueno(ejecutando, pedido[ejecutando])
                 /\ Recibido(Vuelto, pcb_actual, pedido[ejecutando])
            ELSE Vuelto.g = g /\ Head(respuesta).cop = "PCB"
<1>1. ejecutando \in Pids /\ pcb_actual.pid = ejecutando /\ DOMAIN pcb_actual = CamposPCB
  BY DEF Prestado
<1>2. DOMAIN g = CamposG /\ g.direcciones = <<>>
  BY DEF Turnos
<1>3. CASE pcb_actual.motivo_desalojo = "INTERRUPCION_BLOQUEO"
  <2> DEFINE q == pedido[ejecutando]
             k == EnviarIO(Junto(pcb_actual, q))
  <2>1. Bueno(ejecutando, q) /\ respuesta = <<k>>
    BY <1>3 DEF Prestado
  <2>2. Recibido(recibir_pcb_CPU(k), pcb_actual, q)
    BY <1>1, <1>2, <2>1, LeeDelCPU
  <2> HIDE DEF k, q
  <2>3. Vuelto = recibir_pcb_CPU(k) /\ Tail(respuesta) = <<>>
    BY <2>1 DEF Vuelto
  <2>4. Recibido(Vuelto, pcb_actual, q)
    BY <2>2, <2>3
  <2> HIDE DEF Vuelto
  <2>5. /\ DOMAIN Vuelto.pcb = CamposPCB /\ Vuelto.pcb.pid = ejecutando
        /\ Vuelto.pcb.motivo_desalojo = pcb_actual.motivo_desalojo
    BY <1>1, <2>4 DEF Recibido, CamposPCB
  <2> QED
    BY <1>1, <1>3, <2>1, <2>3, <2>4, <2>5 DEF q
<1>4. CASE pcb_actual.motivo_desalojo # "INTERRUPCION_BLOQUEO"
  <2> DEFINE k == enviar_pcb(pcb_actual)
  <2>1. respuesta = <<k>>
    BY <1>4 DEF Prestado
  <2>2. k.cop = "PCB" /\ deserializar_pcb(k.stream) = [c \in CamposPCB |-> pcb_actual[c]]
    BY CamposDelPCB, IdaYVuelta DEF enviar_pcb, deserializar_pcb, Paquete
  <2> HIDE DEF k
  <2>3. Head(respuesta) = k /\ Tail(respuesta) = <<>>
    BY <2>1
  <2>4. Vuelto = [pcb |-> deserializar_pcb(k.stream), g |-> g]
    BY <2>2, <2>3 DEF Vuelto, recibir_pcb_CPU
  <2> HIDE DEF Vuelto
  <2>5. /\ DOMAIN Vuelto.pcb = CamposPCB /\ Vuelto.pcb.pid = ejecutando
        /\ Vuelto.pcb.motivo_desalojo = pcb_actual.motivo_desalojo /\ Vuelto.g = g
    BY <1>1, <2>2, <2>4 DEF CamposPCB
  <2> QED
    BY <1>1, <1>4, <2>2, <2>3, <2>5
<1> QED
  BY <1>3, <1>4

\* Only who is on the CPU asks for anything.
LEMMA CambiaPedido ==
  ASSUME CPU, DOMAIN pedido = Pids
  PROVE  /\ DOMAIN pedido' = Pids
         /\ \A p \in Pids : p # pcb_actual.pid => pedido'[p] = pedido[p]
         /\ cpu.pc # "fetch" => UNCHANGED pedido
<1>1. \/ UNCHANGED pedido
      \/ cpu.pc = "fetch" /\ pedido' = [pedido EXCEPT ![pcb_actual.pid] = PedidoIO(Avanzados, Instruccion)]
  BY DEF CPU, RecibirPCB, Fetch, EjecutarAritmetica, EjecutarMovIn, EjecutarMovOut, UsarMemoria,
         EjecutarCopyString, EjecutarIOCPU, Llamar, EjecutarExit, RecibirMovIn, Devolver, Ejecutar,
         historia
<1> HIDE DEF CPU
<1> QED
  BY <1>1

\* A queue without repetitions after a push of someone else, and after a pop.
LEMMA SinRepetidos ==
  ASSUME NEW S, NEW s \in Seq(S), \A k, l \in DOMAIN s : s[k] = s[l] => k = l
  PROVE  /\ \A x \in S : (\A k \in DOMAIN s : s[k] # x) =>
              /\ Append(s, x) \in Seq(S)
              /\ \A k, l \in DOMAIN Append(s, x) : Append(s, x)[k] = Append(s, x)[l] => k = l
              /\ \A k \in DOMAIN Append(s, x) : Append(s, x)[k] = x \/ \E l \in DOMAIN s : Append(s, x)[k] = s[l]
         /\ s # <<>> =>
              /\ Tail(s) \in Seq(S) /\ Head(s) \in S /\ \E l \in DOMAIN s : Head(s) = s[l]
              /\ \A k, l \in DOMAIN Tail(s) : Tail(s)[k] = Tail(s)[l] => k = l
              /\ \A k \in DOMAIN Tail(s) : Tail(s)[k] # Head(s) /\ \E l \in DOMAIN s : Tail(s)[k] = s[l]
<1>0. EsSeq(s)
  BY EsSeqDe
<1>1. ASSUME NEW x \in S, \A k \in DOMAIN s : s[k] # x
      PROVE  /\ Append(s, x) \in Seq(S)
             /\ \A k, l \in DOMAIN Append(s, x) : Append(s, x)[k] = Append(s, x)[l] => k = l
             /\ \A k \in DOMAIN Append(s, x) : Append(s, x)[k] = x \/ \E l \in DOMAIN s : Append(s, x)[k] = s[l]
  <2> DEFINE t == Append(s, x)
  <2>1. t \in Seq(S)
    OBVIOUS
  <2>2. /\ Len(s) \in Nat /\ DOMAIN s = 1 .. Len(s) /\ DOMAIN t = 1 .. Len(s) + 1
        /\ t[Len(s) + 1] = x /\ \A k \in DOMAIN s : t[k] = s[k]
    BY <1>0, AlFinal
  <2> HIDE DEF t
  <2>3. \A k \in DOMAIN t : k \in DOMAIN s \/ k = Len(s) + 1
    BY <2>2
  <2>4. \A k, l \in DOMAIN t : t[k] = t[l] => k = l
    BY <1>1, <2>2, <2>3
  <2>5. \A k \in DOMAIN t : t[k] = x \/ \E l \in DOMAIN s : t[k] = s[l]
    BY <2>2, <2>3
  <2> QED
    BY <2>1, <2>4, <2>5 DEF t
<1>2. ASSUME s # <<>>
      PROVE  /\ Tail(s) \in Seq(S) /\ Head(s) \in S /\ \E l \in DOMAIN s : Head(s) = s[l]
             /\ \A k, l \in DOMAIN Tail(s) : Tail(s)[k] = Tail(s)[l] => k = l
             /\ \A k \in DOMAIN Tail(s) : Tail(s)[k] # Head(s) /\ \E l \in DOMAIN s : Tail(s)[k] = s[l]
  <2> DEFINE t == Tail(s)
  <2>1. t \in Seq(S) /\ Head(s) \in S
    BY <1>2
  <2>2. /\ Head(s) = s[1] /\ 1 \in DOMAIN s
        /\ DOMAIN t = 1 .. Len(s) - 1 /\ Len(s) \in Nat
        /\ \A k \in DOMAIN t : k + 1 \in DOMAIN s /\ t[k] = s[k + 1]
    BY <1>0, <1>2, SinLaCabeza
  <2> HIDE DEF t
  <2>3. \A k, l \in DOMAIN t : t[k] = t[l] => k + 1 = l + 1
    BY <2>2
  <2>4. \A k \in DOMAIN t : t[k] # Head(s)
    <3> TAKE k \in DOMAIN t
    <3>1. k + 1 # 1 /\ t[k] = s[k + 1] /\ k + 1 \in DOMAIN s
      BY <2>2
    <3> QED
      BY <2>2, <3>1
  <2>5. \A k, l \in DOMAIN t : t[k] = t[l] => k = l
    BY <2>2, <2>3
  <2> QED
    BY <2>1, <2>2, <2>4, <2>5 DEF t
<1> QED
  BY <1>1, <1>2

\* What comes back leaves the process as it was lent, and the globals without addresses.
LEMMA VolverEnSuLugar ==
  ASSUME Turnos, Prestado, PidenLoQueHay, NEW motivo, Volver(motivo)
  PROVE  /\ ejecutando \in Pids /\ ejecutando' = NULL /\ respuesta' = <<>>
         /\ pcb_actual.motivo_desalojo = motivo
         /\ DOMAIN pcb' = Pids /\ \A p \in Pids : DOMAIN pcb'[p] = CamposPCB /\ pcb'[p].pid = p
         /\ DOMAIN Vuelto.g = CamposG
         /\ motivo # "INTERRUPCION_BLOQUEO" => Vuelto.g = g
         /\ motivo = "INTERRUPCION_BLOQUEO" =>
              /\ Bueno(ejecutando, pedido[ejecutando])
              /\ \A c \in DOMAIN pedido[ejecutando] : Vuelto.g[c] = pedido[ejecutando][c]
              /\ pedido[ejecutando].instruccion \notin ConDirecciones => Vuelto.g.direcciones = <<>>
              /\ Vuelto.g.instruccion = pedido[ejecutando].instruccion
              /\ Vuelto.g.nombre_interfaz = pedido[ejecutando].nombre_interfaz
<1>1. /\ respuesta # <<>> /\ Vuelto.pcb.motivo_desalojo = motivo
      /\ respuesta' = Tail(respuesta) /\ ejecutando' = NULL
      /\ pcb' = [pcb EXCEPT ![ejecutando] = Vuelto.pcb]
  BY DEF Volver
<1>2. /\ ejecutando \in Pids /\ Tail(respuesta) = <<>>
      /\ DOMAIN Vuelto.pcb = CamposPCB /\ Vuelto.pcb.pid = ejecutando
      /\ Vuelto.pcb.motivo_desalojo = pcb_actual.motivo_desalojo
      /\ IF pcb_actual.motivo_desalojo = "INTERRUPCION_BLOQUEO"
            THEN /\ Bueno(ejecutando, pedido[ejecutando])
                 /\ Recibido(Vuelto, pcb_actual, pedido[ejecutando])
            ELSE Vuelto.g = g /\ Head(respuesta).cop = "PCB"
  BY <1>1, Vuelve
<1>3. /\ DOMAIN pcb = Pids /\ \A p \in Pids : DOMAIN pcb[p] = CamposPCB /\ pcb[p].pid = p
      /\ DOMAIN g = CamposG
  BY DEF Turnos
<1> DEFINE W == Vuelto
           q == pedido[ejecutando]
<1> HIDE DEF W, q
<1>4. DOMAIN pcb' = Pids /\ \A p \in Pids : DOMAIN pcb'[p] = CamposPCB /\ pcb'[p].pid = p
  <2>1. /\ pcb' = [pcb EXCEPT ![ejecutando] = W.pcb] /\ DOMAIN W.pcb = CamposPCB /\ W.pcb.pid = ejecutando
    BY <1>1, <1>2 DEF W
  <2> QED
    BY <1>2, <1>3, <2>1
<1>5. /\ motivo # "INTERRUPCION_BLOQUEO" => W.g = g
      /\ motivo = "INTERRUPCION_BLOQUEO" => Bueno(ejecutando, q) /\ Recibido(W, pcb_actual, q)
  BY <1>1, <1>2 DEF W, q
<1>6. DOMAIN W.g = CamposG
  BY <1>3, <1>5 DEF Recibido
<1>7. ASSUME motivo = "INTERRUPCION_BLOQUEO"
      PROVE  /\ Bueno(ejecutando, q)
             /\ \A c \in DOMAIN q : W.g[c] = q[c]
             /\ q.instruccion \notin ConDirecciones => W.g.direcciones = <<>>
             /\ W.g.instruccion = q.instruccion /\ W.g.nombre_interfaz = q.nombre_interfaz
  <2>1. Bueno(ejecutando, q) /\ Recibido(W, pcb_actual, q)
    BY <1>5, <1>7
  <2>2. /\ "instruccion" \in DOMAIN q /\ "nombre_interfaz" \in DOMAIN q
        /\ "direcciones" \in DOMAIN q => q.instruccion \in ConDirecciones
    BY <2>1, ConCampoDirecciones DEF Bueno
  <2> QED
    BY <2>1, <2>2 DEF Recibido
<1> QED
  BY <1>1, <1>2, <1>4, <1>5, <1>6, <1>7 DEF W, q

LEMMA TurnosPaso ==
  ASSUME Turnos, Prestado, Pedidos, PidenLoQueHay, Next
  PROVE  Turnos'
<1>1. /\ listo \in Seq(Pids) /\ \A k, l \in DOMAIN listo : listo[k] = listo[l] => k = l
      /\ \A k \in DOMAIN listo : listo[k] \notin bloqueados /\ listo[k] # ejecutando
      /\ ejecutando \in Pids \cup {NULL} /\ ejecutando \notin bloqueados
      /\ bloqueados \subseteq Pids
      /\ DOMAIN pcb = Pids /\ \A p \in Pids : DOMAIN pcb[p] = CamposPCB /\ pcb[p].pid = p
      /\ DOMAIN g = CamposG /\ g.direcciones = <<>>
      /\ DOMAIN pedido = Pids
  BY DEF Turnos
<1>0. NULL \notin Pids
  BY ConstantesCiclo
<1>2. CASE CPU
  BY <1>1, <1>2, NoTocaCPU, CambiaPedido DEF Turnos, kernel
<1>3. CASE MemoriaCPU \/ \E i \in Interfaces : EscribirStdin(i) \/ LeerStdout(i)
  BY <1>1, <1>3, NoTocaMemoria DEF Turnos, kernel
<1>4. CASE \E i \in Interfaces : Interfaz(i)
  BY <1>1, <1>4, NoTocaInterfaz DEF Turnos, kernel, historia
<1>5. CASE Interrumpir
  BY <1>1, <1>5 DEF Turnos, kernel, Interrumpir
<1>6. CASE Despachar
  <2>1. /\ ejecutando = NULL /\ listo # <<>>
        /\ ejecutando' = Head(listo) /\ listo' = Tail(listo)
        /\ UNCHANGED <<pcb, bloqueados, g, pedido>>
    BY <1>6 DEF Despachar, historia
  <2>2. /\ Tail(listo) \in Seq(Pids) /\ Head(listo) \in Pids /\ \E l \in DOMAIN listo : Head(listo) = listo[l]
        /\ \A k, l \in DOMAIN Tail(listo) : Tail(listo)[k] = Tail(listo)[l] => k = l
        /\ \A k \in DOMAIN Tail(listo) :
             Tail(listo)[k] # Head(listo) /\ \E l \in DOMAIN listo : Tail(listo)[k] = listo[l]
    BY <1>1, <2>1, SinRepetidos
  <2> QED
    BY <1>1, <2>1, <2>2 DEF Turnos
<1>7. ASSUME NEW p \in Pids, \A k \in DOMAIN listo : listo[k] # p, listo' = Append(listo, p)
      PROVE  /\ listo' \in Seq(Pids) /\ \A k, l \in DOMAIN listo' : listo'[k] = listo'[l] => k = l
             /\ \A k \in DOMAIN listo' : listo'[k] = p \/ \E l \in DOMAIN listo : listo'[k] = listo[l]
  BY <1>1, <1>7, SinRepetidos
<1>8. CASE FinDeQuantum
  <2>1. Volver("INTERRUPCION_FIN_QUANTUM") /\ listo' = Append(listo, ejecutando) /\ g' = Vuelto.g
        /\ bloqueados' = bloqueados /\ pedido' = pedido
    BY <1>8 DEF FinDeQuantum, Volver
  <2>2. /\ ejecutando \in Pids /\ ejecutando' = NULL /\ g' = g
        /\ DOMAIN pcb' = Pids /\ \A p \in Pids : DOMAIN pcb'[p] = CamposPCB /\ pcb'[p].pid = p
    BY <2>1, VolverEnSuLugar
  <2> QED
    BY <1>0, <1>1, <1>7, <2>1, <2>2 DEF Turnos
<1>9. CASE Finalizar
  <2>1. Volver("FINALIZACION") /\ listo' = listo /\ g' = g
        /\ bloqueados' = bloqueados /\ pedido' = pedido
    BY <1>9 DEF Finalizar, Volver
  <2>2. /\ ejecutando \in Pids /\ ejecutando' = NULL
        /\ DOMAIN pcb' = Pids /\ \A p \in Pids : DOMAIN pcb'[p] = CamposPCB /\ pcb'[p].pid = p
    BY <2>1, VolverEnSuLugar
  <2> QED
    BY <1>0, <1>1, <2>1, <2>2 DEF Turnos
<1>10. CASE EjecutarIO
  <2> DEFINE i == Vuelto.g.nombre_interfaz
  <2>1. /\ Volver("INTERRUPCION_BLOQUEO") /\ listo' = listo /\ pedido' = pedido
        /\ i \in Interfaces /\ Vuelto.g.instruccion \in Sabe(TipoDe[i])
        /\ g' = [Vuelto.g EXCEPT !.direcciones = IF TipoDe[i] = "GENERICA" THEN @ ELSE <<>>]
        /\ bloqueados' = bloqueados \cup {ejecutando}
    BY <1>10 DEF EjecutarIO, Volver
  <2>2. /\ ejecutando \in Pids /\ ejecutando' = NULL /\ DOMAIN Vuelto.g = CamposG
        /\ DOMAIN pcb' = Pids /\ \A p \in Pids : DOMAIN pcb'[p] = CamposPCB /\ pcb'[p].pid = p
        /\ pedido[ejecutando].instruccion \notin ConDirecciones => Vuelto.g.direcciones = <<>>
        /\ Vuelto.g.instruccion = pedido[ejecutando].instruccion
    BY <2>1, VolverEnSuLugar
  <2>3. TipoDe[i] = "GENERICA" => Vuelto.g.direcciones = <<>>
    BY <2>1, <2>2 DEF Sabe, ConDirecciones
  <2> DEFINE W == Vuelto.g
  <2>4. DOMAIN g' = CamposG /\ g'.direcciones = <<>>
    <3>1. "direcciones" \in CamposG
      BY DEF CamposG
    <3> HIDE DEF W
    <3>2. DOMAIN W = CamposG /\ g' = [W EXCEPT !.direcciones = IF TipoDe[i] = "GENERICA" THEN @ ELSE <<>>]
          /\ (TipoDe[i] = "GENERICA" => W.direcciones = <<>>)
      BY <2>1, <2>2, <2>3 DEF W
    <3> QED
      BY <3>1, <3>2
  <2> QED
    BY <1>0, <1>1, <2>1, <2>2, <2>4 DEF Turnos
<1>11. CASE RechazarIO
  <2> DEFINE i == Vuelto.g.nombre_interfaz
  <2>1. /\ Volver("INTERRUPCION_BLOQUEO") /\ listo' = listo /\ pedido' = pedido
        /\ i \in Interfaces => Vuelto.g.instruccion \notin Sabe(TipoDe[i])
        /\ g' = Vuelto.g
        /\ bloqueados' = bloqueados
    BY <1>11 DEF RechazarIO, Volver
  <2>2. /\ ejecutando \in Pids /\ ejecutando' = NULL /\ DOMAIN Vuelto.g = CamposG
        /\ DOMAIN pcb' = Pids /\ \A p \in Pids : DOMAIN pcb'[p] = CamposPCB /\ pcb'[p].pid = p
        /\ Bueno(ejecutando, pedido[ejecutando])
        /\ pedido[ejecutando].instruccion \notin ConDirecciones => Vuelto.g.direcciones = <<>>
        /\ Vuelto.g.instruccion = pedido[ejecutando].instruccion
        /\ Vuelto.g.nombre_interfaz = pedido[ejecutando].nombre_interfaz
    BY <2>1, VolverEnSuLugar
  <2>3. g'.direcciones = <<>> /\ DOMAIN g' = CamposG
    BY <2>1, <2>2 DEF Bueno, Atendible
  <2> QED
    BY <1>0, <1>1, <2>1, <2>2, <2>3 DEF Turnos
<1>12. ASSUME NEW i \in Interfaces, Desbloquear(i) PROVE Turnos'
  <2> DEFINE p == PidDe(Head(deInterfaz[i]))
  <2>1. /\ p \in bloqueados /\ bloqueados' = bloqueados \ {p} /\ listo' = Append(listo, p)
        /\ UNCHANGED <<ejecutando, pcb, g, pedido>>
    BY <1>12 DEF Desbloquear, historia
  <2> HIDE DEF p
  <2>2. p \in Pids /\ \A k \in DOMAIN listo : listo[k] # p
    BY <1>1, <2>1
  <2>3. \A k \in DOMAIN listo' : listo'[k] \notin bloqueados' /\ listo'[k] # ejecutando
    BY <1>1, <1>7, <2>1, <2>2
  <2> QED
    BY <1>1, <1>7, <2>1, <2>2, <2>3 DEF Turnos
<1> QED
  BY <1>2, <1>3, <1>4, <1>5, <1>6, <1>8, <1>9, <1>10, <1>11, <1>12, Quienes DEF Kernel

-----------------------------------------------------------------------------
(* The CPU and its process                                                  *)

LEMMA MismoPedido ==
  ASSUME pcb_actual'.pid = pcb_actual.pid
  PROVE  \A reg, i : PedidoIO(reg, i)' = PedidoIO(reg, i)
  BY DEF PedidoIO, traducir_direccion

\* A step in which the CPU keeps the process.
LEMMA SigueConElla ==
  ASSUME Prestado, cpu.pc # "recv", NEW pc, NEW i, cpu' = [pc |-> pc, instr |-> i],
         pc \in {"ciclo", "fetch", "mov_in", "devolver"},
         UNCHANGED <<ejecutando, pcb, dispatch, respuesta, interrupcion>>,
         DOMAIN pcb_actual' = CamposPCB, pcb_actual'.pid = pcb_actual.pid,
         pc = "devolver" => pcb_actual'.motivo_desalojo \in {"FINALIZACION", "INTERRUPCION_FIN_QUANTUM"},
         interrupcion /\ pc # "devolver" => pcb_actual'.motivo_desalojo = "INTERRUPCION_FIN_QUANTUM"
  PROVE  Prestado'
<1>1. ejecutando \in Pids /\ pcb_actual.pid = ejecutando /\ dispatch = <<>> /\ respuesta = <<>>
  BY DEF Prestado
<1>2. cpu'.pc = pc /\ DOMAIN cpu' = {"pc", "instr"}
  OBVIOUS
<1> QED
  BY <1>1, <1>2 DEF Prestado

\* The instruction the CPU executes is one of the process's program.
LEMMA DeSuPrograma ==
  ASSUME Conexion, PidenLoQueHay, cpu.pc = "fetch", deMemoria["CPU"] # <<>>, pcb_actual.pid \in Pids,
         Instruccion[1] \in ConDirecciones
  PROVE  Instruccion[2] \in Interfaces /\ Instruccion[1] \in Sabe(TipoDe[Instruccion[2]])
<1>1. PICK n \in DOMAIN programa[pcb_actual.pid] : Instruccion = programa[pcb_actual.pid][n]
  BY DEF Conexion
<1>2. programa \in Programas
  BY DEF Conexion
<1> QED
  BY <1>1, <1>2 DEF PidenLoQueHay

\* What the process on the CPU has just asked for.
LEMMA PideBien ==
  ASSUME Prestado, Conexion, PidenLoQueHay, EnSuEspacio, EjecutarIOCPU
  PROVE  Bueno(ejecutando, PedidoIO(Avanzados, Instruccion))
<1>1. cpu.pc = "fetch" /\ deMemoria["CPU"] # <<>> /\ Instruccion[1] \in InstruccionesIO
  BY DEF EjecutarIOCPU, Ejecutar
<1>2. ejecutando \in Pids /\ pcb_actual.pid = ejecutando
  BY <1>1 DEF Prestado
<1>3. Instruccion[1] \in ConDirecciones =>
        Instruccion[2] \in Interfaces /\ Instruccion[1] \in Sabe(TipoDe[Instruccion[2]])
  BY <1>1, <1>2, DeSuPrograma
<1>4. \A a \in Accesos(Avanzados, Instruccion) :
        /\ a[1] \in 0 .. Len(Marcos[ejecutando]) * TAM_PAGINA - 1 /\ a[2] \in Nat
        /\ a[1] + a[2] <= Len(Marcos[ejecutando]) * TAM_PAGINA
  BY <1>1, <1>2 DEF EnSuEspacio
<1> QED
  BY <1>1, <1>2, <1>3, <1>4, PedidoBueno

LEMMA PrestadoPaso ==
  ASSUME Turnos, Prestado, Conexion, PidenLoQueHay, EnSuEspacio, ~InterrumpeLlamadas, Next
  PROVE  Prestado'
<1>1. /\ DOMAIN pcb_actual = CamposPCB
      /\ DOMAIN cpu = {"pc", "instr"}
      /\ cpu.pc # "recv" => /\ ejecutando \in Pids /\ pcb_actual.pid = ejecutando
                            /\ dispatch = <<>> /\ respuesta = <<>>
      /\ cpu.pc = "recv" => ~interrupcion
      /\ cpu.pc \in {"ciclo", "fetch", "mov_in"} /\ interrupcion =>
           pcb_actual.motivo_desalojo = "INTERRUPCION_FIN_QUANTUM"
  BY DEF Prestado
<1>2. ASSUME UNCHANGED <<pcb_actual, cpu, dispatch, ejecutando, pcb, respuesta, pedido, interrupcion>>
      PROVE  Prestado'
  BY <1>2, MismoPedido DEF Prestado
<1>3. CASE RecibirPCB
  <2>1. /\ cpu.pc = "recv" /\ dispatch # <<>>
        /\ pcb_actual' = deserializar_pcb(Head(dispatch).stream)
        /\ dispatch' = Tail(dispatch) /\ cpu' = [cpu EXCEPT !.pc = "ciclo"]
        /\ UNCHANGED <<ejecutando, pcb, respuesta, interrupcion>>
    BY <1>3 DEF RecibirPCB, kernel
  <2>2. ejecutando \in Pids /\ dispatch = <<enviar_pcb(pcb[ejecutando])>> /\ respuesta = <<>>
    BY <2>1 DEF Prestado
  <2>3. pcb_actual' = [c \in CamposPCB |-> pcb[ejecutando][c]] /\ dispatch' = <<>>
    BY <2>1, <2>2, IdaYVuelta, CamposDelPCB DEF enviar_pcb, deserializar_pcb, Paquete
  <2>4. DOMAIN pcb_actual' = CamposPCB /\ pcb_actual'.pid = ejecutando
    BY <2>2, <2>3 DEF Turnos, CamposPCB
  <2>5. cpu'.pc = "ciclo" /\ DOMAIN cpu' = {"pc", "instr"} /\ ~interrupcion
    BY <1>1, <2>1
  <2> QED
    BY <2>1, <2>2, <2>3, <2>4, <2>5 DEF Prestado
<1>4. CASE Fetch
  <2>1. /\ cpu.pc = "ciclo" /\ ~interrupcion /\ cpu' = [cpu EXCEPT !.pc = "fetch"]
        /\ UNCHANGED <<ejecutando, pcb, dispatch, respuesta, pcb_actual, interrupcion>>
    BY <1>4 DEF Fetch, kernel
  <2>2. cpu'.pc = "fetch" /\ DOMAIN cpu' = {"pc", "instr"}
    BY <1>1, <2>1
  <2> QED
    BY <1>1, <2>1, <2>2 DEF Prestado
<1>5. ASSUME NEW nombres, Ejecutar(nombres)
      PROVE  /\ cpu.pc = "fetch" /\ ejecutando \in Pids /\ pcb_actual.pid = ejecutando
             /\ UNCHANGED <<ejecutando, pcb, dispatch, respuesta, interrupcion>>
  BY <1>1, <1>5 DEF Ejecutar, kernel
<1>6. CASE EjecutarAritmetica \/ EjecutarMovIn \/ EjecutarMovOut \/ EjecutarCopyString
  <2>1. PICK pc \in {"ciclo", "mov_in"} :
          /\ \E nombres : Ejecutar(nombres)
          /\ \E i : Seguir(pc, i)
          /\ \E reg : pcb_actual' = [pcb_actual EXCEPT !.registros = reg]
    BY <1>6 DEF EjecutarAritmetica, EjecutarMovIn, EjecutarMovOut, EjecutarCopyString, UsarMemoria
  <2>2. /\ DOMAIN pcb_actual' = CamposPCB /\ pcb_actual'.pid = pcb_actual.pid
        /\ pcb_actual'.motivo_desalojo = pcb_actual.motivo_desalojo
    BY <1>1, <2>1
  <2>3. /\ cpu.pc = "fetch" /\ ejecutando \in Pids /\ pcb_actual.pid = ejecutando
        /\ UNCHANGED <<ejecutando, pcb, dispatch, respuesta, interrupcion>>
    BY <1>5, <2>1
  <2>4. PICK i : Seguir(pc, i)
    BY <2>1
  <2> QED
    BY <1>1, <2>2, <2>3, <2>4, SigueConElla DEF Seguir
<1>7. CASE EjecutarExit
  <2>1. /\ Ejecutar({"EXIT"}) /\ Seguir("devolver", NULL)
        /\ pcb_actual' = [pcb_actual EXCEPT !.motivo_desalojo = "FINALIZACION"]
    BY <1>7 DEF EjecutarExit
  <2>2. /\ DOMAIN pcb_actual' = CamposPCB /\ pcb_actual'.pid = pcb_actual.pid
        /\ pcb_actual'.motivo_desalojo = "FINALIZACION"
    BY <1>1, <2>1 DEF CamposPCB
  <2> QED
    BY <1>1, <1>5, <2>1, <2>2, SigueConElla DEF Seguir
<1>8. CASE RecibirMovIn
  <2>1. /\ cpu.pc = "mov_in" /\ Seguir("ciclo", NULL)
        /\ UNCHANGED <<ejecutando, pcb, dispatch, respuesta, interrupcion>>
    BY <1>8 DEF RecibirMovIn, kernel
  <2>2. /\ DOMAIN pcb_actual' = CamposPCB /\ pcb_actual'.pid = pcb_actual.pid
        /\ pcb_actual'.motivo_desalojo = pcb_actual.motivo_desalojo
    BY <1>1, <1>8 DEF RecibirMovIn
  <2> QED
    BY <1>1, <2>1, <2>2, SigueConElla DEF Seguir
<1>9. CASE EjecutarIOCPU
  <2> DEFINE q == PedidoIO(Avanzados, Instruccion)
  <2>1. /\ Ejecutar(InstruccionesIO) /\ Seguir("llamar", Instruccion)
        /\ pcb_actual' = [pcb_actual EXCEPT !.registros = Avanzados, !.motivo_desalojo = "INTERRUPCION_BLOQUEO"]
        /\ pedido' = [pedido EXCEPT ![pcb_actual.pid] = q]
    BY <1>9 DEF EjecutarIOCPU
  <2>2. cpu' = [pc |-> "llamar", instr |-> Instruccion]
    BY <2>1 DEF Seguir
  <2>3. Bueno(ejecutando, q)
    BY <1>9, PideBien
  <2>4. /\ DOMAIN pcb_actual' = CamposPCB /\ pcb_actual'.pid = pcb_actual.pid
        /\ pcb_actual'.motivo_desalojo = "INTERRUPCION_BLOQUEO" /\ pcb_actual'.registros = Avanzados
    BY <1>1, <2>1 DEF CamposPCB
  <2>5. PedidoIO(pcb_actual.registros, cpu.instr)' = q
    <3>1. \A reg, i : PedidoIO(reg, i)' = PedidoIO(reg, i)
      BY <2>4, MismoPedido
    <3>2. pcb_actual'.registros = Avanzados /\ cpu'.instr = Instruccion
      BY <2>2, <2>4
    <3> QED
      BY <3>1, <3>2
  <2> HIDE DEF q
  <2>6. pedido'[ejecutando] = q
    BY <1>5, <2>1 DEF Turnos
  <2>7. cpu'.pc = "llamar" /\ DOMAIN cpu' = {"pc", "instr"}
    BY <2>2
  <2> QED
    BY <1>1, <1>5, <2>1, <2>3, <2>4, <2>5, <2>6, <2>7 DEF Prestado
<1>10. CASE Llamar
  <2> DEFINE k == EnviarIO(Junto(pcb_actual, pedido[ejecutando]))
  <2>1. /\ cpu.pc = "llamar" /\ Seguir("recv", NULL) /\ interrupcion' = FALSE
        /\ respuesta' = Append(respuesta, EnviarIO(Junto(pcb_actual, PedidoIO(pcb_actual.registros, cpu.instr))))
        /\ UNCHANGED <<ejecutando, pcb, dispatch, pcb_actual, pedido>>
    BY <1>10 DEF Llamar, kernel, historia
  <2>2. /\ pcb_actual.motivo_desalojo = "INTERRUPCION_BLOQUEO"
        /\ PedidoIO(pcb_actual.registros, cpu.instr) = pedido[ejecutando] /\ Bueno(ejecutando, pedido[ejecutando])
    BY <2>1 DEF Prestado
  <2> HIDE DEF k
  <2>3. respuesta' = <<k>>
    BY <1>1, <2>1, <2>2 DEF k
  <2>4. cpu'.pc = "recv" /\ DOMAIN cpu' = {"pc", "instr"}
    BY <2>1 DEF Seguir
  <2> QED
    BY <1>1, <2>1, <2>2, <2>3, <2>4 DEF Prestado, k
<1>11. CASE Devolver
  <2> DEFINE k == enviar_pcb(pcb_actual)
  <2>1. /\ cpu.pc = "devolver" \/ (cpu.pc = "ciclo" /\ interrupcion)
        /\ respuesta' = Append(respuesta, k)
        /\ Seguir("recv", NULL) /\ interrupcion' = FALSE
        /\ UNCHANGED <<ejecutando, pcb, dispatch, pcb_actual, pedido>>
    BY <1>11 DEF Devolver, kernel, historia
  <2>2. pcb_actual.motivo_desalojo # "INTERRUPCION_BLOQUEO"
    BY <2>1 DEF Prestado
  <2> HIDE DEF k
  <2>3. respuesta' = <<k>>
    <3>1. cpu.pc # "recv" /\ respuesta' = Append(respuesta, k)
      BY <2>1
    <3>2. respuesta = <<>>
      BY <1>1, <3>1
    <3> QED
      BY <3>1, <3>2
  <2>4. cpu'.pc = "recv" /\ DOMAIN cpu' = {"pc", "instr"}
    BY <2>1 DEF Seguir
  <2>5. /\ respuesta' = <<enviar_pcb(pcb_actual')>> /\ dispatch' = <<>>
        /\ ejecutando' \in Pids /\ pcb_actual'.pid = ejecutando'
        /\ pcb_actual'.motivo_desalojo # "INTERRUPCION_BLOQUEO" /\ DOMAIN pcb_actual' = CamposPCB
    BY <1>1, <2>1, <2>2, <2>3 DEF k
  <2> QED
    BY <2>1, <2>4, <2>5 DEF Prestado
<1>12. CASE Interrumpir
  <2>1. /\ cpu.pc \in {"ciclo", "fetch", "mov_in", "devolver"}
        /\ interrupcion' = TRUE /\ UNCHANGED <<ejecutando, pcb, dispatch, respuesta, cpu>>
        /\ pcb_actual' = [pcb_actual EXCEPT !.motivo_desalojo = "INTERRUPCION_FIN_QUANTUM"]
    BY <1>12 DEF Interrumpir, kernel
  <2>2. /\ DOMAIN pcb_actual' = CamposPCB /\ pcb_actual'.pid = pcb_actual.pid
        /\ pcb_actual'.motivo_desalojo = "INTERRUPCION_FIN_QUANTUM"
    BY <1>1, <2>1 DEF CamposPCB
  <2>3. /\ ejecutando' \in Pids /\ pcb_actual'.pid = ejecutando' /\ dispatch' = <<>> /\ respuesta' = <<>>
        /\ cpu'.pc \in {"ciclo", "fetch", "mov_in", "devolver"} /\ DOMAIN cpu' = {"pc", "instr"}
    BY <1>1, <2>1, <2>2
  <2> QED
    BY <2>2, <2>3 DEF Prestado
<1>13. CASE Despachar
  <2> DEFINE k == enviar_pcb(pcb[Head(listo)])
  <2>1. /\ ejecutando = NULL /\ listo # <<>>
        /\ ejecutando' = Head(listo) /\ dispatch' = Append(dispatch, k)
        /\ UNCHANGED <<pcb, respuesta, cpu, pcb_actual, interrupcion>>
    BY <1>13 DEF Despachar, procesador
  <2>2. dispatch = <<>> /\ cpu.pc = "recv" /\ respuesta = <<>>
    BY <2>1, ConstantesCiclo DEF Prestado
  <2>3. Head(listo) \in Pids /\ k = enviar_pcb(pcb'[ejecutando'])
    BY <2>1 DEF Turnos
  <2> HIDE DEF k
  <2>4. dispatch' = <<k>>
    BY <2>1, <2>2
  <2> QED
    BY <1>1, <2>1, <2>2, <2>3, <2>4 DEF Prestado
<1>14. CASE FinDeQuantum \/ Finalizar \/ EjecutarIO \/ RechazarIO
  <2>1. PICK motivo : Volver(motivo)
    BY <1>14 DEF FinDeQuantum, Finalizar, EjecutarIO, RechazarIO
  <2>2. respuesta # <<>> /\ UNCHANGED <<dispatch, cpu, pcb_actual, interrupcion>> /\ ejecutando' = NULL
    BY <2>1 DEF Volver, procesador
  <2>3. respuesta' = <<>>
    BY <2>1, VolverEnSuLugar
  <2>4. dispatch = <<>> /\ cpu.pc = "recv"
    BY <2>2 DEF Prestado
  <2> QED
    BY <1>1, <2>2, <2>3, <2>4 DEF Prestado
<1>15. CASE MemoriaCPU \/ \E i \in Interfaces : EscribirStdin(i) \/ LeerStdout(i)
  BY <1>2, <1>15, NoTocaMemoria DEF kernel, procesador
<1>16. CASE \E i \in Interfaces : Interfaz(i)
  BY <1>2, <1>16, NoTocaInterfaz DEF kernel, procesador, historia
<1>17. CASE \E i \in Interfaces : Desbloquear(i)
  BY <1>2, <1>17 DEF Desbloquear, procesador, historia
<1> QED
  BY <1>3, <1>4, <1>6, <1>7, <1>8, <1>9, <1>10, <1>11, <1>12, <1>13, <1>14, <1>15, <1>16, <1>17,
     Quienes DEF CPU, Kernel

-----------------------------------------------------------------------------
(* The CPU's connection to memory                                           *)

\* A queue in which nobody waits for an answer.
Callada(a) == EsSeq(a) /\ \A k \in DOMAIN a : a[k].cop \in SinRespuesta

LEMMA CalladaSirve ==
  ASSUME NEW a, Callada(a), NEW pc, NEW pid
  PROVE  Sirve(a, <<>>, pc, pid)
<1>1. EsSeq(a) /\ EsSeq(<<>>)
  BY EsSeqUna DEF Callada
<1>2. \A k \in DOMAIN a : a[k].cop \in SinRespuesta /\ a[k].cop # "PEDIDO_INSTRUCCION" /\ a[k].cop # "PEDIDO_MOV_IN"
  BY DEF Callada, SinRespuesta
<1> QED
  BY <1>1, <1>2 DEF Sirve

LEMMA NadieEspera ==
  ASSUME NEW a, NEW d, NEW pc, NEW pid, Sirve(a, d, pc, pid)
  PROVE  /\ pc \notin {"fetch", "mov_in"} => Callada(a) /\ d = <<>>
         /\ d # <<>> => Callada(a) /\ Tail(d) = <<>> /\ EsSeq(d)
<1>1. ASSUME pc \notin {"fetch", "mov_in"} PROVE Callada(a) /\ d = <<>>
  BY <1>1 DEF Sirve, Callada, SinRespuesta
<1>2. ASSUME d # <<>> PROVE Callada(a) /\ Tail(d) = <<>> /\ EsSeq(d)
  <2>1. EsSeq(d) /\ Len(d) = 1
    BY <1>2 DEF Sirve
  <2>2. Callada(a)
    BY <1>2 DEF Sirve, Callada
  <2> QED
    BY <1>2, <2>1, <2>2, SinLaCabeza
<1> QED
  BY <1>1, <1>2

LEMMA Encola ==
  ASSUME NEW a, Callada(a), NEW q, NEW pc, NEW pid,
         \/ q.cop \in SinRespuesta
         \/ q.cop = "PEDIDO_INSTRUCCION" /\ pc = "fetch" /\ q.stream[1] = pid
         \/ q.cop = "PEDIDO_MOV_IN" /\ pc = "mov_in"
  PROVE  Sirve(Append(a, q), <<>>, pc, pid)
<1> DEFINE b == Append(a, q)
<1>1. /\ EsSeq(b) /\ DOMAIN b = 1 .. Len(a) + 1 /\ Len(b) = Len(a) + 1
      /\ Len(a) \in Nat /\ DOMAIN a = 1 .. Len(a)
      /\ b[Len(a) + 1] = q /\ \A k \in DOMAIN a : b[k] = a[k]
  BY AlFinal DEF Callada
<1> HIDE DEF b
<1>2. \A k \in DOMAIN b : k = Len(b) \/ (k \in DOMAIN a /\ b[k] = a[k])
  BY <1>1
<1>3. \A k \in DOMAIN a : a[k].cop \in SinRespuesta
  BY DEF Callada
<1>4. ASSUME NEW k \in DOMAIN b, b[k].cop \notin SinRespuesta PROVE k = Len(b) /\ b[k] = q
  BY <1>1, <1>2, <1>3, <1>4
<1>5. EsSeq(<<>>)
  BY EsSeqUna
<1>6. \A k \in DOMAIN b : b[k] = q \/ b[k].cop \in SinRespuesta
  BY <1>4
<1> SUFFICES Sirve(b, <<>>, pc, pid)
  BY DEF b
<1>7. q.cop \in SinRespuesta => q.cop # "PEDIDO_INSTRUCCION" /\ q.cop # "PEDIDO_MOV_IN"
  BY DEF SinRespuesta
<1>8. \A k \in DOMAIN b :
        b[k].cop \in SinRespuesta => b[k].cop # "PEDIDO_INSTRUCCION" /\ b[k].cop # "PEDIDO_MOV_IN"
  BY DEF SinRespuesta
<1>9. q.cop = "PEDIDO_INSTRUCCION" => pc = "fetch" /\ q.stream[1] = pid
  BY <1>7
<1>10. q.cop = "PEDIDO_MOV_IN" => pc = "mov_in"
  BY <1>7
<1>11. \A k \in DOMAIN b : /\ b[k].cop = "PEDIDO_INSTRUCCION" => pc = "fetch" /\ b[k].stream[1] = pid
                           /\ b[k].cop = "PEDIDO_MOV_IN" => pc = "mov_in"
  BY <1>6, <1>8, <1>9, <1>10
<1>12. \A k \in DOMAIN b : b[k].cop \in SinRespuesta \cup {"PEDIDO_INSTRUCCION", "PEDIDO_MOV_IN"}
  BY <1>6
<1> QED
  BY <1>1, <1>4, <1>5, <1>11, <1>12 DEF Sirve

LEMMA Desencola ==
  ASSUME NEW a, NEW d, NEW pc, NEW pid, Sirve(a, d, pc, pid), a # <<>>
  PROVE  /\ Sirve(Tail(a), d, pc, pid)
         /\ Head(a) = a[1] /\ 1 \in DOMAIN a
         /\ Head(a).cop \notin SinRespuesta => Tail(a) = <<>> /\ d = <<>>
<1> DEFINE t == Tail(a)
<1>1. /\ EsSeq(t) /\ Head(a) = a[1] /\ 1 \in DOMAIN a /\ Len(a) \in Nat
      /\ Len(t) = Len(a) - 1 /\ DOMAIN t = 1 .. Len(a) - 1
      /\ \A k \in DOMAIN t : k + 1 \in DOMAIN a /\ t[k] = a[k + 1]
      /\ Len(a) = 1 => t = <<>>
  BY SinLaCabeza DEF Sirve
<1> HIDE DEF t
<1>2. \A k \in DOMAIN t : k + 1 = Len(a) => k = Len(t)
  BY <1>1
<1>3. ASSUME NEW k \in DOMAIN t
      PROVE  /\ t[k].cop \in SinRespuesta \cup {"PEDIDO_INSTRUCCION", "PEDIDO_MOV_IN"}
             /\ t[k].cop \notin SinRespuesta => k = Len(t) /\ d = <<>>
             /\ t[k].cop = "PEDIDO_INSTRUCCION" => pc = "fetch" /\ t[k].stream[1] = pid
             /\ t[k].cop = "PEDIDO_MOV_IN" => pc = "mov_in"
  <2>1. k + 1 \in DOMAIN a /\ t[k] = a[k + 1]
    BY <1>1
  <2> QED
    BY <1>2, <2>1 DEF Sirve
<1>4. Sirve(t, d, pc, pid)
  BY <1>1, <1>3 DEF Sirve
<1>5. ASSUME Head(a).cop \notin SinRespuesta PROVE t = <<>> /\ d = <<>>
  <2>1. Len(a) = 1 /\ d = <<>>
    BY <1>1, <1>5 DEF Sirve
  <2> QED
    BY <1>1, <2>1
<1> QED
  BY <1>1, <1>4, <1>5 DEF t

LEMMA Responde ==
  ASSUME NEW pc, pc \in {"fetch", "mov_in"}, NEW pid, NEW r
  PROVE  Sirve(<<>>, <<r>>, pc, pid) /\ Append(<<>>, r) = <<r>> /\ Head(<<r>>) = r /\ <<r>> # <<>>
<1>1. EsSeq(<<>>) /\ EsSeq(<<r>>)
  BY EsSeqUna
<1>2. DOMAIN <<>> = {} /\ Len(<<r>>) = 1
  OBVIOUS
<1> QED
  BY <1>1, <1>2 DEF Sirve

\* The requests of an interface and the answers to it do not go by the CPU's connection.
LEMMA OtraConexion ==
  ASSUME DOMAIN aMemoria = Clientes, DOMAIN deMemoria = Clientes, NEW i \in Interfaces,
         Interfaz(i) \/ EscribirStdin(i) \/ LeerStdout(i)
  PROVE  /\ DOMAIN aMemoria' = Clientes /\ DOMAIN deMemoria' = Clientes
         /\ \A c \in Clientes \ {i} : aMemoria'[c] = aMemoria[c] /\ deMemoria'[c] = deMemoria[c]
         /\ "CPU" \in Clientes \ {i}
<1>1. "CPU" \in Clientes \ {i} /\ i \in Clientes
  BY ConstantesCiclo DEF Clientes, Interfaces
<1>2. \/ aMemoria' = aMemoria
      \/ \E x : aMemoria' = [aMemoria EXCEPT ![i] = x]
  BY DEF Interfaz, RecibirPedido, procesar_sleep, procesar_stdin, procesar_dialfs_read, PedirDato,
         RecibirDato, EnviarEntrada, EscribirStdin, LeerStdout, Atender, Mandar, canalesM
<1>3. \/ deMemoria' = deMemoria
      \/ \E x : deMemoria' = [deMemoria EXCEPT ![i] = x]
  BY DEF Interfaz, RecibirPedido, procesar_sleep, procesar_stdin, procesar_dialfs_read, PedirDato,
         RecibirDato, Trabaja, EscribirStdin, LeerStdout, Mandar, canalesM
<1>4. DOMAIN aMemoria' = Clientes /\ \A c \in Clientes \ {i} : aMemoria'[c] = aMemoria[c]
  BY <1>1, <1>2
<1>5. DOMAIN deMemoria' = Clientes /\ \A c \in Clientes \ {i} : deMemoria'[c] = deMemoria[c]
  BY <1>1, <1>3
<1> QED
  BY <1>1, <1>4, <1>5

\* A step of the CPU on its connection.
LEMMA ConexionDe ==
  ASSUME Conexion, UNCHANGED programa, NEW a, NEW d,
         \/ aMemoria' = [aMemoria EXCEPT !["CPU"] = a]
         \/ UNCHANGED aMemoria /\ a = aMemoria["CPU"],
         \/ deMemoria' = [deMemoria EXCEPT !["CPU"] = d]
         \/ UNCHANGED deMemoria /\ d = deMemoria["CPU"],
         Sirve(a, d, cpu'.pc, pcb_actual'.pid),
         cpu'.pc = "fetch" /\ d # <<>> =>
           \E n \in DOMAIN programa[pcb_actual'.pid] :
             deserializar_instruccion(Head(d).stream) = programa[pcb_actual'.pid][n]
  PROVE  Conexion'
<1>1. "CPU" \in Clientes /\ DOMAIN aMemoria = Clientes /\ DOMAIN deMemoria = Clientes
      /\ programa \in Programas
  BY DEF Clientes, Conexion
<1>2. aMemoria'["CPU"] = a /\ DOMAIN aMemoria' = Clientes
  BY <1>1
<1>3. deMemoria'["CPU"] = d /\ DOMAIN deMemoria' = Clientes
  BY <1>1
<1>4. Instruccion' = deserializar_instruccion(Head(d).stream)
  BY <1>3 DEF Instruccion
<1> QED
  BY <1>1, <1>2, <1>3, <1>4 DEF Conexion

LEMMA ConexionPaso ==
  ASSUME Prestado, Conexion, Next
  PROVE  Conexion'
<1> DEFINE a == aMemoria["CPU"]
           d == deMemoria["CPU"]
<1>1. /\ programa \in Programas
      /\ DOMAIN aMemoria = Clientes /\ DOMAIN deMemoria = Clientes /\ "CPU" \in Clientes
      /\ Sirve(a, d, cpu.pc, pcb_actual.pid)
      /\ cpu.pc = "fetch" /\ d # <<>> =>
           \E n \in DOMAIN programa[pcb_actual.pid] : Instruccion = programa[pcb_actual.pid][n]
  BY DEF Conexion, Clientes
<1>2. cpu.pc \notin {"fetch", "mov_in"} => Callada(a) /\ d = <<>>
  BY <1>1, NadieEspera
<1>3. d # <<>> => Callada(a) /\ Tail(d) = <<>> /\ EsSeq(d)
  BY <1>1, NadieEspera
<1>0. DOMAIN cpu = {"pc", "instr"} /\ DOMAIN pcb_actual = CamposPCB
  BY DEF Prestado
<1>4. a = aMemoria["CPU"] /\ d = deMemoria["CPU"]
  OBVIOUS
<1> HIDE DEF a, d
<1>5. ASSUME NEW c \in {"ciclo", "recv", "llamar", "devolver"}, Callada(a), d = <<>>,
             cpu'.pc = c, UNCHANGED <<programa, aMemoria, deMemoria>>
      PROVE  Conexion'
  <2>1. Sirve(a, d, cpu'.pc, pcb_actual'.pid)
    BY <1>5, CalladaSirve
  <2>2. cpu'.pc # "fetch"
    BY <1>5
  <2> QED
    BY <1>4, <1>5, <2>1, <2>2, ConexionDe
<1>6. CASE RecibirPCB
  <2>1. cpu.pc = "recv" /\ cpu' = [cpu EXCEPT !.pc = "ciclo"] /\ UNCHANGED <<programa, aMemoria, deMemoria>>
    BY <1>6 DEF RecibirPCB, canalesM
  <2>2. cpu'.pc = "ciclo"
    BY <1>0, <2>1
  <2> QED
    BY <1>2, <1>5, <2>1, <2>2
<1>7. CASE Fetch
  <2> DEFINE q == pedir_instruccion_memoria(pcb_actual.pid, pcb_actual.registros["PC"])
  <2>1. /\ cpu.pc = "ciclo" /\ cpu' = [cpu EXCEPT !.pc = "fetch"]
        /\ aMemoria' = [aMemoria EXCEPT !["CPU"] = Append(a, q)]
        /\ UNCHANGED <<programa, deMemoria, pcb_actual>>
    BY <1>7 DEF Fetch, Mandar, a
  <2>2. q.cop = "PEDIDO_INSTRUCCION" /\ q.stream[1] = pcb_actual.pid
    BY DEF pedir_instruccion_memoria, Paquete
  <2> HIDE DEF q
  <2>3. cpu'.pc = "fetch"
    BY <1>0, <2>1
  <2>4. Callada(a) /\ d = <<>>
    BY <1>2, <2>1
  <2>5. Sirve(Append(a, q), <<>>, cpu'.pc, pcb_actual'.pid)
    BY <2>1, <2>2, <2>3, <2>4, Encola
  <2> QED
    BY <1>4, <2>1, <2>4, <2>5, ConexionDe
<1>8. ASSUME NEW nombres, Ejecutar(nombres)
      PROVE  /\ Callada(a) /\ deMemoria' = [deMemoria EXCEPT !["CPU"] = <<>>]
             /\ UNCHANGED programa
  <2>1. d # <<>> /\ deMemoria' = [deMemoria EXCEPT !["CPU"] = Tail(d)] /\ UNCHANGED programa
    BY <1>8 DEF Ejecutar, d
  <2> QED
    BY <1>3, <2>1
<1>9. ASSUME NEW nombres, Ejecutar(nombres), NEW pc \in {"ciclo", "llamar", "devolver"}, NEW i,
             Seguir(pc, i), UNCHANGED aMemoria
      PROVE  Conexion'
  <2>1. /\ Callada(a) /\ deMemoria' = [deMemoria EXCEPT !["CPU"] = <<>>]
        /\ UNCHANGED programa
    BY <1>8, <1>9
  <2>2. cpu'.pc = pc
    BY <1>9 DEF Seguir
  <2>3. Sirve(a, <<>>, cpu'.pc, pcb_actual'.pid)
    BY <2>1, CalladaSirve
  <2>4. cpu'.pc # "fetch"
    BY <2>2
  <2> QED
    BY <1>4, <1>9, <2>1, <2>3, <2>4, ConexionDe
<1>10. ASSUME NEW nombre, NEW q, UsarMemoria(nombre, q), NEW pc \in {"ciclo", "mov_in"}, NEW i,
              Seguir(pc, i), q.cop \in SinRespuesta \/ (q.cop = "PEDIDO_MOV_IN" /\ pc = "mov_in")
       PROVE  Conexion'
  <2>1. Ejecutar({nombre}) /\ aMemoria' = [aMemoria EXCEPT !["CPU"] = Append(a, q)]
    BY <1>10 DEF UsarMemoria, Mandar, a
  <2>2. /\ Callada(a) /\ deMemoria' = [deMemoria EXCEPT !["CPU"] = <<>>]
        /\ UNCHANGED programa
    BY <1>8, <2>1
  <2>3. cpu'.pc = pc
    BY <1>10 DEF Seguir
  <2>4. Sirve(Append(a, q), <<>>, cpu'.pc, pcb_actual'.pid)
    BY <1>10, <2>2, <2>3, Encola
  <2>5. cpu'.pc # "fetch"
    BY <2>3
  <2> QED
    BY <2>1, <2>2, <2>4, <2>5, ConexionDe
<1>11. CASE EjecutarAritmetica \/ EjecutarIOCPU \/ EjecutarExit
  BY <1>9, <1>11 DEF EjecutarAritmetica, EjecutarIOCPU, EjecutarExit
<1>12. CASE EjecutarMovIn
  <2> DEFINE q == enviar_valor_mov_in_cpu(
       Traducir(Instruccion[3], obtener_tamanio_registro(Instruccion[2])), pcb_actual.pid)
  <2>1. UsarMemoria("MOV_IN", q) /\ Seguir("mov_in", Instruccion)
    BY <1>12 DEF EjecutarMovIn
  <2>2. q.cop = "PEDIDO_MOV_IN"
    BY DEF enviar_valor_mov_in_cpu
  <2> HIDE DEF q
  <2> QED
    BY <1>10, <2>1, <2>2
<1>13. CASE EjecutarMovOut
  <2> DEFINE w == obtener_tamanio_registro(Instruccion[3])
             q == enviar_valor_mov_out_cpu(Traducir(Instruccion[2], w), Bytes(Avanzados[Instruccion[3]], w),
                                           pcb_actual.pid, revisar_registro(Instruccion[3]))
  <2>1. UsarMemoria("MOV_OUT", q) /\ Seguir("ciclo", NULL)
    BY <1>13 DEF EjecutarMovOut
  <2>2. q.cop \in SinRespuesta
    BY DEF enviar_valor_mov_out_cpu, SinRespuesta
  <2> HIDE DEF q
  <2> QED
    BY <1>10, <2>1, <2>2
<1>14. CASE EjecutarCopyString
  <2> DEFINE q == enviar_datos_copy_string(
       [escritura |-> Traducir("DI", Instruccion[2]), lectura |-> Traducir("SI", Instruccion[2]),
        tamanio |-> Instruccion[2], pid |-> pcb_actual.pid])
  <2>1. UsarMemoria("COPY_STRING", q) /\ Seguir("ciclo", NULL)
    BY <1>14 DEF EjecutarCopyString
  <2>2. q.cop \in SinRespuesta
    BY DEF enviar_datos_copy_string, Paquete, SinRespuesta
  <2> HIDE DEF q
  <2> QED
    BY <1>10, <2>1, <2>2
<1>15. CASE Llamar
  <2>1. cpu.pc = "llamar" /\ Seguir("recv", NULL) /\ UNCHANGED <<programa, aMemoria, deMemoria>>
    BY <1>15 DEF Llamar, canalesM
  <2>2. cpu'.pc = "recv"
    BY <2>1 DEF Seguir
  <2> QED
    BY <1>2, <1>5, <2>1, <2>2
<1>16. CASE Devolver
  <2>1. cpu.pc \in {"ciclo", "devolver"} /\ Seguir("recv", NULL) /\ UNCHANGED <<programa, aMemoria, deMemoria>>
    BY <1>16 DEF Devolver, canalesM
  <2>2. cpu'.pc = "recv"
    BY <2>1 DEF Seguir
  <2> QED
    BY <1>2, <1>5, <2>1, <2>2
<1>17. CASE RecibirMovIn
  <2>1. /\ d # <<>> /\ deMemoria' = [deMemoria EXCEPT !["CPU"] = Tail(d)] /\ Seguir("ciclo", NULL)
        /\ UNCHANGED <<programa, aMemoria>>
    BY <1>17 DEF RecibirMovIn, d
  <2>2. cpu'.pc = "ciclo"
    BY <2>1 DEF Seguir
  <2>3. Callada(a) /\ Tail(d) = <<>>
    BY <1>3, <2>1
  <2>4. Sirve(a, <<>>, cpu'.pc, pcb_actual'.pid)
    BY <2>3, CalladaSirve
  <2> QED
    BY <1>4, <2>1, <2>2, <2>3, <2>4, ConexionDe
<1>18. ASSUME UNCHANGED <<programa, cpu>>, pcb_actual'.pid = pcb_actual.pid,
              DOMAIN aMemoria' = Clientes, DOMAIN deMemoria' = Clientes,
              aMemoria'["CPU"] = a, deMemoria'["CPU"] = d
       PROVE  Conexion'
  <2>1. Instruccion' = Instruccion
    BY <1>18 DEF Instruccion, d
  <2> QED
    BY <1>1, <1>18, <2>1 DEF Conexion
<1>19. CASE Interrumpir
  <2>1. UNCHANGED <<programa, cpu, aMemoria, deMemoria>> /\ pcb_actual'.pid = pcb_actual.pid
    BY <1>0, <1>19 DEF Interrumpir, canalesM, CamposPCB
  <2> QED
    BY <1>1, <1>18, <2>1 DEF a, d
<1>20. CASE Kernel \/ \E i \in Interfaces : Desbloquear(i)
  <2>1. UNCHANGED <<programa, cpu, aMemoria, deMemoria, pcb_actual>>
    BY <1>20, NoTocaKernel DEF procesador, canalesM
  <2> QED
    BY <1>1, <1>18, <2>1 DEF a, d
<1>21. CASE \E i \in Interfaces : Interfaz(i) \/ EscribirStdin(i) \/ LeerStdout(i)
  <2>1. UNCHANGED <<programa, cpu, pcb_actual>>
    BY <1>21, NoTocaInterfaz, NoTocaMemoria DEF procesador
  <2>2. /\ DOMAIN aMemoria' = Clientes /\ DOMAIN deMemoria' = Clientes
        /\ aMemoria'["CPU"] = a /\ deMemoria'["CPU"] = d
    BY <1>1, <1>21, OtraConexion DEF a, d
  <2> QED
    BY <1>18, <2>1, <2>2
<1>22. ASSUME NEW cop, Atender("CPU", cop)
       PROVE  /\ UNCHANGED <<programa, cpu, pcb_actual>> /\ a # <<>> /\ Head(a).cop = cop
              /\ aMemoria' = [aMemoria EXCEPT !["CPU"] = Tail(a)]
              /\ Sirve(Tail(a), d, cpu.pc, pcb_actual.pid)
              /\ a[1] = Head(a) /\ 1 \in DOMAIN a
              /\ cop \notin SinRespuesta => Tail(a) = <<>> /\ d = <<>>
  BY <1>1, <1>22, Desencola DEF Atender, Pedido, procesador, a
<1>23. CASE AtenderInstruccion
  <2> DEFINE m == deserializar_pedido_instruccion(Head(a).stream)
             r == enviar_instruccion(programa[m.pid][m.pc + 1])
  <2>1. /\ Atender("CPU", "PEDIDO_INSTRUCCION")
        /\ deMemoria' = IF m.pc + 1 \in DOMAIN programa[m.pid]
                        THEN [deMemoria EXCEPT !["CPU"] = Append(d, r)] ELSE deMemoria
    BY <1>23 DEF AtenderInstruccion, Mandar, Pedido, a, d
  <2>2. Tail(a) = <<>> /\ d = <<>> /\ Head(a).cop = "PEDIDO_INSTRUCCION"
    BY <1>22, <2>1 DEF SinRespuesta
  <2>3. cpu.pc = "fetch" /\ Head(a).stream[1] = pcb_actual.pid
    BY <1>1, <1>22, <2>1, <2>2 DEF Sirve
  <2>4. m.pid = pcb_actual.pid
    BY <2>3 DEF deserializar_pedido_instruccion, Deserializar, Range
  <2> HIDE DEF m
  <2>5. deserializar_instruccion(r.stream) = programa[m.pid][m.pc + 1]
    BY DEF deserializar_instruccion, enviar_instruccion, Paquete
  <2> HIDE DEF r
  <2>6. CASE m.pc + 1 \in DOMAIN programa[m.pid]
    <3>1. deMemoria' = [deMemoria EXCEPT !["CPU"] = <<r>>]
      BY <2>1, <2>2, <2>6
    <3>2. Sirve(<<>>, <<r>>, cpu.pc, pcb_actual.pid) /\ Head(<<r>>) = r
      BY <2>3, Responde
    <3>3. \E n \in DOMAIN programa[pcb_actual'.pid] :
            deserializar_instruccion(Head(<<r>>).stream) = programa[pcb_actual'.pid][n]
      BY <1>22, <2>1, <2>4, <2>5, <2>6, <3>2
    <3> QED
      BY <1>22, <2>1, <2>2, <3>1, <3>2, <3>3, ConexionDe
  <2>7. CASE m.pc + 1 \notin DOMAIN programa[m.pid]
    BY <1>4, <1>22, <2>1, <2>2, <2>7, ConexionDe
  <2> QED
    BY <2>6, <2>7
<1>24. CASE AtenderMovIn
  <2>1. PICK r : /\ Atender("CPU", "PEDIDO_MOV_IN")
                 /\ deMemoria' = [deMemoria EXCEPT !["CPU"] = Append(d, r)]
    BY <1>24 DEF AtenderMovIn, Mandar, d
  <2>2. Tail(a) = <<>> /\ d = <<>> /\ Head(a).cop = "PEDIDO_MOV_IN"
    BY <1>22, <2>1 DEF SinRespuesta
  <2>3. cpu.pc = "mov_in"
    BY <1>1, <1>22, <2>1, <2>2 DEF Sirve
  <2>4. Sirve(<<>>, <<r>>, cpu.pc, pcb_actual.pid) /\ Append(<<>>, r) = <<r>>
    BY <2>3, Responde
  <2> QED
    BY <1>22, <2>1, <2>2, <2>3, <2>4, ConexionDe
<1>25. CASE AtenderMovOut \/ CopyLeer
  <2>1. PICK cop : Atender("CPU", cop)
    BY <1>25 DEF AtenderMovOut, CopyLeer
  <2>2. UNCHANGED deMemoria
    BY <1>25 DEF AtenderMovOut, CopyLeer
  <2>3. /\ UNCHANGED <<programa, cpu, pcb_actual>>
        /\ aMemoria' = [aMemoria EXCEPT !["CPU"] = Tail(a)]
        /\ Sirve(Tail(a), d, cpu.pc, pcb_actual.pid)
    BY <1>22, <2>1
  <2>4. cpu.pc = "fetch" /\ d # <<>> =>
           \E n \in DOMAIN programa[pcb_actual.pid] :
              deserializar_instruccion(Head(d).stream) = programa[pcb_actual.pid][n]
    BY <1>1 DEF Instruccion, d
  <2> QED
    BY <1>4, <2>2, <2>3, <2>4, ConexionDe
<1>26. CASE CopyEscribir
  <2>1. UNCHANGED <<programa, cpu, aMemoria, deMemoria, pcb_actual>>
    BY <1>26 DEF CopyEscribir, procesador, canalesM
  <2> QED
    BY <1>1, <1>18, <2>1 DEF a, d
<1> QED
  BY <1>6, <1>7, <1>11, <1>12, <1>13, <1>14, <1>15, <1>16, <1>17, <1>19, <1>20, <1>21, <1>23, <1>24,
     <1>25, <1>26, Quienes DEF CPU, MemoriaCPU

-----------------------------------------------------------------------------
(* The requests of I/O                                                      *)

\* More processes wait, and those that waited ask for the same.
LEMMA OtrosEsperan ==
  ASSUME NEW i, NEW a, NEW z, NEW d, NEW B, NEW P, Camino(i, a, z, d, B, P),
         NEW B2, NEW P2, B \subseteq B2, \A p \in B : P2[p] = P[p]
  PROVE  Camino(i, a, z, d, B2, P2)
<1>1. \A cop, m : Fiel(i, cop, m, B, P) => Fiel(i, cop, m, B2, P2)
  BY DEF Fiel
<1> QED
  BY <1>1 DEF Camino, EnCamino

\* Some do not wait any more, and they are none of this interface's.
LEMMA OtroSigue ==
  ASSUME NEW i, NEW a, NEW z, NEW d, NEW B, NEW P, Camino(i, a, z, d, B, P),
         NEW p, P[p].nombre_interfaz # i
  PROVE  Camino(i, a, z, d, B \ {p}, P)
<1>1. \A cop, m : Fiel(i, cop, m, B, P) => Fiel(i, cop, m, B \ {p}, P)
  BY DEF Fiel
<1> QED
  BY <1>1 DEF Camino, EnCamino

LEMMA LlegaOtro ==
  ASSUME NEW i, NEW a, NEW z, NEW d, NEW B, NEW P, Camino(i, a, z, d, B, P),
         NEW e, e \notin B, Bueno(e, P[e]), P[e].nombre_interfaz = i, NEW k, Leido(k, e, P[e])
  PROVE  Camino(i, Append(a, k), z, d, B \cup {e}, P)
<1> DEFINE b == Append(a, k)
           C == B \cup {e}
<1>1. Camino(i, a, z, d, C, P)
  BY OtrosEsperan
<1>2. Fiel(i, k.cop, LeerPedido(k), C, P) /\ LeerPedido(k).pid = e
  BY DEF Leido, Fiel
<1>3. /\ EsSeq(b) /\ DOMAIN b = 1 .. Len(a) + 1
      /\ Len(a) \in Nat /\ DOMAIN a = 1 .. Len(a)
      /\ b[Len(a) + 1] = k /\ \A n \in DOMAIN a : b[n] = a[n]
  BY <1>1, AlFinal DEF Camino, EnCamino
<1> HIDE DEF b, C
<1>4. \A n \in DOMAIN b : (n = Len(a) + 1 /\ b[n] = k) \/ (n \in DOMAIN a /\ b[n] = a[n])
  BY <1>3
<1>5. EnCamino(i, b, z, d, C, P)
  <2>1. \A n \in DOMAIN b : Fiel(i, b[n].cop, LeerPedido(b[n]), C, P)
    BY <1>1, <1>2, <1>4 DEF Camino, EnCamino
  <2> QED
    BY <1>1, <1>3, <2>1 DEF Camino, EnCamino
<1>6. /\ \A n \in DOMAIN a : LeerPedido(a[n]).pid # e
      /\ \A n \in DOMAIN d : PidDe(d[n]) # e
      /\ z.pc # "recv" => z.m.pid # e
  BY DEF Camino, EnCamino, Fiel
<1>7. SinRepetir(a, z, d)
  BY DEF Camino
<1>8. \A n \in DOMAIN b : /\ n = Len(a) + 1 => LeerPedido(b[n]).pid = e
                          /\ n # Len(a) + 1 => n \in DOMAIN a /\ LeerPedido(b[n]).pid = LeerPedido(a[n]).pid
  BY <1>2, <1>4
<1>9. SinRepetir(b, z, d)
  <2>1. \A n, l \in DOMAIN b : LeerPedido(b[n]).pid = LeerPedido(b[l]).pid => n = l
    BY <1>6, <1>7, <1>8 DEF SinRepetir
  <2>2. \A n \in DOMAIN b, l \in DOMAIN d : LeerPedido(b[n]).pid # PidDe(d[l])
    BY <1>6, <1>7, <1>8 DEF SinRepetir
  <2>3. z.pc # "recv" => \A n \in DOMAIN b : LeerPedido(b[n]).pid # z.m.pid
    BY <1>6, <1>7, <1>8 DEF SinRepetir
  <2> QED
    BY <1>7, <2>1, <2>2, <2>3 DEF SinRepetir
<1> QED
  BY <1>5, <1>9 DEF Camino, b, C

LEMMA EmpiezaOtro ==
  ASSUME NEW i, NEW a, NEW z, NEW d, NEW B, NEW P, Camino(i, a, z, d, B, P),
         a # <<>>, z.pc = "recv"
  PROVE  Camino(i, Tail(a), [pc |-> "trabajar", cop |-> Head(a).cop, m |-> LeerPedido(Head(a))], d, B, P)
<1> DEFINE t == Tail(a)
           y == [pc |-> "trabajar", cop |-> Head(a).cop, m |-> LeerPedido(Head(a))]
<1>1. /\ EsSeq(t) /\ Head(a) = a[1] /\ 1 \in DOMAIN a
      /\ DOMAIN t = 1 .. Len(a) - 1 /\ Len(a) \in Nat
      /\ \A k \in DOMAIN t : k + 1 \in DOMAIN a /\ t[k] = a[k + 1]
  BY SinLaCabeza DEF Camino, EnCamino
<1>2. DOMAIN y = {"pc", "cop", "m"} /\ y.cop = a[1].cop /\ y.m = LeerPedido(a[1])
  BY <1>1
<1> HIDE DEF t, y
<1>3. EnCamino(i, a, z, d, B, P) /\ SinRepetir(a, z, d)
  BY DEF Camino
<1>4. \A k \in DOMAIN t : k + 1 # 1 /\ k \in Nat
  BY <1>1
<1>5. EnCamino(i, t, y, d, B, P)
  BY <1>1, <1>2, <1>3 DEF EnCamino
<1>6. \A k, l \in DOMAIN t : LeerPedido(t[k]).pid = LeerPedido(t[l]).pid => k = l
  <2> TAKE k, l \in DOMAIN t
  <2>1. LeerPedido(t[k]).pid = LeerPedido(t[l]).pid => k + 1 = l + 1
    BY <1>1, <1>3 DEF SinRepetir
  <2> QED
    BY <1>4, <2>1
<1>7. \A k \in DOMAIN t : LeerPedido(t[k]).pid # y.m.pid
  <2> TAKE k \in DOMAIN t
  <2>1. LeerPedido(t[k]).pid = y.m.pid => k + 1 = 1
    BY <1>1, <1>2, <1>3 DEF SinRepetir
  <2> QED
    BY <1>4, <2>1
<1>8. \A k \in DOMAIN t, l \in DOMAIN d : LeerPedido(t[k]).pid # PidDe(d[l])
  BY <1>1, <1>3 DEF SinRepetir
<1>9. \A l \in DOMAIN d : PidDe(d[l]) # y.m.pid /\ \A k \in DOMAIN d : PidDe(d[k]) = PidDe(d[l]) => k = l
  BY <1>1, <1>2, <1>3 DEF SinRepetir
<1>10. SinRepetir(t, y, d)
  BY <1>6, <1>7, <1>8, <1>9 DEF SinRepetir
<1> QED
  BY <1>5, <1>10 DEF Camino, t, y

LEMMA EsperaDato ==
  ASSUME NEW i, NEW a, NEW z, NEW d, NEW B, NEW P, Camino(i, a, z, d, B, P), z.pc # "recv",
         NEW y, DOMAIN y = {"pc", "cop", "m"}, y.cop = z.cop, y.m = z.m
  PROVE  Camino(i, a, y, d, B, P)
  BY DEF Camino, EnCamino, SinRepetir

\* The process of the request is that of the answer.
LEMMA Contesta ==
  ASSUME NEW i, NEW a, NEW z, NEW d, NEW B, NEW P, Camino(i, a, z, d, B, P), z.pc # "recv"
  PROVE  Camino(i, a, Ociosa, Append(d, Fin(z.cop, z.m)), B, P)
<1> DEFINE r == Fin(z.cop, z.m)
           b == Append(d, r)
<1>1. EnCamino(i, a, z, d, B, P) /\ SinRepetir(a, z, d)
  BY DEF Camino
<1>2. Fiel(i, z.cop, z.m, B, P)
  BY <1>1 DEF EnCamino
<1>3. PidDe(r) = z.m.pid
  BY <1>2, NombraAlProceso DEF Fiel, Bueno
<1>4. /\ EsSeq(b) /\ DOMAIN b = 1 .. Len(d) + 1
      /\ Len(d) \in Nat /\ DOMAIN d = 1 .. Len(d)
      /\ b[Len(d) + 1] = r /\ \A n \in DOMAIN d : b[n] = d[n]
  BY <1>1, AlFinal DEF EnCamino
<1> HIDE DEF b, r
<1>5. \A n \in DOMAIN b : /\ n = Len(d) + 1 => PidDe(b[n]) = z.m.pid
                          /\ n # Len(d) + 1 => n \in DOMAIN d /\ PidDe(b[n]) = PidDe(d[n])
  BY <1>3, <1>4
<1>6. Ociosa.pc = "recv" /\ DOMAIN Ociosa = {"pc", "cop", "m"}
  BY DEF Ociosa
<1>7. \A n \in DOMAIN b : PidDe(b[n]) \in B /\ P[PidDe(b[n])].nombre_interfaz = i
  BY <1>1, <1>2, <1>5 DEF EnCamino, Fiel
<1>8. EnCamino(i, a, Ociosa, b, B, P)
  BY <1>1, <1>4, <1>6, <1>7 DEF EnCamino
<1>9. \A n, l \in DOMAIN b : PidDe(b[n]) = PidDe(b[l]) => n = l
  BY <1>1, <1>5 DEF SinRepetir
<1>10. \A n \in DOMAIN a, l \in DOMAIN b : LeerPedido(a[n]).pid # PidDe(b[l])
  BY <1>1, <1>5 DEF SinRepetir
<1>11. SinRepetir(a, Ociosa, b)
  BY <1>1, <1>6, <1>9, <1>10 DEF SinRepetir
<1> QED
  BY <1>8, <1>11 DEF Camino, b, r

LEMMA SeVa ==
  ASSUME NEW i, NEW a, NEW z, NEW d, NEW B, NEW P, Camino(i, a, z, d, B, P), d # <<>>
  PROVE  /\ Camino(i, a, z, Tail(d), B \ {PidDe(Head(d))}, P)
         /\ P[PidDe(Head(d))].nombre_interfaz = i
<1> DEFINE t == Tail(d)
           p == PidDe(Head(d))
<1>1. EnCamino(i, a, z, d, B, P) /\ SinRepetir(a, z, d)
  BY DEF Camino
<1>2. /\ EsSeq(t) /\ Head(d) = d[1] /\ 1 \in DOMAIN d
      /\ DOMAIN t = 1 .. Len(d) - 1 /\ Len(d) \in Nat
      /\ \A k \in DOMAIN t : k + 1 \in DOMAIN d /\ t[k] = d[k + 1]
  BY <1>1, SinLaCabeza DEF EnCamino
<1> HIDE DEF t, p
<1>3. p = PidDe(d[1])
  BY <1>2 DEF p
<1>4. \A k \in DOMAIN t : k + 1 # 1 /\ k \in Nat
  BY <1>2
<1>5. \A k \in DOMAIN t : PidDe(t[k]) # p
  <2> TAKE k \in DOMAIN t
  <2>1. PidDe(t[k]) = p => k + 1 = 1
    BY <1>1, <1>2, <1>3 DEF SinRepetir
  <2> QED
    BY <1>4, <2>1
<1>6. /\ \A k \in DOMAIN a : LeerPedido(a[k]).pid # p
      /\ z.pc # "recv" => z.m.pid # p
  BY <1>1, <1>2, <1>3 DEF SinRepetir
<1>7. \A cop, m : Fiel(i, cop, m, B, P) /\ m.pid # p => Fiel(i, cop, m, B \ {p}, P)
  BY DEF Fiel
<1>8. EnCamino(i, a, z, t, B \ {p}, P)
  <2>1. \A k \in DOMAIN a : Fiel(i, a[k].cop, LeerPedido(a[k]), B \ {p}, P)
    BY <1>1, <1>6, <1>7 DEF EnCamino
  <2>2. z.pc # "recv" => Fiel(i, z.cop, z.m, B \ {p}, P)
    BY <1>1, <1>6, <1>7 DEF EnCamino
  <2>3. \A k \in DOMAIN t : PidDe(t[k]) \in B \ {p} /\ P[PidDe(t[k])].nombre_interfaz = i
    BY <1>1, <1>2, <1>5 DEF EnCamino
  <2> QED
    BY <1>1, <1>2, <2>1, <2>2, <2>3 DEF EnCamino
<1>9. SinRepetir(a, z, t)
  <2>1. \A k, l \in DOMAIN t : PidDe(t[k]) = PidDe(t[l]) => k = l
    <3> TAKE k, l \in DOMAIN t
    <3>1. PidDe(t[k]) = PidDe(t[l]) => k + 1 = l + 1
      BY <1>1, <1>2 DEF SinRepetir
    <3> QED
      BY <1>4, <3>1
  <2>2. \A n \in DOMAIN a, l \in DOMAIN t : LeerPedido(a[n]).pid # PidDe(t[l])
    BY <1>1, <1>2 DEF SinRepetir
  <2>3. z.pc # "recv" => \A l \in DOMAIN t : PidDe(t[l]) # z.m.pid
    BY <1>1, <1>2 DEF SinRepetir
  <2> QED
    BY <1>1, <2>1, <2>2, <2>3 DEF SinRepetir
<1>10. P[p].nombre_interfaz = i
  BY <1>1, <1>2, <1>3 DEF EnCamino
<1> QED
  BY <1>8, <1>9, <1>10 DEF Camino, t, p

LEMMA PedidosPaso ==
  ASSUME Turnos, Prestado, Pedidos, PidenLoQueHay, Next
  PROVE  Pedidos'
<1>1. /\ DOMAIN aInterfaz = Interfaces /\ DOMAIN deInterfaz = Interfaces /\ DOMAIN interfaz = Interfaces
      /\ \A i \in Interfaces : Camino(i, aInterfaz[i], interfaz[i], deInterfaz[i], bloqueados, pedido)
  BY DEF Pedidos
<1>2. bloqueados \subseteq Pids /\ ejecutando \notin bloqueados /\ DOMAIN pedido = Pids
  BY DEF Turnos
<1>3. ASSUME UNCHANGED <<aInterfaz, deInterfaz, interfaz, bloqueados>>,
             \A p \in bloqueados : pedido'[p] = pedido[p]
      PROVE  Pedidos'
  <2>1. \A i \in Interfaces : Camino(i, aInterfaz[i], interfaz[i], deInterfaz[i], bloqueados, pedido')
    BY <1>1, <1>3, OtrosEsperan
  <2> QED
    BY <1>1, <1>3, <2>1 DEF Pedidos
<1>4. CASE CPU
  <2>1. UNCHANGED <<aInterfaz, deInterfaz, interfaz, bloqueados>>
    BY <1>4, NoTocaCPU DEF kernel, canalesI, io
  <2>2. \A p \in bloqueados : pedido'[p] = pedido[p]
    <3>1. CASE cpu.pc = "fetch"
      <4>1. pcb_actual.pid = ejecutando
        BY <3>1 DEF Prestado
      <4> QED
        BY <1>2, <1>4, <4>1, CambiaPedido
    <3>2. CASE cpu.pc # "fetch"
      BY <1>2, <1>4, <3>2, CambiaPedido
    <3> QED
      BY <3>1, <3>2
  <2> QED
    BY <1>3, <2>1, <2>2
<1>5. CASE MemoriaCPU \/ \E i \in Interfaces : EscribirStdin(i) \/ LeerStdout(i)
  BY <1>3, <1>5, NoTocaMemoria DEF kernel, canalesI, io
<1>6. CASE Interrumpir
  BY <1>3, <1>6 DEF Interrumpir, kernel, canalesI, io
<1>7. CASE Despachar \/ FinDeQuantum \/ Finalizar \/ RechazarIO
  BY <1>3, <1>7 DEF Despachar, FinDeQuantum, Finalizar, RechazarIO, Volver, canalesI, io, historia
<1>8. CASE EjecutarIO
  <2> DEFINE i == Vuelto.g.nombre_interfaz
             q == pedido[ejecutando]
             k == Enviar(TipoDe[i], Junto(Vuelto.g, [pid |-> ejecutando]))
  <2>1. /\ Volver("INTERRUPCION_BLOQUEO")
        /\ i \in Interfaces /\ Vuelto.g.instruccion \in Sabe(TipoDe[i])
        /\ aInterfaz' = [aInterfaz EXCEPT ![i] = Append(aInterfaz[i], k)]
        /\ bloqueados' = bloqueados \cup {ejecutando}
        /\ UNCHANGED <<deInterfaz, interfaz, pedido>>
    BY <1>8 DEF EjecutarIO, Volver, io, Mandar
  <2>2. /\ DOMAIN Vuelto.g = CamposG /\ Bueno(ejecutando, q)
        /\ \A c \in DOMAIN q : Vuelto.g[c] = q[c]
        /\ Vuelto.g.instruccion = q.instruccion /\ i = q.nombre_interfaz
    BY <2>1, VolverEnSuLugar
  <2>3. Atendible(q)
    BY <2>1, <2>2 DEF Atendible
  <2>4. Leido(k, ejecutando, q)
    BY <2>2, <2>3, LeeDelKernel
  <2> HIDE DEF k
  <2>5. Camino(i, Append(aInterfaz[i], k), interfaz[i], deInterfaz[i], bloqueados \cup {ejecutando}, pedido)
    BY <1>1, <1>2, <2>1, <2>2, <2>4, LlegaOtro
  <2> HIDE DEF i, q
  <2>6. ASSUME NEW j \in Interfaces
        PROVE  Camino(j, aInterfaz'[j], interfaz[j], deInterfaz[j], bloqueados \cup {ejecutando}, pedido)
    <3>1. CASE j = i
      BY <1>1, <2>1, <2>5, <3>1
    <3>2. CASE j # i
      <4>1. aInterfaz'[j] = aInterfaz[j]
        BY <1>1, <2>1, <2>6, <3>2
      <4> QED
        BY <1>1, <2>6, <4>1, OtrosEsperan
    <3> QED
      BY <3>1, <3>2
  <2>7. DOMAIN aInterfaz' = Interfaces
    BY <1>1, <2>1
  <2> QED
    BY <1>1, <2>1, <2>6, <2>7 DEF Pedidos
<1>9. ASSUME NEW i \in Interfaces, Desbloquear(i) PROVE Pedidos'
  <2> DEFINE p == PidDe(Head(deInterfaz[i]))
  <2>1. /\ deInterfaz[i] # <<>> /\ deInterfaz' = [deInterfaz EXCEPT ![i] = Tail(deInterfaz[i])]
        /\ bloqueados' = bloqueados \ {p}
        /\ UNCHANGED <<aInterfaz, interfaz, pedido>>
    BY <1>9 DEF Desbloquear, io, historia
  <2>2. /\ Camino(i, aInterfaz[i], interfaz[i], Tail(deInterfaz[i]), bloqueados \ {p}, pedido)
        /\ pedido[p].nombre_interfaz = i
    BY <1>1, <2>1, SeVa
  <2> HIDE DEF p
  <2>3. ASSUME NEW j \in Interfaces
        PROVE  Camino(j, aInterfaz[j], interfaz[j], deInterfaz'[j], bloqueados \ {p}, pedido)
    <3>1. CASE j = i
      BY <1>1, <2>1, <2>2, <3>1
    <3>2. CASE j # i
      <4>1. deInterfaz'[j] = deInterfaz[j]
        BY <1>1, <2>1, <2>3, <3>2
      <4> QED
        BY <1>1, <2>2, <2>3, <3>2, <4>1, OtroSigue
    <3> QED
      BY <3>1, <3>2
  <2>4. DOMAIN deInterfaz' = Interfaces
    BY <1>1, <2>1
  <2> QED
    BY <1>1, <2>1, <2>3, <2>4 DEF Pedidos
<1>10. ASSUME NEW i \in Interfaces, Interfaz(i) PROVE Pedidos'
  <2> DEFINE a == aInterfaz[i]
             z == interfaz[i]
             d == deInterfaz[i]
             B == bloqueados
             P == pedido
  <2>1. UNCHANGED <<bloqueados, pedido>>
    BY <1>10, NoTocaInterfaz DEF kernel, historia
  <2>2. Camino(i, a, z, d, B, P) /\ DOMAIN z = {"pc", "cop", "m"}
    BY <1>1, <1>10 DEF Camino, EnCamino
  <2>3. ASSUME NEW x, NEW y, NEW w, Camino(i, x, y, w, B, P),
               (aInterfaz' = [aInterfaz EXCEPT ![i] = x]) \/ (UNCHANGED aInterfaz /\ x = a),
               interfaz' = [interfaz EXCEPT ![i] = y],
               (deInterfaz' = [deInterfaz EXCEPT ![i] = w]) \/ (UNCHANGED deInterfaz /\ w = d)
        PROVE  Pedidos'
    <3>1. DOMAIN aInterfaz' = Interfaces /\ aInterfaz'[i] = x
          /\ \A j \in Interfaces : j # i => aInterfaz'[j] = aInterfaz[j]
      BY <1>1, <1>10, <2>3
    <3>2. DOMAIN deInterfaz' = Interfaces /\ deInterfaz'[i] = w
          /\ \A j \in Interfaces : j # i => deInterfaz'[j] = deInterfaz[j]
      BY <1>1, <1>10, <2>3
    <3>3. DOMAIN interfaz' = Interfaces /\ interfaz'[i] = y
          /\ \A j \in Interfaces : j # i => interfaz'[j] = interfaz[j]
      BY <1>1, <1>10, <2>3
    <3>4. ASSUME NEW j \in Interfaces PROVE Camino(j, aInterfaz'[j], interfaz'[j], deInterfaz'[j], B, P)
      <4>1. CASE j = i
        BY <2>3, <3>1, <3>2, <3>3, <4>1
      <4>2. CASE j # i
        BY <1>1, <3>1, <3>2, <3>3, <3>4, <4>2
      <4> QED
        BY <4>1, <4>2
    <3> QED
      BY <2>1, <3>1, <3>2, <3>3, <3>4 DEF Pedidos
  <2> HIDE DEF a, z, d, B, P
  <2>4. ASSUME z.pc # "recv", UNCHANGED aInterfaz, interfaz' = [interfaz EXCEPT ![i] = Ociosa],
               deInterfaz' = [deInterfaz EXCEPT ![i] = Append(d, Fin(z.cop, z.m))]
        PROVE  Pedidos'
    <3>1. Camino(i, a, Ociosa, Append(d, Fin(z.cop, z.m)), B, P)
      BY <2>2, <2>4, Contesta
    <3> QED
      BY <2>3, <2>4, <3>1
  <2>5. CASE RecibirPedido(i)
    <3>1. /\ z.pc = "recv" /\ a # <<>> /\ UNCHANGED deInterfaz
          /\ aInterfaz' = [aInterfaz EXCEPT ![i] = Tail(a)]
          /\ interfaz' = [interfaz EXCEPT ![i] =
               [pc |-> "trabajar", cop |-> Head(a).cop, m |-> LeerPedido(Head(a))]]
      BY <2>5 DEF RecibirPedido, a, z
    <3>2. Camino(i, Tail(a), [pc |-> "trabajar", cop |-> Head(a).cop, m |-> LeerPedido(Head(a))], d, B, P)
      BY <2>2, <3>1, EmpiezaOtro
    <3> QED
      BY <2>3, <3>1, <3>2
  <2>6. CASE procesar_sleep(i) \/ procesar_stdin(i) \/ procesar_dialfs_read(i) \/ RecibirDato(i)
    <3>1. /\ z.pc # "recv" /\ UNCHANGED aInterfaz /\ Responder(i)
      BY <2>6 DEF procesar_sleep, procesar_stdin, procesar_dialfs_read, RecibirDato, Trabaja,
                  EnviarEntrada, z
    <3> QED
      BY <2>4, <3>1 DEF Responder, Mandar, d, z
  <2>7. CASE PedirDato(i)
    <3> DEFINE y == [z EXCEPT !.pc = "esperar"]
    <3>1. z.pc # "recv" /\ UNCHANGED <<aInterfaz, deInterfaz>> /\ interfaz' = [interfaz EXCEPT ![i] = y]
      BY <2>7 DEF PedirDato, Trabaja, z
    <3>2. DOMAIN y = {"pc", "cop", "m"} /\ y.cop = z.cop /\ y.m = z.m
      BY <2>2
    <3> HIDE DEF y
    <3>3. Camino(i, a, y, d, B, P)
      BY <2>2, <3>1, <3>2, EsperaDato
    <3> QED
      BY <2>3, <3>1, <3>3
  <2> QED
    BY <1>10, <2>5, <2>6, <2>7 DEF Interfaz
<1> QED
  BY <1>4, <1>5, <1>6, <1>7, <1>8, <1>9, <1>10, Quienes DEF Kernel

\* The list of a set has each of its elements once.
LEMMA ListaDeConjunto ==
  ASSUME NEW S, IsFiniteSet(S)
  PROVE  /\ SetToSeq(S) \in Seq(S)
         /\ \A k, l \in DOMAIN SetToSeq(S) : SetToSeq(S)[k] = SetToSeq(S)[l] => k = l
<1>1. Cardinality(S) \in Nat /\ ExistsBijection(1 .. Cardinality(S), S)
  BY FS_CardinalityType
<1>2. \E f \in [1 .. Cardinality(S) -> S] : IsInjective(f)
  BY <1>1 DEF ExistsBijection, Bijection, Injection
<1>3. SetToSeq(S) \in [1 .. Cardinality(S) -> S] /\ IsInjective(SetToSeq(S))
  BY <1>2 DEF SetToSeq
<1> QED
  BY <1>1, <1>3, ListaDeFuncion DEF IsInjective

LEMMA InvInicial ==
  ASSUME Init
  PROVE  InvCiclo
<1>1. /\ programa \in Programas
      /\ listo = SetToSeq(Pids) /\ ejecutando = NULL
      /\ pcb = [p \in Pids |-> PCBNuevo(p)]
      /\ bloqueados = {}
      /\ g = GlobalesNulas
      /\ dispatch = <<>> /\ respuesta = <<>>
      /\ cpu = [pc |-> "recv", instr |-> NULL]
      /\ pcb_actual = PCBNuevo(NULL)
      /\ interrupcion = FALSE
      /\ aMemoria = [c \in Clientes |-> <<>>] /\ deMemoria = [c \in Clientes |-> <<>>]
      /\ aInterfaz = [i \in Interfaces |-> <<>>] /\ deInterfaz = [i \in Interfaces |-> <<>>]
      /\ interfaz = [i \in Interfaces |-> Ociosa]
      /\ pedido = [p \in Pids |-> NULL]
  BY DEF Init
<1>0. EsSeq(<<>>) /\ DOMAIN <<>> = {}
  <2>1. EsSeq(<<>>)
    BY EsSeqUna
  <2>2. DOMAIN <<>> = {}
    OBVIOUS
  <2> QED
    BY <2>1, <2>2
<1>2. Turnos
  <2>1. listo \in Seq(Pids) /\ \A k, l \in DOMAIN listo : listo[k] = listo[l] => k = l
    BY <1>1, ListaDeConjunto, ConstantesCiclo
  <2>2. \A k \in DOMAIN listo : listo[k] \in Pids
    BY <2>1
  <2>3. \A k \in DOMAIN listo : listo[k] \notin bloqueados /\ listo[k] # ejecutando
    BY <1>1, <2>2, ConstantesCiclo
  <2>4. DOMAIN pcb = Pids /\ \A p \in Pids : DOMAIN pcb[p] = CamposPCB /\ pcb[p].pid = p
    BY <1>1 DEF PCBNuevo, CamposPCB
  <2>5. DOMAIN g = CamposG /\ g.direcciones = <<>>
    BY <1>1 DEF GlobalesNulas, CamposG
  <2>6. /\ ejecutando \in Pids \cup {NULL} /\ ejecutando \notin bloqueados /\ bloqueados \subseteq Pids
        /\ DOMAIN pedido = Pids
    BY <1>1
  <2> QED
    BY <2>1, <2>3, <2>4, <2>5, <2>6 DEF Turnos
<1>3. Prestado
  <2>1. DOMAIN pcb_actual = CamposPCB
    BY <1>1 DEF PCBNuevo, CamposPCB
  <2>2. cpu.pc = "recv" /\ DOMAIN cpu = {"pc", "instr"}
    BY <1>1
  <2> QED
    BY <1>1, <2>1, <2>2 DEF Prestado
<1>4. Conexion
  <2>1. Callada(<<>>)
    BY <1>0 DEF Callada
  <2>2. aMemoria["CPU"] = <<>> /\ deMemoria["CPU"] = <<>>
    BY <1>1 DEF Clientes
  <2>3. Sirve(<<>>, <<>>, cpu.pc, pcb_actual.pid)
    BY <2>1, CalladaSirve
  <2> QED
    BY <1>1, <2>2, <2>3 DEF Conexion
<1>5. Pedidos
  <2>1. Ociosa.pc = "recv" /\ DOMAIN Ociosa = {"pc", "cop", "m"}
    BY DEF Ociosa
  <2>2. \A i \in Interfaces : Camino(i, <<>>, Ociosa, <<>>, bloqueados, pedido)
    BY <1>0, <2>1 DEF Camino, EnCamino, SinRepetir
  <2> QED
    BY <1>1, <2>2 DEF Pedidos
<1> QED
  BY <1>2, <1>3, <1>4, <1>5 DEF InvCiclo

LEMMA InvQuieto ==
  ASSUME InvCiclo, UNCHANGED vars
  PROVE  InvCiclo'
<1>1. UNCHANGED <<programa, listo, ejecutando, pcb, bloqueados, g, dispatch, respuesta, cpu, pcb_actual,
                  interrupcion, aMemoria, deMemoria, aInterfaz, deInterfaz, interfaz, pedido>>
  BY DEF vars, kernel, procesador, canalesM, canalesI, io, historia
<1>2. Turnos'
  BY <1>1 DEF InvCiclo, Turnos
<1>3. Prestado'
  BY <1>1, MismoPedido DEF InvCiclo, Prestado
<1>4. Conexion'
  BY <1>1 DEF InvCiclo, Conexion, Instruccion
<1>5. Pedidos'
  BY <1>1 DEF InvCiclo, Pedidos
<1> QED
  BY <1>2, <1>3, <1>4, <1>5 DEF InvCiclo

LEMMA InvPaso ==
  ASSUME ~InterrumpeLlamadas, PidenLoQueHay, InvCiclo, EnSuEspacio, [Next]_vars
  PROVE  InvCiclo'
<1>1. ASSUME Next PROVE InvCiclo'
  <2>1. Turnos /\ Prestado /\ Conexion /\ Pedidos
    BY DEF InvCiclo
  <2> QED
    BY <1>1, <2>1, TurnosPaso, PrestadoPaso, ConexionPaso, PedidosPaso DEF InvCiclo
<1> QED
  BY <1>1, InvQuieto

\* For any programs that ask interfaces for what they can do and stay in their memory, and
\* with no end of quantum between a syscall's reason and its request, an interface works on
\* what its process asked for: the request goes through the CPU's packet, the kernel's
\* globals and the kernel's packet, and nothing of another process's is left in them.
THEOREM PedidosLlegan ==
  ASSUME ~InterrumpeLlamadas, PidenLoQueHay
  PROVE  Spec /\ []EnSuEspacio => []LlegaLoPedido
<1>1. Init => InvCiclo
  BY InvInicial
<1>2. InvCiclo /\ EnSuEspacio /\ [Next]_vars => InvCiclo'
  BY InvPaso
<1>3. InvCiclo => LlegaLoPedido
  <2> SUFFICES ASSUME InvCiclo, NEW i \in Interfaces, interfaz[i].pc # "recv"
               PROVE  LET m == interfaz[i].m
                          p == pedido[m.pid]
                      IN  /\ interfaz[i].cop = CodigoDe(p.instruccion)
                          /\ \A c \in DOMAIN m \ {"pid"} : m[c] = p[c]
    BY DEF LlegaLoPedido
  <2>1. Fiel(i, interfaz[i].cop, interfaz[i].m, bloqueados, pedido)
    BY DEF InvCiclo, Pedidos, Camino, EnCamino
  <2> QED
    BY <2>1 DEF Fiel
<1> QED
  BY <1>1, <1>2, <1>3, PTL DEF Spec

-----------------------------------------------------------------------------
(* Bytes                                                                    *)

LEMMA Induccion ==
  ASSUME NEW L \in Nat, NEW A, 0 \in A, \A n \in 0 .. L - 1 : n \in A => n + 1 \in A
  PROVE  \A n \in 0 .. L : n \in A
<1> DEFINE Falta == {n \in 0 .. L : n \notin A}
<1> SUFFICES ASSUME Falta # {} PROVE FALSE
  OBVIOUS
<1> DEFINE n == Min(Falta)
<1>1. n \in Falta /\ \A m \in Falta : n <= m
  <2>1. Falta \in SUBSET Nat
    OBVIOUS
  <2> HIDE DEF Falta
  <2> QED
    BY <2>1, MinDeNaturales
<1>2. n - 1 \in 0 .. L - 1 /\ n - 1 \notin Falta
  <2> HIDE DEF n
  <2>1. n \in 0 .. L /\ n # 0 /\ \A m \in Falta : n <= m
    BY <1>1
  <2> QED
    BY <2>1
<1>3. n \in Nat /\ n \notin A
  BY <1>1
<1>4. n - 1 \in A
  <2>1. n - 1 \in 0 .. L
    BY <1>2
  <2> HIDE DEF n
  <2> QED
    BY <1>2, <2>1
<1> HIDE DEF n
<1>5. n - 1 + 1 = n
  BY <1>3
<1> QED
  BY <1>2, <1>3, <1>4, <1>5

\* The bytes of fragment i of a list.
Tramo(lista, i) == [k \in 1 .. lista[i].tamanio |-> lista[i].direccion_fisica + k - 1]
Suma(lista, h, n) == h = [i \in 0 .. n |-> IF i = 0 THEN <<>> ELSE h[i - 1] \o Tramo(lista, i)]

LEMMA SumaUnoMas ==
  ASSUME NEW lista, NEW n \in Nat, NEW h, Suma(lista, h, n)
  PROVE  \E k : Suma(lista, k, n + 1)
<1> DEFINE G(x, i) == x \o Tramo(lista, i)
<1>1. h = [i \in 0 .. n |-> IF i = 0 THEN <<>> ELSE G(h[i - 1], i)]
  BY DEF Suma
<1> SUFFICES \E k : k = [i \in 0 .. n + 1 |-> IF i = 0 THEN <<>> ELSE G(k[i - 1], i)]
  BY DEF Suma
<1> HIDE DEF G
<1> DEFINE k == [i \in 0 .. n + 1 |-> IF i = 0 THEN <<>> ELSE G(h[i - 1], i)]
<1>2. \A i \in 0 .. n : k[i] = h[i]
  <2>1. \A i \in 0 .. n : h[i] = IF i = 0 THEN <<>> ELSE G(h[i - 1], i)
    BY <1>1
  <2>2. \A i \in 0 .. n : k[i] = IF i = 0 THEN <<>> ELSE G(h[i - 1], i)
    OBVIOUS
  <2> HIDE DEF k
  <2> QED
    BY <2>1, <2>2
<1>3. \A i \in 0 .. n + 1 : i # 0 => k[i - 1] = h[i - 1]
  <2> HIDE DEF k
  <2> QED
    BY <1>2
<1>4. k = [i \in 0 .. n + 1 |-> IF i = 0 THEN <<>> ELSE G(k[i - 1], i)]
  BY <1>3
<1> QED
  BY <1>4

\* The bytes of a list are those of its fragments.
LEMMA SonDe ==
  ASSUME NEW S, NEW lista \in Seq(Tramos),
         \A k \in DOMAIN lista :
           \A b \in lista[k].direccion_fisica .. lista[k].direccion_fisica + lista[k].tamanio - 1 : b \in S
  PROVE  Fisicas(lista) \in Seq(S)
<1> DEFINE L == Len(lista)
           f == CHOOSE h : Suma(lista, h, L)
<1>1. L \in Nat /\ DOMAIN lista = 1 .. L
  OBVIOUS
<1>2. Fisicas(lista) = f[L]
  BY DEF Fisicas, Suma, Tramo
<1> HIDE DEF L
<1>3. ASSUME NEW i \in 1 .. L PROVE Tramo(lista, i) \in Seq(S)
  <2> DEFINE x == lista[i].direccion_fisica
             t == lista[i].tamanio
  <2>0. lista[i] \in Tramos
    BY <1>1
  <2>1. x \in Nat /\ t \in Nat
    BY <2>0 DEF Tramos
  <2>2. \A b \in x .. x + t - 1 : b \in S
    BY <1>1
  <2>3. Tramo(lista, i) = [k \in 1 .. t |-> x + k - 1]
    BY DEF Tramo
  <2> HIDE DEF x, t
  <2>4. [k \in 1 .. t |-> x + k - 1] \in [1 .. t -> S]
    BY <2>1, <2>2
  <2> QED
    BY <2>1, <2>3, <2>4, ListaDeFuncion
<1> DEFINE A == {n \in 0 .. L : \E h : Suma(lista, h, n)}
<1>4. \A n \in 0 .. L : n \in A
  <2>1. 0 \in A
    <3> DEFINE h == [i \in 0 .. 0 |-> <<>>]
    <3>1. Suma(lista, h, 0)
      BY DEF Suma
    <3> HIDE DEF h
    <3> QED
      BY <1>1, <3>1
  <2>2. ASSUME NEW n \in 0 .. L - 1, n \in A PROVE n + 1 \in A
    <3>1. PICK h : Suma(lista, h, n)
      BY <2>2
    <3>2. n \in Nat
      BY <1>1
    <3>3. PICK k : Suma(lista, k, n + 1)
      BY <3>1, <3>2, SumaUnoMas
    <3>5. n + 1 \in 0 .. L
      BY <1>1
    <3> QED
      BY <3>3, <3>5
  <2> HIDE DEF A
  <2> QED
    BY <1>1, <2>1, <2>2, Induccion
<1>5. Suma(lista, f, L)
  <2>1. \E h : Suma(lista, h, L)
    BY <1>1, <1>4
  <2> QED
    BY <2>1
<1> HIDE DEF f
<1> DEFINE B == {n \in 0 .. L : f[n] \in Seq(S)}
<1>6. f[0] = <<>> /\ \A n \in 1 .. L : f[n] = f[n - 1] \o Tramo(lista, n)
  <2> DEFINE G(x, i) == x \o Tramo(lista, i)
  <2>1. f = [i \in 0 .. L |-> IF i = 0 THEN <<>> ELSE G(f[i - 1], i)]
    BY <1>5 DEF Suma
  <2> HIDE DEF G
  <2>2. f[0] = <<>> /\ \A n \in 1 .. L : f[n] = G(f[n - 1], n)
    BY <1>1, <2>1
  <2> QED
    BY <2>2 DEF G
<1>7. \A n \in 0 .. L : n \in B
  <2> DEFINE T == Seq(S)
  <2>1. f[0] \in T
    BY <1>6
  <2>2. \A i \in 1 .. L : f[i - 1] \in T => f[i] \in T
    <3> TAKE i \in 1 .. L
    <3>1. Tramo(lista, i) \in Seq(S) /\ f[i] = f[i - 1] \o Tramo(lista, i)
      BY <1>3, <1>6
    <3> QED
      BY <3>1
  <2> HIDE DEF T
  <2>3. 0 \in B
    BY <1>1, <2>1 DEF T
  <2>4. ASSUME NEW n \in 0 .. L - 1, n \in B PROVE n + 1 \in B
    <3>1. n + 1 \in 1 .. L /\ n + 1 - 1 = n /\ n + 1 \in 0 .. L
      BY <1>1
    <3>2. f[n] \in T
      BY <2>4 DEF T
    <3>3. f[n + 1] \in T
      BY <2>2, <3>1, <3>2
    <3> QED
      BY <3>1, <3>3 DEF T
  <2> HIDE DEF B
  <2> QED
    BY <1>1, <2>3, <2>4, Induccion
<1> QED
  BY <1>1, <1>2, <1>7

LEMMA SonPropias ==
  ASSUME NEW p, NEW lista, De(p, lista)
  PROVE  Fisicas(lista) \in Seq(Propias(p))
  BY SonDe DEF De

LEMMA SinBytes == Fisicas(<<>>) \in Seq({}) /\ Len(<<>>) \in Nat
<1>1. <<>> \in Seq(Tramos) /\ DOMAIN <<>> = {} /\ Len(<<>>) \in Nat
  OBVIOUS
<1>2. Fisicas(<<>>) \in Seq({})
  BY <1>1, SonDe
<1> QED
  BY <1>1, <1>2

\* Two processes have no byte in common.
LEMMA NadaEnComun ==
  ASSUME NEW p \in Pids, NEW q \in Pids, NEW b \in Propias(p), b \in Propias(q)
  PROVE  p = q
<1>1. ASSUME NEW r \in Pids, b \in Propias(r) PROVE b \div TAM_PAGINA \in Range(Marcos[r])
  <2>1. PICK m \in Range(Marcos[r]), k \in 0 .. TAM_PAGINA - 1 : b = (m * TAM_PAGINA) + k
    BY <1>1 DEF Propias
  <2>2. m \in Nat /\ TAM_PAGINA \in Nat \ {0}
    BY ConstantesCiclo DEF Range
  <2>3. ((m * TAM_PAGINA) + k) \div TAM_PAGINA = m
    BY <2>2
  <2> QED
    BY <2>1, <2>3
<1>2. \A r, s \in Pids : r # s => Range(Marcos[r]) \cap Range(Marcos[s]) = {}
  BY ConstantesCiclo
<1> QED
  BY <1>1, <1>2

\* A write leaves the bytes that are not in its list.
LEMMA EscribeLejos ==
  ASSUME NEW mem, NEW lista, NEW dato, Len(dato) \in Nat, NEW S, Fisicas(lista) \in Seq(S)
  PROVE  /\ DOMAIN escribir_memoria(mem, lista, dato) = DOMAIN mem
         /\ \A b \in DOMAIN mem \ S : escribir_memoria(mem, lista, dato)[b] = mem[b]
<1> DEFINE f == Fisicas(lista)
           n == IF Len(dato) < Len(f) THEN Len(dato) ELSE Len(f)
           Van(b) == {k \in 1 .. n : f[k] = b}
           Valor1(b) == dato[CHOOSE k \in Van(b) : \A j \in Van(b) : j <= k]
<1>1. escribir_memoria(mem, lista, dato) = [b \in DOMAIN mem |-> IF Van(b) = {} THEN mem[b] ELSE Valor1(b)]
  BY DEF escribir_memoria
<1>2. f \in Seq(S) /\ Len(f) \in Nat
  OBVIOUS
<1> HIDE DEF f, Valor1
<1>3. n \in Nat /\ n <= Len(f)
  BY <1>2
<1> HIDE DEF n
<1>4. \A k \in 1 .. n : f[k] \in S
  BY <1>2, <1>3
<1>5. \A b : b \notin S => Van(b) = {}
  BY <1>4
<1> HIDE DEF Van
<1> QED
  BY <1>1, <1>5

\* What is read has a length.
LEMMA LargoLeido ==
  ASSUME NEW p, NEW lista, De(p, lista), NEW mem
  PROVE  Len(leer_memoria(mem, lista)) \in Nat
<1> DEFINE f == Fisicas(lista)
<1>1. f \in Seq(Propias(p))
  BY SonPropias
<1>2. leer_memoria(mem, lista) = [k \in DOMAIN f |-> mem[f[k]]]
  BY DEF leer_memoria
<1> HIDE DEF f
<1>3. Len(f) \in Nat /\ DOMAIN f = 1 .. Len(f)
  BY <1>1
<1>4. leer_memoria(mem, lista) \in [1 .. Len(f) -> {mem[f[k]] : k \in DOMAIN f}]
  BY <1>2, <1>3
<1> QED
  BY <1>3, <1>4, ListaDeFuncion

\* What the CPU sends is not written in the memory of who waits for an interface.
LEMMA AplicaLejos ==
  ASSUME NEW B, NEW p \in Pids, p \in B, NEW q, Escribe(q, B), NEW mem
  PROVE  /\ DOMAIN Aplicar(mem, q) = DOMAIN mem
         /\ \A b \in DOMAIN mem \cap Propias(p) : Aplicar(mem, q)[b] = mem[b]
<1>1. ASSUME NEW lista, Ajeno(lista, B), NEW dato, Len(dato) \in Nat
      PROVE  /\ DOMAIN escribir_memoria(mem, lista, dato) = DOMAIN mem
             /\ \A b \in DOMAIN mem \cap Propias(p) : escribir_memoria(mem, lista, dato)[b] = mem[b]
  <2>1. PICK r \in Pids \ B : De(r, lista)
    BY <1>1 DEF Ajeno
  <2>2. Fisicas(lista) \in Seq(Propias(r))
    BY <2>1, SonPropias
  <2>3. \A b \in Propias(p) : b \notin Propias(r)
    BY <2>1, NadaEnComun
  <2> QED
    BY <1>1, <2>2, <2>3, EscribeLejos
<1>2. CASE q.cop = "PEDIDO_MOV_OUT"
  <2> DEFINE m == deserializar_datos_mov_out(q)
  <2>1. Ajeno(m.direcciones, B) /\ Len(m.valor) \in Nat
    BY <1>2 DEF Escribe
  <2>2. Aplicar(mem, q) = escribir_memoria(mem, m.direcciones, m.valor)
    BY <1>2 DEF Aplicar
  <2> HIDE DEF m
  <2> QED
    BY <1>1, <2>1, <2>2
<1>3. CASE q.cop = "PEDIDO_COPY_STRING"
  <2> DEFINE m == deserializar_datos_copystring(q.stream)
             dato == leer_memoria(mem, m.lectura)
  <2>1. Ajeno(m.escritura, B) /\ \E r \in Pids : De(r, m.lectura)
    BY <1>3 DEF Escribe
  <2>2. Aplicar(mem, q) = escribir_memoria(mem, m.escritura, dato)
    BY <1>3 DEF Aplicar
  <2>6. Len(dato) \in Nat
    BY <2>1, LargoLeido
  <2> HIDE DEF m, dato
  <2> QED
    BY <1>1, <2>1, <2>2, <2>6
<1>4. CASE q.cop \notin {"PEDIDO_MOV_OUT", "PEDIDO_COPY_STRING"}
  <2>1. Aplicar(mem, q) = mem
    BY <1>4 DEF Aplicar
  <2> QED
    BY <2>1
<1> QED
  BY <1>2, <1>3, <1>4

Avance(base, q, h, n) == h = [i \in 0 .. n |-> IF i = 0 THEN base ELSE Aplicar(h[i - 1], q[i])]

LEMMA AvanceUnoMas ==
  ASSUME NEW base, NEW q, NEW n \in Nat, NEW h, Avance(base, q, h, n)
  PROVE  \E k : Avance(base, q, k, n + 1)
<1> DEFINE G(x, i) == Aplicar(x, q[i])
<1>1. h = [i \in 0 .. n |-> IF i = 0 THEN base ELSE G(h[i - 1], i)]
  BY DEF Avance
<1> SUFFICES \E k : k = [i \in 0 .. n + 1 |-> IF i = 0 THEN base ELSE G(k[i - 1], i)]
  BY DEF Avance
<1> HIDE DEF G
<1> DEFINE k == [i \in 0 .. n + 1 |-> IF i = 0 THEN base ELSE G(h[i - 1], i)]
<1>2. \A i \in 0 .. n : k[i] = h[i]
  <2>1. \A i \in 0 .. n : h[i] = IF i = 0 THEN base ELSE G(h[i - 1], i)
    BY <1>1
  <2>2. \A i \in 0 .. n : k[i] = IF i = 0 THEN base ELSE G(h[i - 1], i)
    OBVIOUS
  <2> HIDE DEF k
  <2> QED
    BY <2>1, <2>2
<1>3. \A i \in 0 .. n + 1 : i # 0 => k[i - 1] = h[i - 1]
  <2> HIDE DEF k
  <2> QED
    BY <1>2
<1>4. k = [i \in 0 .. n + 1 |-> IF i = 0 THEN base ELSE G(k[i - 1], i)]
  BY <1>3
<1> QED
  BY <1>4

\* The memory there will be when the CPU's requests are served is, for who waits for an
\* interface, the memory there is.
LEMMA MemoriaDeQuienEspera ==
  ASSUME Conexion, Escrituras, NEW p \in Pids, p \in bloqueados
  PROVE  \A b \in Propias(p) : MemoriaFutura[b] = memoriaUsuario[b]
<1> DEFINE q == aMemoria["CPU"]
           L == Len(q)
           D == DOMAIN memoriaUsuario
           base == escribir_memoria(memoriaUsuario, copia.escritura, copia.dato)
           m == CHOOSE h : Avance(base, q, h, L)
           Intacta(x) == DOMAIN x = D /\ \A b \in Propias(p) : x[b] = memoriaUsuario[b]
<1>1. MemoriaFutura = m[L]
  BY DEF MemoriaFutura, Avance
<1>2. Propias(p) \subseteq D
  BY DEF Escrituras
<1>3. Intacta(base)
  <2>1. CASE copia = SinCopia
    <3>1. copia.escritura = <<>> /\ copia.dato = <<>>
      BY <2>1 DEF SinCopia
    <3>2. Fisicas(copia.escritura) \in Seq({}) /\ Len(copia.dato) \in Nat
      <4>1. Fisicas(<<>>) \in Seq({}) /\ Len(<<>>) \in Nat
        BY SinBytes
      <4> HIDE DEF D, base, Intacta
      <4> QED
        BY <3>1, <4>1
    <3>3. \A b \in Propias(p) : b \in D \ {}
      BY <1>2
    <3> QED
      BY <3>2, <3>3, EscribeLejos
  <2>2. CASE copia # SinCopia
    <3>1. Ajeno(copia.escritura, bloqueados) /\ Len(copia.dato) \in Nat
      BY <2>2 DEF Escrituras
    <3>2. PICK r \in Pids \ bloqueados : De(r, copia.escritura)
      BY <3>1 DEF Ajeno
    <3>3. Fisicas(copia.escritura) \in Seq(Propias(r))
      BY <3>2, SonPropias
    <3>4. \A b \in Propias(p) : b \notin Propias(r)
      BY <3>2, NadaEnComun
    <3> QED
      BY <1>2, <3>1, <3>3, <3>4, EscribeLejos
  <2> QED
    BY <2>1, <2>2
<1>4. L \in Nat /\ DOMAIN q = 1 .. L
  <2>1. EsSeq(q)
    BY DEF Conexion, Sirve
  <2> QED
    BY <2>1, AlFinal
<1>5. \A n \in 1 .. L : \A x : Intacta(x) => Intacta(Aplicar(x, q[n]))
  <2> TAKE n \in 1 .. L
  <2> TAKE x
  <2> SUFFICES ASSUME Intacta(x) PROVE Intacta(Aplicar(x, q[n]))
    OBVIOUS
  <2>1. Escribe(q[n], bloqueados)
    BY <1>4 DEF Escrituras, Todas
  <2> HIDE DEF q, D
  <2>2. DOMAIN Aplicar(x, q[n]) = DOMAIN x
        /\ \A b \in DOMAIN x \cap Propias(p) : Aplicar(x, q[n])[b] = x[b]
    BY <2>1, AplicaLejos
  <2> QED
    BY <1>2, <2>2
<1> HIDE DEF q, L, D, base, Intacta
<1> DEFINE A == {n \in 0 .. L : \E h : Avance(base, q, h, n)}
<1>6. \A n \in 0 .. L : n \in A
  <2>1. 0 \in A
    <3>1. Avance(base, q, [i \in 0 .. 0 |-> base], 0)
      BY DEF Avance
    <3> QED
      BY <1>4, <3>1
  <2>2. ASSUME NEW n \in 0 .. L - 1, n \in A PROVE n + 1 \in A
    <3>1. PICK h : Avance(base, q, h, n)
      BY <2>2
    <3>2. n \in Nat
      BY <1>4
    <3>3. PICK k : Avance(base, q, k, n + 1)
      BY <3>1, <3>2, AvanceUnoMas
    <3>4. n + 1 \in 0 .. L
      BY <1>4
    <3> QED
      BY <3>3, <3>4
  <2> HIDE DEF A
  <2> QED
    BY <1>4, <2>1, <2>2, Induccion
<1>7. Avance(base, q, m, L)
  <2>1. \E h : Avance(base, q, h, L)
    BY <1>4, <1>6
  <2> QED
    BY <2>1
<1> HIDE DEF m
<1>8. m[0] = base /\ \A n \in 1 .. L : m[n] = Aplicar(m[n - 1], q[n])
  <2> DEFINE G(x, i) == Aplicar(x, q[i])
  <2>1. m = [i \in 0 .. L |-> IF i = 0 THEN base ELSE G(m[i - 1], i)]
    BY <1>7 DEF Avance
  <2> HIDE DEF G
  <2>2. m[0] = base /\ \A n \in 1 .. L : m[n] = G(m[n - 1], n)
    BY <1>4, <2>1
  <2> QED
    BY <2>2 DEF G
<1> DEFINE C == {n \in 0 .. L : Intacta(m[n])}
<1>9. \A n \in 0 .. L : n \in C
  <2>1. 0 \in C
    BY <1>3, <1>4, <1>8
  <2>2. ASSUME NEW n \in 0 .. L - 1, n \in C PROVE n + 1 \in C
    <3>1. n + 1 \in 1 .. L /\ n + 1 - 1 = n /\ n + 1 \in 0 .. L
      BY <1>4
    <3>2. Intacta(m[n])
      BY <2>2
    <3>3. Intacta(m[n + 1])
      BY <1>5, <1>8, <3>1, <3>2
    <3> QED
      BY <3>1, <3>3
  <2> HIDE DEF C
  <2> QED
    BY <1>4, <2>1, <2>2, Induccion
<1>10. Intacta(m[L])
  BY <1>4, <1>9
<1> QED
  BY <1>1, <1>10 DEF Intacta

-----------------------------------------------------------------------------
(* The CPU's writes                                                         *)

LEMMA TresCampos ==
  ASSUME NEW S, NEW x \in S, NEW y \in S, NEW z \in S
  PROVE  <<x, y, z>> \in Seq(S) /\ Len(<<x, y, z>>) = 3 /\ <<x, y, z>>[2] = y
  OBVIOUS

LEMMA Pegadas ==
  ASSUME NEW S, NEW a \in Seq(S), NEW b \in Seq(S), NEW z \in Nat, Len(a) = z, Len(b) = 3
  PROVE  \A i \in 1 .. z + 3 : (a \o b)[i] = IF i <= z THEN a[i] ELSE b[i - z]
<1>1. \A i \in 1 .. Len(a) + Len(b) : (a \o b)[i] = IF i <= Len(a) THEN a[i] ELSE b[i - Len(a)]
  BY ConcatProperties
<1> QED
  BY <1>1

LEMMA TrasLosPares ==
  ASSUME NEW z \in Nat, NEW s, NEW a, NEW b,
         \A i \in 1 .. z + 3 : s[i] = IF i <= z THEN a[i] ELSE b[i - z]
  PROVE  s[z + 2] = b[2]
<1>1. z + 2 \in 1 .. z + 3 /\ ~(z + 2 <= z) /\ z + 2 - z = 2
  OBVIOUS
<1> QED
  BY <1>1

\* The reader of MOV_OUT counts the fragments from the size of the packet.
LEMMA LeeMovOut ==
  ASSUME NEW lista \in Seq(Tramos), NEW v, NEW pid, NEW es8 \in BOOLEAN,
         NEW m, m = deserializar_datos_mov_out(enviar_valor_mov_out_cpu(lista, v, pid, es8))
  PROVE  m.direcciones = lista /\ m.valor = v
<1> DEFINE L == Len(lista)
           a == Pares(lista)
           b == <<es8, v, pid>>
           s == a \o b
           S == Nat \cup {es8, v, pid}
           q == enviar_valor_mov_out_cpu(lista, v, pid, es8)
           n == (q.size - 5) \div 8
<1>1. L \in Nat /\ DOMAIN lista = 1 .. L /\ \A i \in 1 .. L : lista[i] \in Tramos
  OBVIOUS
<1>2. q.stream = s /\ q.size = 8 * L + 4 + 1 + (IF es8 THEN 1 ELSE 4)
  BY DEF enviar_valor_mov_out_cpu
<1>3. m.direcciones = Lista(q.stream, n) /\ m.valor = q.stream[2*n + 2]
  BY DEF deserializar_datos_mov_out
<1> HIDE DEF L, q
<1>4. n = L
  <2>1. CASE es8
    <3>1. q.size = 8 * L + 6
      BY <1>1, <1>2, <2>1
    <3> QED
      BY <1>1, <3>1
  <2>2. CASE ~es8
    <3>1. q.size = 8 * L + 9
      BY <1>1, <1>2, <2>2
    <3> QED
      BY <1>1, <3>1
  <2> QED
    BY <2>1, <2>2
<1>5. \A i \in 1 .. L : lista[i].direccion_fisica \in Nat /\ lista[i].tamanio \in Nat
  BY <1>1 DEF Tramos
<1>6. a = [k \in 1 .. 2 * L |-> IF k % 2 = 1 THEN lista[(k + 1) \div 2].direccion_fisica
                                ELSE lista[k \div 2].tamanio]
  BY DEF Pares, L
<1> HIDE DEF n, a, s
<1>7. \A i \in 1 .. L : /\ 2 * i - 1 \in 1 .. 2 * L /\ 2 * i \in 1 .. 2 * L
                        /\ (2 * i - 1) % 2 = 1 /\ (2 * i) % 2 # 1
                        /\ (2 * i - 1 + 1) \div 2 = i /\ (2 * i) \div 2 = i
  BY <1>1
<1>8. \A i \in 1 .. L : a[2 * i - 1] = lista[i].direccion_fisica /\ a[2 * i] = lista[i].tamanio
  BY <1>6, <1>7
<1>9. a \in Seq(S) /\ Len(a) = 2 * L
  <2>1. ASSUME NEW k \in 1 .. 2 * L PROVE a[k] \in S
    <3>1. CASE k % 2 = 1
      <4>1. (k + 1) \div 2 \in 1 .. L
        BY <1>1, <3>1
      <4> QED
        BY <1>5, <1>6, <3>1, <4>1
    <3>2. CASE k % 2 # 1
      <4>1. k \div 2 \in 1 .. L
        BY <1>1, <3>2
      <4> QED
        BY <1>5, <1>6, <3>2, <4>1
    <3> QED
      BY <3>1, <3>2
  <2>2. a \in [1 .. 2 * L -> S] /\ 2 * L \in Nat
    BY <1>1, <1>6, <2>1
  <2> QED
    BY <2>2, ListaDeFuncion
<1>10. b \in Seq(S) /\ Len(b) = 3 /\ b[2] = v
  <2>1. es8 \in S /\ v \in S /\ pid \in S
    OBVIOUS
  <2> HIDE DEF S
  <2> QED
    BY <2>1, TresCampos
<1> HIDE DEF b, S
<1>11. \A i \in 1 .. 2 * L + 3 : s[i] = IF i <= 2 * L THEN a[i] ELSE b[i - 2 * L]
  <2> DEFINE z == 2 * L
  <2>1. z \in Nat /\ Len(a) = z
    BY <1>1, <1>9
  <2>2. a \in Seq(S) /\ b \in Seq(S) /\ Len(b) = 3
    BY <1>9, <1>10
  <2> SUFFICES \A i \in 1 .. z + 3 : s[i] = IF i <= z THEN a[i] ELSE b[i - z]
    OBVIOUS
  <2> HIDE DEF z
  <2>3. \A i \in 1 .. z + 3 : (a \o b)[i] = IF i <= z THEN a[i] ELSE b[i - z]
    BY SMTT(30), <2>1, <2>2, Pegadas
  <2>4. s = a \o b
    BY DEF s
  <2> QED
    BY <2>3, <2>4
<1>12. s[2 * L + 2] = v
  <2> DEFINE z == 2 * L
  <2>1. z \in Nat
    BY <1>1
  <2>2. \A i \in 1 .. z + 3 : s[i] = IF i <= z THEN a[i] ELSE b[i - z]
    BY <1>11
  <2> HIDE DEF z
  <2>3. s[z + 2] = b[2]
    BY <2>1, <2>2, TrasLosPares
  <2> QED
    BY <1>10, <2>3 DEF z
<1>13. \A i \in 1 .. L : s[2 * i - 1] = lista[i].direccion_fisica /\ s[2 * i] = lista[i].tamanio
  <2> TAKE i \in 1 .. L
  <2>1. 2 * i - 1 \in 1 .. 2 * L + 3 /\ 2 * i \in 1 .. 2 * L + 3 /\ 2 * i - 1 <= 2 * L /\ 2 * i <= 2 * L
    BY <1>1
  <2> QED
    BY <1>8, <1>11, <2>1
<1>14. Lista(s, L) = [i \in 1 .. L |-> [direccion_fisica |-> lista[i].direccion_fisica, tamanio |-> lista[i].tamanio]]
  BY <1>13 DEF Lista
<1>15. \A i \in 1 .. L : lista[i] = [direccion_fisica |-> lista[i].direccion_fisica, tamanio |-> lista[i].tamanio]
  BY <1>1 DEF Tramos
<1>16. lista = [i \in 1 .. L |-> lista[i]]
  BY <1>1
<1>17. Lista(s, L) = lista
  BY <1>14, <1>15, <1>16
<1> QED
  BY <1>2, <1>3, <1>4, <1>12, <1>17

LEMMA LeeCopyString ==
  ASSUME NEW x, NEW m, m = deserializar_datos_copystring(enviar_datos_copy_string(x).stream)
  PROVE  m.escritura = x.escritura /\ m.lectura = x.lectura
<1> DEFINE campos == <<"escritura", "lectura", "tamanio", "pid">>
<1>1. "escritura" \in Range(campos) /\ "lectura" \in Range(campos)
  BY DEF Range
<1>2. m = Deserializar(campos, Serializar(campos, x))
  BY DEF deserializar_datos_copystring, enviar_datos_copy_string, Paquete
<1> HIDE DEF campos
<1> QED
  BY <1>1, <1>2, IdaYVuelta

LEMMA TodasConOtra ==
  ASSUME NEW a, EsSeq(a), NEW B, Todas(a, B)
  PROVE  /\ \A q : Escribe(q, B) => Todas(Append(a, q), B)
         /\ a # <<>> => Todas(Tail(a), B) /\ Escribe(Head(a), B)
         /\ \A C : C \subseteq B => Todas(a, C)
<1>1. ASSUME NEW q, Escribe(q, B) PROVE Todas(Append(a, q), B)
  <2> DEFINE b == Append(a, q)
  <2>1. /\ DOMAIN b = 1 .. Len(a) + 1 /\ Len(a) \in Nat /\ DOMAIN a = 1 .. Len(a)
        /\ b[Len(a) + 1] = q /\ \A k \in DOMAIN a : b[k] = a[k]
    BY AlFinal
  <2> HIDE DEF b
  <2>2. \A k \in DOMAIN b : b[k] = q \/ (k \in DOMAIN a /\ b[k] = a[k])
    BY <2>1
  <2>3. Todas(b, B)
    BY <1>1, <2>2 DEF Todas
  <2> QED
    BY <2>3 DEF b
<1>2. ASSUME a # <<>> PROVE Todas(Tail(a), B) /\ Escribe(Head(a), B)
  BY <1>2, SinLaCabeza DEF Todas
<1>3. \A C : C \subseteq B => Todas(a, C)
  <2>1. \A C, l : C \subseteq B /\ Ajeno(l, B) => Ajeno(l, C)
    BY DEF Ajeno
  <2>2. \A C, q : C \subseteq B /\ Escribe(q, B) => Escribe(q, C)
    BY <2>1 DEF Escribe
  <2> QED
    BY <2>2 DEF Todas
<1> QED
  BY <1>1, <1>2, <1>3

LEMMA EscriturasDe ==
  ASSUME Escrituras, DOMAIN memoriaUsuario' = DOMAIN memoriaUsuario,
         copia' # SinCopia => Ajeno(copia'.escritura, bloqueados') /\ Len(copia'.dato) \in Nat,
         Todas(aMemoria'["CPU"], bloqueados'),
         TrasSusEscrituras' => aMemoria'["CPU"] = <<>> /\ copia' = SinCopia
  PROVE  Escrituras'
<1>1. \A p \in Pids : Propias(p) \subseteq DOMAIN memoriaUsuario'
  BY DEF Escrituras
<1>2. TrasSusEscrituras' => SinEscrituras'
  BY DEF SinEscrituras
<1> QED
  BY <1>1, <1>2 DEF Escrituras

LEMMA MenosEsperan ==
  ASSUME NEW lista, NEW B, Ajeno(lista, B), NEW C, C \subseteq B
  PROVE  Ajeno(lista, C)
  BY DEF Ajeno

\* A step that sends memory nothing and gets nothing served.
LEMMA EscriturasQuietas ==
  ASSUME Conexion, Escrituras, UNCHANGED copia, DOMAIN memoriaUsuario' = DOMAIN memoriaUsuario,
         aMemoria'["CPU"] = aMemoria["CPU"], bloqueados' \subseteq bloqueados,
         TrasSusEscrituras' => TrasSusEscrituras
  PROVE  Escrituras'
<1>1. EsSeq(aMemoria["CPU"])
  BY DEF Conexion, Sirve
<1>2. Todas(aMemoria'["CPU"], bloqueados')
  BY <1>1, TodasConOtra DEF Escrituras
<1>3. copia' # SinCopia => Ajeno(copia'.escritura, bloqueados') /\ Len(copia'.dato) \in Nat
  BY MenosEsperan DEF Escrituras
<1>4. TrasSusEscrituras' => aMemoria'["CPU"] = <<>> /\ copia' = SinCopia
  BY DEF Escrituras, SinEscrituras
<1> QED
  BY <1>2, <1>3, <1>4, EscriturasDe

\* The CPU sends memory one more request, while its process has not fetched what comes after.
LEMMA EscriturasUnaMas ==
  ASSUME Conexion, Escrituras, UNCHANGED <<copia, memoriaUsuario, bloqueados>>,
         NEW q, Escribe(q, bloqueados), aMemoria'["CPU"] = Append(aMemoria["CPU"], q),
         ~TrasSusEscrituras'
  PROVE  Escrituras'
<1>1. EsSeq(aMemoria["CPU"])
  BY DEF Conexion, Sirve
<1>2. Todas(aMemoria'["CPU"], bloqueados')
  BY <1>1, TodasConOtra DEF Escrituras
<1> QED
  BY <1>2, EscriturasDe DEF Escrituras

\* The process on the CPU waits for no interface.
LEMMA QuienEscribe ==
  ASSUME Turnos, Prestado, cpu.pc # "recv"
  PROVE  ejecutando \in Pids \ bloqueados /\ pcb_actual.pid = ejecutando
  BY DEF Turnos, Prestado

LEMMA AnchoDeUnDato ==
  ASSUME NEW r, NEW v
  PROVE  obtener_tamanio_registro(r) \in Nat /\ Len(Bytes(v, obtener_tamanio_registro(r))) \in Nat
<1> DEFINE w == obtener_tamanio_registro(r)
           B(i) == (v \div BYTE ^ (i - 1)) % BYTE
<1>1. w \in Nat
  <2>1. ANCHO \in 0 .. ANCHO
    BY ConstantesRegistros
  <2>2. BYTE ^ ANCHO - 1 \in Nat
    BY <2>1, PotenciasDeByte
  <2> QED
    BY <2>2, ConstantesRegistros DEF obtener_tamanio_registro
<1>2. Bytes(v, w) = [i \in 1 .. w |-> B(i)]
  BY DEF Bytes
<1> HIDE DEF w, B
<1>3. Bytes(v, w) \in [1 .. w -> {B(i) : i \in 1 .. w}]
  BY <1>2
<1>4. Len(Bytes(v, w)) = w
  BY <1>1, <1>3, ListaDeFuncion
<1> QED
  BY <1>1, <1>4 DEF w

\* The addresses of the instruction the CPU executes are of its process.
LEMMA DirUnAcceso ==
  ASSUME Turnos, Prestado, EnSuEspacio, cpu.pc = "fetch", deMemoria["CPU"] # <<>>,
         NEW dl, NEW tam, <<dl, tam>> \in Accesos(Avanzados, Instruccion)
  PROVE  De(ejecutando, traducir_direccion(pcb_actual.pid, dl, tam))
<1> DEFINE e == Len(Marcos[ejecutando]) * TAM_PAGINA
<1>1. ejecutando \in Pids /\ pcb_actual.pid = ejecutando
  BY QuienEscribe
<1>2. \A a \in Accesos(Avanzados, Instruccion) : a[1] \in 0 .. e - 1 /\ a[2] \in Nat /\ a[1] + a[2] <= e
  BY <1>1 DEF EnSuEspacio
<1> HIDE DEF e
<1>3. dl \in 0 .. e - 1 /\ tam \in Nat /\ dl + tam <= e
  BY <1>2
<1> QED
  BY <1>1, <1>3, Traducido DEF e

LEMMA EscribeMovOut ==
  ASSUME Turnos, Prestado, EnSuEspacio, EjecutarMovOut
  PROVE  \E q : /\ Escribe(q, bloqueados) /\ aMemoria' = Mandar(aMemoria, "CPU", q)
                /\ Ejecutar({"MOV_OUT"}) /\ Seguir("ciclo", NULL)
<1> DEFINE r == Instruccion[3]
           w == obtener_tamanio_registro(r)
           lista == Traducir(Instruccion[2], w)
           v == Bytes(Avanzados[r], w)
           q == enviar_valor_mov_out_cpu(lista, v, pcb_actual.pid, revisar_registro(r))
           m == deserializar_datos_mov_out(q)
<1>1. /\ UsarMemoria("MOV_OUT", q) /\ Seguir("ciclo", NULL)
  BY DEF EjecutarMovOut
<1>2. /\ Ejecutar({"MOV_OUT"}) /\ aMemoria' = Mandar(aMemoria, "CPU", q)
      /\ cpu.pc = "fetch" /\ deMemoria["CPU"] # <<>> /\ Instruccion[1] = "MOV_OUT"
  BY <1>1 DEF UsarMemoria, Ejecutar
<1>3. <<Avanzados[Instruccion[2]], w>> \in Accesos(Avanzados, Instruccion)
  BY <1>2 DEF Accesos
<1>4. De(ejecutando, lista)
  BY <1>2, <1>3, DirUnAcceso DEF Traducir
<1>5. Len(v) \in Nat
  BY AnchoDeUnDato
<1>6. revisar_registro(r) \in BOOLEAN
  BY DEF revisar_registro
<1>7. lista \in Seq(Tramos)
  BY <1>4 DEF De
<1>8. q.cop = "PEDIDO_MOV_OUT"
  BY DEF enviar_valor_mov_out_cpu
<1>9. m.direcciones = lista /\ m.valor = v
  <2> HIDE DEF lista, v, r
  <2> QED
    BY <1>6, <1>7, LeeMovOut
<1>10. ejecutando \in Pids \ bloqueados
  BY <1>2, QuienEscribe
<1> HIDE DEF r, w, lista, v, q
<1>11. Escribe(q, bloqueados)
  BY <1>4, <1>5, <1>8, <1>9, <1>10 DEF Escribe, Ajeno
<1> QED
  BY <1>1, <1>2, <1>11

LEMMA EscribeCopyString ==
  ASSUME Turnos, Prestado, EnSuEspacio, EjecutarCopyString
  PROVE  \E q : /\ Escribe(q, bloqueados) /\ aMemoria' = Mandar(aMemoria, "CPU", q)
                /\ Ejecutar({"COPY_STRING"}) /\ Seguir("ciclo", NULL)
<1> DEFINE a == Traducir("DI", Instruccion[2])
           b == Traducir("SI", Instruccion[2])
           x == [escritura |-> a, lectura |-> b, tamanio |-> Instruccion[2], pid |-> pcb_actual.pid]
           q == enviar_datos_copy_string(x)
           m == deserializar_datos_copystring(q.stream)
<1>1. /\ UsarMemoria("COPY_STRING", q) /\ Seguir("ciclo", NULL)
  BY DEF EjecutarCopyString
<1>2. /\ Ejecutar({"COPY_STRING"}) /\ aMemoria' = Mandar(aMemoria, "CPU", q)
      /\ cpu.pc = "fetch" /\ deMemoria["CPU"] # <<>> /\ Instruccion[1] = "COPY_STRING"
  BY <1>1 DEF UsarMemoria, Ejecutar
<1>3. /\ <<Avanzados["DI"], Instruccion[2]>> \in Accesos(Avanzados, Instruccion)
      /\ <<Avanzados["SI"], Instruccion[2]>> \in Accesos(Avanzados, Instruccion)
  BY <1>2 DEF Accesos
<1>4. De(ejecutando, a) /\ De(ejecutando, b)
  BY <1>2, <1>3, DirUnAcceso DEF Traducir
<1>5. q.cop = "PEDIDO_COPY_STRING"
  BY DEF enviar_datos_copy_string, Paquete
<1>6. m.escritura = x.escritura /\ m.lectura = x.lectura
  BY LeeCopyString
<1>7. x.escritura = a /\ x.lectura = b
  OBVIOUS
<1>8. ejecutando \in Pids \ bloqueados
  BY <1>2, QuienEscribe
<1> HIDE DEF a, b, x, q
<1>9. Escribe(q, bloqueados)
  BY <1>4, <1>5, <1>6, <1>7, <1>8 DEF Escribe, Ajeno
<1> QED
  BY <1>1, <1>2, <1>9

\* Steps of the CPU.
LEMMA EscriturasDeCPU ==
  ASSUME Turnos, Prestado, Conexion, Escrituras, EnSuEspacio, CPU
  PROVE  Escrituras'
<1>0. DOMAIN cpu = {"pc", "instr"} /\ DOMAIN pcb_actual = CamposPCB
  BY DEF Prestado
<1>1. UNCHANGED <<copia, memoriaUsuario, bloqueados>>
  BY NoTocaCPU DEF memoria, kernel
<1>2. cpu.pc # "recv" => respuesta = <<>>
  BY DEF Prestado
<1>3. ASSUME NEW q, Escribe(q, bloqueados), aMemoria' = Mandar(aMemoria, "CPU", q), ~TrasSusEscrituras'
      PROVE  Escrituras'
  <2>1. aMemoria'["CPU"] = Append(aMemoria["CPU"], q)
    BY <1>3 DEF Conexion, Clientes, Mandar
  <2> QED
    BY <1>1, <1>3, <2>1, EscriturasUnaMas
<1>4. ASSUME UNCHANGED aMemoria, TrasSusEscrituras' => TrasSusEscrituras
      PROVE  Escrituras'
  BY <1>1, <1>4, EscriturasQuietas
<1>5. ASSUME NEW nombres, Ejecutar(nombres), NEW pc \in {"ciclo", "mov_in", "devolver"}, NEW i, Seguir(pc, i)
      PROVE  ~TrasSusEscrituras'
  <2>1. cpu.pc = "fetch" /\ respuesta' = respuesta
    BY <1>5 DEF Ejecutar
  <2>2. cpu'.pc = pc /\ respuesta' = <<>>
    BY <1>2, <1>5, <2>1 DEF Seguir
  <2> QED
    BY <1>5, <2>2 DEF TrasSusEscrituras
<1>6. CASE RecibirPCB
  <2>1. dispatch # <<>> /\ cpu' = [cpu EXCEPT !.pc = "ciclo"] /\ UNCHANGED <<aMemoria, respuesta>>
    BY <1>6 DEF RecibirPCB, canalesM
  <2>2. cpu'.pc = "ciclo" /\ respuesta' = <<>>
    BY <1>0, <2>1 DEF Prestado
  <2>3. ~TrasSusEscrituras'
    BY <2>2 DEF TrasSusEscrituras
  <2> QED
    BY <1>4, <2>1, <2>3
<1>7. CASE Fetch
  <2> DEFINE q == pedir_instruccion_memoria(pcb_actual.pid, pcb_actual.registros["PC"])
  <2>1. /\ cpu.pc = "ciclo" /\ cpu' = [cpu EXCEPT !.pc = "fetch"]
        /\ aMemoria' = Mandar(aMemoria, "CPU", q)
        /\ UNCHANGED <<deMemoria, respuesta>>
    BY <1>7 DEF Fetch
  <2>2. q.cop = "PEDIDO_INSTRUCCION"
    BY DEF pedir_instruccion_memoria, Paquete
  <2>3. Escribe(q, bloqueados)
    BY <2>2 DEF Escribe
  <2> HIDE DEF q
  <2>4. deMemoria["CPU"] = <<>>
    BY <2>1, NadieEspera DEF Conexion
  <2>5. cpu'.pc = "fetch" /\ deMemoria'["CPU"] = <<>> /\ respuesta' = <<>>
    BY <1>0, <1>2, <2>1, <2>4
  <2>6. ~TrasSusEscrituras'
    BY <2>5 DEF TrasSusEscrituras
  <2> QED
    BY <1>3, <2>1, <2>3, <2>6
<1>8. CASE EjecutarAritmetica \/ EjecutarExit
  <2>1. ~TrasSusEscrituras'
    BY <1>5, <1>8 DEF EjecutarAritmetica, EjecutarExit
  <2>2. UNCHANGED aMemoria
    BY <1>8 DEF EjecutarAritmetica, EjecutarExit
  <2> QED
    BY <1>4, <2>1, <2>2
<1>9. CASE EjecutarMovIn
  <2> DEFINE q == enviar_valor_mov_in_cpu(
       Traducir(Instruccion[3], obtener_tamanio_registro(Instruccion[2])), pcb_actual.pid)
  <2>1. UsarMemoria("MOV_IN", q) /\ Seguir("mov_in", Instruccion)
    BY <1>9 DEF EjecutarMovIn
  <2>2. q.cop = "PEDIDO_MOV_IN"
    BY DEF enviar_valor_mov_in_cpu
  <2> HIDE DEF q
  <2>3. Escribe(q, bloqueados)
    BY <2>2 DEF Escribe
  <2>4. Ejecutar({"MOV_IN"}) /\ aMemoria' = Mandar(aMemoria, "CPU", q)
    BY <2>1 DEF UsarMemoria
  <2>5. ~TrasSusEscrituras'
    BY <1>5, <2>1, <2>4
  <2> QED
    BY <1>3, <2>3, <2>4, <2>5
<1>10. CASE EjecutarMovOut
  <2>1. PICK q : /\ Escribe(q, bloqueados) /\ aMemoria' = Mandar(aMemoria, "CPU", q)
                 /\ Ejecutar({"MOV_OUT"}) /\ Seguir("ciclo", NULL)
    BY <1>10, EscribeMovOut
  <2>2. ~TrasSusEscrituras'
    BY <1>5, <2>1
  <2> QED
    BY <1>3, <2>1, <2>2
<1>11. CASE EjecutarCopyString
  <2>1. PICK q : /\ Escribe(q, bloqueados) /\ aMemoria' = Mandar(aMemoria, "CPU", q)
                 /\ Ejecutar({"COPY_STRING"}) /\ Seguir("ciclo", NULL)
    BY <1>11, EscribeCopyString
  <2>2. ~TrasSusEscrituras'
    BY <1>5, <2>1
  <2> QED
    BY <1>3, <2>1, <2>2
<1>12. CASE EjecutarIOCPU
  <2>1. cpu.pc = "fetch" /\ deMemoria["CPU"] # <<>> /\ UNCHANGED aMemoria
    BY <1>12 DEF EjecutarIOCPU, Ejecutar
  <2>2. TrasSusEscrituras
    BY <2>1 DEF TrasSusEscrituras
  <2> QED
    BY <1>4, <2>1, <2>2
<1>13. CASE Llamar
  <2>1. cpu.pc = "llamar" /\ UNCHANGED aMemoria
    BY <1>13 DEF Llamar, canalesM
  <2>2. TrasSusEscrituras
    BY <2>1 DEF TrasSusEscrituras
  <2> QED
    BY <1>4, <2>1, <2>2
<1>14. CASE RecibirMovIn
  <2>1. cpu.pc = "mov_in" /\ Seguir("ciclo", NULL) /\ UNCHANGED <<aMemoria, respuesta>>
    BY <1>14 DEF RecibirMovIn
  <2>2. cpu'.pc = "ciclo" /\ respuesta' = <<>>
    BY <1>2, <2>1 DEF Seguir
  <2>3. ~TrasSusEscrituras'
    BY <2>2 DEF TrasSusEscrituras
  <2> QED
    BY <1>4, <2>1, <2>3
<1>15. CASE Devolver
  <2>1. /\ cpu.pc = "devolver" \/ (cpu.pc = "ciclo" /\ interrupcion)
        /\ Seguir("recv", NULL) /\ UNCHANGED <<aMemoria, pcb_actual>>
    BY <1>15 DEF Devolver, canalesM
  <2>2. pcb_actual.motivo_desalojo # "INTERRUPCION_BLOQUEO"
    <3>1. CASE cpu.pc = "devolver"
      BY <3>1 DEF Prestado
    <3>2. CASE cpu.pc = "ciclo" /\ interrupcion
      BY <3>2 DEF Prestado
    <3> QED
      BY <2>1, <3>1, <3>2
  <2>3. cpu'.pc = "recv"
    BY <2>1 DEF Seguir
  <2>4. ~TrasSusEscrituras'
    BY <2>1, <2>2, <2>3 DEF TrasSusEscrituras
  <2> QED
    BY <1>4, <2>1, <2>4
<1> QED
  BY <1>6, <1>7, <1>8, <1>9, <1>10, <1>11, <1>12, <1>13, <1>14, <1>15 DEF CPU

\* Steps of the kernel.  The one that blocks a process finds no write on its way.
LEMMA EscriturasDeKernel ==
  ASSUME Turnos, Prestado, Conexion, Escrituras, PidenLoQueHay,
         Kernel \/ \E i \in Interfaces : Desbloquear(i)
  PROVE  Escrituras'
<1>1. UNCHANGED <<cpu, pcb_actual, aMemoria, deMemoria, memoriaUsuario, copia>>
  BY NoTocaKernel DEF procesador, canalesM, memoria
<1>2. CASE Despachar
  <2>1. UNCHANGED <<respuesta, bloqueados>>
    BY <1>2 DEF Despachar
  <2>2. TrasSusEscrituras' => TrasSusEscrituras
    BY <1>1, <2>1 DEF TrasSusEscrituras
  <2> QED
    BY <1>1, <2>1, <2>2, EscriturasQuietas
<1>3. ASSUME NEW motivo, Volver(motivo), UNCHANGED bloqueados
      PROVE  Escrituras'
  <2>1. respuesta' = <<>>
    BY <1>3, VolverEnSuLugar
  <2>2. TrasSusEscrituras' => TrasSusEscrituras
    BY <1>1, <2>1 DEF TrasSusEscrituras
  <2> QED
    BY <1>1, <1>3, <2>2, EscriturasQuietas
<1>4. CASE FinDeQuantum \/ Finalizar \/ RechazarIO
  BY <1>3, <1>4 DEF FinDeQuantum, Finalizar, RechazarIO
<1>5. CASE EjecutarIO
  <2>1. Volver("INTERRUPCION_BLOQUEO") /\ respuesta # <<>>
    BY <1>5 DEF EjecutarIO, Volver
  <2>2. pcb_actual.motivo_desalojo = "INTERRUPCION_BLOQUEO"
    BY <2>1, VolverEnSuLugar
  <2>3. aMemoria["CPU"] = <<>> /\ copia = SinCopia
    BY <2>1, <2>2 DEF Escrituras, TrasSusEscrituras, SinEscrituras
  <2>4. \A B : Todas(<<>>, B)
    BY DEF Todas
  <2> QED
    BY <1>1, <2>3, <2>4, EscriturasDe
<1>6. ASSUME NEW i \in Interfaces, Desbloquear(i)
      PROVE  Escrituras'
  <2>1. bloqueados' \subseteq bloqueados /\ UNCHANGED respuesta
    BY <1>6 DEF Desbloquear
  <2>2. TrasSusEscrituras' => TrasSusEscrituras
    BY <1>1, <2>1 DEF TrasSusEscrituras
  <2> QED
    BY <1>1, <2>1, <2>2, EscriturasQuietas
<1> QED
  BY <1>2, <1>4, <1>5, <1>6 DEF Kernel

LEMMA MismoDominio ==
  ASSUME NEW mem, NEW lista, NEW dato
  PROVE  DOMAIN escribir_memoria(mem, lista, dato) = DOMAIN mem
  BY DEF escribir_memoria

\* Steps of memory on the CPU's connection: none answers or copies out of turn.
LEMMA EscriturasDeMemoria ==
  ASSUME Conexion, Escrituras, MemoriaCPU
  PROVE  Escrituras'
<1> DEFINE a == aMemoria["CPU"]
<1>1. UNCHANGED <<cpu, pcb_actual, respuesta, bloqueados>>
  BY NoTocaMemoria DEF procesador, kernel
<1>2. Sirve(a, deMemoria["CPU"], cpu.pc, pcb_actual.pid) /\ EsSeq(a)
  BY DEF Conexion, Sirve
<1>3. ASSUME NEW cop, Atender("CPU", cop)
      PROVE  /\ a # <<>> /\ copia = SinCopia /\ Head(a).cop = cop
             /\ aMemoria'["CPU"] = Tail(a)
             /\ Todas(Tail(a), bloqueados) /\ Escribe(Head(a), bloqueados)
             /\ ~TrasSusEscrituras
             /\ cop \notin SinRespuesta => Tail(a) = <<>>
  <2>1. a # <<>> /\ copia = SinCopia /\ Head(a).cop = cop /\ aMemoria'["CPU"] = Tail(a)
    BY <1>3 DEF Atender, Pedido, Conexion, Clientes
  <2>2. Todas(Tail(a), bloqueados) /\ Escribe(Head(a), bloqueados)
    BY <1>2, <2>1, TodasConOtra DEF Escrituras
  <2>3. ~TrasSusEscrituras
    BY <2>1 DEF Escrituras, SinEscrituras
  <2>4. cop \notin SinRespuesta => Tail(a) = <<>>
    BY <1>2, <2>1, Desencola
  <2> QED
    BY <2>1, <2>2, <2>3, <2>4
<1>4. UNCHANGED deMemoria /\ ~TrasSusEscrituras => ~TrasSusEscrituras'
  BY <1>1 DEF TrasSusEscrituras
<1> HIDE DEF a
<1>5. CASE AtenderInstruccion \/ AtenderMovIn
  <2>1. PICK cop \in {"PEDIDO_INSTRUCCION", "PEDIDO_MOV_IN"} : Atender("CPU", cop)
    BY <1>5 DEF AtenderInstruccion, AtenderMovIn
  <2>2. UNCHANGED <<memoriaUsuario, copia>>
    BY <1>5 DEF AtenderInstruccion, AtenderMovIn, memoria
  <2>3. aMemoria'["CPU"] = <<>> /\ copia = SinCopia
    BY <1>3, <2>1 DEF SinRespuesta
  <2>4. \A B : Todas(<<>>, B)
    BY DEF Todas
  <2> QED
    BY <2>2, <2>3, <2>4, EscriturasDe
<1>6. CASE AtenderMovOut
  <2> DEFINE m == deserializar_datos_mov_out(Pedido("CPU"))
  <2>1. /\ Atender("CPU", "PEDIDO_MOV_OUT") /\ UNCHANGED <<deMemoria, copia>>
        /\ memoriaUsuario' = escribir_memoria(memoriaUsuario, m.direcciones, m.valor)
    BY <1>6 DEF AtenderMovOut
  <2> HIDE DEF m
  <2>2. DOMAIN memoriaUsuario' = DOMAIN memoriaUsuario
    BY <2>1, MismoDominio
  <2>3. /\ copia' = SinCopia /\ Todas(aMemoria'["CPU"], bloqueados') /\ ~TrasSusEscrituras'
    BY <1>1, <1>3, <1>4, <2>1
  <2> QED
    BY <2>2, <2>3, EscriturasDe
<1>7. CASE CopyLeer
  <2> DEFINE m == deserializar_datos_copystring(Pedido("CPU").stream)
             dato == leer_memoria(memoriaUsuario, m.lectura)
  <2>1. /\ Atender("CPU", "PEDIDO_COPY_STRING") /\ UNCHANGED <<deMemoria, memoriaUsuario>>
        /\ copia' = [escritura |-> m.escritura, dato |-> dato]
    BY <1>7 DEF CopyLeer
  <2>2. Escribe(Pedido("CPU"), bloqueados) /\ Pedido("CPU").cop = "PEDIDO_COPY_STRING"
    BY <1>3, <2>1 DEF Pedido, a
  <2>3. Ajeno(m.escritura, bloqueados) /\ \E p \in Pids : De(p, m.lectura)
    BY <2>2 DEF Escribe
  <2>4. Len(dato) \in Nat
    BY <2>3, LargoLeido
  <2> HIDE DEF m, dato
  <2>5. Ajeno(copia'.escritura, bloqueados') /\ Len(copia'.dato) \in Nat
    BY <1>1, <2>1, <2>3, <2>4
  <2>6. Todas(aMemoria'["CPU"], bloqueados') /\ ~TrasSusEscrituras'
    BY <1>1, <1>3, <1>4, <2>1
  <2> QED
    BY <2>1, <2>5, <2>6, EscriturasDe
<1>8. CASE CopyEscribir
  <2>1. /\ copia # SinCopia /\ copia' = SinCopia /\ UNCHANGED <<aMemoria, deMemoria>>
        /\ memoriaUsuario' = escribir_memoria(memoriaUsuario, copia.escritura, copia.dato)
    BY <1>8 DEF CopyEscribir, canalesM
  <2>2. DOMAIN memoriaUsuario' = DOMAIN memoriaUsuario
    BY <2>1, MismoDominio
  <2>3. ~TrasSusEscrituras'
    BY <1>4, <2>1 DEF Escrituras, SinEscrituras
  <2>4. Todas(aMemoria'["CPU"], bloqueados')
    BY <1>1, <2>1 DEF Escrituras
  <2> QED
    BY <2>1, <2>2, <2>3, <2>4, EscriturasDe
<1> QED
  BY <1>5, <1>6, <1>7, <1>8 DEF MemoriaCPU

LEMMA EscriturasPaso ==
  ASSUME Turnos, Prestado, Conexion, Escrituras, PidenLoQueHay, EnSuEspacio, Next
  PROVE  Escrituras'
<1>1. CASE Interrumpir
  <2>1. /\ UNCHANGED <<cpu, respuesta, aMemoria, deMemoria, memoriaUsuario, copia, bloqueados>>
        /\ cpu.pc \in {"ciclo", "fetch", "mov_in", "devolver", "llamar"}
    BY <1>1 DEF Interrumpir, canalesM, memoria, kernel
  <2>2. respuesta = <<>>
    BY <2>1 DEF Prestado
  <2>3. TrasSusEscrituras' => TrasSusEscrituras
    BY <2>1, <2>2 DEF TrasSusEscrituras
  <2> QED
    BY <2>1, <2>3, EscriturasQuietas
<1>2. ASSUME NEW i \in Interfaces, Interfaz(i) \/ EscribirStdin(i) \/ LeerStdout(i)
      PROVE  Escrituras'
  <2>1. UNCHANGED <<cpu, pcb_actual, respuesta, bloqueados>>
    BY <1>2, NoTocaInterfaz, NoTocaMemoria DEF procesador, kernel
  <2>2. aMemoria'["CPU"] = aMemoria["CPU"] /\ deMemoria'["CPU"] = deMemoria["CPU"]
    BY <1>2, OtraConexion DEF Conexion
  <2>3. UNCHANGED copia
    BY <1>2, NoTocaInterfaz DEF EscribirStdin, LeerStdout, memoria
  <2>4. DOMAIN memoriaUsuario' = DOMAIN memoriaUsuario
    <3>1. CASE EscribirStdin(i)
      BY <3>1, MismoDominio DEF EscribirStdin
    <3>2. CASE Interfaz(i) \/ LeerStdout(i)
      BY <3>2, NoTocaInterfaz DEF LeerStdout, memoria
    <3> QED
      BY <1>2, <3>1, <3>2
  <2>5. TrasSusEscrituras' => TrasSusEscrituras
    BY <2>1, <2>2 DEF TrasSusEscrituras
  <2> QED
    BY <2>1, <2>2, <2>3, <2>4, <2>5, EscriturasQuietas
<1> QED
  BY <1>1, <1>2, EscriturasDeCPU, EscriturasDeKernel, EscriturasDeMemoria, Quienes

-----------------------------------------------------------------------------
(* The interfaces' reads                                                    *)

\* A step of one interface, or of memory on its connection.
LEMMA LecturasDe ==
  ASSUME Conexion, Pedidos, Lecturas, NEW i \in Interfaces, NEW y, NEW a, NEW d, Consulta(y, a, d),
         interfaz' = [interfaz EXCEPT ![i] = y] \/ (UNCHANGED interfaz /\ y = interfaz[i]),
         aMemoria' = [aMemoria EXCEPT ![i] = a] \/ (UNCHANGED aMemoria /\ a = aMemoria[i]),
         deMemoria' = [deMemoria EXCEPT ![i] = d] \/ (UNCHANGED deMemoria /\ d = deMemoria[i])
  PROVE  Lecturas'
<1>1. DOMAIN interfaz = Interfaces
  BY DEF Pedidos
<1>2. DOMAIN aMemoria = Clientes /\ DOMAIN deMemoria = Clientes /\ Interfaces \subseteq Clientes
  BY DEF Conexion, Clientes
<1>3. interfaz'[i] = y /\ \A j \in Interfaces : j # i => interfaz'[j] = interfaz[j]
  BY <1>1
<1>4. aMemoria'[i] = a /\ \A j \in Interfaces : j # i => aMemoria'[j] = aMemoria[j]
  BY <1>2
<1>5. deMemoria'[i] = d /\ \A j \in Interfaces : j # i => deMemoria'[j] = deMemoria[j]
  BY <1>2
<1>6. ASSUME NEW j \in Interfaces PROVE Consulta(interfaz'[j], aMemoria'[j], deMemoria'[j])
  <2>1. CASE j = i
    BY <1>3, <1>4, <1>5, <2>1
  <2>2. CASE j # i
    <3>1. Consulta(interfaz[j], aMemoria[j], deMemoria[j])
      BY DEF Lecturas
    <3> QED
      BY <1>3, <1>4, <1>5, <2>2, <3>1
  <2> QED
    BY <2>1, <2>2
<1> QED
  BY <1>6 DEF Lecturas

\* A step that is not on an interface's connection.
LEMMA LecturasAparte ==
  ASSUME Lecturas, UNCHANGED interfaz,
         \A i \in Interfaces : aMemoria'[i] = aMemoria[i] /\ deMemoria'[i] = deMemoria[i]
  PROVE  Lecturas'
  BY DEF Lecturas

LEMMA ConexionDeCPU ==
  ASSUME Conexion, CPU \/ MemoriaCPU, NEW i \in Interfaces
  PROVE  aMemoria'[i] = aMemoria[i] /\ deMemoria'[i] = deMemoria[i]
<1>1. i \in Clientes /\ i # "CPU"
  BY ConstantesCiclo DEF Clientes, Interfaces
<1>2. aMemoria' = aMemoria \/ \E x : aMemoria' = [aMemoria EXCEPT !["CPU"] = x]
  <2>1. CASE CPU
    BY <2>1 DEF CPU, RecibirPCB, Fetch, EjecutarAritmetica, EjecutarMovIn, EjecutarMovOut, UsarMemoria,
         EjecutarCopyString, EjecutarIOCPU, Llamar, EjecutarExit, RecibirMovIn, Devolver, Mandar, canalesM
  <2>2. CASE MemoriaCPU
    BY SMTT(30), <2>2 DEF MemoriaCPU, AtenderInstruccion, AtenderMovIn, AtenderMovOut, CopyLeer, CopyEscribir,
         Atender, canalesM
  <2> QED
    BY <2>1, <2>2
<1>3. deMemoria' = deMemoria \/ \E x : deMemoria' = [deMemoria EXCEPT !["CPU"] = x]
  <2>1. CASE CPU
    BY <2>1 DEF CPU, RecibirPCB, Fetch, EjecutarAritmetica, EjecutarMovIn, EjecutarMovOut, UsarMemoria,
         EjecutarCopyString, EjecutarIOCPU, Llamar, EjecutarExit, RecibirMovIn, Devolver, Ejecutar, canalesM
  <2>2. CASE MemoriaCPU
    BY <2>2 DEF MemoriaCPU, AtenderInstruccion, AtenderMovIn, AtenderMovOut, CopyLeer, CopyEscribir,
         Mandar, canalesM
  <2> QED
    BY <2>1, <2>2
<1> QED
  BY <1>1, <1>2, <1>3 DEF Conexion

\* The reader of the addresses takes those of the request.
LEMMA LeeDirecciones ==
  ASSUME NEW m
  PROVE  /\ enviar_direcciones_stdout(m).cop = "PEDIDO_A_LEER_DATO_STDOUT"
         /\ deserializar_direcciones_de_stdout(enviar_direcciones_stdout(m).stream).direcciones = m.direcciones
<1> DEFINE campos == <<"direcciones", "pid">>
<1>1. "direcciones" \in Range(campos)
  BY DEF Range
<1>2. Deserializar(campos, Serializar(campos, m)) = [c \in Range(campos) |-> m[c]]
  BY IdaYVuelta
<1> HIDE DEF campos
<1>3. Deserializar(campos, Serializar(campos, m)).direcciones = m.direcciones
  BY <1>1, <1>2
<1> QED
  BY <1>3 DEF enviar_direcciones_stdout, deserializar_direcciones_de_stdout, Paquete, campos

\* An interface that is not waiting sends something that has no answer, or starts to wait.
LEMMA ConsultaOtra ==
  ASSUME NEW z, NEW a, NEW d, Consulta(z, a, d), z.pc # "esperar", NEW q, NEW y,
         \/ q.cop # "PEDIDO_A_LEER_DATO_STDOUT" /\ y.pc # "esperar"
         \/ /\ y.pc = "esperar" /\ y.cop \in {"PEDIDO_IO_STDOUT_WRITE", "PEDIDO_IO_FS_WRITE"}
            /\ deserializar_direcciones_de_stdout(q.stream).direcciones = y.m.direcciones
  PROVE  Consulta(y, Append(a, q), d)
<1> DEFINE b == Append(a, q)
<1>1. /\ EsSeq(b) /\ DOMAIN b = 1 .. Len(a) + 1 /\ Len(b) = Len(a) + 1
      /\ Len(a) \in Nat /\ DOMAIN a = 1 .. Len(a)
      /\ b[Len(a) + 1] = q /\ \A n \in DOMAIN a : b[n] = a[n]
  BY AlFinal DEF Consulta
<1>2. EsSeq(d) /\ d = <<>> /\ \A k \in DOMAIN a : a[k].cop # "PEDIDO_A_LEER_DATO_STDOUT"
  BY DEF Consulta
<1> HIDE DEF b
<1>3. \A k \in DOMAIN b : (k = Len(b) /\ b[k] = q) \/ (k \in DOMAIN a /\ b[k] = a[k])
  BY <1>1
<1>4. ASSUME NEW k \in DOMAIN b, b[k].cop = "PEDIDO_A_LEER_DATO_STDOUT"
      PROVE  /\ y.pc = "esperar" /\ d = <<>> /\ k = Len(b)
             /\ deserializar_direcciones_de_stdout(b[k].stream).direcciones = y.m.direcciones
  <2>1. k = Len(b) /\ b[k] = q
    BY <1>2, <1>3, <1>4
  <2> QED
    BY <1>2, <1>4, <2>1
<1>5. y.pc = "esperar" => y.cop \in {"PEDIDO_IO_STDOUT_WRITE", "PEDIDO_IO_FS_WRITE"}
  OBVIOUS
<1> QED
  BY <1>1, <1>2, <1>4, <1>5 DEF Consulta, b

\* It goes on without sending anything.
LEMMA ConsultaIgual ==
  ASSUME NEW z, NEW a, NEW d, Consulta(z, a, d), z.pc # "esperar", NEW y, y.pc # "esperar"
  PROVE  Consulta(y, a, d)
  BY DEF Consulta

\* The answer it was waiting for.
LEMMA ConsultaLlega ==
  ASSUME NEW z, NEW a, NEW d, Consulta(z, a, d), d # <<>>, NEW y, y.pc # "esperar"
  PROVE  Consulta(y, a, Tail(d))
<1>1. EsSeq(Tail(d)) /\ Tail(d) = <<>>
  BY SinLaCabeza DEF Consulta
<1>2. EsSeq(a) /\ \A k \in DOMAIN a : a[k].cop # "PEDIDO_A_LEER_DATO_STDOUT"
  BY DEF Consulta
<1> QED
  BY <1>1, <1>2 DEF Consulta

\* Memory serves the first of its requests: with nothing back...
LEMMA ConsultaMenos ==
  ASSUME NEW z, NEW a, NEW d, Consulta(z, a, d), a # <<>>
  PROVE  Consulta(z, Tail(a), d)
<1> DEFINE t == Tail(a)
<1>1. /\ EsSeq(t) /\ Len(a) \in Nat \ {0} /\ Len(t) = Len(a) - 1
      /\ DOMAIN t = 1 .. Len(a) - 1
      /\ \A k \in DOMAIN t : k + 1 \in DOMAIN a /\ t[k] = a[k + 1]
  BY SinLaCabeza DEF Consulta
<1> HIDE DEF t
<1>2. ASSUME NEW k \in DOMAIN t, t[k].cop = "PEDIDO_A_LEER_DATO_STDOUT"
      PROVE  /\ z.pc = "esperar" /\ d = <<>> /\ k = Len(t)
             /\ deserializar_direcciones_de_stdout(t[k].stream).direcciones = z.m.direcciones
  <2>1. k + 1 \in DOMAIN a /\ t[k] = a[k + 1]
    BY <1>1
  <2>2. /\ z.pc = "esperar" /\ d = <<>> /\ k + 1 = Len(a)
        /\ deserializar_direcciones_de_stdout(t[k].stream).direcciones = z.m.direcciones
    BY <1>2, <2>1 DEF Consulta
  <2>3. k = Len(t)
    BY <1>1, <2>2
  <2> QED
    BY <2>2, <2>3
<1> QED
  BY <1>1, <1>2 DEF Consulta, t

\* ... or with the bytes it asked for.
LEMMA ConsultaLeida ==
  ASSUME NEW z, NEW a, NEW d, Consulta(z, a, d), a # <<>>, Head(a).cop = "PEDIDO_A_LEER_DATO_STDOUT",
         NEW r
  PROVE  Consulta(z, Tail(a), Append(d, r))
<1>1. /\ Head(a) = a[1] /\ 1 \in DOMAIN a
      /\ Len(a) = 1 => Tail(a) = <<>>
  BY SinLaCabeza DEF Consulta
<1>2. z.pc = "esperar" /\ d = <<>> /\ Len(a) = 1
  BY <1>1 DEF Consulta
<1>3. Tail(a) = <<>> /\ Append(d, r) = <<r>>
  BY <1>1, <1>2
<1>4. EsSeq(<<>>) /\ EsSeq(<<r>>) /\ Len(<<r>>) = 1 /\ DOMAIN <<>> = {}
  <2>1. EsSeq(<<>>) /\ EsSeq(<<r>>)
    BY EsSeqUna
  <2>2. Len(<<r>>) = 1 /\ DOMAIN <<>> = {}
    OBVIOUS
  <2> QED
    BY <2>1, <2>2
<1>5. z.cop \in {"PEDIDO_IO_STDOUT_WRITE", "PEDIDO_IO_FS_WRITE"}
  BY <1>2 DEF Consulta
<1> QED
  BY <1>2, <1>3, <1>4, <1>5 DEF Consulta

LEMMA LecturasPaso ==
  ASSUME Conexion, Pedidos, Lecturas, Next
  PROVE  Lecturas'
<1>1. CASE CPU \/ MemoriaCPU
  <2>1. UNCHANGED interfaz
    BY <1>1, NoTocaCPU, NoTocaMemoria DEF io
  <2> QED
    BY <1>1, <2>1, ConexionDeCPU, LecturasAparte
<1>2. CASE Kernel \/ \E i \in Interfaces : Desbloquear(i)
  <2>1. UNCHANGED <<interfaz, aMemoria, deMemoria>>
    BY <1>2, NoTocaKernel DEF io, canalesM
  <2> QED
    BY <2>1, LecturasAparte
<1>3. CASE Interrumpir
  <2>1. UNCHANGED <<interfaz, aMemoria, deMemoria>>
    BY <1>3 DEF Interrumpir, io, canalesM
  <2> QED
    BY <2>1, LecturasAparte
<1>4. ASSUME NEW i \in Interfaces, Interfaz(i) \/ EscribirStdin(i) \/ LeerStdout(i)
      PROVE  Lecturas'
  <2> DEFINE z == interfaz[i]
             a == aMemoria[i]
             d == deMemoria[i]
  <2>1. Consulta(z, a, d)
    BY <1>4 DEF Lecturas
  <2>2. DOMAIN z = {"pc", "cop", "m"} /\ DOMAIN interfaz = Interfaces
    BY <1>4 DEF Pedidos, Camino, EnCamino
  <2>3. ASSUME NEW y, NEW b, NEW e, Consulta(y, b, e),
               interfaz' = [interfaz EXCEPT ![i] = y] \/ (UNCHANGED interfaz /\ y = z),
               aMemoria' = [aMemoria EXCEPT ![i] = b] \/ (UNCHANGED aMemoria /\ b = a),
               deMemoria' = [deMemoria EXCEPT ![i] = e] \/ (UNCHANGED deMemoria /\ e = d)
        PROVE  Lecturas'
    BY <1>4, <2>3, LecturasDe
  <2> HIDE DEF z, a, d
  <2>4. Ociosa.pc # "esperar"
    BY DEF Ociosa
  <2>5. CASE RecibirPedido(i)
    <3>1. PICK y : /\ z.pc = "recv" /\ interfaz' = [interfaz EXCEPT ![i] = y] /\ y.pc = "trabajar"
                   /\ UNCHANGED <<aMemoria, deMemoria>>
      BY <2>5 DEF RecibirPedido, z, canalesM
    <3>2. Consulta(y, a, d)
      BY <2>1, <3>1, ConsultaIgual
    <3> QED
      BY <2>3, <3>1, <3>2
  <2>6. CASE procesar_sleep(i)
    <3>1. /\ z.pc = "trabajar" /\ interfaz' = [interfaz EXCEPT ![i] = Ociosa]
          /\ UNCHANGED <<aMemoria, deMemoria>>
      BY <2>6 DEF procesar_sleep, Trabaja, Responder, z
    <3>2. Consulta(Ociosa, a, d)
      BY <2>1, <2>4, <3>1, ConsultaIgual
    <3> QED
      BY <2>3, <3>1, <3>2
  <2>7. CASE procesar_stdin(i) \/ procesar_dialfs_read(i)
    <3>1. PICK m : /\ z.pc = "trabajar" /\ interfaz' = [interfaz EXCEPT ![i] = Ociosa]
                   /\ aMemoria' = [aMemoria EXCEPT ![i] = Append(a, enviar_dato_stdin(m))]
                   /\ UNCHANGED deMemoria
      BY <2>7 DEF procesar_stdin, procesar_dialfs_read, EnviarEntrada, Trabaja, Responder, Mandar, z, a
    <3> DEFINE q == enviar_dato_stdin(m)
    <3>2. q.cop # "PEDIDO_A_LEER_DATO_STDOUT"
      BY DEF enviar_dato_stdin, Paquete
    <3> HIDE DEF q
    <3>3. Consulta(Ociosa, Append(a, q), d)
      BY <2>1, <2>4, <3>1, <3>2, ConsultaOtra
    <3> QED
      BY <2>3, <3>1, <3>3 DEF q
  <2>8. CASE PedirDato(i)
    <3> DEFINE y == [z EXCEPT !.pc = "esperar"]
               q == enviar_direcciones_stdout(z.m)
    <3>1. /\ z.pc = "trabajar" /\ z.cop \in {"PEDIDO_IO_STDOUT_WRITE", "PEDIDO_IO_FS_WRITE"}
          /\ interfaz' = [interfaz EXCEPT ![i] = y]
          /\ aMemoria' = [aMemoria EXCEPT ![i] = Append(a, q)]
          /\ UNCHANGED deMemoria
      BY <2>8 DEF PedirDato, Trabaja, Mandar, z, a
    <3>2. y.pc = "esperar" /\ y.cop = z.cop /\ y.m = z.m
      BY <2>2
    <3>3. deserializar_direcciones_de_stdout(q.stream).direcciones = z.m.direcciones
      BY LeeDirecciones
    <3> HIDE DEF y, q
    <3>4. Consulta(y, Append(a, q), d)
      BY <2>1, <3>1, <3>2, <3>3, ConsultaOtra
    <3> QED
      BY <2>3, <3>1, <3>4
  <2>9. CASE RecibirDato(i)
    <3>1. /\ d # <<>> /\ deMemoria' = [deMemoria EXCEPT ![i] = Tail(d)]
          /\ interfaz' = [interfaz EXCEPT ![i] = Ociosa] /\ UNCHANGED aMemoria
      BY <2>9 DEF RecibirDato, Responder, d
    <3>2. Consulta(Ociosa, a, Tail(d))
      BY <2>1, <2>4, <3>1, ConsultaLlega
    <3> QED
      BY <2>3, <3>1, <3>2
  <2>10. CASE EscribirStdin(i)
    <3>1. /\ a # <<>> /\ aMemoria' = [aMemoria EXCEPT ![i] = Tail(a)] /\ UNCHANGED <<deMemoria, interfaz>>
      BY <2>10 DEF EscribirStdin, Atender, a, io
    <3>2. Consulta(z, Tail(a), d)
      BY <2>1, <3>1, ConsultaMenos
    <3> QED
      BY <2>3, <3>1, <3>2
  <2>11. CASE LeerStdout(i)
    <3>1. PICK r : /\ a # <<>> /\ Head(a).cop = "PEDIDO_A_LEER_DATO_STDOUT"
                   /\ aMemoria' = [aMemoria EXCEPT ![i] = Tail(a)]
                   /\ deMemoria' = [deMemoria EXCEPT ![i] = Append(d, r)] /\ UNCHANGED interfaz
      BY <2>11 DEF LeerStdout, Atender, Pedido, Mandar, a, d, io
    <3>2. Consulta(z, Tail(a), Append(d, r))
      BY <2>1, <3>1, ConsultaLeida
    <3> QED
      BY <2>3, <3>1, <3>2
  <2> QED
    BY <1>4, <2>5, <2>6, <2>7, <2>8, <2>9, <2>10, <2>11 DEF Interfaz
<1> QED
  BY <1>1, <1>2, <1>3, <1>4, Quienes

-----------------------------------------------------------------------------
(* What goes out                                                            *)

InvSalida == InvCiclo /\ Escrituras /\ Lecturas

LEMMA SalidaInicial ==
  ASSUME Init
  PROVE  InvSalida
<1>1. /\ aMemoria = [c \in Clientes |-> <<>>] /\ deMemoria = [c \in Clientes |-> <<>>]
      /\ memoriaUsuario = [b \in {m * TAM_PAGINA + k : m \in UNION {Range(Marcos[p]) : p \in Pids},
                                                       k \in 0 .. TAM_PAGINA - 1} |-> 0]
      /\ copia = SinCopia /\ interfaz = [i \in Interfaces |-> Ociosa]
  BY DEF Init
<1>2. EsSeq(<<>>) /\ DOMAIN <<>> = {}
  <2>1. EsSeq(<<>>)
    BY EsSeqUna
  <2>2. DOMAIN <<>> = {}
    OBVIOUS
  <2> QED
    BY <2>1, <2>2
<1>3. Escrituras
  <2>1. ASSUME NEW p \in Pids, NEW b \in Propias(p) PROVE b \in DOMAIN memoriaUsuario
    <3>1. PICK m \in Range(Marcos[p]), k \in 0 .. TAM_PAGINA - 1 : b = (m * TAM_PAGINA) + k
      BY DEF Propias
    <3>2. m \in UNION {Range(Marcos[q]) : q \in Pids}
      OBVIOUS
    <3> QED
      BY <1>1, <3>1, <3>2
  <2>2. aMemoria["CPU"] = <<>>
    BY <1>1 DEF Clientes
  <2>3. SinEscrituras /\ Todas(aMemoria["CPU"], bloqueados)
    BY <1>1, <1>2, <2>2 DEF SinEscrituras, Todas
  <2> QED
    BY <1>1, <2>1, <2>3 DEF Escrituras
<1>4. Lecturas
  <2>1. Ociosa.pc # "esperar"
    BY DEF Ociosa
  <2>2. Consulta(Ociosa, <<>>, <<>>)
    BY <1>2, <2>1 DEF Consulta
  <2>3. \A i \in Interfaces : interfaz[i] = Ociosa /\ aMemoria[i] = <<>> /\ deMemoria[i] = <<>>
    BY <1>1 DEF Clientes
  <2> QED
    BY <2>2, <2>3 DEF Lecturas
<1> QED
  BY <1>3, <1>4, InvInicial DEF InvSalida

LEMMA SalidaPaso ==
  ASSUME ~InterrumpeLlamadas, PidenLoQueHay, InvSalida, EnSuEspacio, [Next]_vars
  PROVE  InvSalida'
<1>1. InvCiclo /\ Escrituras /\ Lecturas /\ Turnos /\ Prestado /\ Conexion /\ Pedidos
  BY DEF InvSalida, InvCiclo
<1>2. InvCiclo'
  BY <1>1, InvPaso
<1>3. CASE Next
  BY <1>1, <1>2, <1>3, EscriturasPaso, LecturasPaso DEF InvSalida
<1>4. CASE UNCHANGED vars
  <2>1. UNCHANGED <<memoriaUsuario, copia, aMemoria, deMemoria, bloqueados, cpu, respuesta, pcb_actual,
                    interfaz>>
    BY <1>4 DEF vars, kernel, procesador, memoria, canalesM, io
  <2>2. Escrituras'
    BY <1>1, <2>1 DEF Escrituras, SinEscrituras, TrasSusEscrituras
  <2>3. Lecturas'
    BY <1>1, <2>1 DEF Lecturas
  <2> QED
    BY <1>2, <2>2, <2>3 DEF InvSalida
<1> QED
  BY <1>3, <1>4

\* What interface i is working on, when it is work on memory: fragments of the process that
\* asked for it, which waits.
LEMMA DeQuienPidio ==
  ASSUME InvCiclo, NEW i \in Interfaces, interfaz[i].pc # "recv"
  PROVE  /\ interfaz[i].m.pid \in bloqueados /\ interfaz[i].m.pid \in Pids
         /\ (\/ "direcciones" \in DOMAIN interfaz[i].m
             \/ interfaz[i].cop \in {"PEDIDO_IO_STDOUT_WRITE", "PEDIDO_IO_FS_WRITE"})
            => De(interfaz[i].m.pid, interfaz[i].m.direcciones)
<1> DEFINE m == interfaz[i].m
           q == pedido[m.pid]
<1>1. Fiel(i, interfaz[i].cop, m, bloqueados, pedido)
  BY DEF InvCiclo, Pedidos, Camino, EnCamino
<1>2. m.pid \in bloqueados /\ m.pid \in Pids
  BY <1>1 DEF Fiel, InvCiclo, Turnos
<1>3. /\ Bueno(m.pid, q) /\ interfaz[i].cop = CodigoDe(q.instruccion)
      /\ q.instruccion \in InstruccionesIO
      /\ q.instruccion \in ConDirecciones <=> "direcciones" \in DOMAIN m
      /\ \A c \in DOMAIN m \ {"pid"} : m[c] = q[c]
  <2> HIDE DEF m
  <2>1. /\ Bueno(m.pid, q) /\ interfaz[i].cop = CodigoDe(q.instruccion)
        /\ q.instruccion \in ConDirecciones <=> "direcciones" \in DOMAIN m
        /\ \A c \in DOMAIN m \ {"pid"} : m[c] = q[c]
    BY <1>1 DEF Fiel
  <2> HIDE DEF q
  <2>2. q.instruccion \in InstruccionesIO
    BY <2>1 DEF Bueno
  <2> QED
    BY <2>1, <2>2
<1> HIDE DEF m, q
<1>4. interfaz[i].cop \in {"PEDIDO_IO_STDOUT_WRITE", "PEDIDO_IO_FS_WRITE"} => q.instruccion \in ConDirecciones
  BY <1>3 DEF CodigoDe, ConDirecciones, InstruccionesIO, InstruccionesDialFS
<1>5. q.instruccion \in ConDirecciones => De(m.pid, m.direcciones)
  <2> SUFFICES ASSUME q.instruccion \in ConDirecciones
               PROVE  De(m.pid, m.direcciones)
    OBVIOUS
  <2>1. De(m.pid, q.direcciones)
    BY <1>3 DEF Bueno
  <2>2. "direcciones" \in DOMAIN m \ {"pid"}
    BY <1>3
  <2>3. m["direcciones"] = q["direcciones"]
    BY <1>3, <2>2
  <2> QED
    BY <2>1, <2>3
<1>6. "direcciones" \in DOMAIN m => De(m.pid, m.direcciones)
  BY <1>3, <1>5
<1> QED
  BY <1>2, <1>4, <1>5, <1>6 DEF m

\* Bytes that are the same in two memories are read the same.
LEMMA LeenLoMismo ==
  ASSUME NEW p, NEW lista, De(p, lista), NEW mem, NEW otra, \A b \in Propias(p) : otra[b] = mem[b]
  PROVE  leer_memoria(mem, lista) = leer_memoria(otra, lista)
<1> DEFINE f == Fisicas(lista)
<1>1. f \in Seq(Propias(p))
  BY SonPropias
<1>2. /\ leer_memoria(mem, lista) = [k \in DOMAIN f |-> mem[f[k]]]
      /\ leer_memoria(otra, lista) = [k \in DOMAIN f |-> otra[f[k]]]
  BY DEF leer_memoria
<1> HIDE DEF f
<1>3. \A k \in DOMAIN f : f[k] \in Propias(p)
  BY <1>1
<1> QED
  BY <1>2, <1>3

LEMMA AlDia ==
  ASSUME InvSalida
  PROVE  SalidaAlDia
<1> SUFFICES ASSUME NEW i \in Interfaces, NEW k \in DOMAIN aMemoria[i],
                    aMemoria[i][k].cop = "PEDIDO_A_LEER_DATO_STDOUT",
                    NEW lista, lista = deserializar_direcciones_de_stdout(aMemoria[i][k].stream).direcciones
             PROVE  leer_memoria(memoriaUsuario, lista) = leer_memoria(MemoriaFutura, lista)
  BY DEF SalidaAlDia
<1>1. InvCiclo /\ Escrituras /\ Conexion
  BY DEF InvSalida, InvCiclo
<1>2. Consulta(interfaz[i], aMemoria[i], deMemoria[i])
  BY DEF InvSalida, Lecturas
<1>3. /\ interfaz[i].pc = "esperar" /\ lista = interfaz[i].m.direcciones
      /\ interfaz[i].cop \in {"PEDIDO_IO_STDOUT_WRITE", "PEDIDO_IO_FS_WRITE"}
  BY <1>2 DEF Consulta
<1> DEFINE p == interfaz[i].m.pid
<1>4. p \in bloqueados /\ p \in Pids /\ De(p, lista)
  BY <1>1, <1>3, DeQuienPidio
<1> HIDE DEF p
<1>5. \A b \in Propias(p) : MemoriaFutura[b] = memoriaUsuario[b]
  BY <1>1, <1>4, MemoriaDeQuienEspera
<1> QED
  BY <1>4, <1>5, LeenLoMismo

\* A byte of a process is in one of its pages.
LEMMA EnUnaPagina ==
  ASSUME NEW p \in Pids, NEW b \in Propias(p)
  PROVE  b \div TAM_PAGINA \in Range(Marcos[p])
<1>1. PICK m \in Range(Marcos[p]), k \in 0 .. TAM_PAGINA - 1 : b = (m * TAM_PAGINA) + k
  BY DEF Propias
<1>2. m \in Nat /\ TAM_PAGINA \in Nat \ {0}
  BY ConstantesCiclo DEF Range
<1>3. ((m * TAM_PAGINA) + k) \div TAM_PAGINA = m
  BY <1>2
<1> QED
  BY <1>1, <1>3

LEMMA EnLoSuyo ==
  ASSUME InvCiclo
  PROVE  SoloSuMemoria
<1> SUFFICES ASSUME NEW i \in Interfaces, interfaz[i].pc # "recv", "direcciones" \in DOMAIN interfaz[i].m,
                    NEW b \in Range(Fisicas(interfaz[i].m.direcciones))
             PROVE  b \div TAM_PAGINA \in Range(Marcos[interfaz[i].m.pid])
  BY DEF SoloSuMemoria
<1> DEFINE p == interfaz[i].m.pid
           f == Fisicas(interfaz[i].m.direcciones)
<1>1. p \in Pids /\ De(p, interfaz[i].m.direcciones)
  BY DeQuienPidio
<1>2. f \in Seq(Propias(p))
  BY <1>1, SonPropias
<1>3. b \in Range(f)
  OBVIOUS
<1> HIDE DEF f, p
<1>4. b \in Propias(p)
  BY <1>2, <1>3 DEF Range
<1> QED
  BY <1>1, <1>4, EnUnaPagina DEF p

\* Under the same hypotheses, what an interface reads or writes is memory of the process that
\* asked for it: the fragments traducir_direccion made of its registers are the ones that
\* arrive, and they are in its pages.
THEOREM CadaUnoLoSuyo ==
  ASSUME ~InterrumpeLlamadas, PidenLoQueHay
  PROVE  Spec /\ []EnSuEspacio => []SoloSuMemoria
<1>1. Init => InvCiclo
  BY InvInicial
<1>2. InvCiclo /\ EnSuEspacio /\ [Next]_vars => InvCiclo'
  BY InvPaso
<1>3. InvCiclo => SoloSuMemoria
  BY EnLoSuyo
<1> QED
  BY <1>1, <1>2, <1>3, PTL DEF Spec

\* Under the same hypotheses, what is printed or put in a file is what the process wrote: when
\* the interface asks memory for the bytes, no write or copy of the process's is still on the
\* CPU's connection or half done, and those of other processes are of their own bytes.
THEOREM SaleLoEscrito ==
  ASSUME ~InterrumpeLlamadas, PidenLoQueHay
  PROVE  Spec /\ []EnSuEspacio => []SalidaAlDia
<1>1. Init => InvSalida
  BY SalidaInicial
<1>2. InvSalida /\ EnSuEspacio /\ [Next]_vars => InvSalida'
  BY SalidaPaso
<1>3. InvSalida => SalidaAlDia
  BY AlDia
<1> QED
  BY <1>1, <1>2, <1>3, PTL DEF Spec
=============================================================================
