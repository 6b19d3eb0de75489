------------------------------ MODULE Mensajes ------------------------------
(***************************************************************************)
(* The messages of the four programs: how each serializar_* lays the       *)
(* fields out in the stream of a packet and how the reader takes them from *)
(* it.  Nothing in a stream says what a field is: the reader must know the *)
(* writer's order.                                                         *)
(*                                                                         *)
(* A stream is a sequence of fields.  A string is one field, and so is a    *)
(* list of physical addresses: both go with their length in front.  Where   *)
(* a message has no room for the length, the list is its pairs and the      *)
(* reader counts them from the size of the packet.                          *)
(***************************************************************************)
EXTENDS Integers, Sequences, SequencesExt, TLC

\* The memcpy's of a writer, in order, and those of a reader.
Serializar(campos, m) == [i \in DOMAIN campos |-> m[campos[i]]]
Deserializar(campos, stream) ==
  [c \in Range(campos) |-> stream[CHOOSE i \in DOMAIN campos : campos[i] = c]]

\* A list without its length.
Pares(lista) ==
  [k \in 1 .. 2 * Len(lista) |-> IF k % 2 = 1 THEN lista[(k + 1) \div 2].direccion_fisica
                                 ELSE lista[k \div 2].tamanio]
Lista(s, n) == [i \in 1 .. n |-> [direccion_fisica |-> s[2*i - 1], tamanio |-> s[2*i]]]

\* The fields of m and those of n that m does not have.
Junto(m, n) == [c \in DOMAIN m \cup DOMAIN n |-> IF c \in DOMAIN m THEN m[c] ELSE n[c]]

Paquete(cop, stream) == [cop |-> cop, stream |-> stream]

-----------------------------------------------------------------------------
(* Processes: pcb.c, and the same fields at the head of every request the   *)
(* CPU sends.  The state and the counters of quantum travel with them.      *)

PCB == <<"pid", "registros", "motivo_desalojo">>

enviar_pcb(pcb) == Paquete("PCB", Serializar(PCB, pcb))

\* Mutant: the packet's registers are not taken.
deserializar_pcb_SinRegistros(s) ==
  [Deserializar(PCB, s) EXCEPT !.registros = [r \in DOMAIN @ |-> 0]]

deserializar_pcb(s) == Deserializar(PCB, s)

-----------------------------------------------------------------------------
(* Requests of I/O, from the CPU to the kernel.  The kernel's readers leave *)
(* the request in global variables, and add the addresses to a global list. *)

enviar_interfaz_IO(m) ==
  Paquete("ENVIAR_INTERFAZ",
          Serializar(PCB \o <<"unidades_de_trabajo", "nombre_interfaz", "instruccion">>, m))

enviar_interfaz_IO_stdin(m) ==
  Paquete("ENVIAR_INTERFAZ_STDIN",
          Serializar(PCB \o <<"nombre_interfaz", "instruccion", "direcciones">>, m))

enviar_interfaz_IO_stdout(m) ==
  Paquete("ENVIAR_INTERFAZ_STDOUT",
          Serializar(PCB \o <<"nombre_interfaz", "instruccion", "direcciones">>, m))

enviar_fs_create_delete(m) ==
  Paquete("FS_CREATE_DELETE",
          Serializar(PCB \o <<"nombre_interfaz", "nombre_archivo", "instruccion">>, m))

enviar_fs_truncate(m) ==
  Paquete("FS_TRUNCATE", Serializar(PCB \o <<"nombre_interfaz", "nombre_archivo", "tamanio">>, m))

enviar_interfaz_fs_write_read(m) ==
  Paquete("FS_WRITE_READ",
          Serializar(PCB \o <<"nombre_interfaz", "nombre_archivo", "direcciones", "tamanio",
                              "puntero", "instruccion">>, m))

\* What a reader leaves in the kernel: the fields of the process and the globals g, the
\* list of addresses with the new ones at its end.
Guardar(g, m) ==
  [pcb |-> [c \in Range(PCB) |-> m[c]],
   g   |-> [c \in DOMAIN g |-> IF c \notin DOMAIN m THEN g[c]
                               ELSE IF c = "direcciones" THEN g[c] \o m[c] ELSE m[c]]]

deserializar_pcb_para_interfaz(g, s) ==
  Guardar(g, Deserializar(PCB \o <<"unidades_de_trabajo", "nombre_interfaz", "instruccion">>, s))

deserializar_pcb_para_interfaz_stdin(g, s) ==
  Guardar(g, Deserializar(PCB \o <<"nombre_interfaz", "instruccion", "direcciones">>, s))

deserializar_pcb_fs_create_delete(g, s) ==
  Guardar(g, Deserializar(PCB \o <<"nombre_interfaz", "nombre_archivo", "instruccion">>, s))

deserializar_pcb_fs_truncate(g, s) ==
  Guardar(g, Junto(Deserializar(PCB \o <<"nombre_interfaz", "nombre_archivo", "tamanio">>, s),
                   [instruccion |-> "IO_FS_TRUNCATE"]))

deserializar_pcb_fs_write_read(g, s) ==
  Guardar(g, Deserializar(PCB \o <<"nombre_interfaz", "nombre_archivo", "direcciones", "tamanio",
                                   "puntero", "instruccion">>, s))

-----------------------------------------------------------------------------
(* Requests from the kernel to the interfaces, and their answers.           *)

enviar_InterfazGenerica(m) ==
  Paquete("PEDIDO_IO_GEN_SLEEP", Serializar(<<"unidades_de_trabajo", "pid", "nombre_interfaz">>, m))
deserializar_InterfazGenerica(s) == Deserializar(<<"unidades_de_trabajo", "pid", "nombre_interfaz">>, s)
enviar_InterfazGenericaConCodigoOP(m) ==
  Paquete("FINALIZACION_INTERFAZ", Serializar(<<"unidades_de_trabajo", "pid", "nombre_interfaz">>, m))

enviar_InterfazStdin(m) ==
  Paquete("PEDIDO_IO_STDIN_READ", Serializar(<<"pid", "nombre_interfaz", "direcciones">>, m))
deserializar_InterfazStdin(s) == Deserializar(<<"pid", "nombre_interfaz", "direcciones">>, s)
enviar_InterfazStdinConCodigoOPaKernel(m) ==
  Paquete("FINALIZACION_INTERFAZ_STDIN", Serializar(<<"pid", "nombre_interfaz", "direcciones">>, m))

enviar_InterfazStdout(m) ==
  Paquete("PEDIDO_IO_STDOUT_WRITE", Serializar(<<"pid", "nombre_interfaz", "direcciones">>, m))
deserializar_InterfazStdout(s) == Deserializar(<<"pid", "nombre_interfaz", "direcciones">>, s)
enviar_InterfazStdoutConCodigoOPaKernel(m) ==
  Paquete("FINALIZACION_INTERFAZ_STDOUT", Serializar(<<"pid", "nombre_interfaz", "direcciones">>, m))

enviar_interfaz_dialFS_create_delete(m) ==
  Paquete(IF m.instruccion = "IO_FS_CREATE" THEN "PEDIDO_IO_FS_CREATE" ELSE "PEDIDO_IO_FS_DELETE",
          Serializar(<<"pid", "nombre_archivo", "nombre_interfaz">>, m))
deserializar_interfaz_dialfs_create_delete(s) ==
  Deserializar(<<"pid", "nombre_archivo", "nombre_interfaz">>, s)

enviar_interfaz_dialFS_truncate(m) ==
  Paquete("PEDIDO_IO_FS_TRUNCATE",
          Serializar(<<"pid", "nombre_archivo", "nombre_interfaz", "tamanio">>, m))
deserializar_interfaz_dialfs_truncate(s) ==
  Deserializar(<<"pid", "nombre_archivo", "nombre_interfaz", "tamanio">>, s)

enviar_interfaz_dialFS_write_read(m) ==
  Paquete(IF m.instruccion = "IO_FS_WRITE" THEN "PEDIDO_IO_FS_WRITE" ELSE "PEDIDO_IO_FS_READ",
          Serializar(<<"pid", "nombre_archivo", "nombre_interfaz", "tamanio", "direcciones", "puntero">>, m))
deserializar_interfaz_dialfs_write_read(s) ==
  Deserializar(<<"pid", "nombre_archivo", "nombre_interfaz", "tamanio", "direcciones", "puntero">>, s)

deserializar_InterfazDialfs(cop, s) ==
  CASE cop \in {"PEDIDO_IO_FS_CREATE", "PEDIDO_IO_FS_DELETE"} -> deserializar_interfaz_dialfs_create_delete(s)
    [] cop = "PEDIDO_IO_FS_TRUNCATE" -> deserializar_interfaz_dialfs_truncate(s)
    [] OTHER -> deserializar_interfaz_dialfs_write_read(s)

enviar_dialfs_terminado(m) ==
  Paquete("FINALIZACION_INTERFAZ_DIALFS", Serializar(<<"pid", "nombre_interfaz">>, m))
deserializar_InterfazDialfs_terminada(s) == Deserializar(<<"pid", "nombre_interfaz">>, s)

-----------------------------------------------------------------------------
(* Requests to memory, from the CPU and the interfaces, and their answers.  *)

pedir_instruccion_memoria(pid, pc) == Paquete("PEDIDO_INSTRUCCION", <<pid, pc>>)
deserializar_pedido_instruccion(s) == Deserializar(<<"pid", "pc">>, s)

\* serializar_instruccion: the name, the lengths of the five parameters and the parameters.
enviar_instruccion(i) == Paquete("INSTRUCCION", i)
deserializar_instruccion(s) == s

\* MOV_IN: pairs, and no count; the packet's size gives it.
enviar_valor_mov_in_cpu(lista, pid) ==
  [cop |-> "PEDIDO_MOV_IN", stream |-> Pares(lista) \o <<pid>>, size |-> 8 * Len(lista) + 4]
deserializar_datos_mov_in(p) ==
  LET n == (p.size - 4) \div 8
  IN  [direcciones |-> Lista(p.stream, n), pid |-> p.stream[2*n + 1]]

\* MOV_OUT: pairs, one byte that says how wide the value is, the value and the pid.  The
\* reader's count does not subtract the value: the division drops it.
enviar_valor_mov_out_cpu(lista, valor, pid, es8bits) ==
  [cop |-> "PEDIDO_MOV_OUT", stream |-> Pares(lista) \o <<es8bits, valor, pid>>,
   size |-> 8 * Len(lista) + 4 + 1 + (IF es8bits THEN 1 ELSE 4)]
deserializar_datos_mov_out(p) ==
  LET n == (p.size - 5) \div 8
  IN  [direcciones |-> Lista(p.stream, n), es8bits |-> p.stream[2*n + 1],
       valor |-> p.stream[2*n + 2], pid |-> p.stream[2*n + 3]]

\* The answer to MOV_IN: the bytes of each fragment, and then all of them.
enviar_dato_movIn(fragmentos, valor) ==
  Paquete("RESPUESTA_DATO_MOVIN", <<Len(fragmentos)>> \o fragmentos \o <<valor>>)
deserializar_dato_movIN(s) == s[s[1] + 2]

enviar_datos_copy_string(m) ==
  Paquete("PEDIDO_COPY_STRING", Serializar(<<"escritura", "lectura", "tamanio", "pid">>, m))
deserializar_datos_copystring(s) == Deserializar(<<"escritura", "lectura", "tamanio", "pid">>, s)

\* strlen: what an interface writes to memory or reads from it ends at its first zero byte.
HastaCero(dato) ==
  LET ceros == {i \in DOMAIN dato : dato[i] = 0}
  IN  IF ceros = {} THEN dato ELSE SubSeq(dato, 1, (CHOOSE i \in ceros : \A j \in ceros : i <= j) - 1)

enviar_dato_stdin(m) ==
  Paquete("PEDIDO_ESCRIBIR_DATO_STDIN",
          Serializar(<<"dato", "direcciones", "pid">>, [m EXCEPT !.dato = HastaCero(@)]))
deserializar_dato_interfaz_STDIN(s) == Deserializar(<<"dato", "direcciones", "pid">>, s)

enviar_direcciones_stdout(m) ==
  Paquete("PEDIDO_A_LEER_DATO_STDOUT", Serializar(<<"direcciones", "pid">>, m))
deserializar_direcciones_de_stdout(s) == Deserializar(<<"direcciones", "pid">>, s)

enviar_dato_leido(dato) == Paquete("RESPUESTA_DATO_STDOUT", <<HastaCero(dato)>>)
deserializar_dato_interfaz_STDOUT(s) == Head(s)

=============================================================================
