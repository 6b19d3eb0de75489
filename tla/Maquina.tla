------------------------------- MODULE Maquina -------------------------------
(***************************************************************************)
(* What a program sees: registers and a memory of its own, and its         *)
(* instructions one after the other, each in one step.  While something it *)
(* asked an interface to read is on its way, its memory may change under   *)
(* it; at no other time, and never anybody else's.                         *)
(***************************************************************************)
EXTENDS Registros

CONSTANT Pids

VARIABLES
  programa,   \* the instructions of each process
  registros,
  espacio,    \* its bytes, from logical address 0
  pendiente,  \* an input is on its way to its memory
  fin

vars == <<programa, registros, espacio, pendiente, fin>>

Entradas  == {"IO_STDIN_READ", "IO_FS_READ"}
Salidas   == {"IO_STDOUT_WRITE", "IO_FS_WRITE"}
OtrasIO   == {"IO_GEN_SLEEP", "IO_FS_CREATE", "IO_FS_DELETE", "IO_FS_TRUNCATE"}
PideIO    == Entradas \cup Salidas \cup OtrasIO

Actual(p) == programa[p][registros[p]["PC"] + 1]

Init ==
  /\ registros = [p \in Pids |-> RegistrosNulos]
  /\ \A p \in Pids : \A b \in DOMAIN espacio[p] : espacio[p][b] = 0
  /\ pendiente = [p \in Pids |-> FALSE] /\ fin = [p \in Pids |-> FALSE]

Cambia(p, reg) == registros' = [registros EXCEPT ![p] = reg]

\* The n bytes at logical address d, and the space with other bytes there.
Tramo(p, d, n) == SubSeq(espacio[p], d + 1, d + n)
Con(p, d, b)   == [j \in DOMAIN espacio[p] |->
                     IF j \in d + 1 .. d + Len(b) THEN b[j - d] ELSE espacio[p][j]]

Paso(p) ==
  /\ ~fin[p]
  /\ LET i == Actual(p)
         reg == sumar_pc(registros[p])
         SinMemoria == UNCHANGED <<espacio, pendiente>>
     IN \/ i[1] \in Aritmeticas /\ Cambia(p, Operar(reg, i)) /\ SinMemoria
        \/ /\ i[1] = "MOV_IN"
           /\ LET b == Tramo(p, reg[i[3]], obtener_tamanio_registro(i[2]))
              IN  Cambia(p, [reg EXCEPT ![i[2]] = Valor(b)])
           /\ SinMemoria
        \/ /\ i[1] = "MOV_OUT" /\ Cambia(p, reg) /\ UNCHANGED pendiente
           /\ LET b == Bytes(reg[i[3]], obtener_tamanio_registro(i[3]))
              IN  espacio' = [espacio EXCEPT ![p] = Con(p, reg[i[2]], b)]
        \/ /\ i[1] = "COPY_STRING" /\ Cambia(p, reg) /\ UNCHANGED pendiente
           /\ espacio' = [espacio EXCEPT ![p] = Con(p, reg["DI"], Tramo(p, reg["SI"], i[2]))]
        \/ /\ i[1] \in PideIO /\ Cambia(p, reg) /\ UNCHANGED espacio
           /\ pendiente' = [pendiente EXCEPT ![p] = @ \/ i[1] \in Entradas]
  /\ UNCHANGED <<programa, fin>>

\* Bytes of an input arrive.
Entrada(p) ==
  /\ pendiente[p]
  /\ DOMAIN espacio'[p] = DOMAIN espacio[p]
  /\ \A q \in Pids \ {p} : espacio'[q] = espacio[q] /\ pendiente'[q] = pendiente[q]
  /\ UNCHANGED <<programa, registros, fin>>

\* EXIT, or an I/O that could not be done.
Salir(p) ==
  /\ ~fin[p] /\ fin' = [fin EXCEPT ![p] = TRUE]
  /\ \/ Actual(p)[1] = "EXIT"
     \/ registros[p]["PC"] > 0 /\ programa[p][registros[p]["PC"]][1] \in PideIO
  /\ \A q \in Pids \ {p} : pendiente'[q] = pendiente[q]
  /\ UNCHANGED <<programa, registros, espacio>>

Next == \E p \in Pids : Paso(p) \/ Entrada(p) \/ Salir(p)
Spec == Init /\ [][Next]_vars

=============================================================================
