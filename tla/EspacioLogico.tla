---------------------------- MODULE EspacioLogico ----------------------------
(***************************************************************************)
(* What the CPU and the memory promise a program: an array of bytes of its *)
(* own, that RESIZE lengthens or cuts at the end and that only its own     *)
(* MOV_OUT writes, byte by byte where it says.                             *)
(***************************************************************************)
EXTENDS Integers, SequencesExt

CONSTANTS Pids, NULL

VARIABLES
  espacio,   \* the bytes of each process
  orden,     \* the access under way: [pid, op, dir, datos]
  registro   \* what the last access, a MOV_IN, read

logico == <<espacio, orden, registro>>

SinOrden == [pid |-> NULL, op |-> "ninguna", dir |-> 0, datos |-> <<>>]

Init == espacio = [p \in Pids |-> <<>>] /\ orden = SinOrden /\ registro = <<>>

\* s with the bytes d from position dir (from 0)
Escrito(s, dir, d) == [i \in 1 .. Len(s) |-> IF i - dir \in 1 .. Len(d) THEN d[i - dir] ELSE s[i]]

Ordenar == /\ orden = SinOrden /\ orden'.pid \in Pids /\ orden'.op \in {"MOV_IN", "MOV_OUT"}
           /\ registro' = <<>> /\ UNCHANGED espacio

MovOut == /\ orden.op = "MOV_OUT" /\ orden' = SinOrden
          /\ espacio' = [espacio EXCEPT ![orden.pid] = Escrito(@, orden.dir, orden.datos)]
          /\ UNCHANGED registro

MovIn == /\ orden.op = "MOV_IN" /\ orden' = SinOrden
         /\ registro' = SubSeq(espacio[orden.pid], orden.dir + 1, orden.dir + Len(orden.datos))
         /\ UNCHANGED espacio

\* RESIZE, and the end of a process
Redimensionar(p) == /\ \A q \in Pids \ {p} : espacio'[q] = espacio[q]
                    /\ IsPrefix(espacio[p], espacio'[p]) \/ IsPrefix(espacio'[p], espacio[p])
                    /\ UNCHANGED <<orden, registro>>

Next == Ordenar \/ MovOut \/ MovIn \/ \E p \in Pids : Redimensionar(p)

Spec == Init /\ [][Next]_logico
==============================================================================
