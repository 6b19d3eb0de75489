------------------------------ MODULE Prestamo ------------------------------
(***************************************************************************)
(* What the dispatch connection between the kernel and the CPU promises:   *)
(* one process at a time is lent to the CPU (ejecutar_PCB), the CPU gives  *)
(* that same process back once, and only then is another one lent.         *)
(***************************************************************************)
CONSTANTS Pids, NULL

VARIABLES
  fase,       \* "libre", "prestado", "devuelto"
  pid,        \* the process lent
  devuelto    \* the process the CPU's answer names

prestamo == <<fase, pid, devuelto>>

Init == fase = "libre" /\ pid = NULL /\ devuelto = NULL

Prestar(p) == /\ fase = "libre" /\ fase' = "prestado"
              /\ pid' = p /\ UNCHANGED devuelto

Devolver == /\ fase = "prestado" /\ fase' = "devuelto"
            /\ devuelto' = pid /\ UNCHANGED pid

Recuperar == /\ fase = "devuelto" /\ fase' = "libre"
             /\ pid' = NULL /\ devuelto' = NULL

Next == (\E p \in Pids : Prestar(p)) \/ Devolver \/ Recuperar

Spec == Init /\ [][Next]_prestamo
=============================================================================
