--------------------------- MODULE MCPlanificador ---------------------------
(* Small instances of Planificador.                                         *)
EXTENDS Planificador

UnaInstancia == [r \in Recursos |-> 1]
=============================================================================
