---------------------------- MODULE MCUsoRecursos ----------------------------
EXTENDS UsoRecursos

UnaInstancia == [r \in Recursos |-> 1]
=============================================================================
