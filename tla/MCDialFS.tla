------------------------------ MODULE MCDialFS ------------------------------
(* Small instances of DialFS.                                               *)
EXTENDS DialFS, TLC

Nombres == Permutations(Archivos)
=============================================================================
