----------------------------- MODULE MCMemoria -----------------------------
(* Small instances of Memoria.                                              *)
EXTENDS Memoria
============================================================================
