----------------------------- MODULE MCDespacho -----------------------------
(* Small instances of Despacho.                                             *)
EXTENDS Despacho
=============================================================================
