---------------------------- MODULE MCTraduccion ----------------------------
(* Small instances of Traduccion.                                           *)
EXTENDS Traduccion, TLC

Procesos == Permutations(Pids)

DatosMC == {<<1>>, <<0, 1>>}
TLBs == {[algoritmo |-> "FIFO", size_tlb |-> 0], [algoritmo |-> "FIFO", size_tlb |-> 1],
         [algoritmo |-> "LRU", size_tlb |-> 2]}
=============================================================================
