---------------------------- MODULE MCInterfaces ----------------------------
(* Two connections of two interfaces or of one that is started again, and    *)
(* three runs of one interface.                                              *)
EXTENDS Interfaces, TLC

MCNombres == {"GENERICA", "TECLADO"}
MCTipoDe  == "GENERICA" :> "GENERICA" @@ "TECLADO" :> "STDIN"

MCUnNombre == {"GENERICA"}
MCUnTipo   == "GENERICA" :> "GENERICA"

\* Processes are told apart by nothing, nor are the runs of one interface.
Simetria == Permutations(Conexiones) \cup Permutations(Pids)

=============================================================================
