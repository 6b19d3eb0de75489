----------------------------- MODULE UsoRecursos -----------------------------
(***************************************************************************)
(* The resources of the kernel as the processes see them.  The scheduler   *)
(* keeps `asignados' and `instancias'; `usa' records, beside them, which   *)
(* process is past a WAIT it has not undone with SIGNAL, whether it found  *)
(* an instance free or was blocked and woken up (liberar_recurso).         *)
(***************************************************************************)
EXTENDS Planificador

VARIABLES
  usa,      \* usa[p][r]: uses of r that process p is in
  abuso     \* history: a program has not been disciplined

uso == <<usa, abuso>>
SinUsos == [p \in Pids |-> [r \in Recursos |-> 0]]

UsoInit == Init /\ usa = SinUsos /\ abuso = FALSE

\* WAIT succeeds: an instance is assigned, or the process leaves the queue of
\* the resource and goes on after its WAIT.
Obtiene(p, r) ==
  \/ asignados'[p] = Append(asignados[p], r)
  \/ colaRecurso[r] # <<>> /\ Head(colaRecurso[r]) = p /\ colaRecurso'[r] = Tail(colaRecurso[r])

\* SIGNAL, by the process on the CPU
Devuelve(p, r) == corto.pc = "cpu" /\ corto.pid = p /\ instancias'[r] = instancias[r] + 1

\* A disciplined program takes a resource once, undoes only the use it is in and exits
\* outside every use.
Disciplina ==
  \A p \in Pids, r \in Recursos :
    /\ asignados'[p] = Append(asignados[p], r) \/ colaRecurso'[r] = Append(colaRecurso[r], p) =>
         usa[p][r] = 0
    /\ Devuelve(p, r) => usa[p][r] > 0
    /\ estado[p] = "EJECUTANDO" /\ estado'[p] = "FINALIZADO" => usa[p][r] = 0

\* What the others do to the uses is not followed.
UsoNext ==
  /\ Next
  /\ abuso' = (abuso \/ ~Disciplina)
  /\ usa' = IF abuso' THEN SinUsos
            ELSE [p \in Pids |-> [r \in Recursos |->
                    IF estado'[p] = "FINALIZADO" THEN 0
                    ELSE usa[p][r] + Uno(Obtiene(p, r)) - Uno(Devuelve(p, r))]]

UsoSpec == UsoInit /\ [][UsoNext]_<<vars, uso>>

\* No waiter is forgotten: while a process is queued at a resource, another is
\* using it and will release it, or a release is about to wake the first waiter
\* (manejar_recurso, liberar_recurso), although woken waiters are never counted
\* in instancias.
EsperaPorAlguien ==
  ~abuso => \A r \in Recursos :
     colaRecurso[r] # <<>> =>
       (\E p \in Pids : usa[p][r] > 0) \/ (\E h \in Hilos : marco[h].recurso = r)
=============================================================================
