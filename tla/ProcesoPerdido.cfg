SPECIFICATION Spec

CONSTANTS
  Pids = {p1, p2}
  NULL = NULL
  ALGORITMO = "RR"
  MaxInterrupciones = 2
  MaxMuertes = 0
  QuantumLargo = TRUE

INVARIANTS
  MotivoConocido

CHECK_DEADLOCK FALSE
