SPECIFICATION SpecJusta

CONSTANTS
  Pids = {p1, p2}
  Conexiones = {c1, c2}
  NULL = NULL
  Nombres <- MCNombres
  TipoDe <- MCTipoDe

INVARIANTS
  LlegaALaPedida
  NuncaCae
PROPERTIES
  Contesta

CHECK_DEADLOCK FALSE
