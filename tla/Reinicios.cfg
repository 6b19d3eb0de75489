SPECIFICATION Spec

CONSTANTS
  Pids = {p1, p2}
  Conexiones = {c1, c2, c3}
  NULL = NULL
  Nombres <- MCUnNombre
  TipoDe <- MCUnTipo

INVARIANTS
  ColaAlDia
  BloqueadoPorAlguien

SYMMETRY Simetria

CHECK_DEADLOCK FALSE
