SPECIFICATION SpecJusta

CONSTANTS
  Pids = {p1, p2}
  NULL = NULL
  ALGORITMO = "RR"
  MaxInterrupciones = 1
  MaxMuertes = 1
  QuantumLargo = TRUE

INVARIANTS
  TypeOK
  RespuestaUnica
  PedidoAtendido
PROPERTIES
  CumplePrestamo
  SiempreVuelve

CHECK_DEADLOCK FALSE
