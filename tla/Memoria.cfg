SPECIFICATION SpecJusta

CONSTANTS
  Pids = {p1, p2}
  NULL = NULL
  CANT_MARCOS = 3
  TAM_PAGINA = 2
  Tamanios = {0, 2, 4}

INVARIANTS
  TypeOK
  MarcoUnico
  SiempreHayMarco
  SinFugas
  PaginasAlcanzan
  NuncaCae
PROPERTIES
  Contesta

CHECK_DEADLOCK FALSE
