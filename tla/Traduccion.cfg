SPECIFICATION SpecTraduccion

CONSTANTS
  Pids = {p1, p2}
  NULL = NULL
  CANT_MARCOS = 4
  TAM_PAGINA = 2
  Tamanios = {3}
  ConfiguracionesTLB <- TLBs
  Datos <- DatosMC
  PuedeEncoger = FALSE
  MaxReloj = 1
  MaxAccesos = 2

INVARIANTS
  TLBAlDia
PROPERTIES
  EspacioPropio

SYMMETRY Procesos

CHECK_DEADLOCK FALSE
