SPECIFICATION SpecJusta

CONSTANTS
  Pids <- MCPids
  NULL = NULL
  BYTE = 4
  ANCHO = 2
  Programas <- MCProgramas
  TipoDe <- MCTipoDe
  TAM_PAGINA = 2
  Marcos <- MCMarcos
  Textos <- MCTextos
  TAM_ARCHIVO = 4
  MaxInterrupciones = 1
  InterrumpeLlamadas = FALSE

INVARIANTS
  LlegaLoPedido
  SalidaAlDia
PROPERTIES
  CadaUnoSuMaquina
  Termina

CHECK_DEADLOCK FALSE
