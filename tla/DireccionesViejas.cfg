SPECIFICATION Spec

CONSTANTS
  Pids <- MCPids
  NULL = NULL
  BYTE = 4
  ANCHO = 2
  Programas <- MCTecladoYCopia
  TipoDe <- MCTipoDe
  TAM_PAGINA = 2
  Marcos <- MCMarcos
  Textos <- MCTextos
  TAM_ARCHIVO = 4
  MaxInterrupciones = 1
  InterrumpeLlamadas = TRUE

INVARIANT
  SoloSuMemoria

CHECK_DEADLOCK FALSE
