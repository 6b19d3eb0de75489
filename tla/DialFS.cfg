SPECIFICATION Spec

CONSTANTS
  Archivos = {f1, f2, f3}
  BLOCK_COUNT = 8
  BLOCK_SIZE = 2
  Tamanios = {1, 7}
  NoExiste = NoExiste
  SinClaves = SinClaves
  MaxEscritos = 1

INVARIANTS
  TypeOK
  SinFugas
  ListaAlDia
PROPERTIES
  ContenidoIntacto
  SoloSinLugar

SYMMETRY Nombres

CHECK_DEADLOCK FALSE
