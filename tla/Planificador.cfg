SPECIFICATION UsoSpec

CONSTANTS
  MaxPid = 2
  Recursos = {"RA"}
  Interfaces = {"GENERICA"}
  ALGORITMO = "VRR"
  GRADO = 2
  QUANTUM = 2
  MaxTiempo = 2
  Comandos = {"INICIAR_PROCESO"}
  Grados = {}
  Retornos = {"FIN_QUANTUM","WAIT","SIGNAL","IO","IO_INVALIDA","FINALIZACION"}
  MaxOrdenes = 0
  MaxInstancias = 2
  Detenedores = {"d1"}
  Reanudadores = {"r1"}
  Nada = Nada
  Instancias <- UnaInstancia

INVARIANTS
  TypeOK
  UnLugar
  EsperaUnica
  EsperaPorAlguien

CHECK_DEADLOCK FALSE
