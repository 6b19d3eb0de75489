SPECIFICATION SpecJusta

CONSTANTS
  MaxPid = 3
  Recursos = {"RA"}
  Interfaces = {"GENERICA"}
  ALGORITMO = "RR"
  GRADO = 1
  QUANTUM = 1
  MaxTiempo = 0
  Comandos = {"INICIAR_PROCESO","MULTIPROGRAMACION","DETENER_PLANIFICACION","INICIAR_PLANIFICACION"}
  Grados = {0,1,2}
  Retornos = {"FIN_QUANTUM","IO","FINALIZACION"}
  MaxOrdenes = 2
  MaxInstancias = 2
  Detenedores = {"d1"}
  Reanudadores = {"r1"}
  Nada = Nada
  Instancias <- UnaInstancia

INVARIANTS
  CuposExactos
  NuncaCae
PROPERTIES
  DetencionEfectiva
  AdmiteSiHayCupo
  ListoEjecuta

CHECK_DEADLOCK FALSE
