SPECIFICATION Spec

CONSTANTS
  MaxPid = 2
  Recursos = {"RA"}
  Interfaces = {"GENERICA"}
  ALGORITMO = "RR"
  GRADO = 1
  QUANTUM = 1
  MaxTiempo = 0
  Comandos = {"INICIAR_PROCESO","FINALIZAR_PROCESO","DETENER_PLANIFICACION","INICIAR_PLANIFICACION"}
  Grados = {}
  Retornos = {"FIN_QUANTUM","WAIT","SIGNAL","IO","FINALIZACION","FINALIZACION_CONSOLA","RECURSO_INEXISTENTE","DESCONOCIDO"}
  MaxOrdenes = 2
  MaxInstancias = 2
  Detenedores = {"d1"}
  Reanudadores = {"r1"}
  Nada = Nada
  Instancias <- UnaInstancia

INVARIANTS
  AvisosReady
  CuposNoPerdidos
  InstanciasNoPerdidas

CHECK_DEADLOCK FALSE
