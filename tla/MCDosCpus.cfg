SPECIFICATION SpecJusta
CONSTANTS
  c1 = c1
  c2 = c2
  CPUs = {c1, c2}
  QuienesSeVan = {}
  MaxFusion = 1
  MaxProgramas = 3
  Quantum = 2
  Semaforos <- MCSemaforos
  ValorInicial <- MCValorInicial
  Dispositivos <- MCDispositivos
  VariablesCompartidas = {}
  Codigo <- MCCodigo
INVARIANTS
  TypeOK
  UnSoloLugar
  ReadyContado
  SinRetroceso
PROPERTIES
  SoloNullDeReady
  NadieSeEstanca
  ImplementaCortoPlazo
CHECK_DEADLOCK FALSE
