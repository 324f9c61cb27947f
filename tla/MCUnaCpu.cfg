SPECIFICATION SpecCompartidas
CONSTANTS
  c1 = c1
  CPUs = {c1}
  QuienesSeVan = {}
  MaxFusion = 1
  MaxProgramas = 4
  Quantum = 2
  Semaforos <- MCSemaforos
  ValorInicial <- MCValorInicial
  Dispositivos <- MCDispositivos
  VariablesCompartidas <- MCVariables
  Codigo <- MCCodigo
  ValorVariable <- MCValorVariable
  SinLeer <- MCSinLeer
  ValoresBasura <- MCBasura
INVARIANTS
  KernelVivo
  SemaforoCoherente
  ExclusionMutua
  CadaUnoSuStep
PROPERTIES
  TodosTerminan
  ImplementanCortoPlazo
  ImplementaPCPCpu
  CuentaTodas
CHECK_DEADLOCK FALSE
