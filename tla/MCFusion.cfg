SPECIFICATION SpecJusta
CONSTANTS
  c1 = c1
  c2 = c2
  CPUs = {c1}
  QuienesSeVan = {}
  MaxFusion = 2
  MaxProgramas = 2
  Quantum = 2
  Semaforos = {"aviso"}
  ValorInicial <- UnSemaforo
  Dispositivos = {}
  VariablesCompartidas = {}
  Codigo <- EsperaYAviso
PROPERTY
  TodosTerminan
CHECK_DEADLOCK FALSE
