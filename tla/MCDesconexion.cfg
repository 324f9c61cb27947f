SPECIFICATION Spec
CONSTANTS
  c1 = c1
  c2 = c2
  CPUs = {c1}
  QuienesSeVan = {c1}
  MaxFusion = 1
  MaxProgramas = 2
  Quantum = 2
  Semaforos = {"aviso"}
  ValorInicial <- UnSemaforo
  Dispositivos = {}
  VariablesCompartidas = {}
  Codigo <- SoloCalculo
INVARIANT
  TerminaElQueTermino
CHECK_DEADLOCK FALSE
