SPECIFICATION Spec
CONSTANTS
  c1 = c1
  c2 = c2
  CPUs = {c1, c2}
  QuienesSeVan = {}
  MaxFusion = 1
  MaxProgramas = 2
  Quantum = 2
  Semaforos = {"aviso"}
  ValorInicial <- UnSemaforo
  Dispositivos = {}
  VariablesCompartidas = {}
  Codigo <- DosEsperas
INVARIANT
  SemaforoCoherente
CHECK_DEADLOCK FALSE
