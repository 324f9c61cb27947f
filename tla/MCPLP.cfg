SPECIFICATION SpecJusta
CONSTANTS
  h1 = h1
  h2 = h2
  MaxProgramas = 3
  MULTIPROGRAMACION = 1
  Hilos <- MCHilos
  Metadatos <- MCMetadatos
INVARIANTS
  TypeOK
  GradoConservado
  SinPromocionPerdida
  ExitConPrograma
  SegmentosEnRegla
PROPERTIES
  TodosRespondidos
  ImplementaLargoPlazo
CHECK_DEADLOCK FALSE
