SPECIFICATION Spec
CONSTANTS
  a = a
  b = b
  c = c
  d = d
  e = e
  f = f
  g = g
  i = i
  p = p
  r = r
  t = t
  x = x
  y = y
  A = A
  p0 = p0
  p1 = p1
  basura <- MCBasura
  segmentoStack = 20
  ANCHO = 9
  Parametros <- MCParametros
  Programas <- MCProgramas
INVARIANTS
  TypeOK
  DiccionarioAlDia
PROPERTY
  ImplementaLlamadas
CHECK_DEADLOCK FALSE
