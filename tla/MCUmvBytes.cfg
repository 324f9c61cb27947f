SPECIFICATION Spec
CONSTANTS
  d1 = d1
  d2 = d2
  d3 = d3
  a = a
  elKernel = elKernel
  unaCpu = unaCpu
  laConsola = laConsola
  Tamanios = {2, 3}
  CANT_MEM = 5
  ANCHO = 4
  basura = basura
  Bytes = {basura, a}
  DirLogicas = {d1, d2}
  Hilos = {elKernel, unaCpu}
  Tipo <- MCTipo
  Pedidos <- MCPedidos
PROPERTY
  ImplementaMemoria
