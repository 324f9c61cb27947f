------------------------------ MODULE Memoria ------------------------------
(***************************************************************************)
(* What the UMV promises to its clients, without physical addresses,       *)
(* compaction or locks: a store of segments, each of one program, whose    *)
(* bytes change only when they are written, and which answers each request *)
(* once, as of one instant between the request and the answer.             *)
(***************************************************************************)
EXTENDS Integers, FiniteSets

CONSTANTS Hilos,       \* who sends requests
          Pedidos,     \* Hilos -> the requests it may send
          DirLogicas,  \* logical addresses
          Bytes,       \* values of a byte
          Capacidad    \* bytes in all

VARIABLES contenido,   \* logical address -> Nada, or the segment's program and bytes
          proceso,     \* Hilos -> the active program of the connection
          pedido,      \* Hilos -> the request being served
          respuesta    \* Hilos -> the answer to it

varsM == <<contenido, proceso, pedido, respuesta>>

Nada == [pid |-> 0, bytes |-> <<>>]
SinPedido == [op |-> "ninguno", pid |-> 0, dir |-> 0, off |-> 0, tam |-> 0, byte |-> 0]
Resp(tipo, dir, bytes) == [tipo |-> tipo, dir |-> dir, bytes |-> bytes]
SinRespuesta == Resp("ninguna", 0, <<>>)

Hay == {d \in DirLogicas : contenido[d] # Nada}
Tam(d) == Cardinality(DOMAIN contenido[d].bytes)
Ocupado == Cardinality({x \in Hay \X (0..Capacidad) : x[2] < Tam(x[1])})

InitM ==
  /\ contenido = [d \in DirLogicas |-> Nada]
  /\ proceso = [h \in Hilos |-> 0]
  /\ pedido = [h \in Hilos |-> SinPedido]
  /\ respuesta = [h \in Hilos |-> SinRespuesta]

\* A console's request names its program; a connection works for its active one.
Pid(h) == IF pedido[h].pid # 0 THEN pedido[h].pid ELSE proceso[h]

Contestar(h, r) ==
  /\ pedido[h].op # "ninguno"
  /\ respuesta[h] = SinRespuesta
  /\ respuesta' = [respuesta EXCEPT ![h] = r]
  /\ UNCHANGED <<proceso, pedido>>

Pedir(h) ==
  /\ pedido[h] = SinPedido
  /\ \E q \in Pedidos[h] :
       /\ pedido' = [pedido EXCEPT ![h] = q]
       /\ proceso' = IF q.op = "cambioProcesoActivo"
                     THEN [proceso EXCEPT ![h] = q.pid] ELSE proceso
  /\ UNCHANGED <<contenido, respuesta>>

Recibido(h) ==
  /\ respuesta[h] # SinRespuesta
  /\ pedido' = [pedido EXCEPT ![h] = SinPedido]
  /\ respuesta' = [respuesta EXCEPT ![h] = SinRespuesta]
  /\ UNCHANGED <<contenido, proceso>>

Desconectado(h) ==
  /\ pedido[h] = SinPedido
  /\ proceso' = [proceso EXCEPT ![h] = 0]
  /\ UNCHANGED <<contenido, pedido, respuesta>>

\* A new segment has a new address, its size is reserved, and what it holds at
\* first is anything.
Crear(h) ==
  /\ pedido[h].op = "crearSegmento"
  /\ Ocupado + pedido[h].tam <= Capacidad
  /\ \E d \in DirLogicas \ Hay :
       /\ Contestar(h, Resp("segmentoCreado", d, <<>>))
       /\ \E b \in [0..(pedido[h].tam - 1) -> Bytes] :
            contenido' = [contenido EXCEPT ![d] = [pid |-> Pid(h), bytes |-> b]]

NoCrear(h) ==
  /\ pedido[h].op = "crearSegmento"
  /\ Contestar(h, Resp("memory_overload", 0, <<>>))
  /\ UNCHANGED contenido

\* The bytes a request is about, and whether they are the program's.
Tramo(q) == q.off..(q.off + q.tam - 1)
Propio(h) ==
  LET q == pedido[h] IN
  /\ q.dir \in Hay
  /\ contenido[q.dir].pid = Pid(h)
  /\ q.off + q.tam <= Tam(q.dir)

Leer(h) ==
  /\ pedido[h].op = "solicitar"
  /\ UNCHANGED contenido
  /\ LET q == pedido[h] IN
     IF Propio(h)
     THEN Contestar(h, Resp("bytesSolicitados", 0,
            [k \in 0..(q.tam - 1) |-> contenido[q.dir].bytes[q.off + k]]))
     ELSE Contestar(h, Resp("segmentation_fault", 0, <<>>))

Escribir(h) ==
  /\ pedido[h].op = "almacenar"
  /\ LET q == pedido[h] IN
     IF Propio(h)
     THEN /\ Contestar(h, Resp("OK", 0, <<>>))
          /\ contenido' = [contenido EXCEPT ![q.dir].bytes =
               [k \in DOMAIN @ |-> IF k \in Tramo(q) THEN q.byte ELSE @[k]]]
     ELSE /\ Contestar(h, Resp("segmentation_fault", 0, <<>>))
          /\ UNCHANGED contenido

\* Segments leave one at a time; the answer comes when the program has none.
Quitar(h) ==
  /\ pedido[h].op = "destruirSegmentos"
  /\ \E d \in Hay : /\ contenido[d].pid = Pid(h)
                    /\ contenido' = [contenido EXCEPT ![d] = Nada]
  /\ UNCHANGED <<proceso, pedido, respuesta>>

NoQuedan(h) ==
  /\ pedido[h].op = "destruirSegmentos"
  /\ \A d \in Hay : contenido[d].pid # Pid(h)
  /\ Contestar(h, Resp("OK", 0, <<>>))
  /\ UNCHANGED contenido

\* Requests that are not about what the memory holds.
Aceptar(h) ==
  /\ pedido[h].op \in {"cambioProcesoActivo", "compactar", "alg"}
  /\ Contestar(h, Resp("OK", 0, <<>>))
  /\ UNCHANGED contenido

NextM ==
  \E h \in Hilos :
    \/ Pedir(h) \/ Recibido(h) \/ Desconectado(h)
    \/ Crear(h) \/ NoCrear(h) \/ Leer(h) \/ Escribir(h)
    \/ Quitar(h) \/ NoQuedan(h) \/ Aceptar(h)

SpecM == InitM /\ [][NextM]_varsM

=============================================================================
