-------------------------------- MODULE Umv --------------------------------
(***************************************************************************)
(* The UMV: one physical memory, the table of segments ordered by physical *)
(* address, first fit or worst fit, compaction when there is no room, and  *)
(* the threads that use them: one per connection (kernel or CPU) and the   *)
(* console. The mutex protects the table and the memory; the loops that    *)
(* run under it are taken one segment at a time.                           *)
(*                                                                         *)
(* Physical addresses count from pInicioMemoria.                           *)
(***************************************************************************)
EXTENDS Integers, Sequences, FiniteSets, SequencesExt

CONSTANTS
  CANT_MEM,      \* bytes of the memory
  ANCHO,         \* bits of an u_int32_t, fewer here; 2^ANCHO is above CANT_MEM
  Bytes,         \* values of a byte
  basura,        \* what a byte nobody wrote holds: no action looks at it
  DirLogicas,    \* what random() may return
  Hilos,         \* threads
  Tipo,          \* Hilos -> "kernel", "cpu" or "consola"
  Pedidos        \* Hilos -> requests it may get, as records
                 \* [op, pid, dir, off, tam, byte]; pid is 0 but in those of the
                 \* console and in cambioProcesoActivo

Modulo == 2^ANCHO
Direcciones == 0..(CANT_MEM - 1)
Nadie == 0          \* no thread, no program

\* What each kind of client asks for.
Ops(tipo) ==
  CASE tipo = "kernel" -> {"cambioProcesoActivo", "almacenar", "crearSegmento",
                           "destruirSegmentos"}
    [] tipo = "cpu" -> {"cambioProcesoActivo", "almacenar", "solicitar"}
    [] tipo = "consola" -> {"almacenar", "solicitar", "crearSegmento",
                            "destruirSegmentos", "compactar", "alg"}

ASSUME ParametrosUmv ==
  /\ CANT_MEM \in Nat \ {0}
  /\ ANCHO \in Nat /\ CANT_MEM < 2^ANCHO
  /\ Nadie \notin Hilos /\ Nadie \notin DirLogicas
  /\ basura \in Bytes
  /\ Tipo \in [Hilos -> {"kernel", "cpu", "consola"}]
  /\ \A h \in Hilos : \A q \in Pedidos[h] :
       /\ q.op \in Ops(Tipo[h])
       /\ q.pid \in Nat /\ q.off \in Nat /\ q.tam \in Nat
       /\ q.pid # 0 => Tipo[h] = "consola" \/ q.op = "cambioProcesoActivo"
       /\ q.op = "almacenar" => q.byte \in Bytes
       /\ q.op = "crearSegmento" => q.tam > 0

VARIABLES
  memoria,      \* address -> byte
  pSegmentos,   \* the table: [idPrograma, tamanio, dirLogica, dirFisica]
  mutex,        \* the thread that holds it, or Nadie
  ALG_MEM,      \* "FF" or "WF"
  idPrograma,   \* Hilos -> active program of the connection
  hilo          \* Hilos -> control and locals of the thread

tabla == <<memoria, pSegmentos>>
vars == <<tabla, mutex, ALG_MEM, idPrograma, hilo>>

SinPedido == [op |-> "ninguno", pid |-> 0, dir |-> 0, off |-> 0, tam |-> 0, byte |-> 0]
Resp(tipo, dir, bytes) == [tipo |-> tipo, dir |-> dir, bytes |-> bytes]
SinRespuesta == Resp("ninguna", 0, <<>>)

\* A thread: its step, its request and answer; and the locals of the loops: the
\* function that searches, is the memory compacted already, the next segment,
\* pMoviendo (or pCompactado), mayorTamanio, the address found, and nodoAux (a
\* node is known by its logical address).
Hilo(paso, pedido, respuesta) ==
  [paso |-> paso, pedido |-> pedido, respuesta |-> respuesta,
   alg |-> "FF", compactado |-> FALSE, i |-> 1, pos |-> 0, mayor |-> 0,
   fisica |-> 0, nodo |-> Nadie]

Inicio(h) == IF Tipo[h] = "consola" THEN "recv" ELSE "saludo"

Init ==
  /\ memoria = [d \in Direcciones |-> basura]
  /\ pSegmentos = <<>>
  /\ mutex = Nadie
  /\ ALG_MEM \in {"FF", "WF"}
  /\ idPrograma = [h \in Hilos |-> Nadie]
  /\ hilo = [h \in Hilos |-> Hilo(Inicio(h), SinPedido, SinRespuesta)]

Pedido(h) == hilo[h].pedido
Pid(h) == IF Tipo[h] = "consola" THEN Pedido(h).pid ELSE idPrograma[h]

Seguir(h, paso) == hilo' = [hilo EXCEPT ![h].paso = paso]
Contestar(h, r) == hilo' = [hilo EXCEPT ![h] = Hilo("enviar", @.pedido, r)]

-----------------------------------------------------------------------------
(* pfnControladorConexion and pfnConsola: requests and answers. *)

\* The handshake of a new client; then its clients send cambioProcesoActivo.
Saludar(h) ==
  /\ hilo[h].paso = "saludo"
  /\ Seguir(h, "activar")
  /\ UNCHANGED <<tabla, mutex, ALG_MEM, idPrograma>>

\* recv returns 0 or -1: the thread ends. The next client gets a new one.
Desconectar(h) ==
  /\ hilo[h].paso \in {"activar", "recv"}
  /\ Tipo[h] # "consola"
  /\ hilo' = [hilo EXCEPT ![h] = Hilo("saludo", SinPedido, SinRespuesta)]
  /\ idPrograma' = [idPrograma EXCEPT ![h] = Nadie]
  /\ UNCHANGED <<tabla, mutex, ALG_MEM>>

PasoDe(op) ==
  CASE op = "crearSegmento" -> "lock"
    [] op = "destruirSegmentos" -> "lockDestruir"
    [] op = "compactar" -> "lockCompactar"
    [] OTHER -> op

\* socket_recv and deserealizar_operacion, which is where the active program of
\* the connection changes; for the console, fgets.
Recibir(h) ==
  /\ hilo[h].paso \in {"activar", "recv"}
  /\ \E q \in Pedidos[h] :
       /\ hilo[h].paso = "activar" => q.op = "cambioProcesoActivo"
       /\ hilo' = [hilo EXCEPT ![h] = Hilo(PasoDe(q.op), q, SinRespuesta)]
       /\ idPrograma' = IF q.op = "cambioProcesoActivo"
                        THEN [idPrograma EXCEPT ![h] = q.pid] ELSE idPrograma
  /\ UNCHANGED <<tabla, mutex, ALG_MEM>>

ResponderCambio(h) ==
  /\ hilo[h].paso = "cambioProcesoActivo"
  /\ Contestar(h, Resp("OK", 0, <<>>))
  /\ UNCHANGED <<tabla, mutex, ALG_MEM, idPrograma>>

\* socket_send, or what the console prints.
Enviar(h) ==
  /\ hilo[h].paso = "enviar"
  /\ hilo' = [hilo EXCEPT ![h] = Hilo("recv", SinPedido, SinRespuesta)]
  /\ UNCHANGED <<tabla, mutex, ALG_MEM, idPrograma>>

\* fnConsolaAlgoritmo; it does not take the mutex.
CambiarAlgoritmo(h) ==
  /\ hilo[h].paso = "alg"
  /\ ALG_MEM' \in {"FF", "WF"}
  /\ Contestar(h, Resp("OK", 0, <<>>))
  /\ UNCHANGED <<tabla, mutex, idPrograma>>

-----------------------------------------------------------------------------
(* solicitarBytes and almacenarBytes: one locked section each. *)

Indices == 1..Len(pSegmentos)

\* list_find: the first segment with that program and that address.
Buscado(h) ==
  {i \in Indices : /\ pSegmentos[i].idPrograma = Pid(h)
                   /\ pSegmentos[i].dirLogica = Pedido(h).dir}

\* The bounds test, in 32 bits.
Permitido(h) ==
  \E i \in Buscado(h) :
    /\ \A j \in Buscado(h) : i <= j
    /\ (Pedido(h).tam + Pedido(h).off) % Modulo <= pSegmentos[i].tamanio

Segmento(h) == pSegmentos[CHOOSE i \in Buscado(h) : \A j \in Buscado(h) : i <= j]

\* The physical address of the k-th byte asked for.
Direccion(h, k) == (Segmento(h).dirFisica + Pedido(h).off + k) % Modulo

SolicitarBytes(h) ==
  /\ hilo[h].paso = "solicitar"
  /\ mutex = Nadie
  /\ Contestar(h,
       IF Permitido(h)
       THEN Resp("bytesSolicitados", Nadie,
              [k \in 0..(Pedido(h).tam - 1) |->
                 IF Direccion(h, k) \in Direcciones
                 THEN memoria[Direccion(h, k)] ELSE basura])
       ELSE Resp("segmentation_fault", Nadie, <<>>))
  /\ UNCHANGED <<tabla, mutex, ALG_MEM, idPrograma>>

AlmacenarBytes(h) ==
  /\ hilo[h].paso = "almacenar"
  /\ mutex = Nadie
  /\ IF Permitido(h)
     THEN /\ memoria' = [d \in Direcciones |->
               IF \E k \in 0..(Pedido(h).tam - 1) : d = Direccion(h, k)
               THEN Pedido(h).byte ELSE memoria[d]]
          /\ Contestar(h, Resp("OK", Nadie, <<>>))
     ELSE /\ Contestar(h, Resp("segmentation_fault", Nadie, <<>>))
          /\ UNCHANGED memoria
  /\ UNCHANGED <<pSegmentos, mutex, ALG_MEM, idPrograma>>

-----------------------------------------------------------------------------
(* generarSegmento and buscarEspacio. A loop starts with its locals as Hilo has
   them, and locals that are not read again go back to that. *)

\* The lock, and buscarEspacio, which reads the algorithm.
Lock(h) ==
  /\ hilo[h].paso = "lock"
  /\ mutex = Nadie
  /\ mutex' = h
  /\ hilo' = [hilo EXCEPT ![h].paso = "buscar", ![h].alg = ALG_MEM]
  /\ UNCHANGED <<tabla, ALG_MEM, idPrograma>>

\* The free bytes the inner loop counts from pos on. It stops at the segment, or
\* at the end of the memory when the segment is behind.
Hueco(pos, dir) == IF pos <= dir THEN dir - pos ELSE CANT_MEM - pos

\* CANT_MEM - posicion, which is unsigned.
Resto(pos) == IF pos <= CANT_MEM THEN CANT_MEM - pos ELSE Modulo + CANT_MEM - pos

QuedanNodos(h) == hilo[h].pos # CANT_MEM /\ hilo[h].i <= Len(pSegmentos)

Avanzar(h, pos, mayor, fisica) ==
  hilo' = [hilo EXCEPT ![h].i = @ + 1, ![h].pos = pos, ![h].mayor = mayor,
                       ![h].fisica = fisica]
Encontrar(h, fisica) ==
  hilo' = [hilo EXCEPT ![h] = [Hilo("insertar", @.pedido, SinRespuesta) EXCEPT
                                 !.alg = hilo[h].alg, !.fisica = fisica]]

EntraFF(libre, tam) == ~(libre < tam)

NodoFF(h) ==
  /\ hilo[h].paso = "buscar" /\ hilo[h].alg = "FF"
  /\ QuedanNodos(h)
  /\ LET nodo == pSegmentos[hilo[h].i]
         libre == Hueco(hilo[h].pos, nodo.dirFisica) IN
     \/ /\ EntraFF(libre, Pedido(h).tam)
        /\ Encontrar(h, hilo[h].pos)
     \/ /\ ~EntraFF(libre, Pedido(h).tam)
        /\ Avanzar(h, hilo[h].pos + libre + nodo.tamanio, 0, 0)
  /\ UNCHANGED <<tabla, mutex, ALG_MEM, idPrograma>>

NodoWF(h) ==
  /\ hilo[h].paso = "buscar" /\ hilo[h].alg = "WF"
  /\ QuedanNodos(h)
  /\ LET nodo == pSegmentos[hilo[h].i]
         libre == Hueco(hilo[h].pos, nodo.dirFisica)
         sigue == hilo[h].pos + libre + nodo.tamanio IN
     \/ /\ libre > hilo[h].mayor
        /\ Avanzar(h, sigue, libre, hilo[h].pos)
     \/ /\ libre <= hilo[h].mayor
        /\ Avanzar(h, sigue, hilo[h].mayor, hilo[h].fisica)
  /\ UNCHANGED <<tabla, mutex, ALG_MEM, idPrograma>>

\* Mutated: the free bytes at the end of the memory are forgotten.
SinElFinal(h) == [tamanio |-> hilo[h].mayor, fisica |-> hilo[h].fisica]

\* After the last segment: the free bytes at the end. What the search returns.
TrasElUltimo(h) ==
  LET resto == Resto(hilo[h].pos) IN
  IF hilo[h].alg = "FF" THEN [tamanio |-> resto, fisica |-> hilo[h].pos]
  ELSE IF resto >= hilo[h].mayor THEN [tamanio |-> resto, fisica |-> hilo[h].pos]
  ELSE [tamanio |-> hilo[h].mayor, fisica |-> hilo[h].fisica]

FinBusqueda(h) ==
  /\ hilo[h].paso = "buscar" /\ ~QuedanNodos(h)
  /\ TrasElUltimo(h).tamanio >= Pedido(h).tam
  /\ Encontrar(h, TrasElUltimo(h).fisica)
  /\ UNCHANGED <<tabla, mutex, ALG_MEM, idPrograma>>

\* NULL the first time: unlock and compact.
SinLugar(h) ==
  /\ hilo[h].paso = "buscar" /\ ~QuedanNodos(h)
  /\ TrasElUltimo(h).tamanio < Pedido(h).tam
  /\ ~hilo[h].compactado
  /\ mutex' = Nadie
  /\ hilo' = [hilo EXCEPT ![h] = Hilo("lockCompactar", @.pedido, SinRespuesta)]
  /\ UNCHANGED <<tabla, ALG_MEM, idPrograma>>

\* NULL again.
MemoryOverload(h) ==
  /\ hilo[h].paso = "buscar" /\ ~QuedanNodos(h)
  /\ TrasElUltimo(h).tamanio < Pedido(h).tam
  /\ hilo[h].compactado
  /\ mutex' = Nadie
  /\ Contestar(h, Resp("memory_overload", Nadie, <<>>))
  /\ UNCHANGED <<tabla, ALG_MEM, idPrograma>>

\* Mutated: the new segment goes to the end.
PosicionAlFinal(fisica) == Len(pSegmentos) + 1

\* The table is ordered by physical address: the new segment goes before the
\* first that is after it.
Posicion(fisica) ==
  CHOOSE k \in 1..(Len(pSegmentos) + 1) :
    /\ \A j \in 1..(k - 1) : ~(fisica < pSegmentos[j].dirFisica)
    /\ k \in Indices => fisica < pSegmentos[k].dirFisica

\* generarDireccionLogica draws until the address is of no segment.
Libres == {d \in DirLogicas : \A i \in Indices : pSegmentos[i].dirLogica # d}

InsertarSegmento(h) ==
  /\ hilo[h].paso = "insertar"
  /\ \E d \in Libres :
       /\ pSegmentos' = InsertAt(pSegmentos, Posicion(hilo[h].fisica),
            [idPrograma |-> Pid(h), tamanio |-> Pedido(h).tam, dirLogica |-> d,
             dirFisica |-> hilo[h].fisica])
       /\ hilo' = [hilo EXCEPT ![h] =
            [Hilo("responder", @.pedido, SinRespuesta) EXCEPT !.nodo = d]]
  /\ mutex' = Nadie
  /\ UNCHANGED <<memoria, ALG_MEM, idPrograma>>

\* The address is read after the unlock: if the node has been freed meanwhile it
\* may be any.
ResponderCreado(h) ==
  /\ hilo[h].paso = "responder"
  /\ \E d \in DirLogicas :
       /\ hilo[h].nodo \notin Libres => d = hilo[h].nodo
       /\ Contestar(h, Resp("segmentoCreado", d, <<>>))
  /\ UNCHANGED <<tabla, mutex, ALG_MEM, idPrograma>>

-----------------------------------------------------------------------------
(* fnCompactar, for generarSegmento and for the console. *)

LockCompactar(h) ==
  /\ hilo[h].paso = "lockCompactar"
  /\ mutex = Nadie
  /\ mutex' = h
  /\ hilo' = [hilo EXCEPT ![h].paso = "compactar"]
  /\ UNCHANGED <<tabla, ALG_MEM, idPrograma>>

\* Mutated: the last byte of the segment is not copied.
CopiadoSinUltimo(desde, hasta, tam) ==
  [d \in Direcciones |->
     IF d \in hasta..(hasta + tam - 2) THEN memoria[d - hasta + desde] ELSE memoria[d]]

\* The bytes of a segment are copied to pCompactado in increasing order.
Copiado(desde, hasta, tam) ==
  [d \in Direcciones |->
     IF d \in hasta..(hasta + tam - 1) THEN memoria[d - hasta + desde] ELSE memoria[d]]

\* Mutated: pCompactado is one byte after the end of the segment.
CompactadoConHueco(h, seg) == hilo[h].pos + seg.tamanio + 1

\* pCompactado, after the segment.
Compactado(h, seg) == hilo[h].pos + seg.tamanio

MoverSegmento(h) ==
  /\ hilo[h].paso = "compactar"
  /\ hilo[h].i <= Len(pSegmentos)
  /\ LET seg == pSegmentos[hilo[h].i] IN
     /\ memoria' = Copiado(seg.dirFisica, hilo[h].pos, seg.tamanio)
     /\ pSegmentos' = [pSegmentos EXCEPT ![hilo[h].i].dirFisica = hilo[h].pos]
     /\ Avanzar(h, Compactado(h, seg), hilo[h].mayor, hilo[h].fisica)
  /\ UNCHANGED <<mutex, ALG_MEM, idPrograma>>

\* The unlock: the console is done, generarSegmento locks and searches again.
FinCompactar(h) ==
  /\ hilo[h].paso = "compactar"
  /\ hilo[h].i > Len(pSegmentos)
  /\ mutex' = Nadie
  /\ IF Pedido(h).op = "compactar"
     THEN Contestar(h, Resp("OK", Nadie, <<>>))
     ELSE hilo' = [hilo EXCEPT ![h] =
            [Hilo("lock", @.pedido, SinRespuesta) EXCEPT !.compactado = TRUE]]
  /\ UNCHANGED <<tabla, ALG_MEM, idPrograma>>

-----------------------------------------------------------------------------
(* eliminarSegmentos. *)

LockDestruir(h) ==
  /\ hilo[h].paso = "lockDestruir"
  /\ mutex = Nadie
  /\ mutex' = h
  /\ Seguir(h, "destruir")
  /\ UNCHANGED <<tabla, ALG_MEM, idPrograma>>

\* Mutated: the program of the segment is not looked at.
DeCualquiera(pid) == Indices

DelPrograma(pid) == {i \in Indices : pSegmentos[i].idPrograma = pid}

QuitarSegmento(h) ==
  /\ hilo[h].paso = "destruir"
  /\ \E k \in DelPrograma(Pid(h)) :
       /\ \A j \in DelPrograma(Pid(h)) : k <= j
       /\ pSegmentos' = RemoveAt(pSegmentos, k)
  /\ UNCHANGED <<memoria, mutex, ALG_MEM, idPrograma, hilo>>

FinDestruir(h) ==
  /\ hilo[h].paso = "destruir"
  /\ DelPrograma(Pid(h)) = {}
  /\ mutex' = Nadie
  /\ Contestar(h, Resp("OK", Nadie, <<>>))
  /\ UNCHANGED <<tabla, ALG_MEM, idPrograma>>

-----------------------------------------------------------------------------
(* The console's dump: it holds the mutex and changes nothing, so what it shows
   is a function of the table. *)

\* Mutated: the pointer does not skip the segment.
MostrarSinSaltear(s, nodo) ==
  LET libre == Hueco(s.pos, nodo.dirFisica) IN
  [pos |-> s.pos + libre,
   libres |-> IF libre > 0 THEN Append(s.libres, <<s.pos, libre>>) ELSE s.libres]

\* One node of the loop: the free bytes before it, if there are any.
MostrarNodo(s, nodo) ==
  LET libre == Hueco(s.pos, nodo.dirFisica) IN
  [pos |-> s.pos + libre + nodo.tamanio,
   libres |-> IF libre > 0 THEN Append(s.libres, <<s.pos, libre>>) ELSE s.libres]

\* The loop after k nodes. It stops at the end of the memory.
Mostrado[k \in 0..Len(pSegmentos)] ==
  IF k = 0 THEN [pos |-> 0, libres |-> <<>>]
  ELSE IF Mostrado[k - 1].pos = CANT_MEM THEN Mostrado[k - 1]
  ELSE MostrarNodo(Mostrado[k - 1], pSegmentos[k])

\* The blocks shown, as <<base, size>>. The base shown for the last one is still
\* that of the previous one, or not initialized: 0 here.
fnMostrarEspaciosLibre ==
  LET s == Mostrado[Len(pSegmentos)]
      base == IF s.libres = <<>> THEN 0 ELSE s.libres[Len(s.libres)][1] IN
  IF s.pos < CANT_MEM THEN Append(s.libres, <<base, CANT_MEM - s.pos>>) ELSE s.libres

-----------------------------------------------------------------------------
Paso(h) ==
  \/ Saludar(h) \/ ResponderCambio(h) \/ Enviar(h) \/ CambiarAlgoritmo(h)
  \/ SolicitarBytes(h) \/ AlmacenarBytes(h)
  \/ Lock(h) \/ NodoFF(h) \/ NodoWF(h) \/ FinBusqueda(h) \/ SinLugar(h)
  \/ MemoryOverload(h) \/ InsertarSegmento(h) \/ ResponderCreado(h)
  \/ LockCompactar(h) \/ MoverSegmento(h) \/ FinCompactar(h)
  \/ LockDestruir(h) \/ QuitarSegmento(h) \/ FinDestruir(h)

Next == \E h \in Hilos : Recibir(h) \/ Desconectar(h) \/ Paso(h)

Spec == Init /\ [][Next]_vars

-----------------------------------------------------------------------------
(* Properties. *)

\* Every variable has its type.
TypeOK ==
  /\ memoria \in [Direcciones -> Bytes]
  /\ \A i \in Indices :
       pSegmentos[i] \in [idPrograma : Nat, tamanio : Nat, dirLogica : DirLogicas,
                          dirFisica : Nat]
  /\ mutex \in Hilos \cup {Nadie}
  /\ ALG_MEM \in {"FF", "WF"}
  /\ idPrograma \in [Hilos -> Nat]
  /\ \A h \in Hilos : hilo[h].i \in Nat /\ hilo[h].pos \in 0..CANT_MEM

\* Whatever the order of creations, destructions and compactions, in the middle
\* of a compaction too, the segments are in the memory, disjoint and in order:
\* what both searches and the compaction take for granted.
TablaEnRegla ==
  /\ \A i \in Indices : pSegmentos[i].dirFisica + pSegmentos[i].tamanio <= CANT_MEM
  /\ \A i, j \in Indices : i < j =>
       /\ pSegmentos[i].dirFisica + pSegmentos[i].tamanio <= pSegmentos[j].dirFisica
       /\ pSegmentos[i].dirLogica # pSegmentos[j].dirLogica

\* Reference definition of the search: the gaps are the maximal free runs.
Ocupadas == UNION {pSegmentos[i].dirFisica..
                   (pSegmentos[i].dirFisica + pSegmentos[i].tamanio - 1) : i \in Indices}
Huecos ==
  {g \in Direcciones \X (1..CANT_MEM) :
     LET libre == g[1]..(g[1] + g[2] - 1) IN
     /\ libre \subseteq Direcciones \ Ocupadas
     /\ (g[1] - 1) \notin Direcciones \ Ocupadas
     /\ (g[1] + g[2]) \notin Direcciones \ Ocupadas}
Sirven(tam) == {g \in Huecos : g[2] >= tam}

\* What the one-pass loops find is what first fit and worst fit mean: the first
\* gap that is big enough, or one of the biggest; and they find one when there
\* is one.
EspacioCorrecto ==
  \A h \in Hilos :
    /\ hilo[h].paso = "insertar" =>
         \E g \in Sirven(Pedido(h).tam) :
           /\ g[1] = hilo[h].fisica
           /\ \A otro \in Sirven(Pedido(h).tam) :
                IF hilo[h].alg = "FF" THEN g[1] <= otro[1] ELSE g[2] >= otro[2]
    /\ (hilo[h].paso = "buscar" /\ ~QuedanNodos(h)
        /\ TrasElUltimo(h).tamanio < Pedido(h).tam) => Sirven(Pedido(h).tam) = {}

\* Whenever the console can take the mutex, dump shows each free block once, with
\* its size; and its base, except for the one at the end of the memory.
DumpVeraz ==
  mutex = Nadie =>
    LET muestra == fnMostrarEspaciosLibre IN
    /\ Len(muestra) = Cardinality(Huecos)
    /\ \A g \in Huecos : \E k \in DOMAIN muestra :
         /\ muestra[k][2] = g[2]
         /\ muestra[k][1] = g[1] \/ (k = Len(muestra) /\ g[1] + g[2] = CANT_MEM)

\* The thread that has created a segment reads its address after the unlock: the
\* node is still in the table, whatever the others create, destroy and compact
\* meanwhile, unless they destroy the segments of its program.
NodoVivo ==
  \A h \in Hilos : hilo[h].paso = "responder" => hilo[h].nodo \notin Libres

\* When fnCompactar unlocks, the same segments are in the same order from the
\* start of the memory on, with no gap between them.
CompactarJunta ==
  [][\A h \in Hilos : FinCompactar(h) =>
       /\ Len(pSegmentos) > 0 => pSegmentos[1].dirFisica = 0
       /\ \A i \in Indices : i > 1 =>
            pSegmentos[i].dirFisica = pSegmentos[i - 1].dirFisica
                                        + pSegmentos[i - 1].tamanio]_vars

\* The comments of generarSegmento: the memory is compacted if there is no room,
\* and memory overload is notified if there is still none. So no request that
\* fits in the free bytes is answered so.
OverloadSiNoHayLugar ==
  [][\A h \in Hilos : MemoryOverload(h) =>
       Cardinality(Direcciones \ Ocupadas) < Pedido(h).tam]_vars

-----------------------------------------------------------------------------
(* What the theorems ask of the requests. *)

\* No request goes beyond what 32 bits count.
SinDesborde == \A h \in Hilos : \A q \in Pedidos[h] : q.off + q.tam < Modulo

\* Nobody destroys the segments of a program while another answers that it has
\* created one for it.
SinCruces ==
  \A g, h \in Hilos :
    hilo[g].paso = "destruir" /\ hilo[h].paso = "responder" => Pid(g) # Pid(h)

-----------------------------------------------------------------------------
(* The abstract memory. *)

Contenido(d) ==
  IF d \in Libres THEN [pid |-> 0, bytes |-> <<>>]
  ELSE LET s == pSegmentos[CHOOSE i \in Indices : pSegmentos[i].dirLogica = d] IN
       [pid |-> s.idPrograma,
        bytes |-> [k \in 0..(s.tamanio - 1) |-> memoria[s.dirFisica + k]]]

\* A segment is created when it is in the table, although the answer comes later.
Respuesta(h) ==
  IF hilo[h].paso = "responder" THEN Resp("segmentoCreado", hilo[h].nodo, <<>>)
  ELSE hilo[h].respuesta

Mem == INSTANCE Memoria WITH
  Capacidad <- CANT_MEM,
  contenido <- [d \in DirLogicas |-> Contenido(d)],
  proceso <- idPrograma,
  pedido <- [h \in Hilos |-> Pedido(h)],
  respuesta <- [h \in Hilos |-> Respuesta(h)]

\* Fragmentation, compaction and the order in which threads take the mutex are
\* invisible: bytes change only when they are written, a program reaches its own
\* segments only, and every request is answered as of one instant.
ImplementaMemoria == Mem!SpecM

=============================================================================
