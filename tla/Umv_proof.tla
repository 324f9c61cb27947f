----------------------------- MODULE Umv_proof -----------------------------
(***************************************************************************)
(* Proofs about Umv, for any memory, threads and requests: types, and the   *)
(* table of segments in order and disjoint whatever the threads do, which   *)
(* rests on what the loops have seen of it so far; what the searches of     *)
(* room find, and what the console shows of the memory; and that Umv        *)
(* implements the abstract memory.                                          *)
(***************************************************************************)
EXTENDS Umv, SequenceTheorems, FiniteSetTheorems, WellFoundedInduction, TLAPS

-----------------------------------------------------------------------------
(* Facts about sequences and numbers. *)

\* A set of naturals that is not empty has a least element.
LEMMA MinimoNatural ==
  ASSUME NEW T, T \subseteq Nat, T # {}
  PROVE  \E x \in T : \A y \in T : x <= y
<1>1. \E x \in T : \A y \in T : ~(<<y, x>> \in OpToRel(<, Nat))
  BY NatLessThanWellFounded, WFMin
<1>2. PICK x \in T : \A y \in T : ~(<<y, x>> \in OpToRel(<, Nat))
  BY <1>1
<1>3. \A y \in T : ~(<<y, x>> \in Nat \X Nat /\ y < x)
  BY <1>2, Zenon DEF OpToRel
<1>4. ASSUME NEW y \in T PROVE x <= y
  <2>1. x \in Nat /\ y \in Nat
    OBVIOUS
  <2>2. ~(y < x)
    BY <1>3, <2>1, Zenon
  <2> QED
    BY <2>1, <2>2
<1> QED
  BY <1>4

\* A part of a sequence, by length and element.
LEMMA Parte ==
  ASSUME NEW S, NEW s \in Seq(S), NEW a \in 1..(Len(s) + 1), NEW b \in (a - 1)..Len(s)
  PROVE  /\ SubSeq(s, a, b) \in Seq(S)
         /\ Len(SubSeq(s, a, b)) = b - a + 1
         /\ \A j \in 1..(b - a + 1) : SubSeq(s, a, b)[j] = s[a + j - 1]
OBVIOUS

\* InsertAt puts an element between those before the position and the others.
LEMMA Insertada ==
  ASSUME NEW S, NEW s \in Seq(S), NEW k \in 1..(Len(s) + 1), NEW e \in S
  PROVE  /\ InsertAt(s, k, e) \in Seq(S)
         /\ Len(InsertAt(s, k, e)) = Len(s) + 1
         /\ \A j \in 1..(k - 1) : InsertAt(s, k, e)[j] = s[j]
         /\ InsertAt(s, k, e)[k] = e
         /\ \A j \in (k + 1)..(Len(s) + 1) : InsertAt(s, k, e)[j] = s[j - 1]
<1> DEFINE izq == SubSeq(s, 1, k - 1)
           der == SubSeq(s, k, Len(s))
           medio == izq \o <<e>>
           todo == medio \o der
<1>1. /\ izq \in Seq(S) /\ Len(izq) = k - 1
      /\ \A j \in 1..(k - 1) : izq[j] = s[j]
  BY Parte
<1>2. /\ der \in Seq(S) /\ Len(der) = Len(s) - k + 1
      /\ \A j \in 1..(Len(s) - k + 1) : der[j] = s[k + j - 1]
  BY Parte
<1>3. <<e>> \in Seq(S) /\ Len(<<e>>) = 1 /\ <<e>>[1] = e
  OBVIOUS
<1> HIDE DEF izq, der
<1>4. /\ medio \in Seq(S) /\ Len(medio) = Len(izq) + Len(<<e>>)
      /\ \A j \in 1..Len(izq) : medio[j] = izq[j]
      /\ \A j \in 1..Len(<<e>>) : medio[Len(izq) + j] = <<e>>[j]
  <2>1. izq \in Seq(S) /\ <<e>> \in Seq(S)
    BY <1>1, <1>3
  <2> QED
    BY <2>1
<1> HIDE DEF medio
<1>5. /\ Len(medio) = k
      /\ \A j \in 1..(k - 1) : medio[j] = s[j]
  BY <1>1, <1>3, <1>4
<1>6. medio[k] = e
  <2>1. medio[Len(izq) + 1] = <<e>>[1]
    BY <1>3, <1>4
  <2> QED
    BY <2>1, <1>1, <1>3
<1>7. /\ todo \in Seq(S) /\ Len(todo) = Len(medio) + Len(der)
      /\ \A j \in 1..Len(medio) : todo[j] = medio[j]
      /\ \A j \in 1..Len(der) : todo[Len(medio) + j] = der[j]
  <2>1. medio \in Seq(S) /\ der \in Seq(S)
    BY <1>2, <1>4
  <2> QED
    BY <2>1
<1> HIDE DEF todo
<1>8. /\ Len(todo) = Len(s) + 1
      /\ \A j \in 1..(k - 1) : todo[j] = s[j]
      /\ todo[k] = e
  BY <1>2, <1>5, <1>6, <1>7
<1>9. ASSUME NEW j \in (k + 1)..(Len(s) + 1)
      PROVE  todo[j] = s[j - 1]
  <2>1. j - k \in 1..(Len(s) - k + 1) /\ k + (j - k) - 1 = j - 1 /\ k + (j - k) = j
    OBVIOUS
  <2>2. der[j - k] = s[j - 1]
    BY <1>2, <2>1
  <2>3. todo[k + (j - k)] = der[j - k]
    BY <1>2, <1>5, <1>7, <2>1
  <2> QED
    BY <2>1, <2>2, <2>3
<1>10. InsertAt(s, k, e) = todo
  BY Zenon DEF InsertAt, todo, medio, izq, der
<1> QED
  BY <1>7, <1>8, <1>9, <1>10

\* RemoveAt leaves out one element and moves those after it.
LEMMA Quitada ==
  ASSUME NEW S, NEW s \in Seq(S), NEW k \in 1..Len(s)
  PROVE  /\ RemoveAt(s, k) \in Seq(S)
         /\ Len(RemoveAt(s, k)) = Len(s) - 1
         /\ \A j \in 1..(k - 1) : RemoveAt(s, k)[j] = s[j]
         /\ \A j \in k..(Len(s) - 1) : RemoveAt(s, k)[j] = s[j + 1]
<1> DEFINE izq == SubSeq(s, 1, k - 1)
           der == SubSeq(s, k + 1, Len(s))
           todo == izq \o der
<1>1. /\ izq \in Seq(S) /\ Len(izq) = k - 1
      /\ \A j \in 1..(k - 1) : izq[j] = s[j]
  BY Parte
<1>2. /\ der \in Seq(S) /\ Len(der) = Len(s) - k
      /\ \A j \in 1..(Len(s) - k) : der[j] = s[k + j]
  BY Parte
<1> HIDE DEF izq, der
<1>3. /\ todo \in Seq(S) /\ Len(todo) = Len(izq) + Len(der)
      /\ \A j \in 1..Len(izq) : todo[j] = izq[j]
      /\ \A j \in 1..Len(der) : todo[Len(izq) + j] = der[j]
  <2>1. izq \in Seq(S) /\ der \in Seq(S)
    BY <1>1, <1>2
  <2> QED
    BY <2>1
<1> HIDE DEF todo
<1>4. /\ Len(todo) = Len(s) - 1
      /\ \A j \in 1..(k - 1) : todo[j] = s[j]
  BY <1>1, <1>2, <1>3
<1>5. ASSUME NEW j \in k..(Len(s) - 1)
      PROVE  todo[j] = s[j + 1]
  <2>1. j - k + 1 \in 1..(Len(s) - k) /\ k + (j - k + 1) = j + 1 /\ k - 1 + (j - k + 1) = j
    OBVIOUS
  <2>2. der[j - k + 1] = s[j + 1]
    BY <1>2, <2>1
  <2>3. todo[k - 1 + (j - k + 1)] = der[j - k + 1]
    BY <1>1, <1>2, <1>3, <2>1
  <2> QED
    BY <2>1, <2>2, <2>3
<1>6. RemoveAt(s, k) = todo
  BY Zenon DEF RemoveAt, todo, izq, der
<1> QED
  BY <1>3, <1>4, <1>5, <1>6

-----------------------------------------------------------------------------
(* The invariant. *)

SegmentoT == [idPrograma : Nat, tamanio : Nat \ {0}, dirLogica : DirLogicas, dirFisica : Nat]

PedidoT == {SinPedido} \cup UNION {Pedidos[h] : h \in Hilos}
Largos == {q.tam : q \in PedidoT}
TiposRespuesta == {"ninguna", "OK", "segmentoCreado", "bytesSolicitados",
                   "segmentation_fault", "memory_overload"}
RespuestaT == [tipo : TiposRespuesta, dir : DirLogicas \cup {Nadie},
               bytes : {<<>>} \cup UNION {[0..(n - 1) -> Bytes] : n \in Largos}]
Pasos == {"saludo", "activar", "recv", "enviar", "cambioProcesoActivo", "solicitar",
          "almacenar", "alg", "lock", "buscar", "insertar", "responder",
          "lockCompactar", "compactar", "lockDestruir", "destruir"}
HiloT == [paso : Pasos, pedido : PedidoT, respuesta : RespuestaT, alg : {"FF", "WF"},
          compactado : BOOLEAN, i : Nat, pos : Nat, mayor : Nat, fisica : Nat,
          nodo : DirLogicas \cup {Nadie}]

Tipos ==
  /\ memoria \in [Direcciones -> Bytes]
  /\ pSegmentos \in Seq(SegmentoT)
  /\ mutex \in Hilos \cup {Nadie}
  /\ ALG_MEM \in {"FF", "WF"}
  /\ idPrograma \in [Hilos -> Nat]
  /\ hilo \in [Hilos -> HiloT]

\* The mutex is held exactly in the steps of the locked loops, a step serves the
\* request it is for, and a loop starts with its locals clear.
EnSeccion == {"buscar", "insertar", "compactar", "destruir"}
Control(h) ==
  /\ Pedido(h) \in Pedidos[h] \cup {SinPedido}
  /\ hilo[h].paso \in EnSeccion <=> mutex = h
  /\ hilo[h].paso \in {"lock", "buscar", "insertar"} => Pedido(h).op = "crearSegmento"
  /\ hilo[h].paso \in {"lockCompactar", "compactar"} =>
       Pedido(h).op \in {"crearSegmento", "compactar"}
  /\ hilo[h].paso = "almacenar" => Pedido(h).op = "almacenar"
  /\ hilo[h].paso \notin {"buscar", "compactar"} =>
       hilo[h].i = 1 /\ hilo[h].pos = 0 /\ hilo[h].mayor = 0

\* The end of a segment; segment 0 ends where the memory begins.
FinDe(k) == IF k = 0 THEN 0 ELSE pSegmentos[k].dirFisica + pSegmentos[k].tamanio

\* Those n bytes are in the memory and of no segment.
Libre(d, n) ==
  /\ d + n <= CANT_MEM
  /\ \A j \in Indices :
       \/ pSegmentos[j].dirFisica + pSegmentos[j].tamanio <= d
       \/ d + n <= pSegmentos[j].dirFisica

\* What a loop has done so far: it stands at the end of a segment, the space it
\* keeps is free, and the segments it has moved are together.
Avance(h) ==
  /\ hilo[h].paso \in {"buscar", "compactar"} =>
       hilo[h].i \in 1..(Len(pSegmentos) + 1) /\ hilo[h].pos = FinDe(hilo[h].i - 1)
  /\ hilo[h].paso = "buscar" /\ hilo[h].mayor > 0 => Libre(hilo[h].fisica, hilo[h].mayor)
  /\ hilo[h].paso = "insertar" => Libre(hilo[h].fisica, Pedido(h).tam)
  /\ hilo[h].paso = "compactar" =>
       \A j \in 1..(hilo[h].i - 1) : pSegmentos[j].dirFisica = FinDe(j - 1)

InvUmv ==
  /\ Tipos
  /\ \A h \in Hilos : Control(h)
  /\ TablaEnRegla
  /\ \A h \in Hilos : Avance(h)

-----------------------------------------------------------------------------
(* Types. *)

\* A thread with its locals clear is one.
LEMMA HiloTipo ==
  ASSUME NEW p \in Pasos, NEW q \in PedidoT, NEW r \in RespuestaT
  PROVE  /\ Hilo(p, q, r) \in HiloT
         /\ Hilo(p, q, r).paso = p
         /\ Hilo(p, q, r).pedido = q
         /\ Hilo(p, q, r).i = 1 /\ Hilo(p, q, r).pos = 0 /\ Hilo(p, q, r).mayor = 0
BY DEF Hilo, HiloT, Nadie

\* The answers without bytes.
LEMMA RespuestaTipo ==
  ASSUME NEW p \in TiposRespuesta, NEW d \in DirLogicas \cup {Nadie}
  PROVE  Resp(p, d, <<>>) \in RespuestaT
BY DEF Resp, RespuestaT

\* The empty answer too.
LEMMA SinRespuestaTipo == SinRespuesta \in RespuestaT
BY RespuestaTipo DEF SinRespuesta, TiposRespuesta, Nadie

\* What is asked of the memory.
LEMMA PedidoTipo ==
  ASSUME NEW h \in Hilos, NEW q \in Pedidos[h] \cup {SinPedido}
  PROVE  /\ q \in PedidoT
         /\ q.tam \in Largos /\ q.tam \in Nat /\ q.pid \in Nat
         /\ q.op = "almacenar" => q.byte \in Bytes
         /\ q.op = "crearSegmento" => q.tam > 0
BY ParametrosUmv DEF PedidoT, Largos, SinPedido

\* Replacing a thread by another.
LEMMA HiloCambia ==
  ASSUME hilo \in [Hilos -> HiloT], NEW h \in Hilos, NEW r \in HiloT,
         hilo' = [hilo EXCEPT ![h] = r]
  PROVE  /\ hilo' \in [Hilos -> HiloT]
         /\ hilo'[h] = r
         /\ \A g \in Hilos \ {h} : hilo'[g] = hilo[g]
OBVIOUS

\* The initial state.
LEMMA InitInv == Init => InvUmv
<1> SUFFICES ASSUME Init PROVE InvUmv
  OBVIOUS
<1>1. \A h \in Hilos : hilo[h] = Hilo(Inicio(h), SinPedido, SinRespuesta)
  BY DEF Init
<1>2. \A h \in Hilos : Inicio(h) = "recv" \/ Inicio(h) = "saludo"
  BY DEF Inicio
<1>3. Tipos
  <2>1. memoria \in [Direcciones -> Bytes]
    BY ParametrosUmv DEF Init
  <2>2. pSegmentos \in Seq(SegmentoT)
    BY DEF Init
  <2>3. \A h \in Hilos : hilo[h] \in HiloT
    BY <1>1, <1>2, HiloTipo, SinRespuestaTipo DEF PedidoT, Pasos
  <2>4. hilo \in [Hilos -> HiloT]
    BY <2>3 DEF Init
  <2> QED
    BY <2>1, <2>2, <2>4 DEF Init, Tipos, Nadie
<1>4. ASSUME NEW h \in Hilos PROVE Control(h)
  BY <1>1, <1>2, ParametrosUmv
  DEF Control, Pedido, Init, Hilo, EnSeccion, SinPedido, Nadie
<1>5. TablaEnRegla
  BY DEF Init, TablaEnRegla, Indices
<1>6. ASSUME NEW h \in Hilos PROVE Avance(h)
  <2>1. hilo[h].paso = Inicio(h)
    BY <1>1, <1>2, HiloTipo, SinRespuestaTipo DEF PedidoT, Pasos
  <2>2. hilo[h].paso \notin {"buscar", "compactar", "insertar"}
    BY <1>2, <2>1
  <2> QED
    BY <2>2 DEF Avance
<1> QED
  BY <1>3, <1>4, <1>5, <1>6 DEF InvUmv

-----------------------------------------------------------------------------
(* The table. *)

\* What is known of a segment.
LEMMA Segmentos ==
  ASSUME Tipos, TablaEnRegla
  PROVE  /\ Len(pSegmentos) \in Nat /\ CANT_MEM \in Nat
         /\ \A j \in Indices :
              /\ pSegmentos[j] \in SegmentoT
              /\ pSegmentos[j].dirFisica \in Nat /\ pSegmentos[j].tamanio \in Nat
              /\ pSegmentos[j].tamanio > 0
              /\ pSegmentos[j].dirFisica + pSegmentos[j].tamanio <= CANT_MEM
<1>1. pSegmentos \in Seq(SegmentoT)
  BY DEF Tipos
<1>2. \A j \in Indices : pSegmentos[j] \in SegmentoT
  BY <1>1 DEF Indices
<1>3. \A x \in SegmentoT : x.dirFisica \in Nat /\ x.tamanio \in Nat /\ x.tamanio > 0
  BY DEF SegmentoT
<1> QED
  BY <1>1, <1>2, <1>3, ParametrosUmv DEF TablaEnRegla

\* The end of the k-th segment divides the table in two.
LEMMA Orden ==
  ASSUME Tipos, TablaEnRegla, NEW k \in 0..Len(pSegmentos)
  PROVE  /\ FinDe(k) \in 0..CANT_MEM
         /\ \A j \in Indices : j <= k =>
              pSegmentos[j].dirFisica + pSegmentos[j].tamanio <= FinDe(k)
         /\ \A j \in Indices : k < j => FinDe(k) <= pSegmentos[j].dirFisica
<1>1. CASE k = 0
  BY <1>1, Segmentos DEF FinDe, Indices
<1>2. CASE k # 0
  <2>1. k \in Indices /\ FinDe(k) = pSegmentos[k].dirFisica + pSegmentos[k].tamanio
    BY <1>2, Segmentos DEF FinDe, Indices
  <2>2. FinDe(k) \in 0..CANT_MEM
    BY <2>1, Segmentos
  <2>3. ASSUME NEW j \in Indices, j <= k
        PROVE  pSegmentos[j].dirFisica + pSegmentos[j].tamanio <= FinDe(k)
    <3>1. CASE j = k
      BY <3>1, <2>1, Segmentos
    <3>2. CASE j < k
      <4>1. pSegmentos[j].dirFisica + pSegmentos[j].tamanio <= pSegmentos[k].dirFisica
        BY <3>2, <2>1 DEF TablaEnRegla
      <4>2. /\ pSegmentos[k].dirFisica \in Nat /\ pSegmentos[k].tamanio \in Nat
            /\ pSegmentos[j].dirFisica \in Nat /\ pSegmentos[j].tamanio \in Nat
        BY <2>1, Segmentos
      <4> QED
        BY <4>1, <4>2, <2>1
    <3> QED
      BY <2>3, <3>1, <3>2 DEF Indices
  <2>4. ASSUME NEW j \in Indices, k < j
        PROVE  FinDe(k) <= pSegmentos[j].dirFisica
    BY <2>1, <2>4 DEF TablaEnRegla
  <2> QED
    BY <2>2, <2>3, <2>4
<1> QED
  BY <1>1, <1>2

\* What is between a segment and the one before it is free.
LEMMA LibreAntes ==
  ASSUME Tipos, TablaEnRegla, NEW k \in Indices
  PROVE  Libre(FinDe(k - 1), pSegmentos[k].dirFisica - FinDe(k - 1))
<1> DEFINE desde == FinDe(k - 1)
           hasta == pSegmentos[k].dirFisica
<1>1. k - 1 \in 0..Len(pSegmentos) /\ k - 1 < k
  BY Segmentos DEF Indices
<1>2. desde \in Nat /\ hasta \in Nat /\ desde + (hasta - desde) = hasta
  BY <1>1, Orden, Segmentos
<1>3. hasta <= CANT_MEM
  BY Segmentos
<1>4. ASSUME NEW j \in Indices
      PROVE  \/ pSegmentos[j].dirFisica + pSegmentos[j].tamanio <= desde
             \/ hasta <= pSegmentos[j].dirFisica
  <2>1. CASE j <= k - 1
    BY <2>1, <1>1, Orden
  <2>2. CASE j = k
    BY <2>2, Segmentos
  <2>3. CASE k < j
    <3>1. pSegmentos[k].dirFisica + pSegmentos[k].tamanio <= pSegmentos[j].dirFisica
      BY <2>3 DEF TablaEnRegla
    <3> QED
      BY <3>1, Segmentos
  <2> QED
    BY <2>1, <2>2, <2>3 DEF Indices
<1> HIDE DEF desde, hasta
<1> QED
  BY <1>2, <1>3, <1>4 DEF Libre, desde, hasta

\* So is what is after the last one.
LEMMA LibreAlFinal ==
  ASSUME Tipos, TablaEnRegla
  PROVE  Libre(FinDe(Len(pSegmentos)), CANT_MEM - FinDe(Len(pSegmentos)))
<1> DEFINE desde == FinDe(Len(pSegmentos))
<1>1. Len(pSegmentos) \in 0..Len(pSegmentos)
  BY Segmentos
<1>2. desde \in Nat /\ desde + (CANT_MEM - desde) = CANT_MEM
  BY <1>1, Orden, Segmentos
<1>3. \A j \in Indices : pSegmentos[j].dirFisica + pSegmentos[j].tamanio <= desde
  BY <1>1, Orden, Segmentos DEF Indices
<1> HIDE DEF desde
<1> QED
  BY <1>2, <1>3, Segmentos DEF Libre, desde

\* Part of a free space is free.
LEMMA LibreMenos ==
  ASSUME Tipos, TablaEnRegla, NEW d \in Nat, NEW n \in Nat, NEW m \in Nat, m <= n,
         Libre(d, n)
  PROVE  Libre(d, m)
BY Segmentos DEF Libre

\* The place where a segment is inserted exists: those before it are not after
\* the address, and the one there is.
LEMMA PosicionExiste ==
  ASSUME Tipos, TablaEnRegla, NEW fisica \in Nat
  PROVE  LET k == Posicion(fisica) IN
         /\ k \in 1..(Len(pSegmentos) + 1)
         /\ \A j \in 1..(k - 1) : ~(fisica < pSegmentos[j].dirFisica)
         /\ k \in Indices => fisica < pSegmentos[k].dirFisica
<1> DEFINE T == {k \in Indices : fisica < pSegmentos[k].dirFisica}
                \cup {Len(pSegmentos) + 1}
           P(k) == /\ \A j \in 1..(k - 1) : ~(fisica < pSegmentos[j].dirFisica)
                   /\ k \in Indices => fisica < pSegmentos[k].dirFisica
<1>1. T \subseteq Nat /\ T # {} /\ Len(pSegmentos) + 1 \notin Indices
  BY Segmentos DEF Indices
<1> HIDE DEF T
<1>2. PICK x \in T : \A y \in T : x <= y
  BY <1>1, MinimoNatural
<1>3. x \in 1..(Len(pSegmentos) + 1)
  BY Segmentos DEF T, Indices
<1>4. ASSUME NEW j \in 1..(x - 1) PROVE ~(fisica < pSegmentos[j].dirFisica)
  <2>1. j \in Indices /\ ~(x <= j)
    BY <1>3, Segmentos DEF Indices
  <2>2. j \notin T
    BY <2>1, <1>2
  <2> QED
    BY <2>1, <2>2 DEF T
<1>5. ASSUME x \in Indices PROVE fisica < pSegmentos[x].dirFisica
  BY <1>1, <1>5 DEF T
<1>6. P(x)
  BY <1>4, <1>5
<1>7. Posicion(fisica) = CHOOSE k \in 1..(Len(pSegmentos) + 1) : P(k)
  BY DEF Posicion
<1> HIDE DEF P
<1>8. Posicion(fisica) \in 1..(Len(pSegmentos) + 1) /\ P(Posicion(fisica))
  BY <1>3, <1>6, <1>7
<1> QED
  BY <1>8 DEF P

-----------------------------------------------------------------------------
(* What the operations do to the table. *)

\* A segment put in a free space, at its place, leaves the table in order.
LEMMA TablaInserta ==
  ASSUME Tipos, TablaEnRegla,
         NEW fisica \in Nat, NEW tam \in Nat \ {0}, NEW pid \in Nat, NEW d \in Libres,
         Libre(fisica, tam),
         pSegmentos' = InsertAt(pSegmentos, Posicion(fisica),
           [idPrograma |-> pid, tamanio |-> tam, dirLogica |-> d, dirFisica |-> fisica])
  PROVE  pSegmentos' \in Seq(SegmentoT) /\ TablaEnRegla'
<1> DEFINE s == pSegmentos
           k == Posicion(fisica)
           e == [idPrograma |-> pid, tamanio |-> tam, dirLogica |-> d,
                 dirFisica |-> fisica]
<1>1. /\ k \in 1..(Len(s) + 1)
      /\ \A j \in 1..(k - 1) : ~(fisica < s[j].dirFisica)
      /\ k \in Indices => fisica < s[k].dirFisica
  BY PosicionExiste
<1>2. e \in SegmentoT /\ s \in Seq(SegmentoT)
  BY DEF SegmentoT, Libres, Tipos
<1>3. e.dirFisica = fisica /\ e.tamanio = tam /\ e.dirLogica = d
  OBVIOUS
<1> HIDE DEF k, e
<1>4. /\ s' \in Seq(SegmentoT)
      /\ Len(s') = Len(s) + 1
      /\ \A j \in 1..(k - 1) : s'[j] = s[j]
      /\ s'[k] = e
      /\ \A j \in (k + 1)..(Len(s) + 1) : s'[j] = s[j - 1]
  <2>1. s' = InsertAt(s, k, e)
    BY DEF k, e
  <2> HIDE DEF s
  <2>2. /\ InsertAt(s, k, e) \in Seq(SegmentoT)
        /\ Len(InsertAt(s, k, e)) = Len(s) + 1
        /\ \A j \in 1..(k - 1) : InsertAt(s, k, e)[j] = s[j]
        /\ InsertAt(s, k, e)[k] = e
        /\ \A j \in (k + 1)..(Len(s) + 1) : InsertAt(s, k, e)[j] = s[j - 1]
    BY <1>1, <1>2, Insertada
  <2> QED
    BY <2>1, <2>2
<1>5. ASSUME NEW j \in Indices
      PROVE  /\ j < k => s[j].dirFisica + s[j].tamanio <= fisica
             /\ k <= j => fisica + tam <= s[j].dirFisica
             /\ s[j].dirLogica # d
  <2>1. /\ s[j].dirFisica \in Nat /\ s[j].tamanio \in Nat /\ j \in 1..Len(s)
        /\ Len(s) \in Nat
    BY Segmentos DEF Indices
  <2>2. \/ s[j].dirFisica + s[j].tamanio <= fisica
        \/ fisica + tam <= s[j].dirFisica
    BY DEF Libre
  <2>3. CASE j < k
    <3>1. ~(fisica < s[j].dirFisica)
      BY <2>1, <2>3, <1>1
    <3> QED
      BY <2>1, <2>2, <2>3, <3>1, <1>1 DEF Libres
  <2>4. CASE k <= j
    <3>1. k \in Indices /\ fisica < s[k].dirFisica
      BY <2>1, <2>4, <1>1 DEF Indices
    <3>2. s[k].dirFisica \in Nat /\ s[k].tamanio \in Nat
      BY <3>1, Segmentos
    <3>3. k < j => s[k].dirFisica + s[k].tamanio <= s[j].dirFisica
      BY <3>1 DEF TablaEnRegla
    <3>4. fisica < s[j].dirFisica
      BY <2>1, <2>4, <3>1, <3>2, <3>3, <1>1
    <3> QED
      BY <2>1, <2>2, <2>4, <3>4, <1>1 DEF Libres
  <2> QED
    BY <2>1, <2>3, <2>4, <1>1
<1>6. \A j \in Indices : /\ s[j].dirFisica + s[j].tamanio <= CANT_MEM
                         /\ s[j].dirFisica \in Nat /\ s[j].tamanio \in Nat
  BY Segmentos
<1>7. fisica + tam <= CANT_MEM
  BY DEF Libre
<1>8. \A j \in Indices' : \/ j < k /\ j \in Indices /\ s'[j] = s[j]
                          \/ j = k /\ s'[j] = e
                          \/ k < j /\ j - 1 \in Indices /\ s'[j] = s[j - 1]
  BY <1>1, <1>4, Segmentos DEF Indices
<1>9. ASSUME NEW j \in Indices' PROVE s'[j].dirFisica + s'[j].tamanio <= CANT_MEM
  BY <1>3, <1>6, <1>7, <1>8
<1>10. ASSUME NEW i \in Indices', NEW j \in Indices', i < j
       PROVE  /\ s'[i].dirFisica + s'[i].tamanio <= s'[j].dirFisica
              /\ s'[i].dirLogica # s'[j].dirLogica
  <2>1. i \in Nat /\ j \in Nat /\ k \in Nat
    BY <1>1, <1>4, Segmentos DEF Indices
  <2>2. CASE i = k \/ j = k
    <3>1. CASE i = k
      <4>1. j - 1 \in Indices /\ k <= j - 1 /\ s'[j] = s[j - 1] /\ s'[i] = e
        BY <3>1, <2>1, <1>8, <1>10
      <4> QED
        BY <4>1, <1>3, <1>5
    <3>2. CASE j = k
      <4>1. i \in Indices /\ i < k /\ s'[i] = s[i] /\ s'[j] = e
        BY <3>2, <2>1, <1>8, <1>10
      <4> QED
        BY <4>1, <1>3, <1>5
    <3> QED
      BY <2>2, <3>1, <3>2
  <2>3. CASE i # k /\ j # k
    <3> DEFINE viejo(x) == IF x < k THEN x ELSE x - 1
    <3>1. viejo(i) \in Indices /\ s'[i] = s[viejo(i)]
      BY <2>1, <2>3, <1>8
    <3>2. viejo(j) \in Indices /\ s'[j] = s[viejo(j)]
      BY <2>1, <2>3, <1>8
    <3>3. viejo(i) < viejo(j)
      BY <2>1, <2>3, <1>10
    <3> HIDE DEF viejo
    <3> QED
      BY <3>1, <3>2, <3>3 DEF TablaEnRegla
  <2> QED
    BY <2>2, <2>3
<1> QED
  BY <1>4, <1>9, <1>10 DEF TablaEnRegla

\* So does a segment that leaves it.
LEMMA TablaQuita ==
  ASSUME Tipos, TablaEnRegla, NEW k \in Indices, pSegmentos' = RemoveAt(pSegmentos, k)
  PROVE  pSegmentos' \in Seq(SegmentoT) /\ TablaEnRegla'
<1> DEFINE s == pSegmentos
<1>1. s \in Seq(SegmentoT) /\ k \in 1..Len(s)
  BY DEF Tipos, Indices
<1>2. /\ s' \in Seq(SegmentoT)
      /\ Len(s') = Len(s) - 1
      /\ \A j \in 1..(k - 1) : s'[j] = s[j]
      /\ \A j \in k..(Len(s) - 1) : s'[j] = s[j + 1]
  BY <1>1, Quitada
<1> DEFINE viejo(x) == IF x < k THEN x ELSE x + 1
<1>3. ASSUME NEW i \in Indices'
      PROVE  viejo(i) \in Indices /\ s'[i] = s[viejo(i)]
  <2>1. i \in 1..(Len(s) - 1) /\ Len(s) \in Nat
    BY <1>2, Segmentos DEF Indices
  <2>2. CASE i < k
    BY <2>1, <2>2, <1>1, <1>2 DEF Indices
  <2>3. CASE k <= i
    BY <2>1, <2>3, <1>1, <1>2 DEF Indices
  <2> QED
    BY <2>1, <2>2, <2>3, <1>1
<1>4. ASSUME NEW j \in Indices' PROVE s'[j].dirFisica + s'[j].tamanio <= CANT_MEM
  <2> HIDE DEF viejo
  <2> QED
    BY <1>3, Segmentos
<1>5. ASSUME NEW i \in Indices', NEW j \in Indices', i < j
      PROVE  /\ s'[i].dirFisica + s'[i].tamanio <= s'[j].dirFisica
             /\ s'[i].dirLogica # s'[j].dirLogica
  <2>1. i \in Nat /\ j \in Nat /\ k \in Nat
    BY <1>1, <1>2, Segmentos DEF Indices
  <2>2. viejo(i) < viejo(j)
    BY <2>1, <1>5
  <2> HIDE DEF viejo
  <2>3. /\ viejo(i) \in Indices /\ s'[i] = s[viejo(i)]
        /\ viejo(j) \in Indices /\ s'[j] = s[viejo(j)]
    BY <1>3
  <2> QED
    BY <2>2, <2>3 DEF TablaEnRegla
<1> QED
  BY <1>2, <1>4, <1>5 DEF TablaEnRegla

\* And a segment moved down to the end of the one before it.
LEMMA TablaMueve ==
  ASSUME Tipos, TablaEnRegla, NEW k \in Indices,
         pSegmentos' = [pSegmentos EXCEPT ![k].dirFisica = FinDe(k - 1)]
  PROVE  /\ pSegmentos' \in Seq(SegmentoT) /\ Len(pSegmentos') = Len(pSegmentos)
         /\ pSegmentos'[k].dirFisica = FinDe(k - 1)
         /\ pSegmentos'[k].tamanio = pSegmentos[k].tamanio
         /\ \A j \in Indices \ {k} : pSegmentos'[j] = pSegmentos[j]
         /\ TablaEnRegla'
<1> DEFINE s == pSegmentos
           hasta == FinDe(k - 1)
<1>1. s \in Seq(SegmentoT) /\ k \in 1..Len(s) /\ k - 1 \in 0..Len(s) /\ k - 1 < k
  BY Segmentos DEF Tipos, Indices
<1>2. /\ hasta \in Nat /\ hasta <= s[k].dirFisica
      /\ \A j \in Indices : j < k => s[j].dirFisica + s[j].tamanio <= hasta
  BY <1>1, Orden DEF Indices
<1> HIDE DEF hasta
<1>3. s[k] \in SegmentoT
  BY Segmentos
<1>4. [s[k] EXCEPT !.dirFisica = hasta] \in SegmentoT
  BY <1>2, <1>3 DEF SegmentoT
<1>5. /\ s' \in Seq(SegmentoT) /\ Len(s') = Len(s)
      /\ s'[k] = [s[k] EXCEPT !.dirFisica = hasta]
      /\ \A j \in Indices \ {k} : s'[j] = s[j]
  BY <1>1, <1>4 DEF hasta, Indices
<1>6. /\ s'[k].dirFisica = hasta /\ s'[k].tamanio = s[k].tamanio
      /\ s'[k].dirLogica = s[k].dirLogica
  BY <1>3, <1>5 DEF SegmentoT
<1>7. Indices' = Indices
  BY <1>5 DEF Indices
<1>8. \A j \in Indices : /\ s[j].dirFisica + s[j].tamanio <= CANT_MEM
                         /\ s[j].dirFisica \in Nat /\ s[j].tamanio \in Nat
  BY Segmentos
<1>9. ASSUME NEW j \in Indices PROVE s'[j].dirFisica + s'[j].tamanio <= CANT_MEM
  <2>1. CASE j = k
    BY <2>1, <1>2, <1>6, <1>8, ParametrosUmv
  <2>2. CASE j # k
    BY <2>2, <1>5, <1>8
  <2> QED
    BY <2>1, <2>2
<1>10. ASSUME NEW i \in Indices, NEW j \in Indices, i < j
       PROVE  /\ s'[i].dirFisica + s'[i].tamanio <= s'[j].dirFisica
              /\ s'[i].dirLogica # s'[j].dirLogica
  <2>1. /\ s[i].dirFisica + s[i].tamanio <= s[j].dirFisica
        /\ s[i].dirLogica # s[j].dirLogica
    BY <1>10 DEF TablaEnRegla
  <2>2. CASE i = k
    <3>1. j # k
      BY <2>2, <1>10, <1>1
    <3> QED
      BY <2>1, <2>2, <3>1, <1>2, <1>5, <1>6, <1>8
  <2>3. CASE j = k
    <3>1. i # k
      BY <2>3, <1>10, <1>1
    <3> QED
      BY <2>1, <2>3, <3>1, <1>2, <1>5, <1>6, <1>8, <1>10
  <2>4. CASE i # k /\ j # k
    BY <2>1, <2>4, <1>5
  <2> QED
    BY <2>2, <2>3, <2>4
<1> QED
  BY <1>5, <1>6, <1>7, <1>9, <1>10 DEF TablaEnRegla, hasta

-----------------------------------------------------------------------------
(* What a step of thread h has to show. *)

\* The table stays as it must be, and if it changes, or the mutex does, it is
\* because h has it or takes it.
Resguarda(h) ==
  /\ memoria' \in [Direcciones -> Bytes]
  /\ pSegmentos' \in Seq(SegmentoT)
  /\ TablaEnRegla'
  /\ ALG_MEM' \in {"FF", "WF"}
  /\ idPrograma' \in [Hilos -> Nat]
  /\ mutex' = mutex \/ (mutex \in {h, Nadie} /\ mutex' \in {h, Nadie})
  /\ pSegmentos' = pSegmentos \/ mutex = h

\* It does so when the table is left alone.
LEMMA TablaIgual ==
  ASSUME InvUmv, NEW h \in Hilos,
         UNCHANGED <<tabla, ALG_MEM>>, idPrograma' \in [Hilos -> Nat],
         mutex' = mutex \/ (mutex \in {h, Nadie} /\ mutex' \in {h, Nadie})
  PROVE  Resguarda(h)
BY DEF Resguarda, InvUmv, Tipos, tabla, TablaEnRegla, Indices

\* The other threads, which do not have the mutex, keep their part of the
\* invariant.
LEMMA LosOtros ==
  ASSUME InvUmv, NEW h \in Hilos, Resguarda(h), NEW n \in HiloT,
         hilo' = [hilo EXCEPT ![h] = n], Control(h)', Avance(h)'
  PROVE  InvUmv'
<1>1. hilo \in [Hilos -> HiloT] /\ mutex \in Hilos \cup {Nadie}
  BY DEF InvUmv, Tipos
<1>2. hilo' \in [Hilos -> HiloT] /\ \A g \in Hilos \ {h} : hilo'[g] = hilo[g]
  BY <1>1, HiloCambia
<1>3. mutex' \in Hilos \cup {Nadie}
  BY <1>1 DEF Resguarda
<1>4. Tipos' /\ TablaEnRegla'
  BY <1>2, <1>3 DEF Tipos, Resguarda
<1>5. ASSUME NEW g \in Hilos, g # h
      PROVE  Control(g)' /\ Avance(g)'
  <2>1. hilo'[g] = hilo[g]
    BY <1>2, <1>5
  <2>2. Control(g) /\ Avance(g)
    BY DEF InvUmv
  <2>3. mutex = g <=> mutex' = g
    BY <1>5, ParametrosUmv DEF Resguarda
  <2>4. Control(g)'
    BY <2>1, <2>2, <2>3 DEF Control, Pedido
  <2>5. CASE pSegmentos' = pSegmentos
    <3>1. hilo'[g].paso \in {"buscar", "compactar"} =>
            /\ hilo'[g].i \in 1..(Len(pSegmentos') + 1)
            /\ hilo'[g].pos = FinDe(hilo[g].i - 1)'
      BY <2>1, <2>2, <2>5 DEF Avance, FinDe
    <3>2. hilo'[g].paso = "buscar" /\ hilo'[g].mayor > 0 =>
            Libre(hilo[g].fisica, hilo[g].mayor)'
      BY <2>1, <2>2, <2>5 DEF Avance, Libre, Indices
    <3>3. hilo'[g].paso = "insertar" => Libre(hilo[g].fisica, Pedido(g).tam)'
      BY <2>1, <2>2, <2>5 DEF Avance, Pedido, Libre, Indices
    <3>4. hilo'[g].paso = "compactar" =>
            \A j \in 1..(hilo'[g].i - 1) : pSegmentos'[j].dirFisica = FinDe(j - 1)'
      BY <2>1, <2>2, <2>5 DEF Avance, FinDe
    <3> QED
      BY <2>4, <3>1, <3>2, <3>3, <3>4 DEF Avance
  <2>6. CASE mutex = h
    <3>1. hilo[g].paso \notin EnSeccion
      BY <2>2, <2>6, <1>5 DEF Control
    <3> QED
      BY <2>1, <2>4, <3>1 DEF Avance, EnSeccion
  <2>7. pSegmentos' = pSegmentos \/ mutex = h
    BY DEF Resguarda
  <2> QED
    BY <2>4, <2>5, <2>6, <2>7, Zenon
<1> QED
  BY <1>4, <1>5 DEF InvUmv

\* A thread that starts a step with its locals clear, where no loop has run yet,
\* has to show only what it does with the mutex and which request it serves.
LEMMA Empieza ==
  ASSUME InvUmv, NEW h \in Hilos, Resguarda(h),
         NEW p \in Pasos \ {"buscar", "insertar", "compactar"},
         NEW q \in Pedidos[h] \cup {SinPedido}, NEW r \in RespuestaT,
         hilo' = [hilo EXCEPT ![h] = Hilo(p, q, r)],
         p = "destruir" <=> mutex' = h,
         p = "lock" => q.op = "crearSegmento",
         p = "lockCompactar" => q.op \in {"crearSegmento", "compactar"},
         p = "almacenar" => q.op = "almacenar"
  PROVE  InvUmv'
<1> DEFINE n == Hilo(p, q, r)
<1>1. /\ n \in HiloT /\ n.paso = p /\ n.pedido = q
      /\ n.i = 1 /\ n.pos = 0 /\ n.mayor = 0
  BY HiloTipo, PedidoTipo
<1> HIDE DEF n
<1>2. hilo'[h] = n
  BY <1>1, HiloCambia DEF InvUmv, Tipos, n
<1>3. Control(h)'
  BY <1>1, <1>2 DEF Control, Pedido, EnSeccion
<1>4. Avance(h)'
  BY <1>1, <1>2 DEF Avance
<1> QED
  BY <1>1, <1>3, <1>4, LosOtros DEF n

\* The steps without the mutex that serve any request.
LEMMA PasosSueltos ==
  {"saludo", "activar", "recv", "enviar", "responder"} \subseteq
    Pasos \ {"buscar", "insertar", "compactar", "destruir", "lock", "lockCompactar",
             "almacenar"}
BY DEF Pasos

\* Most steps end in one of those.
LEMMA Suelta ==
  ASSUME InvUmv, NEW h \in Hilos, Resguarda(h), mutex' # h,
         NEW p \in {"saludo", "activar", "recv", "enviar", "responder"},
         NEW q \in Pedidos[h] \cup {SinPedido}, NEW r \in RespuestaT,
         hilo' = [hilo EXCEPT ![h] = Hilo(p, q, r)]
  PROVE  InvUmv'
<1>1. /\ p \in Pasos \ {"buscar", "insertar", "compactar"}
      /\ p \notin {"destruir", "lock", "lockCompactar", "almacenar"}
  BY PasosSueltos
<1> QED
  BY <1>1, Empieza

\* What the invariant says of one thread.
LEMMA DeUnHilo ==
  ASSUME InvUmv, NEW h \in Hilos
  PROVE  /\ hilo[h] \in HiloT
         /\ Pedido(h) = hilo[h].pedido /\ Pedido(h) \in Pedidos[h] \cup {SinPedido}
         /\ Pid(h) \in Nat
         /\ Control(h) /\ Avance(h)
<1>1. hilo[h] \in HiloT /\ Control(h) /\ Avance(h)
  BY DEF InvUmv, Tipos
<1>2. Pedido(h) = hilo[h].pedido /\ Pedido(h) \in Pedidos[h] \cup {SinPedido}
  BY <1>1 DEF Control, Pedido
<1>3. Pid(h) \in Nat
  BY <1>2, PedidoTipo DEF Pid, InvUmv, Tipos
<1> QED
  BY <1>1, <1>2, <1>3

-----------------------------------------------------------------------------
(* The steps that do not run a loop. *)

\* Arrivals, departures and the requests that do not touch the memory keep the
\* invariant.
LEMMA ConexionInv ==
  ASSUME InvUmv, NEW h \in Hilos,
         \/ Saludar(h) \/ Desconectar(h) \/ Recibir(h) \/ ResponderCambio(h)
         \/ Enviar(h) \/ CambiarAlgoritmo(h)
  PROVE  InvUmv'
<1>1. /\ hilo \in [Hilos -> HiloT] /\ hilo[h] \in HiloT /\ Control(h) /\ Avance(h)
      /\ hilo[h].pedido \in Pedidos[h] \cup {SinPedido}
  BY DeUnHilo DEF InvUmv, Tipos
<1>3. CASE Saludar(h)
  <2> DEFINE n == [hilo[h] EXCEPT !.paso = "activar"]
  <2>1. /\ n \in HiloT /\ n.paso = "activar" /\ n.pedido = hilo[h].pedido
        /\ n.i = hilo[h].i /\ n.pos = hilo[h].pos /\ n.mayor = hilo[h].mayor
    BY <1>1 DEF HiloT, Pasos
  <2>2. hilo' = [hilo EXCEPT ![h] = n] /\ hilo[h].paso = "saludo"
    BY <1>3 DEF Saludar, Seguir
  <2>3. Resguarda(h) /\ mutex' = mutex
    BY <1>3, TablaIgual DEF Saludar, InvUmv, Tipos
  <2> HIDE DEF n
  <2>4. hilo'[h] = n
    BY <1>1, <2>1, <2>2, HiloCambia
  <2>5. Control(h)'
    BY <1>1, <2>1, <2>2, <2>3, <2>4 DEF Control, Pedido, EnSeccion
  <2>6. Avance(h)'
    BY <2>1, <2>4 DEF Avance
  <2> QED
    BY <2>1, <2>2, <2>3, <2>5, <2>6, LosOtros
<1>4. CASE Desconectar(h)
  <2>1. /\ hilo' = [hilo EXCEPT ![h] = Hilo("saludo", SinPedido, SinRespuesta)]
        /\ hilo[h].paso \in {"activar", "recv"} /\ mutex' = mutex
        /\ idPrograma' \in [Hilos -> Nat] /\ UNCHANGED <<tabla, ALG_MEM>>
    BY <1>4 DEF Desconectar, Nadie, InvUmv, Tipos
  <2>2. Resguarda(h) /\ mutex' # h
    BY <2>1, <1>1, TablaIgual DEF Control, EnSeccion
  <2> QED
    BY <2>1, <2>2, Suelta, SinRespuestaTipo
<1>5. CASE Recibir(h)
  <2>1. PICK q \in Pedidos[h] :
          /\ hilo' = [hilo EXCEPT ![h] = Hilo(PasoDe(q.op), q, SinRespuesta)]
          /\ idPrograma' = IF q.op = "cambioProcesoActivo"
                           THEN [idPrograma EXCEPT ![h] = q.pid] ELSE idPrograma
    BY <1>5 DEF Recibir
  <2>2. q.pid \in Nat /\ q.op \in Ops(Tipo[h])
    BY ParametrosUmv
  <2>3. /\ hilo[h].paso \in {"activar", "recv"} /\ mutex' = mutex
        /\ UNCHANGED <<tabla, ALG_MEM>>
    BY <1>5 DEF Recibir
  <2>4. idPrograma' \in [Hilos -> Nat]
    BY <2>1, <2>2 DEF InvUmv, Tipos
  <2>5. Resguarda(h) /\ mutex' # h
    BY <2>3, <2>4, <1>1, TablaIgual DEF Control, EnSeccion
  <2>6. /\ PasoDe(q.op) \in Pasos \ {"buscar", "insertar", "compactar", "destruir"}
        /\ PasoDe(q.op) = "lock" => q.op = "crearSegmento"
        /\ PasoDe(q.op) = "lockCompactar" => q.op = "compactar"
        /\ PasoDe(q.op) = "almacenar" => q.op = "almacenar"
    BY <2>2, ParametrosUmv DEF PasoDe, Pasos, Ops
  <2> QED
    BY <2>1, <2>5, <2>6, Empieza, SinRespuestaTipo
<1>6. CASE ResponderCambio(h)
  <2>1. /\ hilo' = [hilo EXCEPT ![h] = Hilo("enviar", hilo[h].pedido, Resp("OK", 0, <<>>))]
        /\ hilo[h].paso = "cambioProcesoActivo" /\ mutex' = mutex
        /\ UNCHANGED <<tabla, ALG_MEM, idPrograma>>
    BY <1>6 DEF ResponderCambio, Contestar
  <2>2. Resguarda(h) /\ mutex' # h
    BY <2>1, <1>1, TablaIgual DEF Control, EnSeccion, InvUmv, Tipos
  <2>3. Resp("OK", 0, <<>>) \in RespuestaT
    BY RespuestaTipo DEF TiposRespuesta, Nadie
  <2> QED
    BY <2>1, <2>2, <2>3, <1>1, Suelta
<1>7. CASE Enviar(h)
  <2>1. /\ hilo' = [hilo EXCEPT ![h] = Hilo("recv", SinPedido, SinRespuesta)]
        /\ hilo[h].paso = "enviar" /\ mutex' = mutex
        /\ UNCHANGED <<tabla, ALG_MEM, idPrograma>>
    BY <1>7 DEF Enviar
  <2>2. Resguarda(h) /\ mutex' # h
    BY <2>1, <1>1, TablaIgual DEF Control, EnSeccion, InvUmv, Tipos
  <2> QED
    BY <2>1, <2>2, Suelta, SinRespuestaTipo
<1>8. CASE CambiarAlgoritmo(h)
  <2>1. /\ hilo' = [hilo EXCEPT ![h] = Hilo("enviar", hilo[h].pedido, Resp("OK", 0, <<>>))]
        /\ hilo[h].paso = "alg" /\ mutex' = mutex
        /\ ALG_MEM' \in {"FF", "WF"} /\ UNCHANGED <<tabla, idPrograma>>
    BY <1>8 DEF CambiarAlgoritmo, Contestar
  <2>2. Resguarda(h)
    BY <2>1 DEF Resguarda, InvUmv, Tipos, tabla, TablaEnRegla, Indices
  <2>3. mutex' # h
    BY <2>1, <1>1 DEF Control, EnSeccion
  <2>4. Resp("OK", 0, <<>>) \in RespuestaT
    BY RespuestaTipo DEF TiposRespuesta, Nadie
  <2> QED
    BY <2>1, <2>2, <2>3, <2>4, <1>1, Suelta
<1> QED
  BY <1>3, <1>4, <1>5, <1>6, <1>7, <1>8

\* Reading and writing bytes keep it.
LEMMA AccesosInv ==
  ASSUME InvUmv, NEW h \in Hilos, SolicitarBytes(h) \/ AlmacenarBytes(h)
  PROVE  InvUmv'
<1>1. /\ hilo[h] \in HiloT /\ Control(h) /\ Pedido(h) = hilo[h].pedido
      /\ Pedido(h) \in Pedidos[h] \cup {SinPedido}
  BY DeUnHilo
<1>2. /\ Pedido(h).tam \in Largos
      /\ Pedido(h).op = "almacenar" => Pedido(h).byte \in Bytes
  BY <1>1, PedidoTipo
<1>3. memoria \in [Direcciones -> Bytes] /\ basura \in Bytes
  BY ParametrosUmv DEF InvUmv, Tipos
<1>4. /\ Resp("segmentation_fault", Nadie, <<>>) \in RespuestaT
      /\ Resp("OK", Nadie, <<>>) \in RespuestaT
  BY RespuestaTipo DEF TiposRespuesta
<1>5. mutex # h /\ mutex' = mutex
  BY <1>1, ParametrosUmv DEF SolicitarBytes, AlmacenarBytes
<1>6. CASE SolicitarBytes(h)
  <2> DEFINE leidos == [k \in 0..(Pedido(h).tam - 1) |->
                          IF Direccion(h, k) \in Direcciones
                          THEN memoria[Direccion(h, k)] ELSE basura]
  <2>1. leidos \in [0..(Pedido(h).tam - 1) -> Bytes]
    BY <1>3
  <2> HIDE DEF leidos
  <2>2. leidos \in UNION {[0..(n - 1) -> Bytes] : n \in Largos}
    BY <2>1, <1>2
  <2>3. Resp("bytesSolicitados", Nadie, leidos) \in RespuestaT
    BY <2>2 DEF Resp, RespuestaT, TiposRespuesta
  <2>4. PICK r \in RespuestaT : hilo' = [hilo EXCEPT ![h] = Hilo("enviar", hilo[h].pedido, r)]
    <3>1. CASE Permitido(h)
      BY <3>1, <2>3, <1>6 DEF SolicitarBytes, Contestar, leidos
    <3>2. CASE ~Permitido(h)
      BY <3>2, <1>4, <1>6 DEF SolicitarBytes, Contestar
    <3> QED
      BY <3>1, <3>2
  <2>5. Resguarda(h)
    BY <1>5, <1>6, TablaIgual DEF SolicitarBytes, InvUmv, Tipos
  <2> QED
    BY <2>4, <2>5, <1>1, <1>5, Suelta
<1>7. CASE AlmacenarBytes(h)
  <2>1. Pedido(h).byte \in Bytes
    BY <1>1, <1>2, <1>7 DEF AlmacenarBytes, Control
  <2>2. memoria' \in [Direcciones -> Bytes]
    <3>1. CASE Permitido(h)
      BY <3>1, <2>1, <1>3, <1>7 DEF AlmacenarBytes
    <3>2. CASE ~Permitido(h)
      BY <3>2, <1>3, <1>7 DEF AlmacenarBytes
    <3> QED
      BY <3>1, <3>2
  <2>3. PICK r \in RespuestaT : hilo' = [hilo EXCEPT ![h] = Hilo("enviar", hilo[h].pedido, r)]
    <3>1. CASE Permitido(h)
      BY <3>1, <1>4, <1>7 DEF AlmacenarBytes, Contestar
    <3>2. CASE ~Permitido(h)
      BY <3>2, <1>4, <1>7 DEF AlmacenarBytes, Contestar
    <3> QED
      BY <3>1, <3>2
  <2>4. UNCHANGED <<pSegmentos, mutex, ALG_MEM, idPrograma>>
    BY <1>7 DEF AlmacenarBytes
  <2>5. Resguarda(h)
    BY <2>2, <2>4 DEF Resguarda, InvUmv, Tipos, TablaEnRegla, Indices
  <2> QED
    BY <2>3, <2>5, <1>1, <1>5, Suelta
<1> QED
  BY <1>6, <1>7

\* Taking and leaving the mutex.
LEMMA SeccionInv ==
  ASSUME InvUmv, NEW h \in Hilos,
         \/ SinLugar(h) \/ MemoryOverload(h) \/ FinCompactar(h) \/ FinDestruir(h)
         \/ LockDestruir(h)
  PROVE  InvUmv'
<1>1. /\ hilo \in [Hilos -> HiloT] /\ hilo[h] \in HiloT /\ Control(h)
      /\ Pedido(h) = hilo[h].pedido /\ Pedido(h) \in Pedidos[h] \cup {SinPedido}
      /\ Nadie # h
  BY DeUnHilo, ParametrosUmv DEF InvUmv, Tipos
<1>2. /\ Resp("OK", Nadie, <<>>) \in RespuestaT
      /\ Resp("memory_overload", Nadie, <<>>) \in RespuestaT
  BY RespuestaTipo DEF TiposRespuesta
<1>3. CASE SinLugar(h)
  <2>1. /\ hilo' = [hilo EXCEPT ![h] = Hilo("lockCompactar", hilo[h].pedido, SinRespuesta)]
        /\ hilo[h].paso = "buscar" /\ mutex' = Nadie
        /\ UNCHANGED <<tabla, ALG_MEM, idPrograma>>
    BY <1>3 DEF SinLugar
  <2>2. mutex = h /\ hilo[h].pedido.op = "crearSegmento"
    BY <2>1, <1>1 DEF Control, EnSeccion
  <2>3. Resguarda(h)
    BY <2>1, <2>2, TablaIgual DEF InvUmv, Tipos
  <2>4. "lockCompactar" \in Pasos \ {"buscar", "insertar", "compactar"}
    BY DEF Pasos
  <2> QED
    BY <2>1, <2>2, <2>3, <2>4, <1>1, Empieza, SinRespuestaTipo
<1>4. CASE MemoryOverload(h)
  <2>1. /\ hilo' = [hilo EXCEPT ![h] =
                      Hilo("enviar", hilo[h].pedido, Resp("memory_overload", Nadie, <<>>))]
        /\ hilo[h].paso = "buscar" /\ mutex' = Nadie
        /\ UNCHANGED <<tabla, ALG_MEM, idPrograma>>
    BY <1>4 DEF MemoryOverload, Contestar
  <2>2. mutex = h
    BY <2>1, <1>1 DEF Control, EnSeccion
  <2>3. Resguarda(h)
    BY <2>1, <2>2, TablaIgual DEF InvUmv, Tipos
  <2> QED
    BY <2>1, <2>3, <1>1, <1>2, Suelta
<1>5. CASE FinCompactar(h)
  <2>1. /\ hilo[h].paso = "compactar" /\ mutex' = Nadie
        /\ UNCHANGED <<tabla, ALG_MEM, idPrograma>>
    BY <1>5 DEF FinCompactar
  <2>2. mutex = h /\ hilo[h].pedido.op \in {"crearSegmento", "compactar"}
    BY <2>1, <1>1 DEF Control, EnSeccion
  <2>3. Resguarda(h)
    BY <2>1, <2>2, TablaIgual DEF InvUmv, Tipos
  <2>4. CASE Pedido(h).op = "compactar"
    <3>1. hilo' = [hilo EXCEPT ![h] =
                     Hilo("enviar", hilo[h].pedido, Resp("OK", Nadie, <<>>))]
      BY <2>4, <1>5 DEF FinCompactar, Contestar
    <3> QED
      BY <3>1, <2>1, <2>3, <1>1, <1>2, Suelta
  <2>5. CASE Pedido(h).op # "compactar"
    <3> DEFINE nuevo == Hilo("lock", hilo[h].pedido, SinRespuesta)
               n == [nuevo EXCEPT !.compactado = TRUE]
    <3>1. hilo' = [hilo EXCEPT ![h] = n]
      BY <2>5, <1>5 DEF FinCompactar
    <3>2. /\ nuevo \in HiloT /\ nuevo.paso = "lock" /\ nuevo.pedido = hilo[h].pedido
          /\ nuevo.i = 1 /\ nuevo.pos = 0 /\ nuevo.mayor = 0
      BY <1>1, HiloTipo, PedidoTipo, SinRespuestaTipo DEF Pasos
    <3> HIDE DEF nuevo
    <3>3. /\ n \in HiloT /\ n.paso = "lock" /\ n.pedido = hilo[h].pedido
          /\ n.i = 1 /\ n.pos = 0 /\ n.mayor = 0
      BY <3>2 DEF HiloT
    <3> HIDE DEF n
    <3>4. hilo'[h] = n
      BY <3>1, <3>3, <1>1, HiloCambia
    <3>5. Control(h)'
      BY <3>3, <3>4, <2>1, <2>2, <2>5, <1>1 DEF Control, Pedido, EnSeccion
    <3>6. Avance(h)'
      BY <3>3, <3>4 DEF Avance
    <3> QED
      BY <3>1, <3>3, <3>5, <3>6, <2>3, LosOtros
  <2> QED
    BY <2>4, <2>5
<1>6. CASE FinDestruir(h)
  <2>1. /\ hilo' = [hilo EXCEPT ![h] = Hilo("enviar", hilo[h].pedido, Resp("OK", Nadie, <<>>))]
        /\ hilo[h].paso = "destruir" /\ mutex' = Nadie
        /\ UNCHANGED <<tabla, ALG_MEM, idPrograma>>
    BY <1>6 DEF FinDestruir, Contestar
  <2>2. mutex = h
    BY <2>1, <1>1 DEF Control, EnSeccion
  <2>3. Resguarda(h)
    BY <2>1, <2>2, TablaIgual DEF InvUmv, Tipos
  <2> QED
    BY <2>1, <2>3, <1>1, <1>2, Suelta
<1>7. CASE LockDestruir(h)
  <2> DEFINE n == [hilo[h] EXCEPT !.paso = "destruir"]
  <2>1. /\ n \in HiloT /\ n.paso = "destruir" /\ n.pedido = hilo[h].pedido
        /\ n.i = hilo[h].i /\ n.pos = hilo[h].pos /\ n.mayor = hilo[h].mayor
    BY <1>1 DEF HiloT, Pasos
  <2>2. hilo' = [hilo EXCEPT ![h] = n] /\ hilo[h].paso = "lockDestruir"
    BY <1>7 DEF LockDestruir, Seguir
  <2>3. mutex = Nadie /\ mutex' = h /\ UNCHANGED <<tabla, ALG_MEM, idPrograma>>
    BY <1>7 DEF LockDestruir
  <2>4. Resguarda(h)
    BY <2>3, TablaIgual DEF InvUmv, Tipos
  <2> HIDE DEF n
  <2>5. hilo'[h] = n
    BY <1>1, <2>1, <2>2, HiloCambia
  <2>6. Control(h)'
    BY <1>1, <2>1, <2>2, <2>3, <2>5 DEF Control, Pedido, EnSeccion
  <2>7. Avance(h)'
    BY <2>1, <2>5 DEF Avance
  <2> QED
    BY <2>1, <2>2, <2>4, <2>6, <2>7, LosOtros
<1> QED
  BY <1>3, <1>4, <1>5, <1>6, <1>7

-----------------------------------------------------------------------------
(* The search. *)

\* What Avanzar does to the thread.
LEMMA AvanzarTipo ==
  ASSUME InvUmv, NEW h \in Hilos, NEW pos \in Nat, NEW mayor \in Nat, NEW fisica \in Nat,
         Avanzar(h, pos, mayor, fisica)
  PROVE  \E n \in HiloT :
           /\ hilo' = [hilo EXCEPT ![h] = n] /\ hilo'[h] = n
           /\ n.paso = hilo[h].paso /\ n.pedido = hilo[h].pedido
           /\ n.i = hilo[h].i + 1 /\ n.pos = pos /\ n.mayor = mayor /\ n.fisica = fisica
           /\ n.alg = hilo[h].alg
<1> DEFINE mas == hilo[h].i + 1
           n == [hilo[h] EXCEPT !.i = mas, !.pos = pos, !.mayor = mayor, !.fisica = fisica]
<1>1. hilo[h] \in HiloT /\ hilo \in [Hilos -> HiloT]
  BY DeUnHilo DEF InvUmv, Tipos
<1>2. mas \in Nat
  BY <1>1 DEF HiloT
<1>3. hilo' = [hilo EXCEPT ![h] = n]
  BY DEF Avanzar
<1> HIDE DEF mas
<1>4. n \in HiloT
  BY <1>1, <1>2 DEF HiloT
<1>5. /\ n.paso = hilo[h].paso /\ n.pedido = hilo[h].pedido
      /\ n.i = mas /\ n.pos = pos /\ n.mayor = mayor /\ n.fisica = fisica
      /\ n.alg = hilo[h].alg
  BY <1>1 DEF HiloT
<1> HIDE DEF n
<1>6. hilo'[h] = n
  BY <1>1, <1>3, <1>4, HiloCambia
<1> QED
  BY <1>3, <1>4, <1>5, <1>6 DEF mas

\* The search ends with a free space that is big enough.
LEMMA Encontrado ==
  ASSUME InvUmv, NEW h \in Hilos, NEW fisica \in Nat, hilo[h].paso = "buscar",
         Libre(fisica, Pedido(h).tam), Encontrar(h, fisica),
         UNCHANGED <<tabla, mutex, ALG_MEM, idPrograma>>
  PROVE  InvUmv'
<1>1. /\ hilo \in [Hilos -> HiloT] /\ hilo[h] \in HiloT /\ Control(h)
      /\ Pedido(h) = hilo[h].pedido /\ Pedido(h) \in Pedidos[h] \cup {SinPedido}
  BY DeUnHilo DEF InvUmv, Tipos
<1> DEFINE nuevo == Hilo("insertar", hilo[h].pedido, SinRespuesta)
           n == [nuevo EXCEPT !.alg = hilo[h].alg, !.fisica = fisica]
<1>2. hilo' = [hilo EXCEPT ![h] = n]
  BY DEF Encontrar
<1>3. /\ nuevo \in HiloT /\ nuevo.paso = "insertar" /\ nuevo.pedido = hilo[h].pedido
      /\ nuevo.i = 1 /\ nuevo.pos = 0 /\ nuevo.mayor = 0
  BY <1>1, HiloTipo, PedidoTipo, SinRespuestaTipo DEF Pasos
<1> HIDE DEF nuevo
<1>4. /\ n \in HiloT /\ n.paso = "insertar" /\ n.pedido = hilo[h].pedido
      /\ n.i = 1 /\ n.pos = 0 /\ n.mayor = 0 /\ n.fisica = fisica
  BY <1>1, <1>3 DEF HiloT
<1> HIDE DEF n
<1>5. hilo'[h] = n
  BY <1>1, <1>2, <1>4, HiloCambia
<1>6. Resguarda(h)
  BY TablaIgual DEF InvUmv, Tipos
<1>7. Control(h)'
  BY <1>1, <1>4, <1>5 DEF Control, Pedido, EnSeccion
<1>8. pSegmentos' = pSegmentos
  BY DEF tabla
<1>9. Avance(h)'
  BY <1>1, <1>4, <1>5, <1>8 DEF Avance, Pedido, Libre, Indices
<1> QED
  BY <1>2, <1>4, <1>6, <1>7, <1>9, LosOtros

\* The lock that starts a loop.
LEMMA LockInv ==
  ASSUME InvUmv, NEW h \in Hilos, Lock(h) \/ LockCompactar(h)
  PROVE  InvUmv'
<1> DEFINE n == IF Lock(h) THEN [hilo[h] EXCEPT !.paso = "buscar", !.alg = ALG_MEM]
                ELSE [hilo[h] EXCEPT !.paso = "compactar"]
<1>1. /\ hilo \in [Hilos -> HiloT] /\ hilo[h] \in HiloT /\ Control(h)
      /\ ALG_MEM \in {"FF", "WF"}
      /\ Pedido(h) = hilo[h].pedido /\ Pedido(h) \in Pedidos[h] \cup {SinPedido}
  BY DeUnHilo DEF InvUmv, Tipos
<1>2. /\ hilo' = [hilo EXCEPT ![h] = n]
      /\ hilo[h].paso = (IF Lock(h) THEN "lock" ELSE "lockCompactar")
      /\ mutex = Nadie /\ mutex' = h /\ UNCHANGED <<tabla, ALG_MEM, idPrograma>>
  BY DEF Lock, LockCompactar
<1>3. /\ n \in HiloT /\ n.pedido = hilo[h].pedido
      /\ n.paso = IF Lock(h) THEN "buscar" ELSE "compactar"
      /\ n.i = hilo[h].i /\ n.pos = hilo[h].pos /\ n.mayor = hilo[h].mayor
  BY <1>1 DEF HiloT, Pasos
<1>4. hilo[h].i = 1 /\ hilo[h].pos = 0 /\ hilo[h].mayor = 0
  BY <1>1, <1>2 DEF Control
<1> HIDE DEF n
<1>5. hilo'[h] = n
  BY <1>1, <1>2, <1>3, HiloCambia
<1>6. Resguarda(h)
  BY <1>2, TablaIgual DEF InvUmv, Tipos
<1>7. Control(h)'
  BY <1>1, <1>2, <1>3, <1>5 DEF Control, Pedido, EnSeccion
<1>8. Len(pSegmentos') \in Nat
  BY <1>6 DEF Resguarda
<1>9. Avance(h)'
  BY <1>3, <1>4, <1>5, <1>8 DEF Avance, FinDe
<1> QED
  BY <1>2, <1>3, <1>6, <1>7, <1>9, LosOtros

\* Where a search stands.
LEMMA Busqueda ==
  ASSUME InvUmv, NEW h \in Hilos, hilo[h].paso \in {"buscar", "compactar"}
  PROVE  /\ mutex = h /\ hilo[h] \in HiloT
         /\ hilo[h].i \in 1..(Len(pSegmentos) + 1) /\ hilo[h].i - 1 \in 0..Len(pSegmentos)
         /\ hilo[h].pos = FinDe(hilo[h].i - 1) /\ hilo[h].pos \in 0..CANT_MEM
         /\ hilo[h].mayor \in Nat /\ hilo[h].fisica \in Nat
         /\ Pedido(h).tam \in Nat
         /\ hilo[h].paso = "buscar" => Pedido(h).tam > 0
         /\ hilo[h].paso = "buscar" /\ hilo[h].mayor > 0 =>
              Libre(hilo[h].fisica, hilo[h].mayor)
         /\ hilo[h].i <= Len(pSegmentos) =>
              /\ hilo[h].i \in Indices
              /\ hilo[h].pos <= pSegmentos[hilo[h].i].dirFisica
              /\ pSegmentos[hilo[h].i] \in SegmentoT
              /\ pSegmentos[hilo[h].i].dirFisica \in Nat
              /\ pSegmentos[hilo[h].i].tamanio \in Nat
<1>1. /\ hilo[h] \in HiloT /\ Control(h) /\ Avance(h) /\ Tipos /\ TablaEnRegla
      /\ Pedido(h) \in Pedidos[h] \cup {SinPedido}
  BY DeUnHilo DEF InvUmv
<1>2. mutex = h
  BY <1>1 DEF Control, EnSeccion
<1>3. /\ hilo[h].i \in 1..(Len(pSegmentos) + 1) /\ hilo[h].pos = FinDe(hilo[h].i - 1)
      /\ Len(pSegmentos) \in Nat
  BY <1>1, Segmentos DEF Avance
<1>4. hilo[h].i - 1 \in 0..Len(pSegmentos)
  BY <1>3
<1>5. hilo[h].pos \in 0..CANT_MEM
  BY <1>1, <1>3, <1>4, Orden
<1>6. hilo[h].mayor \in Nat /\ hilo[h].fisica \in Nat /\ Pedido(h).tam \in Nat
  BY <1>1, PedidoTipo DEF HiloT
<1>7. hilo[h].paso = "buscar" => Pedido(h).tam > 0
  BY <1>1, PedidoTipo DEF Control
<1>8. ASSUME hilo[h].i <= Len(pSegmentos)
      PROVE  /\ hilo[h].i \in Indices
             /\ hilo[h].pos <= pSegmentos[hilo[h].i].dirFisica
             /\ pSegmentos[hilo[h].i] \in SegmentoT
             /\ pSegmentos[hilo[h].i].dirFisica \in Nat
             /\ pSegmentos[hilo[h].i].tamanio \in Nat
  <2>1. hilo[h].i \in Indices /\ hilo[h].i - 1 < hilo[h].i
    BY <1>3, <1>8 DEF Indices
  <2> QED
    BY <2>1, <1>1, <1>3, <1>4, Orden, Segmentos
<1>9. hilo[h].paso = "buscar" /\ hilo[h].mayor > 0 => Libre(hilo[h].fisica, hilo[h].mayor)
  BY <1>1 DEF Avance
<1> QED
  BY <1>1, <1>2, <1>3, <1>4, <1>5, <1>6, <1>7, <1>8, <1>9

\* One node of a search: the next one, and the space kept is free.
LEMMA Sigue ==
  ASSUME InvUmv, NEW h \in Hilos, hilo[h].paso = "buscar", QuedanNodos(h),
         NEW mayor \in Nat, NEW fisica \in Nat,
         mayor > 0 => Libre(fisica, mayor),
         Avanzar(h, hilo[h].pos + Hueco(hilo[h].pos, pSegmentos[hilo[h].i].dirFisica)
                      + pSegmentos[hilo[h].i].tamanio, mayor, fisica),
         UNCHANGED <<tabla, mutex, ALG_MEM, idPrograma>>
  PROVE  InvUmv'
<1> DEFINE nodo == pSegmentos[hilo[h].i]
           sigue == hilo[h].pos + Hueco(hilo[h].pos, nodo.dirFisica) + nodo.tamanio
<1>1. /\ mutex = h /\ hilo[h].i \in 1..Len(pSegmentos) /\ Len(pSegmentos) \in Nat
      /\ hilo[h].pos \in Nat /\ hilo[h].pos <= nodo.dirFisica
      /\ nodo.dirFisica \in Nat /\ nodo.tamanio \in Nat
  BY Busqueda, Segmentos DEF QuedanNodos, InvUmv
<1>2. sigue = nodo.dirFisica + nodo.tamanio
  BY <1>1 DEF Hueco
<1>3. sigue = FinDe(hilo[h].i) /\ sigue \in Nat
  BY <1>1, <1>2 DEF FinDe
<1>4. Avanzar(h, sigue, mayor, fisica)
  OBVIOUS
<1> HIDE DEF sigue
<1>5. PICK n \in HiloT :
        /\ hilo' = [hilo EXCEPT ![h] = n] /\ hilo'[h] = n
        /\ n.paso = hilo[h].paso /\ n.pedido = hilo[h].pedido
        /\ n.i = hilo[h].i + 1 /\ n.pos = sigue /\ n.mayor = mayor /\ n.fisica = fisica
  BY <1>3, <1>4, AvanzarTipo
<1>6. Resguarda(h)
  BY TablaIgual DEF InvUmv, Tipos
<1>7. Control(h)'
  BY <1>5, DeUnHilo DEF Control, Pedido, EnSeccion
<1>8. pSegmentos' = pSegmentos
  BY DEF tabla
<1>9. Avance(h)'
  <2>1. n.i \in 1..(Len(pSegmentos) + 1) /\ n.i - 1 = hilo[h].i
    BY <1>1, <1>5
  <2>2. FinDe(n.i - 1)' = FinDe(n.i - 1)
    BY <1>8 DEF FinDe
  <2>3. hilo'[h].i \in 1..(Len(pSegmentos') + 1) /\ hilo'[h].pos = FinDe(hilo[h].i - 1)'
    BY <2>1, <2>2, <1>3, <1>5, <1>8 DEF FinDe
  <2>4. hilo'[h].mayor > 0 => Libre(hilo[h].fisica, hilo[h].mayor)'
    BY <1>5, <1>8 DEF Libre, Indices
  <2> QED
    BY <2>3, <2>4, <1>5 DEF Avance
<1> QED
  BY <1>5, <1>6, <1>7, <1>9, LosOtros

\* A turn of a search, of first fit or worst fit, keeps it.
LEMMA NodoInv ==
  ASSUME InvUmv, NEW h \in Hilos, NodoFF(h) \/ NodoWF(h)
  PROVE  InvUmv'
<1> DEFINE nodo == pSegmentos[hilo[h].i]
           libre == Hueco(hilo[h].pos, nodo.dirFisica)
<1>1. /\ hilo[h].paso = "buscar" /\ QuedanNodos(h)
      /\ UNCHANGED <<tabla, mutex, ALG_MEM, idPrograma>>
  BY DEF NodoFF, NodoWF
<1>2. /\ hilo[h].i \in Indices /\ hilo[h].i - 1 \in 0..Len(pSegmentos)
      /\ hilo[h].pos = FinDe(hilo[h].i - 1) /\ hilo[h].pos \in Nat
      /\ hilo[h].pos <= nodo.dirFisica /\ nodo.dirFisica \in Nat
      /\ hilo[h].mayor \in Nat /\ hilo[h].fisica \in Nat /\ Pedido(h).tam \in Nat
      /\ hilo[h].mayor > 0 => Libre(hilo[h].fisica, hilo[h].mayor)
  BY <1>1, Busqueda DEF QuedanNodos
<1>3. libre = nodo.dirFisica - hilo[h].pos /\ libre \in Nat
  BY <1>2 DEF Hueco
<1>4. Libre(hilo[h].pos, libre)
  BY <1>2, <1>3, LibreAntes DEF InvUmv
<1> HIDE DEF libre
<1>5. CASE NodoFF(h)
  <2>1. CASE EntraFF(libre, Pedido(h).tam) /\ Encontrar(h, hilo[h].pos)
    <3>1. Pedido(h).tam <= libre
      BY <2>1, <1>2, <1>3 DEF EntraFF
    <3>2. Libre(hilo[h].pos, Pedido(h).tam)
      BY <3>1, <1>2, <1>3, <1>4, LibreMenos DEF InvUmv
    <3> QED
      BY <3>2, <2>1, <1>1, <1>2, Encontrado
  <2>2. CASE Avanzar(h, hilo[h].pos + libre + nodo.tamanio, 0, 0)
    BY <2>2, <1>1, Sigue DEF libre
  <2> QED
    BY <2>1, <2>2, <1>5 DEF NodoFF, libre
<1>6. CASE NodoWF(h)
  <2>1. CASE Avanzar(h, hilo[h].pos + libre + nodo.tamanio, libre, hilo[h].pos)
    BY <2>1, <1>1, <1>2, <1>3, <1>4, Sigue DEF libre
  <2>2. CASE Avanzar(h, hilo[h].pos + libre + nodo.tamanio, hilo[h].mayor, hilo[h].fisica)
    BY <2>2, <1>1, <1>2, Sigue DEF libre
  <2> QED
    BY <2>1, <2>2, <1>6 DEF NodoWF, libre
<1> QED
  BY <1>5, <1>6

\* After the last segment, what the search returns is free.
LEMMA FinBusquedaInv ==
  ASSUME InvUmv, NEW h \in Hilos, FinBusqueda(h)
  PROVE  InvUmv'
<1> DEFINE resto == CANT_MEM - hilo[h].pos
           tras == TrasElUltimo(h)
<1>1. /\ hilo[h].paso = "buscar" /\ ~QuedanNodos(h)
      /\ tras.tamanio >= Pedido(h).tam /\ Encontrar(h, tras.fisica)
      /\ UNCHANGED <<tabla, mutex, ALG_MEM, idPrograma>>
  BY DEF FinBusqueda
<1>2. /\ hilo[h].i \in 1..(Len(pSegmentos) + 1) /\ Len(pSegmentos) \in Nat
      /\ hilo[h].pos = FinDe(hilo[h].i - 1) /\ hilo[h].pos \in 0..CANT_MEM
      /\ CANT_MEM \in Nat
      /\ hilo[h].mayor \in Nat /\ hilo[h].fisica \in Nat
      /\ Pedido(h).tam \in Nat /\ Pedido(h).tam > 0
      /\ hilo[h].mayor > 0 => Libre(hilo[h].fisica, hilo[h].mayor)
  BY <1>1, Busqueda, Segmentos DEF InvUmv
<1>3. Resto(hilo[h].pos) = resto /\ resto \in Nat
  BY <1>2 DEF Resto
<1>4. ASSUME resto > 0 PROVE Libre(hilo[h].pos, resto)
  <2>1. hilo[h].i > Len(pSegmentos)
    BY <1>1, <1>2, <1>4 DEF QuedanNodos
  <2>2. hilo[h].pos = FinDe(Len(pSegmentos))
    <3>1. hilo[h].i - 1 = Len(pSegmentos)
      BY <2>1, <1>2
    <3> QED
      BY <3>1, <1>2
  <2> QED
    BY <2>2, LibreAlFinal DEF InvUmv
<1> HIDE DEF resto
<1>5. \/ tras.tamanio = resto /\ tras.fisica = hilo[h].pos
      \/ tras.tamanio = hilo[h].mayor /\ tras.fisica = hilo[h].fisica
  BY <1>3 DEF TrasElUltimo
<1> HIDE DEF tras
<1>6. /\ tras.tamanio \in Nat /\ tras.fisica \in Nat
      /\ Libre(tras.fisica, tras.tamanio)
  BY <1>1, <1>2, <1>3, <1>4, <1>5
<1>7. Libre(tras.fisica, Pedido(h).tam)
  BY <1>1, <1>2, <1>6, LibreMenos DEF InvUmv
<1> QED
  BY <1>1, <1>6, <1>7, Encontrado

-----------------------------------------------------------------------------
(* The steps that change the table. *)

\* The new segment goes where the search says: the table stays in order and disjoint.
LEMMA InsertarInv ==
  ASSUME InvUmv, NEW h \in Hilos, InsertarSegmento(h)
  PROVE  InvUmv'
<1>1. /\ hilo \in [Hilos -> HiloT] /\ hilo[h] \in HiloT /\ Control(h) /\ Avance(h)
      /\ Pedido(h) = hilo[h].pedido /\ Pedido(h) \in Pedidos[h] \cup {SinPedido}
      /\ Pid(h) \in Nat
  BY DeUnHilo DEF InvUmv, Tipos
<1>2. hilo[h].paso = "insertar" /\ UNCHANGED <<memoria, ALG_MEM, idPrograma>>
      /\ mutex' = Nadie
  BY DEF InsertarSegmento
<1>3. PICK d \in Libres :
        /\ pSegmentos' = InsertAt(pSegmentos, Posicion(hilo[h].fisica),
             [idPrograma |-> Pid(h), tamanio |-> Pedido(h).tam, dirLogica |-> d,
              dirFisica |-> hilo[h].fisica])
        /\ hilo' = [hilo EXCEPT ![h] =
             [Hilo("responder", hilo[h].pedido, SinRespuesta) EXCEPT !.nodo = d]]
  BY DEF InsertarSegmento
<1>4. /\ mutex = h
      /\ Pedido(h).tam \in Nat \ {0} /\ hilo[h].fisica \in Nat
      /\ Libre(hilo[h].fisica, Pedido(h).tam)
  BY <1>1, <1>2, PedidoTipo DEF Control, Avance, EnSeccion, HiloT
<1>5. pSegmentos' \in Seq(SegmentoT) /\ TablaEnRegla'
  BY <1>1, <1>3, <1>4, TablaInserta DEF InvUmv
<1>6. Resguarda(h)
  BY <1>2, <1>4, <1>5 DEF Resguarda, InvUmv, Tipos
<1> DEFINE nuevo == Hilo("responder", hilo[h].pedido, SinRespuesta)
           n == [nuevo EXCEPT !.nodo = d]
<1>7. /\ nuevo \in HiloT /\ nuevo.paso = "responder" /\ nuevo.pedido = hilo[h].pedido
      /\ nuevo.i = 1 /\ nuevo.pos = 0 /\ nuevo.mayor = 0
  BY <1>1, HiloTipo, PedidoTipo, SinRespuestaTipo DEF Pasos
<1>8. hilo' = [hilo EXCEPT ![h] = n]
  BY <1>3
<1> HIDE DEF nuevo
<1>9. /\ n \in HiloT /\ n.paso = "responder" /\ n.pedido = hilo[h].pedido
      /\ n.i = 1 /\ n.pos = 0 /\ n.mayor = 0
  BY <1>7 DEF HiloT, Libres
<1> HIDE DEF n
<1>10. hilo'[h] = n
  BY <1>1, <1>8, <1>9, HiloCambia
<1>11. Control(h)'
  BY <1>1, <1>2, <1>9, <1>10, ParametrosUmv DEF Control, Pedido, EnSeccion
<1>12. Avance(h)'
  BY <1>9, <1>10 DEF Avance
<1> QED
  BY <1>6, <1>8, <1>9, <1>11, <1>12, LosOtros

\* Answering for it keeps the invariant.
LEMMA ResponderCreadoInv ==
  ASSUME InvUmv, NEW h \in Hilos, ResponderCreado(h)
  PROVE  InvUmv'
<1>1. Control(h) /\ hilo[h].pedido \in Pedidos[h] \cup {SinPedido}
  BY DeUnHilo
<1>2. PICK d \in DirLogicas :
        hilo' = [hilo EXCEPT ![h] =
                   Hilo("enviar", hilo[h].pedido, Resp("segmentoCreado", d, <<>>))]
  BY DEF ResponderCreado, Contestar
<1>3. /\ hilo[h].paso = "responder" /\ mutex' = mutex
      /\ UNCHANGED <<tabla, ALG_MEM, idPrograma>>
  BY DEF ResponderCreado
<1>4. Resp("segmentoCreado", d, <<>>) \in RespuestaT
  BY RespuestaTipo DEF TiposRespuesta
<1>5. Resguarda(h) /\ mutex' # h
  BY <1>1, <1>3, TablaIgual DEF Control, EnSeccion, InvUmv, Tipos
<1> QED
  BY <1>1, <1>2, <1>4, <1>5, Suelta

\* Compaction moves a segment down to the end of the one before.
LEMMA MoverInv ==
  ASSUME InvUmv, NEW h \in Hilos, MoverSegmento(h)
  PROVE  InvUmv'
<1> DEFINE k == hilo[h].i
           s == pSegmentos
           hasta == hilo[h].pos
           sigue == hasta + s[k].tamanio
<1>1. /\ hilo[h].paso = "compactar" /\ k <= Len(s)
      /\ memoria' = Copiado(s[k].dirFisica, hasta, s[k].tamanio)
      /\ s' = [s EXCEPT ![k].dirFisica = hasta]
      /\ Avanzar(h, sigue, hilo[h].mayor, hilo[h].fisica)
      /\ UNCHANGED <<mutex, ALG_MEM, idPrograma>>
  BY DEF MoverSegmento, Compactado
<1>2. /\ mutex = h /\ k \in Indices /\ Len(s) \in Nat
      /\ hasta = FinDe(k - 1) /\ hasta \in Nat
      /\ hasta <= s[k].dirFisica /\ s[k].dirFisica \in Nat /\ s[k].tamanio \in Nat
      /\ s[k].dirFisica + s[k].tamanio <= CANT_MEM /\ CANT_MEM \in Nat
      /\ hilo[h].mayor \in Nat /\ hilo[h].fisica \in Nat
  BY <1>1, Busqueda, Segmentos DEF InvUmv
<1>3. /\ s' \in Seq(SegmentoT) /\ Len(s') = Len(s) /\ TablaEnRegla'
      /\ s'[k].dirFisica = hasta /\ s'[k].tamanio = s[k].tamanio
      /\ \A j \in Indices \ {k} : s'[j] = s[j]
  BY <1>1, <1>2, TablaMueve DEF InvUmv
<1>4. memoria' \in [Direcciones -> Bytes]
  <2>1. memoria \in [Direcciones -> Bytes]
    BY DEF InvUmv, Tipos
  <2>2. ASSUME NEW d \in Direcciones, d \in hasta..(hasta + s[k].tamanio - 1)
        PROVE  d - hasta + s[k].dirFisica \in Direcciones
    <3> DEFINE a == s[k].dirFisica
               t == s[k].tamanio
    <3>1. /\ d \in Nat /\ hasta \in Nat /\ a \in Nat /\ t \in Nat /\ CANT_MEM \in Nat
          /\ hasta <= d /\ d <= hasta + t - 1 /\ a + t <= CANT_MEM
      BY <1>2, <2>2 DEF Direcciones
    <3> HIDE DEF a, t, hasta
    <3>2. d - hasta + a \in 0..(CANT_MEM - 1)
      BY <3>1
    <3> QED
      BY <3>2 DEF Direcciones, a, hasta
  <2> QED
    BY <1>1, <2>1, <2>2 DEF Copiado
<1>5. Resguarda(h)
  BY <1>1, <1>2, <1>3, <1>4 DEF Resguarda, InvUmv, Tipos
<1>6. sigue \in Nat
  BY <1>2
<1> HIDE DEF sigue
<1>7. PICK n \in HiloT :
        /\ hilo' = [hilo EXCEPT ![h] = n] /\ hilo'[h] = n
        /\ n.paso = hilo[h].paso /\ n.pedido = hilo[h].pedido
        /\ n.i = k + 1 /\ n.pos = sigue
        /\ n.mayor = hilo[h].mayor /\ n.fisica = hilo[h].fisica
  BY <1>1, <1>2, <1>6, AvanzarTipo
<1>8. Control(h)'
  BY <1>1, <1>7, DeUnHilo DEF Control, Pedido, EnSeccion
<1>9. s'[k].dirFisica + s'[k].tamanio = sigue /\ k # 0
  BY <1>2, <1>3 DEF sigue, Indices
<1>10. \A j \in 0..(k - 1) : FinDe(j)' = FinDe(j)
  BY <1>2, <1>3 DEF FinDe, Indices
<1>11. ASSUME NEW j \in 1..k PROVE s'[j].dirFisica = FinDe(j - 1)'
  <2>1. FinDe(j - 1)' = FinDe(j - 1)
    BY <1>2, <1>10 DEF Indices
  <2>2. CASE j = k
    BY <2>1, <2>2, <1>2, <1>3
  <2>3. CASE j # k
    <3>1. j \in Indices \ {k} /\ j \in 1..(k - 1)
      BY <2>3, <1>2 DEF Indices
    <3>2. s[j].dirFisica = FinDe(j - 1)
      BY <3>1, <1>1, DeUnHilo DEF Avance
    <3> QED
      BY <2>1, <3>1, <3>2, <1>3
  <2> QED
    BY <2>2, <2>3
<1>12. Avance(h)'
  <2>1. n.i \in 1..(Len(s') + 1) /\ n.i - 1 = k
    BY <1>2, <1>3, <1>7 DEF Indices
  <2>2. hilo'[h].pos = FinDe(hilo[h].i - 1)'
    BY <2>1, <1>7, <1>9 DEF FinDe
  <2>3. \A j \in 1..(hilo'[h].i - 1) : s'[j].dirFisica = FinDe(j - 1)'
    BY <2>1, <1>7, <1>11
  <2> QED
    BY <2>1, <2>2, <2>3, <1>1, <1>7 DEF Avance
<1> QED
  BY <1>5, <1>7, <1>8, <1>12, LosOtros

\* Removing a segment leaves the others as they were.
LEMMA QuitarInv ==
  ASSUME InvUmv, NEW h \in Hilos, QuitarSegmento(h)
  PROVE  InvUmv'
<1>1. PICK k \in DelPrograma(Pid(h)) : pSegmentos' = RemoveAt(pSegmentos, k)
  BY DEF QuitarSegmento
<1>2. /\ hilo[h].paso = "destruir"
      /\ UNCHANGED <<memoria, mutex, ALG_MEM, idPrograma, hilo>>
  BY DEF QuitarSegmento
<1>3. /\ hilo \in [Hilos -> HiloT] /\ hilo[h] \in HiloT /\ Control(h)
  BY DeUnHilo DEF InvUmv, Tipos
<1>4. mutex = h
  BY <1>2, <1>3 DEF Control, EnSeccion
<1>5. pSegmentos' \in Seq(SegmentoT) /\ TablaEnRegla'
  BY <1>1, TablaQuita DEF InvUmv, DelPrograma
<1>6. Resguarda(h)
  BY <1>2, <1>4, <1>5 DEF Resguarda, InvUmv, Tipos
<1>7. hilo' = [hilo EXCEPT ![h] = hilo[h]]
  BY <1>2, <1>3
<1>8. Control(h)' /\ Avance(h)'
  BY <1>2, <1>3 DEF Control, Avance, Pedido
<1> QED
  BY <1>3, <1>6, <1>7, <1>8, LosOtros

-----------------------------------------------------------------------------
(* The theorems. *)

\* Every step keeps the invariant.
LEMMA NextInv == InvUmv /\ [Next]_vars => InvUmv'
<1> SUFFICES ASSUME InvUmv, [Next]_vars PROVE InvUmv'
  OBVIOUS
<1>1. ASSUME NEW h \in Hilos, Recibir(h) \/ Desconectar(h) \/ Paso(h)
      PROVE  InvUmv'
  <2>1. CASE Recibir(h) \/ Desconectar(h) \/ Saludar(h) \/ ResponderCambio(h)
               \/ Enviar(h) \/ CambiarAlgoritmo(h)
    BY <2>1, ConexionInv
  <2>2. CASE SolicitarBytes(h) \/ AlmacenarBytes(h)
    BY <2>2, AccesosInv
  <2>3. CASE Lock(h) \/ LockCompactar(h)
    BY <2>3, LockInv
  <2>4. CASE NodoFF(h) \/ NodoWF(h)
    BY <2>4, NodoInv
  <2>5. CASE FinBusqueda(h)
    BY <2>5, FinBusquedaInv
  <2>6. CASE SinLugar(h) \/ MemoryOverload(h) \/ FinCompactar(h) \/ FinDestruir(h)
               \/ LockDestruir(h)
    BY <2>6, SeccionInv
  <2>7. CASE InsertarSegmento(h)
    BY <2>7, InsertarInv
  <2>8. CASE ResponderCreado(h)
    BY <2>8, ResponderCreadoInv
  <2>9. CASE MoverSegmento(h)
    BY <2>9, MoverInv
  <2>10. CASE QuitarSegmento(h)
    BY <2>10, QuitarInv
  <2> QED
    BY <1>1, <2>1, <2>2, <2>3, <2>4, <2>5, <2>6, <2>7, <2>8, <2>9, <2>10, Zenon DEF Paso
<1>2. CASE UNCHANGED vars
  BY <1>2 DEF vars, tabla, InvUmv, Tipos, Control, Avance, TablaEnRegla, Indices, Pedido,
              Libre, FinDe
<1> QED
  BY <1>1, <1>2, Zenon DEF Next

\* The invariant holds in every state: whatever the threads ask for and in whatever
\* order they run, each has of the table what its loop takes for granted.
THEOREM Invariante == Spec => []InvUmv
<1>1. Init => InvUmv
  BY InitInv
<1>2. InvUmv /\ [Next]_vars => InvUmv'
  BY NextInv
<1> QED
  BY <1>1, <1>2, PTL DEF Spec

\* Types, and every loop's pointer in the memory or at its end.
THEOREM TiposUmv == Spec => []TypeOK
<1>1. InvUmv => TypeOK
  <2> SUFFICES ASSUME InvUmv PROVE TypeOK
    OBVIOUS
  <2>1. \A i \in Indices : pSegmentos[i] \in SegmentoT
    BY Segmentos DEF InvUmv
  <2>2. ASSUME NEW h \in Hilos
        PROVE  hilo[h].i \in Nat /\ hilo[h].pos \in 0..CANT_MEM
    <3>1. hilo[h] \in HiloT /\ Control(h)
      BY DeUnHilo
    <3>2. CASE hilo[h].paso \in {"buscar", "compactar"}
      BY <3>1, <3>2, Busqueda DEF HiloT
    <3>3. CASE hilo[h].paso \notin {"buscar", "compactar"}
      BY <3>1, <3>3, ParametrosUmv DEF HiloT, Control
    <3> QED
      BY <3>2, <3>3
  <2> QED
    BY <2>1, <2>2 DEF TypeOK, InvUmv, Tipos, SegmentoT
<1> QED
  BY <1>1, Invariante, PTL

\* The segments are in the memory, in order and disjoint, and no two have the same
\* logical address.
THEOREM SegmentosDisjuntos == Spec => []TablaEnRegla
<1>1. InvUmv => TablaEnRegla
  BY DEF InvUmv
<1> QED
  BY <1>1, Invariante, PTL

\* When a compaction unlocks, the segments are together from the start on.
THEOREM CompactacionCompleta == Spec => CompactarJunta
<1> DEFINE Juntos == /\ Len(pSegmentos) > 0 => pSegmentos[1].dirFisica = 0
                     /\ \A i \in Indices : i > 1 =>
                          pSegmentos[i].dirFisica = pSegmentos[i - 1].dirFisica
                                                      + pSegmentos[i - 1].tamanio
           Junta == \A h \in Hilos : FinCompactar(h) => Juntos
<1>1. InvUmv /\ [Next]_vars => [Junta]_vars
  <2> SUFFICES ASSUME InvUmv, NEW h \in Hilos, FinCompactar(h) PROVE Juntos
    OBVIOUS
  <2>1. hilo[h].paso = "compactar" /\ hilo[h].i > Len(pSegmentos)
    BY DEF FinCompactar
  <2>2. hilo[h].i \in 1..(Len(pSegmentos) + 1) /\ Len(pSegmentos) \in Nat
    BY <2>1, Busqueda, Segmentos DEF InvUmv
  <2>3. hilo[h].i - 1 = Len(pSegmentos)
    BY <2>1, <2>2
  <2>4. \A j \in Indices : pSegmentos[j].dirFisica = FinDe(j - 1)
    BY <2>1, <2>3, DeUnHilo DEF Avance, Indices
  <2>5. Len(pSegmentos) > 0 => pSegmentos[1].dirFisica = 0
    BY <2>2, <2>4 DEF FinDe, Indices
  <2>6. ASSUME NEW j \in Indices, j > 1
        PROVE  pSegmentos[j].dirFisica = pSegmentos[j - 1].dirFisica
                                           + pSegmentos[j - 1].tamanio
    BY <2>2, <2>4, <2>6 DEF FinDe, Indices
  <2> QED
    BY <2>5, <2>6
<1> HIDE DEF Junta
<1>2. Spec => [][Junta]_vars
  BY <1>1, Invariante, PTL DEF Spec
<1> QED
  BY <1>2 DEF CompactarJunta, Junta

-----------------------------------------------------------------------------
(* The searches: the free runs of bytes are the gaps between segments, and each *)
(* loop knows the gaps it has passed.                                           *)

\* Where the k-th segment begins; after the last one, the end of the memory. The
\* k-th gap is what is between it and the segment before.
ComienzoDe(k) == IF k = Len(pSegmentos) + 1 THEN CANT_MEM ELSE pSegmentos[k].dirFisica
Ancho(k) == ComienzoDe(k) - FinDe(k - 1)

\* The gap that an algorithm takes for n bytes.
Elegido(alg, k, n) ==
  /\ Ancho(k) >= n
  /\ IF alg = "FF" THEN \A j \in 1..(k - 1) : Ancho(j) < n
     ELSE \A j \in 1..(Len(pSegmentos) + 1) : Ancho(j) <= Ancho(k)

\* What a search knows of the gaps it has passed, and what it has found.
Pasados(h) ==
  IF hilo[h].alg = "FF" THEN \A k \in 1..(hilo[h].i - 1) : Ancho(k) < Pedido(h).tam
  ELSE /\ \A k \in 1..(hilo[h].i - 1) : Ancho(k) <= hilo[h].mayor
       /\ hilo[h].mayor > 0 =>
            \E k \in 1..(hilo[h].i - 1) :
              hilo[h].fisica = FinDe(k - 1) /\ Ancho(k) = hilo[h].mayor
Busca(h) ==
  /\ hilo[h].paso = "buscar" => Pasados(h)
  /\ hilo[h].paso = "insertar" =>
       \E k \in 1..(Len(pSegmentos) + 1) :
         hilo[h].fisica = FinDe(k - 1) /\ Elegido(hilo[h].alg, k, Pedido(h).tam)

-----------------------------------------------------------------------------
(* Gaps and free runs. *)

\* Where a gap begins and ends.
LEMMA Gaps ==
  ASSUME InvUmv, NEW k \in 1..(Len(pSegmentos) + 1)
  PROVE  /\ k - 1 \in 0..Len(pSegmentos) /\ Len(pSegmentos) \in Nat /\ CANT_MEM \in Nat
         /\ FinDe(k - 1) \in Nat /\ ComienzoDe(k) \in Nat
         /\ FinDe(k - 1) <= ComienzoDe(k) /\ ComienzoDe(k) <= CANT_MEM
         /\ Ancho(k) \in Nat /\ FinDe(k - 1) + Ancho(k) = ComienzoDe(k)
         /\ \A j \in Indices : k <= j => ComienzoDe(k) <= pSegmentos[j].dirFisica
<1>1. Tipos /\ TablaEnRegla
  BY DEF InvUmv
<1>2. k - 1 \in 0..Len(pSegmentos) /\ Len(pSegmentos) \in Nat /\ CANT_MEM \in Nat
  BY <1>1, Segmentos
<1>3. FinDe(k - 1) \in 0..CANT_MEM
  BY <1>1, <1>2, Orden
<1>4. CASE k = Len(pSegmentos) + 1
  <2>1. ComienzoDe(k) = CANT_MEM /\ \A j \in Indices : ~(k <= j)
    BY <1>2, <1>4 DEF ComienzoDe, Indices
  <2> QED
    BY <1>2, <1>3, <2>1 DEF Ancho
<1>5. CASE k # Len(pSegmentos) + 1
  <2>1. k \in Indices /\ k - 1 < k
    BY <1>2, <1>5 DEF Indices
  <2>2. ComienzoDe(k) = pSegmentos[k].dirFisica
    BY <1>5 DEF ComienzoDe
  <2>3. FinDe(k - 1) <= pSegmentos[k].dirFisica
    BY <1>1, <1>2, <2>1, Orden
  <2>4. /\ pSegmentos[k].dirFisica \in Nat /\ pSegmentos[k].tamanio \in Nat
        /\ pSegmentos[k].dirFisica + pSegmentos[k].tamanio <= CANT_MEM
    BY <1>1, <2>1, Segmentos
  <2>5. ASSUME NEW j \in Indices, k <= j
        PROVE  pSegmentos[k].dirFisica <= pSegmentos[j].dirFisica
    <3>1. CASE k = j
      BY <2>4, <3>1
    <3>2. CASE k < j
      <4>1. pSegmentos[k].dirFisica + pSegmentos[k].tamanio <= pSegmentos[j].dirFisica
        BY <2>1, <3>2 DEF TablaEnRegla, InvUmv
      <4>2. pSegmentos[j].dirFisica \in Nat
        BY <1>1, Segmentos
      <4> QED
        BY <2>4, <4>1, <4>2
    <3> QED
      BY <2>5, <3>1, <3>2 DEF Indices
  <2> QED
    BY <1>2, <1>3, <2>2, <2>3, <2>4, <2>5 DEF Ancho
<1> QED
  BY <1>4, <1>5

\* The bytes of a segment are taken, and those of a gap are not.
LEMMA OcupadasSon ==
  ASSUME InvUmv
  PROVE  /\ \A j \in Indices : \A x \in Int :
              pSegmentos[j].dirFisica <= x
              /\ x < pSegmentos[j].dirFisica + pSegmentos[j].tamanio => x \in Ocupadas
         /\ \A k \in 1..(Len(pSegmentos) + 1) : \A x \in Int :
              FinDe(k - 1) <= x /\ x < ComienzoDe(k) => x \in Direcciones \ Ocupadas
<1>1. /\ Tipos /\ TablaEnRegla
      /\ \A j \in Indices : /\ pSegmentos[j].dirFisica \in Nat
                            /\ pSegmentos[j].tamanio \in Nat
  BY Segmentos DEF InvUmv
<1>2. \A x : x \in Ocupadas <=>
        \E j \in Indices :
          x \in pSegmentos[j].dirFisica..(pSegmentos[j].dirFisica + pSegmentos[j].tamanio - 1)
  BY Zenon DEF Ocupadas
<1>3. ASSUME NEW j \in Indices, NEW x \in Int, pSegmentos[j].dirFisica <= x,
             x < pSegmentos[j].dirFisica + pSegmentos[j].tamanio
      PROVE  x \in Ocupadas
  <2>1. x \in pSegmentos[j].dirFisica..(pSegmentos[j].dirFisica + pSegmentos[j].tamanio - 1)
    BY <1>1, <1>3
  <2> QED
    BY <1>2, <2>1, Zenon
<1>4. ASSUME NEW k \in 1..(Len(pSegmentos) + 1), NEW x \in Int,
             FinDe(k - 1) <= x, x < ComienzoDe(k)
      PROVE  x \in Direcciones \ Ocupadas
  <2>1. x \in Direcciones
    BY <1>4, Gaps DEF Direcciones
  <2>2. ASSUME NEW j \in Indices,
               x \in pSegmentos[j].dirFisica..(pSegmentos[j].dirFisica
                                               + pSegmentos[j].tamanio - 1)
        PROVE  FALSE
    <3>1. pSegmentos[j].dirFisica <= x
          /\ x < pSegmentos[j].dirFisica + pSegmentos[j].tamanio
      BY <1>1, <2>2
    <3>2. CASE j <= k - 1
      <4>1. /\ pSegmentos[j].dirFisica + pSegmentos[j].tamanio <= FinDe(k - 1)
            /\ FinDe(k - 1) \in Nat
        BY <1>1, <3>2, Gaps, Orden
      <4> QED
        BY <1>1, <1>4, <3>1, <4>1
    <3>3. CASE k <= j
      <4>1. ComienzoDe(k) <= pSegmentos[j].dirFisica /\ ComienzoDe(k) \in Nat
        BY <3>3, Gaps
      <4> QED
        BY <1>1, <1>4, <3>1, <4>1
    <3> QED
      BY <3>2, <3>3 DEF Indices
  <2> QED
    BY <1>2, <2>1, <2>2, Zenon
<1> QED
  BY <1>3, <1>4

\* A gap that is not empty is a maximal free run.
LEMMA GapEsHueco ==
  ASSUME InvUmv, NEW k \in 1..(Len(pSegmentos) + 1), Ancho(k) > 0
  PROVE  <<FinDe(k - 1), Ancho(k)>> \in Huecos
<1> DEFINE a == FinDe(k - 1)
           b == ComienzoDe(k)
           n == Ancho(k)
<1>1. /\ a \in Nat /\ b \in Nat /\ n \in Nat /\ n > 0 /\ a + n = b
      /\ b <= CANT_MEM /\ CANT_MEM \in Nat /\ Len(pSegmentos) \in Nat
  BY Gaps
<1>2. /\ Tipos /\ TablaEnRegla
      /\ \A j \in Indices : /\ pSegmentos[j].dirFisica \in Nat /\ pSegmentos[j].tamanio \in Nat
                            /\ pSegmentos[j].tamanio > 0
  BY Segmentos DEF InvUmv
<1> HIDE DEF n
<1>3. a..(a + n - 1) \subseteq Direcciones \ Ocupadas
  <2> SUFFICES ASSUME NEW x \in a..(a + n - 1) PROVE x \in Direcciones \ Ocupadas
    OBVIOUS
  <2>1. x \in Int /\ FinDe(k - 1) <= x /\ x < ComienzoDe(k)
    BY <1>1
  <2> QED
    BY <2>1, OcupadasSon
<1>4. (a - 1) \notin Direcciones \ Ocupadas
  <2>1. CASE k = 1
    BY <2>1 DEF FinDe, Direcciones
  <2>2. CASE k # 1
    <3>1. k - 1 \in Indices
          /\ a = pSegmentos[k - 1].dirFisica + pSegmentos[k - 1].tamanio
      BY <1>1, <2>2 DEF FinDe, Indices
    <3>2. /\ a - 1 \in Int /\ pSegmentos[k - 1].dirFisica <= a - 1
          /\ a - 1 < pSegmentos[k - 1].dirFisica + pSegmentos[k - 1].tamanio
      BY <1>1, <1>2, <3>1
    <3> QED
      BY <3>1, <3>2, OcupadasSon
  <2> QED
    BY <2>1, <2>2
<1>5. (a + n) \notin Direcciones \ Ocupadas
  <2>1. CASE k = Len(pSegmentos) + 1
    BY <1>1, <2>1 DEF ComienzoDe, Direcciones
  <2>2. CASE k # Len(pSegmentos) + 1
    <3>1. k \in Indices /\ b = pSegmentos[k].dirFisica
      BY <1>1, <2>2 DEF ComienzoDe, Indices
    <3>2. /\ b \in Int /\ pSegmentos[k].dirFisica <= b
          /\ b < pSegmentos[k].dirFisica + pSegmentos[k].tamanio
      BY <1>1, <1>2, <3>1
    <3>3. b \in Ocupadas
      BY <3>1, <3>2, OcupadasSon
    <3> QED
      BY <3>3, <1>1
  <2> QED
    BY <2>1, <2>2
<1>6. a \in Direcciones /\ n \in 1..CANT_MEM
  BY <1>1 DEF Direcciones
<1> HIDE DEF a
<1>7. <<a, n>> \in Huecos
  BY <1>3, <1>4, <1>5, <1>6 DEF Huecos
<1> QED
  BY <1>7 DEF a, n

\* And there are no others.
LEMMA HuecoEsGap ==
  ASSUME InvUmv, NEW g \in Huecos
  PROVE  \E k \in 1..(Len(pSegmentos) + 1) : g[1] = FinDe(k - 1) /\ g[2] = Ancho(k)
<1> DEFINE a == g[1]
           n == g[2]
           T == {j \in Indices : a <= pSegmentos[j].dirFisica} \cup {Len(pSegmentos) + 1}
<1>1. /\ Tipos /\ TablaEnRegla /\ Len(pSegmentos) \in Nat /\ CANT_MEM \in Nat
      /\ \A j \in Indices : /\ pSegmentos[j].dirFisica \in Nat /\ pSegmentos[j].tamanio \in Nat
                            /\ pSegmentos[j].tamanio > 0
                            /\ pSegmentos[j].dirFisica + pSegmentos[j].tamanio <= CANT_MEM
  BY Segmentos DEF InvUmv
<1>2. g \in Direcciones \X (1..CANT_MEM)
  BY DEF Huecos
<1>3. a \in 0..(CANT_MEM - 1) /\ n \in 1..CANT_MEM
  BY <1>2 DEF Direcciones
<1>4. /\ a..(a + n - 1) \subseteq Direcciones \ Ocupadas
      /\ (a - 1) \notin Direcciones \ Ocupadas
      /\ (a + n) \notin Direcciones \ Ocupadas
  BY DEF Huecos
<1> HIDE DEF a, n
<1>5. a + n <= CANT_MEM
  <2>1. a + n - 1 \in a..(a + n - 1)
    BY <1>3
  <2>2. a + n - 1 \in Direcciones
    BY <2>1, <1>4
  <2> QED
    BY <2>2, <1>1, <1>3 DEF Direcciones
<1>6. T \subseteq Nat /\ T # {}
  BY <1>1 DEF Indices
<1> HIDE DEF T
<1>7. PICK k \in T : \A j \in T : k <= j
  BY <1>6, MinimoNatural
<1>8. k \in 1..(Len(pSegmentos) + 1)
  BY <1>1 DEF T, Indices
<1>9. /\ FinDe(k - 1) \in Nat /\ ComienzoDe(k) \in Nat
      /\ FinDe(k - 1) <= ComienzoDe(k) /\ ComienzoDe(k) <= CANT_MEM
      /\ FinDe(k - 1) + Ancho(k) = ComienzoDe(k) /\ Ancho(k) \in Nat
  BY <1>8, Gaps
\* The segments before are at its left: its first byte is of none of them.
<1>10. FinDe(k - 1) <= a
  <2>1. CASE k = 1
    BY <2>1, <1>3 DEF FinDe
  <2>2. CASE k # 1
    <3>1. /\ k - 1 \in Indices /\ ~(k <= k - 1)
          /\ FinDe(k - 1) = pSegmentos[k - 1].dirFisica + pSegmentos[k - 1].tamanio
      BY <1>1, <1>8, <2>2 DEF FinDe, Indices
    <3>2. k - 1 \notin T
      BY <3>1, <1>7
    <3>3. ~(a <= pSegmentos[k - 1].dirFisica)
      BY <3>1, <3>2 DEF T
    <3>4. a \in Int /\ a \notin Ocupadas
      BY <1>3, <1>4
    <3>5. ~(a < pSegmentos[k - 1].dirFisica + pSegmentos[k - 1].tamanio)
      <4>1. pSegmentos[k - 1].dirFisica <= a
        BY <3>1, <3>3, <3>4, <1>1
      <4> QED
        BY <3>1, <3>4, <4>1, OcupadasSon
    <3> QED
      BY <3>1, <3>5, <1>1, <1>3
  <2> QED
    BY <2>1, <2>2
\* The segment after is at its right: its first byte is not of the run.
<1>11. a + n <= ComienzoDe(k)
  <2>1. CASE k = Len(pSegmentos) + 1
    BY <2>1, <1>5 DEF ComienzoDe
  <2>2. CASE k # Len(pSegmentos) + 1
    <3> DEFINE b == pSegmentos[k].dirFisica
    <3>1. k \in Indices /\ ComienzoDe(k) = b
      BY <1>1, <1>8, <2>2 DEF ComienzoDe, Indices
    <3>2. a <= b /\ b \in Nat /\ b < b + pSegmentos[k].tamanio
      BY <1>1, <3>1, <2>2 DEF T
    <3>3. b \in Ocupadas
      <4>1. b \in Int /\ b <= b
        BY <3>2
      <4> QED
        BY <3>1, <3>2, <4>1, OcupadasSon
    <3> HIDE DEF b
    <3>4. b \notin a..(a + n - 1)
      BY <3>3, <1>4
    <3> QED
      BY <3>1, <3>2, <3>4, <1>3
  <2> QED
    BY <2>1, <2>2
<1>12. a < ComienzoDe(k)
  BY <1>3, <1>9, <1>11
<1>13. a = FinDe(k - 1)
  <2>1. ASSUME FinDe(k - 1) < a PROVE FALSE
    <3>1. a - 1 \in Int /\ FinDe(k - 1) <= a - 1 /\ a - 1 < ComienzoDe(k)
      BY <2>1, <1>3, <1>9, <1>12
    <3> QED
      BY <3>1, <1>4, <1>8, OcupadasSon
  <2> QED
    BY <2>1, <1>3, <1>9, <1>10
<1>14. a + n = ComienzoDe(k)
  <2>1. ASSUME a + n < ComienzoDe(k) PROVE FALSE
    <3>1. a + n \in Int /\ FinDe(k - 1) <= a + n
      BY <1>3, <1>9, <1>10
    <3> QED
      BY <2>1, <3>1, <1>4, <1>8, OcupadasSon
  <2> QED
    BY <2>1, <1>3, <1>9, <1>11
<1>15. n = Ancho(k)
  BY <1>3, <1>9, <1>13, <1>14
<1> QED
  BY <1>8, <1>13, <1>15 DEF a, n

-----------------------------------------------------------------------------
(* The invariant of the search. *)

InvEspacio == InvUmv /\ \A h \in Hilos : Busca(h)

\* A thread whose step and locals are the same, with the same table, has found the
\* same.
LEMMA BuscaIgual ==
  ASSUME NEW g \in Hilos, Busca(g), hilo'[g] = hilo[g], pSegmentos' = pSegmentos
  PROVE  Busca(g)'
<1>1. Len(pSegmentos') = Len(pSegmentos) /\ Pedido(g)' = Pedido(g)
  BY DEF Pedido
<1>2. \A k : FinDe(k)' = FinDe(k) /\ ComienzoDe(k)' = ComienzoDe(k)
  BY DEF FinDe, ComienzoDe
<1>3. \A k : Ancho(k)' = Ancho(k)
  BY <1>2 DEF Ancho, FinDe, ComienzoDe
<1>4. \A alg, k, n : Elegido(alg, k, n)' <=> Elegido(alg, k, n)
  BY DEF Elegido, Ancho, FinDe, ComienzoDe
<1> QED
  BY <1>1, <1>2, <1>3, <1>4 DEF Busca, Pasados

\* A step of h leaves the other threads alone; it changes the table with the mutex
\* only; and if it is not one of the search, it does not leave h in it.
LEMMA SoloUno ==
  ASSUME InvUmv, NEW h \in Hilos, Recibir(h) \/ Desconectar(h) \/ Paso(h)
  PROVE  /\ \A g \in Hilos \ {h} : hilo'[g] = hilo[g]
         /\ pSegmentos' = pSegmentos \/ mutex = h
         /\ \/ Lock(h) \/ NodoFF(h) \/ NodoWF(h) \/ FinBusqueda(h)
            \/ hilo'[h].paso \notin {"buscar", "insertar"}
<1>1. /\ hilo \in [Hilos -> HiloT] /\ hilo[h] \in HiloT
      /\ hilo[h].paso \in EnSeccion <=> mutex = h
  BY DeUnHilo DEF InvUmv, Tipos, Control
<1>2. \A p, q, r : Hilo(p, q, r).paso = p
  BY DEF Hilo
<1>3. CASE Saludar(h)
  BY <1>3, <1>1, <1>2 DEF Saludar, Seguir, tabla, EnSeccion
<1>4. CASE Desconectar(h)
  BY <1>4, <1>1, <1>2 DEF Desconectar, tabla, EnSeccion
<1>5. CASE Recibir(h)
  <2>1. PICK q \in Pedidos[h] : hilo' = [hilo EXCEPT ![h] = Hilo(PasoDe(q.op), q, SinRespuesta)]
    BY <1>5 DEF Recibir
  <2>2. PasoDe(q.op) \notin {"buscar", "insertar"}
    BY ParametrosUmv DEF PasoDe, Ops
  <2>3. pSegmentos' = pSegmentos
    BY <1>5 DEF Recibir, tabla
  <2> QED
    BY <2>1, <2>2, <2>3, <1>1, <1>2
<1>6. CASE ResponderCambio(h)
  BY <1>6, <1>1, <1>2 DEF ResponderCambio, Contestar, tabla, EnSeccion
<1>7. CASE Enviar(h)
  BY <1>7, <1>1, <1>2 DEF Enviar, tabla, EnSeccion
<1>8. CASE CambiarAlgoritmo(h)
  BY <1>8, <1>1, <1>2 DEF CambiarAlgoritmo, Contestar, tabla, EnSeccion
<1>9. CASE SolicitarBytes(h)
  BY <1>9, <1>1, <1>2 DEF SolicitarBytes, Contestar, tabla, EnSeccion
<1>10. CASE AlmacenarBytes(h)
  BY <1>10, <1>1, <1>2 DEF AlmacenarBytes, Contestar, tabla, EnSeccion
<1>11. CASE SinLugar(h)
  BY <1>11, <1>1, <1>2 DEF SinLugar, tabla, EnSeccion
<1>12. CASE MemoryOverload(h)
  BY <1>12, <1>1, <1>2 DEF MemoryOverload, Contestar, tabla, EnSeccion
<1>13. CASE InsertarSegmento(h)
  BY <1>13, <1>1, <1>2 DEF InsertarSegmento, tabla, EnSeccion
<1>14. CASE ResponderCreado(h)
  BY <1>14, <1>1, <1>2 DEF ResponderCreado, Contestar, tabla, EnSeccion
<1>15. CASE LockCompactar(h)
  BY <1>15, <1>1, <1>2 DEF LockCompactar, tabla, EnSeccion
<1>16. CASE MoverSegmento(h)
  BY <1>16, <1>1, <1>2 DEF MoverSegmento, Avanzar, tabla, EnSeccion
<1>17. CASE FinCompactar(h)
  <2>1. mutex = h /\ pSegmentos' = pSegmentos
    BY <1>17, <1>1 DEF FinCompactar, tabla, EnSeccion
  <2>2. CASE Pedido(h).op = "compactar"
    BY <2>1, <2>2, <1>17, <1>1, <1>2 DEF FinCompactar, Contestar
  <2>3. CASE Pedido(h).op # "compactar"
    <3> DEFINE nuevo == Hilo("lock", hilo[h].pedido, SinRespuesta)
    <3>1. hilo' = [hilo EXCEPT ![h] = [nuevo EXCEPT !.compactado = TRUE]]
      BY <2>3, <1>17 DEF FinCompactar
    <3>2. [nuevo EXCEPT !.compactado = TRUE].paso = "lock"
      BY DEF Hilo
    <3> HIDE DEF nuevo
    <3> QED
      BY <2>1, <3>1, <3>2, <1>1
  <2> QED
    BY <2>2, <2>3
<1>18. CASE LockDestruir(h)
  BY <1>18, <1>1, <1>2 DEF LockDestruir, Seguir, tabla, EnSeccion
<1>19. CASE QuitarSegmento(h)
  BY <1>19, <1>1, <1>2 DEF QuitarSegmento, tabla, EnSeccion
<1>20. CASE FinDestruir(h)
  BY <1>20, <1>1, <1>2 DEF FinDestruir, Contestar, tabla, EnSeccion
<1>21. CASE Lock(h) \/ NodoFF(h) \/ NodoWF(h) \/ FinBusqueda(h)
  BY <1>21, <1>1 DEF Lock, NodoFF, NodoWF, FinBusqueda, Avanzar, Encontrar, tabla
<1> QED
  BY <1>3, <1>4, <1>5, <1>6, <1>7, <1>8, <1>9, <1>10, <1>11, <1>12,
     <1>13, <1>14, <1>15, <1>16, <1>17, <1>18, <1>19, <1>20, <1>21, Zenon DEF Paso

\* With the table as it was, a gap is what it was.
LEMMA GapIgual ==
  ASSUME pSegmentos' = pSegmentos
  PROVE  /\ Len(pSegmentos') = Len(pSegmentos)
         /\ \A k \in Int : FinDe(k)' = FinDe(k) /\ Ancho(k)' = Ancho(k)
BY DEF FinDe, ComienzoDe, Ancho

\* The search starts having passed nothing.
LEMMA LockBusca ==
  ASSUME InvUmv, NEW h \in Hilos, Lock(h)
  PROVE  Busca(h)'
<1>1. /\ hilo \in [Hilos -> HiloT] /\ hilo[h] \in HiloT
      /\ hilo[h].i = 1 /\ hilo[h].mayor = 0
  BY DeUnHilo DEF InvUmv, Tipos, Lock, Control
<1>2. /\ hilo'[h].paso = "buscar" /\ hilo'[h].i = 1 /\ hilo'[h].mayor = 0
      /\ hilo'[h].alg \in {"FF", "WF"}
  BY <1>1 DEF Lock, HiloT, InvUmv, Tipos
<1> QED
  BY <1>2 DEF Busca, Pasados

\* One node: the gap before it is passed, and it was too small, or is the
\* biggest so far, or is not.
LEMMA SigueBusca ==
  ASSUME InvEspacio, NEW h \in Hilos, hilo[h].paso = "buscar", QuedanNodos(h),
         NEW mayor \in Nat, NEW fisica \in Nat,
         Avanzar(h, hilo[h].pos + Hueco(hilo[h].pos, pSegmentos[hilo[h].i].dirFisica)
                      + pSegmentos[hilo[h].i].tamanio, mayor, fisica),
         UNCHANGED tabla,
         hilo[h].alg = "FF" => Ancho(hilo[h].i) < Pedido(h).tam,
         hilo[h].alg # "FF" =>
           \/ Ancho(hilo[h].i) > hilo[h].mayor /\ mayor = Ancho(hilo[h].i)
              /\ fisica = FinDe(hilo[h].i - 1)
           \/ Ancho(hilo[h].i) <= hilo[h].mayor /\ mayor = hilo[h].mayor
              /\ fisica = hilo[h].fisica
  PROVE  Busca(h)'
<1> DEFINE i == hilo[h].i
           sigue == hilo[h].pos + Hueco(hilo[h].pos, pSegmentos[i].dirFisica)
                      + pSegmentos[i].tamanio
<1>1. /\ InvUmv /\ Busca(h) /\ Pasados(h)
      /\ hilo \in [Hilos -> HiloT] /\ hilo[h] \in HiloT
  BY DeUnHilo DEF InvEspacio, Busca, InvUmv, Tipos
<1>2. /\ i \in 1..Len(pSegmentos) /\ Len(pSegmentos) \in Nat /\ hilo[h].mayor \in Nat
      /\ hilo[h].pos \in Nat /\ hilo[h].pos <= pSegmentos[i].dirFisica
      /\ pSegmentos[i].dirFisica \in Nat /\ pSegmentos[i].tamanio \in Nat
  BY <1>1, Busqueda, Segmentos DEF QuedanNodos, InvUmv
<1>3. sigue \in Nat
  BY <1>2 DEF Hueco
<1>4. Avanzar(h, sigue, mayor, fisica)
  OBVIOUS
<1> HIDE DEF sigue
<1>5. PICK n \in HiloT :
        /\ hilo'[h] = n /\ n.paso = "buscar" /\ n.pedido = hilo[h].pedido
        /\ n.i = i + 1 /\ n.mayor = mayor /\ n.fisica = fisica /\ n.alg = hilo[h].alg
  BY <1>1, <1>3, <1>4, AvanzarTipo
<1>6. /\ Pedido(h)' = Pedido(h)
      /\ \A k \in Int : FinDe(k)' = FinDe(k) /\ Ancho(k)' = Ancho(k)
  BY <1>5, GapIgual DEF Pedido, tabla
<1>7. 1..(n.i - 1) = 1..(i - 1) \cup {i} /\ 1..(n.i - 1) \subseteq Int
      /\ 1..(i - 1) \subseteq Int
  BY <1>2, <1>5
<1>8. CASE hilo[h].alg = "FF"
  <2>1. \A k \in 1..(i - 1) : Ancho(k) < Pedido(h).tam
    BY <1>1, <1>8 DEF Pasados
  <2>2. \A k \in 1..(n.i - 1) : Ancho(k) < Pedido(h).tam
    BY <2>1, <1>7, <1>8
  <2>3. \A k \in 1..(hilo'[h].i - 1) : Ancho(k)' < Pedido(h)'.tam
    BY <2>2, <1>5, <1>6, <1>7
  <2> QED
    BY <2>3, <1>5, <1>8 DEF Busca, Pasados
<1>9. CASE hilo[h].alg # "FF"
  <2>1. /\ \A k \in 1..(i - 1) : Ancho(k) <= hilo[h].mayor
        /\ hilo[h].mayor > 0 => \E k \in 1..(i - 1) :
             hilo[h].fisica = FinDe(k - 1) /\ Ancho(k) = hilo[h].mayor
    BY <1>1, <1>9 DEF Pasados
  <2>2. \A k \in 1..(i - 1) : Ancho(k) \in Nat
    BY <1>1, <1>2, Gaps
  <2>3. Ancho(i) \in Nat
    BY <1>1, <1>2, Gaps
  <2>4. /\ \A k \in 1..(n.i - 1) : Ancho(k) <= mayor
        /\ mayor > 0 => \E k \in 1..(n.i - 1) : fisica = FinDe(k - 1) /\ Ancho(k) = mayor
    <3>1. CASE Ancho(i) > hilo[h].mayor /\ mayor = Ancho(i) /\ fisica = FinDe(i - 1)
      <4>1. \A k \in 1..(i - 1) : Ancho(k) <= mayor
        BY <3>1, <2>1, <2>2, <2>3, <1>2
      <4> QED
        BY <3>1, <4>1, <2>3, <1>7
    <3>2. CASE Ancho(i) <= hilo[h].mayor /\ mayor = hilo[h].mayor /\ fisica = hilo[h].fisica
      BY <3>2, <2>1, <1>7
    <3> QED
      BY <3>1, <3>2, <1>9
  <2>5. \A k \in 1..(hilo'[h].i - 1) : Ancho(k)' <= hilo'[h].mayor
    BY <2>4, <1>5, <1>6, <1>7
  <2>6. hilo'[h].mayor > 0 =>
          \E k \in 1..(hilo'[h].i - 1) :
            hilo'[h].fisica = FinDe(k - 1)' /\ Ancho(k)' = hilo'[h].mayor
    <3> SUFFICES ASSUME mayor > 0
                 PROVE  \E k \in 1..(n.i - 1) : fisica = FinDe(k - 1)' /\ Ancho(k)' = mayor
      BY <1>5
    <3>1. PICK k \in 1..(n.i - 1) : fisica = FinDe(k - 1) /\ Ancho(k) = mayor
      BY <2>4
    <3>2. k \in Int /\ k - 1 \in Int
      BY <1>7
    <3> QED
      BY <3>1, <3>2, <1>6
  <2> QED
    BY <2>5, <2>6, <1>5, <1>9 DEF Busca, Pasados
<1> QED
  BY <1>8, <1>9

\* A search that ends with a gap has the one its algorithm takes.
LEMMA HallaBusca ==
  ASSUME InvEspacio, NEW h \in Hilos, NEW fisica, Encontrar(h, fisica), UNCHANGED tabla,
         NEW k \in 1..(Len(pSegmentos) + 1), fisica = FinDe(k - 1),
         Elegido(hilo[h].alg, k, Pedido(h).tam)
  PROVE  Busca(h)'
<1> DEFINE nuevo == Hilo("insertar", hilo[h].pedido, SinRespuesta)
           n == [nuevo EXCEPT !.alg = hilo[h].alg, !.fisica = fisica]
<1>1. hilo \in [Hilos -> HiloT] /\ Len(pSegmentos) \in Nat
  BY Segmentos DEF InvEspacio, InvUmv, Tipos
<1>2. hilo' = [hilo EXCEPT ![h] = n]
  BY DEF Encontrar
<1>3. n.paso = "insertar" /\ n.pedido = hilo[h].pedido /\ n.alg = hilo[h].alg
      /\ n.fisica = fisica
  BY DEF Hilo
<1> HIDE DEF n
<1>4. hilo'[h] = n
  BY <1>1, <1>2
<1>5. /\ Len(pSegmentos') = Len(pSegmentos)
      /\ \A j \in Int : FinDe(j)' = FinDe(j) /\ Ancho(j)' = Ancho(j)
  BY GapIgual DEF tabla
<1>6. Pedido(h)' = Pedido(h)
  BY <1>3, <1>4 DEF Pedido
<1>7. k \in Int /\ k - 1 \in Int /\ 1..(k - 1) \subseteq Int
      /\ 1..(Len(pSegmentos) + 1) \subseteq Int
  BY <1>1
<1>8. Elegido(hilo[h].alg, k, Pedido(h).tam)'
  BY <1>3, <1>4, <1>5, <1>6, <1>7 DEF Elegido
<1>9. \E j \in 1..(Len(pSegmentos') + 1) :
        hilo'[h].fisica = FinDe(j - 1)' /\ Elegido(hilo[h].alg, j, Pedido(h).tam)'
  BY <1>3, <1>4, <1>5, <1>7, <1>8
<1> QED
  BY <1>3, <1>4, <1>9 DEF Busca

\* The search leaves the loop after the last segment, and not before: what
\* remains is the last gap.
LEMMA UltimoGap ==
  ASSUME InvUmv, NEW h \in Hilos, hilo[h].paso = "buscar", ~QuedanNodos(h)
  PROVE  /\ hilo[h].i = Len(pSegmentos) + 1 /\ Len(pSegmentos) + 1 \in Nat
         /\ hilo[h].i \in 1..(Len(pSegmentos) + 1)
         /\ hilo[h].pos = FinDe(hilo[h].i - 1)
         /\ Resto(hilo[h].pos) = Ancho(hilo[h].i) /\ Ancho(hilo[h].i) \in Nat
<1>1. /\ hilo[h].i \in 1..(Len(pSegmentos) + 1) /\ Len(pSegmentos) \in Nat
      /\ hilo[h].pos = FinDe(hilo[h].i - 1) /\ hilo[h].pos \in 0..CANT_MEM
      /\ CANT_MEM \in Nat
  BY Busqueda, Segmentos DEF InvUmv
<1>2. ASSUME hilo[h].i <= Len(pSegmentos) PROVE FALSE
  <2>1. /\ hilo[h].i \in Indices /\ hilo[h].pos <= pSegmentos[hilo[h].i].dirFisica
        /\ hilo[h].pos = CANT_MEM
    BY <1>2, Busqueda DEF QuedanNodos
  <2>2. /\ pSegmentos[hilo[h].i].dirFisica \in Nat /\ pSegmentos[hilo[h].i].tamanio \in Nat
        /\ pSegmentos[hilo[h].i].tamanio > 0
        /\ pSegmentos[hilo[h].i].dirFisica + pSegmentos[hilo[h].i].tamanio <= CANT_MEM
    BY <2>1, Segmentos DEF InvUmv
  <2> QED
    BY <1>1, <2>1, <2>2
<1>3. hilo[h].i = Len(pSegmentos) + 1
  BY <1>1, <1>2
<1>4. Ancho(hilo[h].i) = CANT_MEM - hilo[h].pos
  BY <1>1, <1>3 DEF Ancho, ComienzoDe
<1>5. Resto(hilo[h].pos) = CANT_MEM - hilo[h].pos
  BY <1>1 DEF Resto
<1> QED
  BY <1>1, <1>3, <1>4, <1>5

\* One node of either loop: a gap is found, or the search goes on knowing it.
LEMMA NodoBusca ==
  ASSUME InvEspacio, NEW h \in Hilos, NodoFF(h) \/ NodoWF(h)
  PROVE  Busca(h)'
<1> DEFINE i == hilo[h].i
           nodo == pSegmentos[i]
           libre == Hueco(hilo[h].pos, nodo.dirFisica)
           sigue == hilo[h].pos + libre + nodo.tamanio
<1>1. /\ InvUmv /\ Busca(h)
      /\ hilo[h].paso = "buscar" /\ QuedanNodos(h) /\ UNCHANGED tabla
  BY DEF NodoFF, NodoWF, InvEspacio
<1>2. /\ i \in 1..Len(pSegmentos) /\ Len(pSegmentos) \in Nat
      /\ hilo[h].pos = FinDe(i - 1) /\ hilo[h].pos \in Nat
      /\ hilo[h].pos <= nodo.dirFisica /\ nodo.dirFisica \in Nat
      /\ hilo[h].mayor \in Nat /\ hilo[h].fisica \in Nat /\ Pedido(h).tam \in Nat
  BY <1>1, Busqueda, Segmentos DEF QuedanNodos, InvUmv
<1>3. libre = Ancho(i) /\ libre \in Nat
  BY <1>2 DEF Hueco, Ancho, ComienzoDe
<1>4. 0 \in Nat
  OBVIOUS
<1>5. CASE NodoFF(h)
  <2>1. hilo[h].alg = "FF"
    BY <1>5 DEF NodoFF
  <2>2. CASE EntraFF(libre, Pedido(h).tam) /\ Encontrar(h, hilo[h].pos)
    <3>1. Ancho(i) >= Pedido(h).tam
      BY <2>2, <1>2, <1>3 DEF EntraFF
    <3>2. \A j \in 1..(i - 1) : Ancho(j) < Pedido(h).tam
      BY <2>1, <1>1 DEF Busca, Pasados
    <3>3. Elegido(hilo[h].alg, i, Pedido(h).tam) /\ i \in 1..(Len(pSegmentos) + 1)
      BY <3>1, <3>2, <2>1, <1>2 DEF Elegido
    <3> QED
      BY <3>3, <2>2, <1>1, <1>2, HallaBusca
  <2>3. CASE ~EntraFF(libre, Pedido(h).tam) /\ Avanzar(h, sigue, 0, 0)
    <3>1. Ancho(i) < Pedido(h).tam
      BY <2>3, <1>3 DEF EntraFF
    <3> QED
      BY <3>1, <2>1, <2>3, <1>1, <1>4, SigueBusca
  <2> QED
    BY <2>2, <2>3, <1>5 DEF NodoFF
<1>6. CASE NodoWF(h)
  <2>1. hilo[h].alg # "FF"
    BY <1>6 DEF NodoWF
  <2>2. CASE libre > hilo[h].mayor /\ Avanzar(h, sigue, libre, hilo[h].pos)
    BY <2>1, <2>2, <1>1, <1>2, <1>3, SigueBusca
  <2>3. CASE libre <= hilo[h].mayor /\ Avanzar(h, sigue, hilo[h].mayor, hilo[h].fisica)
    BY <2>1, <2>3, <1>1, <1>2, <1>3, SigueBusca
  <2> QED
    BY <2>2, <2>3, <1>6 DEF NodoWF
<1> QED
  BY <1>5, <1>6

\* What the search returns is a gap, none is better, and it is big enough if any
\* is.
LEMMA Devuelto ==
  ASSUME InvEspacio, NEW h \in Hilos, hilo[h].paso = "buscar", ~QuedanNodos(h)
  PROVE  \E k \in 1..(Len(pSegmentos) + 1) :
           /\ TrasElUltimo(h).fisica = FinDe(k - 1) /\ TrasElUltimo(h).tamanio = Ancho(k)
           /\ IF hilo[h].alg = "FF"
              THEN /\ k = Len(pSegmentos) + 1
                   /\ \A j \in 1..(k - 1) : Ancho(j) < Pedido(h).tam
              ELSE \A j \in 1..(Len(pSegmentos) + 1) : Ancho(j) <= Ancho(k)
<1> DEFINE u == Len(pSegmentos) + 1
           resto == Resto(hilo[h].pos)
<1>1. InvUmv /\ Pasados(h) /\ hilo[h].mayor \in Nat
  BY Busqueda DEF InvEspacio, Busca
<1>2. /\ hilo[h].i = u /\ u \in Nat /\ u \in 1..u
      /\ hilo[h].pos = FinDe(u - 1) /\ resto = Ancho(u) /\ Ancho(u) \in Nat
  BY <1>1, UltimoGap
<1>3. \A j \in 1..u : Ancho(j) \in Nat
  BY <1>1, Gaps
<1> HIDE DEF u, resto
<1>4. CASE hilo[h].alg = "FF"
  <2>1. \A j \in 1..(u - 1) : Ancho(j) < Pedido(h).tam
    BY <1>1, <1>2, <1>4 DEF Pasados
  <2>2. TrasElUltimo(h).fisica = FinDe(u - 1) /\ TrasElUltimo(h).tamanio = Ancho(u)
    BY <1>2, <1>4 DEF TrasElUltimo, resto
  <2> QED
    BY <1>2, <1>4, <2>1, <2>2 DEF u
<1>5. CASE hilo[h].alg # "FF"
  <2>1. \A j \in 1..(u - 1) : Ancho(j) <= hilo[h].mayor
    BY <1>1, <1>2, <1>5 DEF Pasados
  <2>2. \A j \in 1..u : j = u \/ j \in 1..(u - 1)
    BY <1>2
  <2>3. CASE resto >= hilo[h].mayor
    <3>1. \A j \in 1..u : Ancho(j) <= Ancho(u)
      BY <2>1, <2>2, <2>3, <1>1, <1>2, <1>3
    <3>2. TrasElUltimo(h).fisica = FinDe(u - 1) /\ TrasElUltimo(h).tamanio = Ancho(u)
      BY <1>2, <1>5, <2>3 DEF TrasElUltimo, resto
    <3> QED
      BY <1>2, <1>5, <3>1, <3>2 DEF u
  <2>4. CASE ~(resto >= hilo[h].mayor)
    <3>1. hilo[h].mayor > 0 /\ Ancho(u) <= hilo[h].mayor
      BY <2>4, <1>1, <1>2
    <3>2. PICK k \in 1..(u - 1) : hilo[h].fisica = FinDe(k - 1) /\ Ancho(k) = hilo[h].mayor
      BY <3>1, <1>1, <1>2, <1>5 DEF Pasados
    <3>3. k \in 1..u /\ \A j \in 1..u : Ancho(j) <= Ancho(k)
      BY <3>1, <3>2, <2>1, <2>2, <1>2
    <3>4. TrasElUltimo(h).fisica = FinDe(k - 1) /\ TrasElUltimo(h).tamanio = Ancho(k)
      BY <3>2, <1>5, <2>4 DEF TrasElUltimo, resto
    <3> QED
      BY <1>5, <3>3, <3>4 DEF u
  <2> QED
    BY <2>3, <2>4
<1> QED
  BY <1>4, <1>5

\* The end of the loop, when what it returns is enough.
LEMMA FinBusca ==
  ASSUME InvEspacio, NEW h \in Hilos, FinBusqueda(h)
  PROVE  Busca(h)'
<1>1. /\ hilo[h].paso = "buscar" /\ ~QuedanNodos(h)
      /\ TrasElUltimo(h).tamanio >= Pedido(h).tam /\ Encontrar(h, TrasElUltimo(h).fisica)
      /\ UNCHANGED tabla
  BY DEF FinBusqueda
<1>2. PICK k \in 1..(Len(pSegmentos) + 1) :
        /\ TrasElUltimo(h).fisica = FinDe(k - 1) /\ TrasElUltimo(h).tamanio = Ancho(k)
        /\ IF hilo[h].alg = "FF"
           THEN /\ k = Len(pSegmentos) + 1
                /\ \A j \in 1..(k - 1) : Ancho(j) < Pedido(h).tam
           ELSE \A j \in 1..(Len(pSegmentos) + 1) : Ancho(j) <= Ancho(k)
  BY <1>1, Devuelto
<1>3. Elegido(hilo[h].alg, k, Pedido(h).tam)
  BY <1>1, <1>2 DEF Elegido
<1> QED
  BY <1>1, <1>2, <1>3, HallaBusca

-----------------------------------------------------------------------------
(* The theorems. *)

\* Every step keeps what the searches know: those of other threads change the table
\* only when nobody is searching.
LEMMA NextEspacio == InvEspacio /\ [Next]_vars => InvEspacio'
<1> SUFFICES ASSUME InvEspacio, [Next]_vars PROVE InvEspacio'
  OBVIOUS
<1>1. InvUmv /\ InvUmv'
  BY NextInv DEF InvEspacio
<1>2. ASSUME NEW h \in Hilos, Recibir(h) \/ Desconectar(h) \/ Paso(h),
             NEW g \in Hilos
      PROVE  Busca(g)'
  <2>1. /\ \A f \in Hilos \ {h} : hilo'[f] = hilo[f]
        /\ pSegmentos' = pSegmentos \/ mutex = h
        /\ \/ Lock(h) \/ NodoFF(h) \/ NodoWF(h) \/ FinBusqueda(h)
           \/ hilo'[h].paso \notin {"buscar", "insertar"}
    BY <1>1, <1>2, SoloUno
  <2>2. CASE g = h
    <3>1. CASE Lock(h)
      BY <3>1, <2>2, <1>1, LockBusca
    <3>2. CASE NodoFF(h) \/ NodoWF(h)
      BY <3>2, <2>2, NodoBusca
    <3>3. CASE FinBusqueda(h)
      BY <3>3, <2>2, FinBusca
    <3>4. CASE hilo'[h].paso \notin {"buscar", "insertar"}
      BY <3>4, <2>2 DEF Busca
    <3> QED
      BY <2>1, <3>1, <3>2, <3>3, <3>4
  <2>3. CASE g # h
    <3>1. hilo'[g] = hilo[g] /\ Busca(g) /\ Control(g)
      BY <2>1, <2>3 DEF InvEspacio, InvUmv
    <3>2. CASE pSegmentos' = pSegmentos
      BY <3>1, <3>2, BuscaIgual
    <3>3. CASE mutex = h
      <4>1. hilo[g].paso \notin {"buscar", "insertar"}
        BY <3>1, <3>3, <2>3 DEF Control, EnSeccion
      <4> QED
        BY <3>1, <4>1 DEF Busca
    <3> QED
      BY <2>1, <3>2, <3>3
  <2> QED
    BY <2>2, <2>3
<1>3. CASE UNCHANGED vars
  <2>1. hilo' = hilo /\ pSegmentos' = pSegmentos
    BY <1>3 DEF vars, tabla
  <2>2. ASSUME NEW g \in Hilos PROVE Busca(g)'
    BY <2>1, BuscaIgual DEF InvEspacio
  <2> QED
    BY <1>1, <2>2 DEF InvEspacio
<1>4. CASE Next
  <2>1. PICK h \in Hilos : Recibir(h) \/ Desconectar(h) \/ Paso(h)
    BY <1>4, Zenon DEF Next
  <2>2. ASSUME NEW g \in Hilos PROVE Busca(g)'
    BY <2>1, <1>2
  <2> QED
    BY <1>1, <2>2 DEF InvEspacio
<1> QED
  BY <1>3, <1>4

\* What a thread that is searching knows of the gaps it has passed, it knows in every
\* state: no other thread has moved them.
THEOREM InvarianteEspacio == Spec => []InvEspacio
<1>1. Init => InvEspacio
  <2> SUFFICES ASSUME Init PROVE InvEspacio
    OBVIOUS
  <2>1. ASSUME NEW h \in Hilos PROVE Busca(h)
    <3>1. hilo[h].paso = Inicio(h)
      BY DEF Init, Hilo
    <3> QED
      BY <3>1 DEF Inicio, Busca
  <2> QED
    BY <2>1, InitInv DEF InvEspacio
<1>2. InvEspacio /\ [Next]_vars => InvEspacio'
  BY NextEspacio
<1> QED
  BY <1>1, <1>2, PTL DEF Spec

\* First fit finds the first gap that is big enough, worst fit one of the biggest,
\* and each finds one if there is one.
THEOREM EspacioBienElegido == Spec => []EspacioCorrecto
<1>1. InvEspacio => EspacioCorrecto
  <2> SUFFICES ASSUME InvEspacio, NEW h \in Hilos
               PROVE  /\ hilo[h].paso = "insertar" =>
                           \E g \in Sirven(Pedido(h).tam) :
                             /\ g[1] = hilo[h].fisica
                             /\ \A otro \in Sirven(Pedido(h).tam) :
                                  IF hilo[h].alg = "FF" THEN g[1] <= otro[1]
                                  ELSE g[2] >= otro[2]
                      /\ (hilo[h].paso = "buscar" /\ ~QuedanNodos(h)
                          /\ TrasElUltimo(h).tamanio < Pedido(h).tam) =>
                           Sirven(Pedido(h).tam) = {}
    BY DEF EspacioCorrecto
  <2> DEFINE n == Pedido(h).tam
             u == Len(pSegmentos) + 1
  <2>1. InvUmv /\ Busca(h) /\ Control(h) /\ Len(pSegmentos) \in Nat
    BY Segmentos DEF InvEspacio, InvUmv
  <2>2. n \in Nat /\ (hilo[h].paso = "insertar" => n > 0)
    BY <2>1, PedidoTipo DEF Control
  <2>3. ASSUME NEW otro \in Sirven(n)
        PROVE  \E j \in 1..u : otro[1] = FinDe(j - 1) /\ otro[2] = Ancho(j) /\ Ancho(j) >= n
    <3>1. otro \in Huecos /\ otro[2] >= n
      BY DEF Sirven
    <3> QED
      BY <3>1, <2>1, HuecoEsGap
  <2>4. \A j \in 1..u : Ancho(j) \in Nat /\ FinDe(j - 1) \in Nat
    BY <2>1, Gaps
  <2>5. ASSUME hilo[h].paso = "insertar"
        PROVE  \E g \in Sirven(n) :
                 /\ g[1] = hilo[h].fisica
                 /\ \A otro \in Sirven(n) :
                      IF hilo[h].alg = "FF" THEN g[1] <= otro[1] ELSE g[2] >= otro[2]
    <3>1. PICK k \in 1..u : hilo[h].fisica = FinDe(k - 1) /\ Elegido(hilo[h].alg, k, n)
      BY <2>1, <2>5 DEF Busca
    <3>2. Ancho(k) >= n /\ Ancho(k) > 0
      BY <3>1, <2>2, <2>4, <2>5 DEF Elegido
    <3>3. <<FinDe(k - 1), Ancho(k)>> \in Sirven(n)
      BY <3>2, <2>1, GapEsHueco DEF Sirven
    <3>4. ASSUME NEW otro \in Sirven(n)
          PROVE  IF hilo[h].alg = "FF" THEN FinDe(k - 1) <= otro[1] ELSE Ancho(k) >= otro[2]
      <4>1. PICK j \in 1..u : otro[1] = FinDe(j - 1) /\ otro[2] = Ancho(j) /\ Ancho(j) >= n
        BY <2>3
      <4>2. CASE hilo[h].alg = "FF"
        <5>1. \A m \in 1..(k - 1) : Ancho(m) < n
          BY <3>1, <4>2 DEF Elegido
        <5>2. k <= j
          <6>1. ASSUME j < k PROVE FALSE
            <7>1. j \in 1..(k - 1)
              BY <2>1, <6>1
            <7> QED
              BY <7>1, <5>1, <4>1, <2>2, <2>4
          <6> QED
            BY <6>1, <2>1
        <5>3. FinDe(k - 1) <= FinDe(j - 1)
          <6>1. CASE j = k
            BY <6>1, <2>4
          <6>2. CASE j # k
            <7>1. j - 1 \in Indices /\ k <= j - 1 /\ j - 1 # 0
              BY <6>2, <5>2, <2>1 DEF Indices
            <7>2. /\ FinDe(k - 1) <= ComienzoDe(k)
                  /\ ComienzoDe(k) <= pSegmentos[j - 1].dirFisica
                  /\ FinDe(k - 1) \in Nat /\ ComienzoDe(k) \in Nat
              BY <7>1, <2>1, Gaps
            <7>3. /\ pSegmentos[j - 1].dirFisica \in Nat /\ pSegmentos[j - 1].tamanio \in Nat
                  /\ FinDe(j - 1) = pSegmentos[j - 1].dirFisica + pSegmentos[j - 1].tamanio
              BY <7>1, <2>1, Segmentos DEF FinDe, InvUmv
            <7> QED
              BY <7>2, <7>3
          <6> QED
            BY <6>1, <6>2
        <5> QED
          BY <4>1, <4>2, <5>3
      <4>3. CASE hilo[h].alg # "FF"
        <5>1. Ancho(j) <= Ancho(k)
          BY <3>1, <4>3 DEF Elegido
        <5> QED
          BY <4>1, <4>3, <5>1, <2>4
      <4> QED
        BY <4>2, <4>3
    <3> QED
      BY <3>1, <3>3, <3>4
  <2>6. ASSUME hilo[h].paso = "buscar", ~QuedanNodos(h), TrasElUltimo(h).tamanio < n,
               NEW otro \in Sirven(n)
        PROVE  FALSE
    <3>1. PICK k \in 1..u :
            /\ TrasElUltimo(h).tamanio = Ancho(k)
            /\ IF hilo[h].alg = "FF"
               THEN k = u /\ \A j \in 1..(k - 1) : Ancho(j) < n
               ELSE \A j \in 1..u : Ancho(j) <= Ancho(k)
      BY <2>6, Devuelto
    <3>2. PICK j \in 1..u : Ancho(j) >= n
      BY <2>3, <2>6
    <3>3. CASE hilo[h].alg = "FF"
      <4>1. j = u \/ j \in 1..(u - 1)
        BY <2>1
      <4> QED
        BY <4>1, <3>1, <3>2, <3>3, <2>2, <2>4, <2>6
    <3>4. CASE hilo[h].alg # "FF"
      BY <3>1, <3>2, <3>4, <2>2, <2>4, <2>6
    <3> QED
      BY <3>3, <3>4
  <2> HIDE DEF n
  <2>7. (hilo[h].paso = "buscar" /\ ~QuedanNodos(h) /\ TrasElUltimo(h).tamanio < n) =>
           Sirven(n) = {}
    BY <2>6
  <2> QED
    BY <2>5, <2>7 DEF n
<1> QED
  BY <1>1, InvarianteEspacio, PTL

-----------------------------------------------------------------------------
(* The console's dump. *)

\* One turn of its loop.
Turno(s, k) == IF s.pos = CANT_MEM THEN s ELSE MostrarNodo(s, pSegmentos[k])
Comienzo == [pos |-> 0, libres |-> <<>>]

\* A loop of n turns has a result.
LEMMA MostradoHay ==
  ASSUME NEW n \in Nat
  PROVE  \E f : f = [k \in 0..n |-> IF k = 0 THEN Comienzo ELSE Turno(f[k - 1], k)]
<1> DEFINE Hay(m) == \E f : f = [k \in 0..m |-> IF k = 0 THEN Comienzo
                                                ELSE Turno(f[k - 1], k)]
           T == {m \in Nat : ~Hay(m)}
<1>1. CASE T = {}
  BY <1>1
<1>2. ASSUME T # {} PROVE FALSE
  <2>1. PICK m \in T : \A x \in T : m <= x
    BY <1>2, MinimoNatural
  <2>2. m \in Nat /\ ~Hay(m)
    OBVIOUS
  <2>3. CASE m = 0
    <3> DEFINE f == [k \in 0..0 |-> Comienzo]
    <3>1. \A k \in 0..0 : k = 0
      OBVIOUS
    <3>2. f = [k \in 0..0 |-> IF k = 0 THEN Comienzo ELSE Turno(f[k - 1], k)]
      BY <3>1
    <3> QED
      BY <2>2, <2>3, <3>2
  <2>4. CASE m > 0
    <3>1. m - 1 \in Nat /\ m - 1 \notin T
      <4> HIDE DEF T, Hay
      <4> QED
        BY <2>1, <2>2, <2>4
    <3>2. PICK f : f = [k \in 0..(m - 1) |-> IF k = 0 THEN Comienzo
                                             ELSE Turno(f[k - 1], k)]
      BY <3>1
    <3> DEFINE g == [k \in 0..m |-> IF k = m THEN Turno(f[m - 1], m) ELSE f[k]]
    <3>3. \A k \in 0..(m - 1) : f[k] = IF k = 0 THEN Comienzo ELSE Turno(f[k - 1], k)
      BY <3>2
    <3>4. ASSUME NEW k \in 0..m
          PROVE  g[k] = IF k = 0 THEN Comienzo ELSE Turno(g[k - 1], k)
      <4>1. CASE k = 0
        BY <2>4, <3>1, <3>3, <4>1
      <4>2. CASE k # 0
        <5>1. k - 1 \in 0..m /\ k - 1 # m
          BY <2>2, <4>2
        <5>2. g[k - 1] = f[k - 1]
          BY <5>1
        <5>3. CASE k = m
          BY <4>2, <5>2, <5>3
        <5>4. CASE k # m
          <6>1. k \in 0..(m - 1)
            BY <2>2, <5>4
          <6> QED
            BY <3>3, <4>2, <5>2, <5>4, <6>1
        <5> QED
          BY <5>3, <5>4
      <4> QED
        BY <4>1, <4>2
    <3>5. g = [k \in 0..m |-> IF k = 0 THEN Comienzo ELSE Turno(g[k - 1], k)]
      <4>1. g = [k \in 0..m |-> g[k]]
        OBVIOUS
      <4> HIDE DEF g
      <4> QED
        BY <3>4, <4>1
    <3> HIDE DEF g
    <3> QED
      BY <2>2, <3>5
  <2> QED
    BY <2>2, <2>3, <2>4
<1> QED
  BY <1>1, <1>2

\* So the recursive definition of the loop is what it says.
LEMMA MostradoEs ==
  ASSUME Len(pSegmentos) \in Nat
  PROVE  /\ Mostrado[0] = Comienzo
         /\ \A k \in Indices : Mostrado[k] = Turno(Mostrado[k - 1], k)
<1> DEFINE n == Len(pSegmentos)
<1>1. \E f : f = [k \in 0..n |-> IF k = 0 THEN Comienzo ELSE Turno(f[k - 1], k)]
  BY MostradoHay
<1>2. Mostrado = CHOOSE f : f = [k \in 0..n |-> IF k = 0 THEN Comienzo
                                                ELSE Turno(f[k - 1], k)]
  BY Zenon DEF Mostrado, Turno, Comienzo
<1>3. Mostrado = [k \in 0..n |-> IF k = 0 THEN Comienzo ELSE Turno(Mostrado[k - 1], k)]
  BY <1>1, <1>2
<1>4. \A k \in 0..n : Mostrado[k] = IF k = 0 THEN Comienzo ELSE Turno(Mostrado[k - 1], k)
  BY <1>3
<1> QED
  BY <1>4 DEF Indices

\* The gaps before the k-th segment that are not empty: each segment brings at most
\* one, which none of those before is.
GapsHasta(k) == {<<FinDe(j - 1), Ancho(j)>> : j \in {x \in 1..k : Ancho(x) > 0}}

\* The k-th brings its own.
LEMMA GapsMas ==
  ASSUME InvUmv, NEW k \in 1..(Len(pSegmentos) + 1)
  PROVE  /\ GapsHasta(k) = IF Ancho(k) > 0
                           THEN GapsHasta(k - 1) \cup {<<FinDe(k - 1), Ancho(k)>>}
                           ELSE GapsHasta(k - 1)
         /\ <<FinDe(k - 1), Ancho(k)>> \notin GapsHasta(k - 1)
<1>1. Len(pSegmentos) \in Nat /\ k \in Nat /\ k > 0
  BY Gaps
<1>2. {x \in 1..k : Ancho(x) > 0} =
        IF Ancho(k) > 0 THEN {x \in 1..(k - 1) : Ancho(x) > 0} \cup {k}
        ELSE {x \in 1..(k - 1) : Ancho(x) > 0}
  <2>1. 1..k = 1..(k - 1) \cup {k} /\ k \notin 1..(k - 1)
    BY <1>1
  <2> QED
    BY <2>1
<1>3. GapsHasta(k) = IF Ancho(k) > 0
                     THEN GapsHasta(k - 1) \cup {<<FinDe(k - 1), Ancho(k)>>}
                     ELSE GapsHasta(k - 1)
  BY <1>2 DEF GapsHasta
<1>4. ASSUME NEW j \in 1..(k - 1), Ancho(j) > 0
      PROVE  FinDe(j - 1) # FinDe(k - 1)
  <2>1. j \in Indices /\ j \in 1..(Len(pSegmentos) + 1) /\ j <= k - 1
        /\ j # Len(pSegmentos) + 1 /\ k - 1 \in 0..Len(pSegmentos)
    BY <1>1 DEF Indices
  <2>2. /\ FinDe(j - 1) \in Nat /\ Ancho(j) \in Nat
        /\ FinDe(j - 1) + Ancho(j) = pSegmentos[j].dirFisica
    BY <2>1, Gaps DEF ComienzoDe
  <2>3. /\ pSegmentos[j].dirFisica \in Nat /\ pSegmentos[j].tamanio \in Nat
    BY <2>1, Segmentos DEF InvUmv
  <2>4. /\ FinDe(k - 1) \in 0..CANT_MEM
        /\ pSegmentos[j].dirFisica + pSegmentos[j].tamanio <= FinDe(k - 1)
    BY <2>1, Orden DEF InvUmv
  <2> QED
    BY <1>4, <2>2, <2>3, <2>4
<1>5. <<FinDe(k - 1), Ancho(k)>> \notin GapsHasta(k - 1)
  BY <1>4 DEF GapsHasta
<1> QED
  BY <1>3, <1>5

\* There are as many as blocks shown, if the block of the k-th is shown.
LEMMA GapsSon ==
  ASSUME InvUmv, NEW k \in 1..(Len(pSegmentos) + 1), NEW s \in Seq(Nat \X Nat), NEW b \in Nat,
         IsFiniteSet(GapsHasta(k - 1)), Cardinality(GapsHasta(k - 1)) = Len(s)
  PROVE  LET t == IF Ancho(k) > 0 THEN Append(s, <<b, Ancho(k)>>) ELSE s IN
         /\ t \in Seq(Nat \X Nat)
         /\ IsFiniteSet(GapsHasta(k)) /\ Cardinality(GapsHasta(k)) = Len(t)
<1>1. Ancho(k) \in Nat
  BY Gaps
<1>2. CASE Ancho(k) > 0
  <2>1. PICK g : g = <<FinDe(k - 1), Ancho(k)>>
    OBVIOUS
  <2>2. GapsHasta(k) = GapsHasta(k - 1) \cup {g} /\ g \notin GapsHasta(k - 1)
    BY <1>2, <2>1, GapsMas
  <2>3. IsFiniteSet(GapsHasta(k)) /\ Cardinality(GapsHasta(k)) = Len(s) + 1
    <3>1. PICK G : G = GapsHasta(k - 1)
      OBVIOUS
    <3>2. IsFiniteSet(G) /\ Cardinality(G) = Len(s) /\ g \notin G
      BY <2>2, <3>1
    <3>3. IsFiniteSet(G \cup {g}) /\ Cardinality(G \cup {g}) = Len(s) + 1
      BY <3>2, FS_AddElement
    <3> QED
      BY <2>2, <3>1, <3>3
  <2>4. /\ Append(s, <<b, Ancho(k)>>) \in Seq(Nat \X Nat)
        /\ Len(Append(s, <<b, Ancho(k)>>)) = Len(s) + 1
    BY <1>1
  <2> QED
    BY <1>2, <2>3, <2>4
<1>3. CASE ~(Ancho(k) > 0)
  BY <1>3, GapsMas
<1> QED
  BY <1>2, <1>3

\* After k nodes the loop stands at the end of the k-th segment, and it has shown the
\* gaps before it.
Visto(k) ==
  /\ Mostrado[k].pos = FinDe(k)
  /\ Mostrado[k].libres \in Seq(Nat \X Nat)
  /\ IsFiniteSet(GapsHasta(k)) /\ Cardinality(GapsHasta(k)) = Len(Mostrado[k].libres)
  /\ \A g \in GapsHasta(k) : \E n \in 1..Len(Mostrado[k].libres) : Mostrado[k].libres[n] = g

\* A turn more keeps it so.
LEMMA VistoSigue ==
  ASSUME InvUmv, NEW k \in Indices, Visto(k - 1)
  PROVE  Visto(k)
<1> DEFINE s == Mostrado[k - 1]
           t == IF Ancho(k) > 0 THEN Append(s.libres, <<FinDe(k - 1), Ancho(k)>>) ELSE s.libres
<1>1. /\ Len(pSegmentos) \in Nat /\ CANT_MEM \in Nat /\ k \in 1..(Len(pSegmentos) + 1)
      /\ k # Len(pSegmentos) + 1 /\ k # 0
      /\ pSegmentos[k].dirFisica \in Nat /\ pSegmentos[k].tamanio \in Nat
      /\ pSegmentos[k].tamanio > 0
      /\ pSegmentos[k].dirFisica + pSegmentos[k].tamanio <= CANT_MEM
  BY Segmentos DEF InvUmv, Indices
<1>2. /\ FinDe(k - 1) \in Nat /\ Ancho(k) \in Nat /\ FinDe(k - 1) <= pSegmentos[k].dirFisica
      /\ Ancho(k) = pSegmentos[k].dirFisica - FinDe(k - 1)
  BY <1>1, Gaps DEF ComienzoDe, Ancho
<1>3. FinDe(k) = pSegmentos[k].dirFisica + pSegmentos[k].tamanio
  BY <1>1 DEF FinDe
<1>4. /\ s.pos = FinDe(k - 1) /\ s.libres \in Seq(Nat \X Nat)
      /\ IsFiniteSet(GapsHasta(k - 1)) /\ Cardinality(GapsHasta(k - 1)) = Len(s.libres)
      /\ \A g \in GapsHasta(k - 1) : \E n \in 1..Len(s.libres) : s.libres[n] = g
  BY DEF Visto
<1>5. Mostrado[k] = Turno(s, k)
  BY <1>1, MostradoEs
<1>6. s.pos # CANT_MEM
  BY <1>1, <1>2, <1>4
<1>7. Hueco(s.pos, pSegmentos[k].dirFisica) = Ancho(k)
  BY <1>2, <1>4 DEF Hueco
<1>8. Mostrado[k] = [pos |-> FinDe(k - 1) + Ancho(k) + pSegmentos[k].tamanio, libres |-> t]
  <2> HIDE DEF s
  <2> QED
    BY <1>4, <1>5, <1>6, <1>7 DEF Turno, MostrarNodo
<1>9. Mostrado[k].pos = FinDe(k) /\ Mostrado[k].libres = t
  BY <1>1, <1>2, <1>3, <1>8
<1>10. /\ t \in Seq(Nat \X Nat)
       /\ IsFiniteSet(GapsHasta(k)) /\ Cardinality(GapsHasta(k)) = Len(t)
  BY <1>1, <1>2, <1>4, GapsSon
<1>11. ASSUME NEW g \in GapsHasta(k) PROVE \E n \in 1..Len(t) : t[n] = g
  <2> DEFINE c == s.libres
  <2>1. c \in Seq(Nat \X Nat)
    BY <1>4
  <2>2. CASE g \in GapsHasta(k - 1)
    <3>1. PICK n \in 1..Len(c) : c[n] = g
      BY <1>4, <2>2
    <3> HIDE DEF c
    <3>2. CASE Ancho(k) > 0
      <4>1. n \in 1..Len(t) /\ t[n] = c[n]
        BY <1>2, <2>1, <3>2 DEF c
      <4> QED
        BY <3>1, <4>1
    <3> QED
      BY <3>1, <3>2 DEF c
  <2>3. CASE g \notin GapsHasta(k - 1)
    <3>1. Ancho(k) > 0 /\ g = <<FinDe(k - 1), Ancho(k)>>
      BY <1>1, <2>3, GapsMas
    <3> HIDE DEF c
    <3>2. Len(t) = Len(c) + 1 /\ t[Len(c) + 1] = <<FinDe(k - 1), Ancho(k)>> /\ Len(c) \in Nat
      BY <1>2, <2>1, <3>1 DEF c
    <3> QED
      BY <3>1, <3>2
  <2> QED
    BY <2>2, <2>3
<1> QED
  BY <1>9, <1>10, <1>11 DEF Visto

\* So it is at the end of the loop.
LEMMA VistoTodo ==
  ASSUME InvUmv
  PROVE  Visto(Len(pSegmentos))
<1> DEFINE T == {k \in 0..Len(pSegmentos) : ~Visto(k)}
<1>1. Len(pSegmentos) \in Nat
  BY Segmentos DEF InvUmv
<1>2. Visto(0)
  <2>1. Mostrado[0].pos = 0 /\ Mostrado[0].libres = <<>>
    BY <1>1, MostradoEs DEF Comienzo
  <2>2. GapsHasta(0) = {}
    BY DEF GapsHasta
  <2>3. IsFiniteSet(GapsHasta(0)) /\ Cardinality(GapsHasta(0)) = 0
    BY <2>2, FS_EmptySet
  <2> QED
    BY <2>1, <2>2, <2>3 DEF Visto, FinDe
<1>3. ASSUME T # {} PROVE FALSE
  <2>0. T \subseteq Nat
    BY <1>1
  <2>1. PICK m \in T : \A x \in T : m <= x
    <3> HIDE DEF T
    <3> QED
      BY <2>0, <1>3, MinimoNatural
  <2>2. m \in 0..Len(pSegmentos) /\ ~Visto(m) /\ m # 0
    BY <1>2
  <2>3. m \in Indices /\ m - 1 \in 0..Len(pSegmentos)
    BY <1>1, <2>2 DEF Indices
  <2>4. Visto(m - 1)
    BY <1>1, <2>1, <2>2, <2>3
  <2> QED
    BY <2>2, <2>3, <2>4, VistoSigue
<1> QED
  BY <1>1, <1>3

\* The free blocks are the gaps that are not empty.
LEMMA HuecosSon ==
  ASSUME InvUmv
  PROVE  Huecos = GapsHasta(Len(pSegmentos) + 1)
<1>1. ASSUME NEW g \in Huecos PROVE g \in GapsHasta(Len(pSegmentos) + 1)
  <2>1. PICK k \in 1..(Len(pSegmentos) + 1) : g[1] = FinDe(k - 1) /\ g[2] = Ancho(k)
    BY HuecoEsGap
  <2>2. g = <<g[1], g[2]>> /\ g[2] > 0
    BY ParametrosUmv DEF Huecos
  <2> QED
    BY <2>1, <2>2 DEF GapsHasta
<1>2. ASSUME NEW g \in GapsHasta(Len(pSegmentos) + 1) PROVE g \in Huecos
  <2>1. PICK k \in 1..(Len(pSegmentos) + 1) : Ancho(k) > 0 /\ g = <<FinDe(k - 1), Ancho(k)>>
    BY DEF GapsHasta
  <2> QED
    BY <2>1, GapEsHueco
<1> QED
  BY <1>1, <1>2

\* DumpVeraz: fnMostrarEspaciosLibre shows each free block once, with its size, and
\* with its base except for the one at the end of the memory.
THEOREM DumpEsVeraz == Spec => []DumpVeraz
<1>1. InvUmv => DumpVeraz
  <2> DEFINE u == Len(pSegmentos)
             s == Mostrado[u]
             base == IF s.libres = <<>> THEN 0 ELSE s.libres[Len(s.libres)][1]
             muestra == IF s.pos < CANT_MEM THEN Append(s.libres, <<base, CANT_MEM - s.pos>>)
                        ELSE s.libres
  <2> SUFFICES ASSUME InvUmv
               PROVE  /\ Len(muestra) = Cardinality(Huecos)
                      /\ \A g \in Huecos : \E k \in DOMAIN muestra :
                           /\ muestra[k][2] = g[2]
                           /\ \/ muestra[k][1] = g[1]
                              \/ k = Len(muestra) /\ g[1] + g[2] = CANT_MEM
    BY DEF DumpVeraz, fnMostrarEspaciosLibre
  <2>1. u \in Nat /\ u + 1 \in 1..(u + 1) /\ (u + 1) - 1 = u
    BY Segmentos DEF InvUmv
  <2>2. /\ s.pos = FinDe(u) /\ s.libres \in Seq(Nat \X Nat)
        /\ IsFiniteSet(GapsHasta(u)) /\ Cardinality(GapsHasta(u)) = Len(s.libres)
        /\ \A g \in GapsHasta(u) : \E n \in 1..Len(s.libres) : s.libres[n] = g
    BY VistoTodo DEF Visto
  <2>3. /\ FinDe(u) \in Nat /\ Ancho(u + 1) \in Nat /\ CANT_MEM \in Nat
        /\ Ancho(u + 1) = CANT_MEM - FinDe(u) /\ FinDe(u) <= CANT_MEM
    BY <2>1, Gaps DEF Ancho, ComienzoDe
  <2>4. base \in Nat
    <3>1. CASE s.libres # <<>>
      <4>1. Len(s.libres) \in 1..Len(s.libres)
        BY <2>2, <3>1
      <4>2. s.libres[Len(s.libres)] \in Nat \X Nat
        BY <2>2, <4>1
      <4> QED
        BY <3>1, <4>2
    <3> QED
      BY <3>1
  <2> HIDE DEF u, s, base
  <2>5. PICK c \in Seq(Nat \X Nat), b \in Nat : c = s.libres /\ b = base
    BY <2>2, <2>4
  <2>6. muestra = IF Ancho(u + 1) > 0 THEN Append(c, <<b, Ancho(u + 1)>>) ELSE c
    <3>1. s.pos < CANT_MEM <=> Ancho(u + 1) > 0
      BY <2>2, <2>3
    <3>2. CANT_MEM - s.pos = Ancho(u + 1)
      BY <2>2, <2>3
    <3> QED
      BY <2>5, <3>1, <3>2
  <2>7. /\ muestra \in Seq(Nat \X Nat)
        /\ Cardinality(GapsHasta(u + 1)) = Len(muestra)
    <3>1. PICK k : k = u + 1
      OBVIOUS
    <3>2. k \in 1..(Len(pSegmentos) + 1) /\ k - 1 = u
      BY <2>1, <3>1 DEF u
    <3>3. IsFiniteSet(GapsHasta(k - 1)) /\ Cardinality(GapsHasta(k - 1)) = Len(c)
      BY <2>2, <2>5, <3>2
    <3>4. muestra = IF Ancho(k) > 0 THEN Append(c, <<b, Ancho(k)>>) ELSE c
      BY <2>6, <3>1
    <3> HIDE DEF muestra
    <3>5. muestra \in Seq(Nat \X Nat) /\ Cardinality(GapsHasta(k)) = Len(muestra)
      BY <3>2, <3>3, <3>4, GapsSon
    <3> QED
      BY <3>1, <3>5
  <2>8. Huecos = GapsHasta(u + 1)
    BY HuecosSon DEF u
  <2> HIDE DEF muestra
  <2>9. ASSUME NEW g \in Huecos
        PROVE  \E k \in 1..Len(muestra) :
                 /\ muestra[k][2] = g[2]
                 /\ \/ muestra[k][1] = g[1]
                    \/ k = Len(muestra) /\ g[1] + g[2] = CANT_MEM
    <3>1. CASE g \in GapsHasta(u)
      <4>1. PICK n \in 1..Len(c) : c[n] = g
        BY <2>2, <2>5, <3>1
      <4>2. n \in 1..Len(muestra) /\ muestra[n] = c[n]
        BY <2>3, <2>5, <2>6, <4>1
      <4> QED
        BY <4>1, <4>2
    <3>2. CASE g \notin GapsHasta(u)
      <4>1. Ancho(u + 1) > 0 /\ g = <<FinDe(u), Ancho(u + 1)>>
        BY <2>1, <2>8, <3>2, GapsMas DEF u
      <4>2. /\ Len(c) + 1 \in 1..Len(muestra) /\ Len(muestra) = Len(c) + 1
            /\ muestra[Len(c) + 1] = <<b, Ancho(u + 1)>>
        BY <2>3, <2>5, <2>6, <4>1
      <4>3. g[1] + g[2] = CANT_MEM /\ g[2] = Ancho(u + 1)
        BY <2>3, <4>1
      <4> QED
        BY <4>2, <4>3
    <3> QED
      BY <3>1, <3>2
  <2>10. DOMAIN muestra = 1..Len(muestra)
    BY <2>7
  <2>11. Len(muestra) = Cardinality(Huecos)
    BY <2>7, <2>8
  <2>12. \A g \in Huecos : \E k \in DOMAIN muestra :
           /\ muestra[k][2] = g[2]
           /\ \/ muestra[k][1] = g[1]
              \/ k = Len(muestra) /\ g[1] + g[2] = CANT_MEM
    BY <2>9, <2>10
  <2> QED
    BY <2>11, <2>12
<1> QED
  BY <1>1, Invariante, PTL

-----------------------------------------------------------------------------
(* The refinement of the abstract memory: what a segment holds does not depend on *)
(* where it is, and each request takes effect at one instant between its arrival  *)
(* and its answer. First, the invariant.                                          *)

\* What a thread has of request and answer at each step; and the program that a
\* connection works for is one it was told of.
EnEspera == {"saludo", "activar", "recv"}
Cambios(h) == {q.pid : q \in {x \in Pedidos[h] : x.op = "cambioProcesoActivo"}}
Dialogo(h) ==
  /\ Tipo[h] = "consola" => idPrograma[h] = Nadie /\ hilo[h].paso \notin {"saludo", "activar"}
  /\ Tipo[h] # "consola" /\ hilo[h].paso \notin {"saludo", "activar"} =>
       idPrograma[h] \in Cambios(h)
  /\ hilo[h].paso \in EnEspera => Pedido(h) = SinPedido
  /\ hilo[h].paso \notin EnEspera => Pedido(h) \in Pedidos[h]
  /\ hilo[h].paso = "enviar" <=> hilo[h].respuesta # SinRespuesta
  /\ hilo[h].paso \in {"cambioProcesoActivo", "alg", "solicitar"} =>
       Pedido(h).op = hilo[h].paso
  /\ hilo[h].paso \in {"lockDestruir", "destruir"} => Pedido(h).op = "destruirSegmentos"
  /\ hilo[h].paso = "responder" =>
       Pedido(h).op = "crearSegmento" /\ hilo[h].nodo \in DirLogicas

InvDialogo == InvUmv /\ \A h \in Hilos : Dialogo(h)

-----------------------------------------------------------------------------
(* Requests and answers. *)

\* The fields of a thread that begins a step.
LEMMA HiloCampos ==
  ASSUME NEW p, NEW q, NEW r
  PROVE  /\ Hilo(p, q, r).paso = p /\ Hilo(p, q, r).pedido = q
         /\ Hilo(p, q, r).respuesta = r /\ Hilo(p, q, r).nodo = Nadie
BY DEF Hilo

\* A step of h is of h only.
LEMMA SoloElSuyo ==
  ASSUME InvUmv, NEW h \in Hilos, Recibir(h) \/ Desconectar(h) \/ Paso(h)
  PROVE  \A g \in Hilos \ {h} : hilo'[g] = hilo[g] /\ idPrograma'[g] = idPrograma[g]
<1> SUFFICES ASSUME NEW g \in Hilos, g # h
             PROVE  hilo'[g] = hilo[g] /\ idPrograma'[g] = idPrograma[g]
  OBVIOUS
<1>1. hilo \in [Hilos -> HiloT] /\ idPrograma \in [Hilos -> Nat]
  BY DEF InvUmv, Tipos
<1>2. CASE Recibir(h) \/ Desconectar(h)
  BY <1>1, <1>2 DEF Recibir, Desconectar
<1>3. CASE Saludar(h) \/ ResponderCambio(h) \/ Enviar(h) \/ CambiarAlgoritmo(h)
  BY <1>1, <1>3 DEF Saludar, ResponderCambio, Enviar, CambiarAlgoritmo, Seguir, Contestar
<1>4. CASE SolicitarBytes(h) \/ AlmacenarBytes(h)
  BY <1>1, <1>4 DEF SolicitarBytes, AlmacenarBytes, Contestar
<1>5. CASE Lock(h) \/ LockCompactar(h) \/ LockDestruir(h) \/ SinLugar(h)
  BY <1>1, <1>5 DEF Lock, LockCompactar, LockDestruir, SinLugar, Seguir
<1>6. CASE NodoFF(h) \/ NodoWF(h) \/ FinBusqueda(h)
  BY <1>1, <1>6 DEF NodoFF, NodoWF, FinBusqueda, Encontrar, Avanzar
<1>7. CASE MemoryOverload(h) \/ ResponderCreado(h) \/ FinDestruir(h)
  BY <1>1, <1>7 DEF MemoryOverload, ResponderCreado, FinDestruir, Contestar
<1>8. CASE InsertarSegmento(h) \/ QuitarSegmento(h)
  BY <1>1, <1>8 DEF InsertarSegmento, QuitarSegmento
<1>9. CASE MoverSegmento(h) \/ FinCompactar(h)
  BY <1>1, <1>9 DEF MoverSegmento, FinCompactar, Avanzar, Contestar
<1> QED
  BY <1>2, <1>3, <1>4, <1>5, <1>6, <1>7, <1>8, <1>9 DEF Paso

\* A step of h that begins step p with its locals clear.
LEMMA DialogoEmpieza ==
  ASSUME InvDialogo, NEW h \in Hilos, NEW p \in Pasos, NEW q, NEW r,
         hilo' = [hilo EXCEPT ![h] = Hilo(p, q, r)], idPrograma' = idPrograma,
         p \notin {"saludo", "activar", "responder", "cambioProcesoActivo", "alg",
                   "solicitar", "destruir", "lockDestruir"},
         hilo[h].paso \notin {"saludo", "activar"},
         p = "enviar" <=> r # SinRespuesta,
         p = "recv" => q = SinPedido, p # "recv" => q \in Pedidos[h]
  PROVE  Dialogo(h)'
<1> DEFINE n == Hilo(p, q, r)
<1>1. n.paso = p /\ n.pedido = q /\ n.respuesta = r
  BY HiloCampos
<1>2. hilo'[h] = n
  BY DEF InvDialogo, InvUmv, Tipos
<1> HIDE DEF n
<1>3. Dialogo(h)
  BY DEF InvDialogo
<1> QED
  BY <1>1, <1>2, <1>3 DEF Dialogo, Pedido, EnEspera, Cambios

\* An answer.
LEMMA DialogoContesta ==
  ASSUME InvDialogo, NEW h \in Hilos, NEW tipo, NEW d, NEW b,
         Contestar(h, Resp(tipo, d, b)), idPrograma' = idPrograma,
         tipo # "ninguna", hilo[h].paso \notin EnEspera
  PROVE  Dialogo(h)'
<1>1. hilo' = [hilo EXCEPT ![h] = Hilo("enviar", hilo[h].pedido, Resp(tipo, d, b))]
  BY DEF Contestar
<1>2. Resp(tipo, d, b) # SinRespuesta
  BY DEF Resp, SinRespuesta
<1>3. hilo[h].pedido \in Pedidos[h]
  BY DEF InvDialogo, Dialogo, Pedido
<1>4. hilo[h].paso \notin {"saludo", "activar"}
  BY DEF EnEspera
<1> QED
  BY <1>1, <1>2, <1>3, <1>4, DialogoEmpieza DEF Pasos

\* Each step of h leaves its own part in order.
LEMMA DialogoSuyo ==
  ASSUME InvDialogo, NEW h \in Hilos, Recibir(h) \/ Desconectar(h) \/ Paso(h)
  PROVE  Dialogo(h)'
<1>1. /\ hilo \in [Hilos -> HiloT] /\ idPrograma \in [Hilos -> Nat]
      /\ hilo[h] \in HiloT /\ Dialogo(h) /\ Control(h)
  BY DEF InvDialogo, InvUmv, Tipos
<1>2. CASE Recibir(h)
  <2>1. PICK q \in Pedidos[h] :
          /\ hilo[h].paso = "activar" => q.op = "cambioProcesoActivo"
          /\ hilo' = [hilo EXCEPT ![h] = Hilo(PasoDe(q.op), q, SinRespuesta)]
          /\ idPrograma' = IF q.op = "cambioProcesoActivo"
                           THEN [idPrograma EXCEPT ![h] = q.pid] ELSE idPrograma
    BY <1>2 DEF Recibir
  <2> DEFINE n == Hilo(PasoDe(q.op), q, SinRespuesta)
  <2>2. n.paso = PasoDe(q.op) /\ n.pedido = q /\ n.respuesta = SinRespuesta
    BY HiloCampos
  <2>3. hilo'[h] = n
    BY <1>1, <2>1
  <2> HIDE DEF n
  <2>4. q.op \in Ops(Tipo[h]) /\ Tipo[h] \in {"kernel", "cpu", "consola"}
    BY ParametrosUmv
  <2>5. /\ PasoDe(q.op) \notin {"saludo", "activar", "recv", "enviar", "responder", "destruir"}
        /\ PasoDe(q.op) \in {"cambioProcesoActivo", "alg", "solicitar"} => q.op = PasoDe(q.op)
        /\ PasoDe(q.op) = "lockDestruir" => q.op = "destruirSegmentos"
        /\ Tipo[h] = "consola" => q.op # "cambioProcesoActivo"
    BY <2>4 DEF PasoDe, Ops
  <2>6. CASE q.op = "cambioProcesoActivo"
    <3>1. idPrograma'[h] = q.pid /\ q.pid \in Cambios(h)
      BY <1>1, <2>1, <2>6 DEF Cambios
    <3> QED
      BY <1>1, <2>2, <2>3, <2>5, <2>6, <3>1 DEF Dialogo, Pedido, EnEspera, Cambios
  <2>7. CASE q.op # "cambioProcesoActivo"
    <3>1. idPrograma'[h] = idPrograma[h] /\ hilo[h].paso = "recv"
      BY <1>2, <2>1, <2>7 DEF Recibir
    <3> QED
      BY <1>1, <2>2, <2>3, <2>5, <2>7, <3>1 DEF Dialogo, Pedido, EnEspera, Cambios
  <2> QED
    BY <2>6, <2>7
<1>3. CASE Desconectar(h)
  <2> DEFINE n == Hilo("saludo", SinPedido, SinRespuesta)
  <2>1. n.paso = "saludo" /\ n.pedido = SinPedido /\ n.respuesta = SinRespuesta
    BY HiloCampos
  <2>2. hilo'[h] = n /\ Tipo[h] # "consola"
    BY <1>1, <1>3 DEF Desconectar
  <2> HIDE DEF n
  <2> QED
    BY <2>1, <2>2 DEF Dialogo, Pedido, EnEspera
<1>4. CASE Saludar(h)
  <2>1. /\ hilo'[h] = [hilo[h] EXCEPT !.paso = "activar"] /\ hilo[h].paso = "saludo"
    BY <1>1, <1>4 DEF Saludar, Seguir
  <2>2. /\ hilo'[h].paso = "activar" /\ hilo'[h].pedido = hilo[h].pedido
        /\ hilo'[h].respuesta = hilo[h].respuesta
    BY <1>1, <2>1 DEF HiloT
  <2> QED
    BY <1>1, <2>1, <2>2 DEF Dialogo, Pedido, EnEspera
<1>5. CASE ResponderCambio(h) \/ CambiarAlgoritmo(h) \/ SolicitarBytes(h)
             \/ AlmacenarBytes(h) \/ MemoryOverload(h) \/ ResponderCreado(h) \/ FinDestruir(h)
  <2>1. /\ idPrograma' = idPrograma /\ hilo[h].paso \notin EnEspera
    BY <1>5 DEF ResponderCambio, CambiarAlgoritmo, SolicitarBytes, AlmacenarBytes,
                MemoryOverload, ResponderCreado, FinDestruir, EnEspera
  <2>2. \E tipo, d, b : tipo # "ninguna" /\ Contestar(h, Resp(tipo, d, b))
    <3>1. CASE ResponderCambio(h) \/ CambiarAlgoritmo(h) \/ MemoryOverload(h)
                 \/ ResponderCreado(h) \/ FinDestruir(h)
      BY <3>1 DEF ResponderCambio, CambiarAlgoritmo, MemoryOverload, ResponderCreado,
                  FinDestruir
    <3>2. CASE AlmacenarBytes(h)
      BY <3>2 DEF AlmacenarBytes
    <3>3. CASE SolicitarBytes(h)
      BY <3>3 DEF SolicitarBytes
    <3> QED
      BY <1>5, <3>1, <3>2, <3>3
  <2> QED
    BY <2>1, <2>2, DialogoContesta
<1>6. CASE Enviar(h)
  <2>1. /\ hilo[h].paso = "enviar" /\ idPrograma' = idPrograma
        /\ hilo' = [hilo EXCEPT ![h] = Hilo("recv", SinPedido, SinRespuesta)]
    BY <1>6 DEF Enviar
  <2> QED
    BY <2>1, DialogoEmpieza DEF Pasos
<1>7. CASE Lock(h) \/ LockCompactar(h)
  <2>1. /\ hilo'[h].paso \in {"buscar", "compactar"} /\ hilo'[h].pedido = hilo[h].pedido
        /\ hilo'[h].respuesta = hilo[h].respuesta /\ idPrograma' = idPrograma
        /\ hilo[h].paso \in {"lock", "lockCompactar"}
    BY <1>1, <1>7 DEF Lock, LockCompactar, Seguir, HiloT
  <2> QED
    BY <1>1, <2>1 DEF Dialogo, Pedido, EnEspera, Cambios
<1>8. CASE LockDestruir(h)
  <2>1. /\ hilo'[h].paso = "destruir" /\ hilo'[h].pedido = hilo[h].pedido
        /\ hilo'[h].respuesta = hilo[h].respuesta /\ idPrograma' = idPrograma
        /\ hilo[h].paso = "lockDestruir"
    BY <1>1, <1>8 DEF LockDestruir, Seguir, HiloT
  <2> QED
    BY <1>1, <2>1 DEF Dialogo, Pedido, EnEspera, Cambios
<1>9. CASE SinLugar(h)
  <2>1. hilo[h].paso = "buscar" /\ hilo[h].pedido \in Pedidos[h]
    BY <1>1, <1>9 DEF SinLugar, Dialogo, Pedido, EnEspera
  <2>2. /\ hilo' = [hilo EXCEPT ![h] = Hilo("lockCompactar", hilo[h].pedido, SinRespuesta)]
        /\ idPrograma' = idPrograma
    BY <1>9 DEF SinLugar
  <2> QED
    BY <2>1, <2>2, DialogoEmpieza DEF Pasos
<1>10. CASE NodoFF(h) \/ NodoWF(h) \/ FinBusqueda(h)
  <2>1. hilo[h].paso = "buscar" /\ idPrograma' = idPrograma
    BY <1>10 DEF NodoFF, NodoWF, FinBusqueda
  <2>2. \/ \E pos, mayor, fisica : Avanzar(h, pos, mayor, fisica)
        \/ \E fisica : Encontrar(h, fisica)
    BY <1>10 DEF NodoFF, NodoWF, FinBusqueda
  <2>3. CASE \E pos, mayor, fisica : Avanzar(h, pos, mayor, fisica)
    <3>1. /\ hilo'[h].paso = hilo[h].paso /\ hilo'[h].pedido = hilo[h].pedido
          /\ hilo'[h].respuesta = hilo[h].respuesta
      BY <1>1, <2>3 DEF Avanzar, HiloT
    <3> QED
      BY <1>1, <2>1, <3>1 DEF Dialogo, Pedido, EnEspera, Cambios
  <2>4. CASE \E fisica : Encontrar(h, fisica)
    <3>1. /\ hilo'[h].paso = "insertar" /\ hilo'[h].pedido = hilo[h].pedido
          /\ hilo'[h].respuesta = SinRespuesta
      BY <1>1, <2>4 DEF Encontrar, Hilo
    <3> QED
      BY <1>1, <2>1, <3>1 DEF Dialogo, Pedido, EnEspera, Cambios
  <2> QED
    BY <2>2, <2>3, <2>4
<1>11. CASE InsertarSegmento(h)
  <2>1. PICK d \in Libres :
          hilo' = [hilo EXCEPT ![h] =
                     [Hilo("responder", hilo[h].pedido, SinRespuesta) EXCEPT !.nodo = d]]
    BY <1>11 DEF InsertarSegmento
  <2>2. /\ hilo'[h].paso = "responder" /\ hilo'[h].pedido = hilo[h].pedido
        /\ hilo'[h].respuesta = SinRespuesta /\ hilo'[h].nodo = d /\ d \in DirLogicas
        /\ idPrograma' = idPrograma /\ hilo[h].paso = "insertar"
    BY <1>1, <1>11, <2>1 DEF Hilo, Libres, InsertarSegmento
  <2>3. Pedido(h).op = "crearSegmento"
    BY <1>1, <2>2 DEF Control
  <2> QED
    BY <1>1, <2>2, <2>3 DEF Dialogo, Pedido, EnEspera, Cambios
<1>12. CASE MoverSegmento(h)
  <2>1. /\ hilo'[h].paso = hilo[h].paso /\ hilo'[h].pedido = hilo[h].pedido
        /\ hilo'[h].respuesta = hilo[h].respuesta /\ hilo[h].paso = "compactar"
        /\ idPrograma' = idPrograma
    BY <1>1, <1>12 DEF MoverSegmento, Avanzar, HiloT
  <2> QED
    BY <1>1, <2>1 DEF Dialogo, Pedido, EnEspera, Cambios
<1>13. CASE FinCompactar(h)
  <2>1. hilo[h].paso = "compactar" /\ idPrograma' = idPrograma
    BY <1>13 DEF FinCompactar
  <2>2. CASE Contestar(h, Resp("OK", Nadie, <<>>))
    BY <2>1, <2>2, DialogoContesta DEF EnEspera
  <2>3. CASE hilo' = [hilo EXCEPT ![h] =
               [Hilo("lock", hilo[h].pedido, SinRespuesta) EXCEPT !.compactado = TRUE]]
    <3>1. /\ hilo'[h].paso = "lock" /\ hilo'[h].pedido = hilo[h].pedido
          /\ hilo'[h].respuesta = SinRespuesta
      BY <1>1, <2>3 DEF Hilo
    <3> QED
      BY <1>1, <2>1, <3>1 DEF Dialogo, Pedido, EnEspera, Cambios
  <2> QED
    BY <1>13, <2>2, <2>3 DEF FinCompactar
<1>14. CASE QuitarSegmento(h)
  BY <1>1, <1>14 DEF QuitarSegmento, Dialogo, Pedido, EnEspera, Cambios
<1> QED
  BY <1>2, <1>3, <1>4, <1>5, <1>6, <1>7, <1>8, <1>9, <1>10, <1>11, <1>12, <1>13, <1>14
  DEF Paso

\* The invariant holds in every state.
LEMMA InvarianteDialogo == Spec => []InvDialogo
<1>1. Init => InvDialogo
  <2> SUFFICES ASSUME Init PROVE InvDialogo
    OBVIOUS
  <2>1. ASSUME NEW h \in Hilos PROVE Dialogo(h)
    <3>1. /\ hilo[h].paso = Inicio(h) /\ hilo[h].pedido = SinPedido
          /\ hilo[h].respuesta = SinRespuesta /\ idPrograma[h] = Nadie
      BY HiloCampos DEF Init
    <3> QED
      BY <3>1 DEF Dialogo, Inicio, Pedido, EnEspera
  <2> QED
    BY <2>1, InitInv DEF InvDialogo
<1>2. InvDialogo /\ [Next]_vars => InvDialogo'
  <2> SUFFICES ASSUME InvDialogo, [Next]_vars PROVE InvDialogo'
    OBVIOUS
  <2>1. InvUmv'
    BY NextInv DEF InvDialogo
  <2>2. ASSUME NEW h \in Hilos, Recibir(h) \/ Desconectar(h) \/ Paso(h), NEW g \in Hilos
        PROVE  Dialogo(g)'
    <3>1. CASE g = h
      BY <2>2, <3>1, DialogoSuyo
    <3>2. CASE g # h
      <4>1. hilo'[g] = hilo[g] /\ idPrograma'[g] = idPrograma[g] /\ Dialogo(g)
        BY <2>2, <3>2, SoloElSuyo DEF InvDialogo
      <4> QED
        BY <4>1 DEF Dialogo, Pedido, Cambios
    <3> QED
      BY <3>1, <3>2
  <2>3. CASE UNCHANGED vars
    BY <2>3 DEF vars, InvDialogo, Dialogo, Pedido, Cambios, InvUmv, tabla, Tipos, Control,
                Avance, TablaEnRegla, Indices, Libre, FinDe
  <2>4. CASE Next
    BY <2>1, <2>2, <2>4 DEF InvDialogo, Next
  <2> QED
    BY <2>3, <2>4
<1> QED
  BY <1>1, <1>2, PTL DEF Spec

-----------------------------------------------------------------------------
(* What the segments hold. *)

\* The program and the bytes of the i-th segment.
Bloque(i) ==
  [pid |-> pSegmentos[i].idPrograma,
   bytes |-> [k \in 0..(pSegmentos[i].tamanio - 1) |-> memoria[pSegmentos[i].dirFisica + k]]]

\* A logical address is of no segment, or of one, which is what it holds.
ContenidoSon ==
  /\ \A d \in Libres : d \in DirLogicas /\ Contenido(d) = Mem!Nada
  /\ \A d \in DirLogicas \ Libres : \E i \in Indices : pSegmentos[i].dirLogica = d
  /\ \A d : \A i \in Indices : pSegmentos[i].dirLogica = d =>
       d \in DirLogicas \ Libres /\ Contenido(d) = Bloque(i)

\* The table gives each logical address what it holds.
LEMMA EsContenido == InvUmv => ContenidoSon
<1> SUFFICES ASSUME InvUmv PROVE ContenidoSon
  OBVIOUS
<1>1. /\ TablaEnRegla /\ Indices \subseteq Nat
      /\ \A i \in Indices : pSegmentos[i] \in SegmentoT
  BY Segmentos DEF InvUmv, Indices
<1>2. \A d \in Libres : d \in DirLogicas /\ Contenido(d) = Mem!Nada
  BY DEF Libres, Contenido, Mem!Nada
<1>3. \A d \in DirLogicas \ Libres : \E i \in Indices : pSegmentos[i].dirLogica = d
  BY DEF Libres
<1>4. ASSUME NEW d, NEW i \in Indices, pSegmentos[i].dirLogica = d
      PROVE  d \in DirLogicas \ Libres /\ Contenido(d) = Bloque(i)
  <2>1. d \in DirLogicas
    BY <1>1, <1>4 DEF SegmentoT
  <2>2. d \notin Libres
    BY <1>4 DEF Libres
  <2>3. \A j \in Indices : pSegmentos[j].dirLogica = d => j = i
    BY <1>1, <1>4 DEF TablaEnRegla
  <2> DEFINE elegido == CHOOSE j \in Indices : pSegmentos[j].dirLogica = d
  <2>4. elegido = i
    BY <1>4, <2>3
  <2>5. Contenido(d) = [pid |-> pSegmentos[elegido].idPrograma,
                        bytes |-> [k \in 0..(pSegmentos[elegido].tamanio - 1) |->
                                     memoria[pSegmentos[elegido].dirFisica + k]]]
    BY <2>2 DEF Contenido
  <2> HIDE DEF elegido
  <2>6. Contenido(d) = Bloque(i)
    BY <2>4, <2>5 DEF Bloque
  <2> QED
    BY <2>1, <2>2, <2>6
<1> QED
  BY <1>2, <1>3, <1>4 DEF ContenidoSon

\* So it is after a step.
LEMMA EsContenidoLuego == InvUmv' => ContenidoSon'
BY EsContenido, PTL

\* The abstract memory counts as it is usual.
LEMMA MismoCardinal == \A S : Mem!Cardinality(S) = Cardinality(S)
BY Zenon DEF Mem!Cardinality, Cardinality

\* The addresses in use and the sizes, as the abstract memory sees them.
LEMMA EsHay ==
  ASSUME InvUmv
  PROVE  /\ Mem!Hay = DirLogicas \ Libres
         /\ \A d : \A i \in Indices : pSegmentos[i].dirLogica = d =>
              Mem!Tam(d) = pSegmentos[i].tamanio
<1>1. /\ ContenidoSon
      /\ \A i \in Indices : pSegmentos[i].tamanio \in Nat /\ pSegmentos[i].tamanio > 0
  BY EsContenido, Segmentos DEF InvUmv
<1>2. ASSUME NEW i \in Indices
      PROVE  /\ Bloque(i) # Mem!Nada
             /\ Cardinality(DOMAIN Bloque(i).bytes) = pSegmentos[i].tamanio
  <2>1. DOMAIN Bloque(i).bytes = 0..(pSegmentos[i].tamanio - 1)
    BY DEF Bloque
  <2>2. 0 \in DOMAIN Bloque(i).bytes
    BY <1>1, <2>1
  <2>3. 0 \notin DOMAIN Mem!Nada.bytes
    BY DEF Mem!Nada
  <2>4. Cardinality(0..(pSegmentos[i].tamanio - 1)) = pSegmentos[i].tamanio
    BY <1>1, FS_Interval
  <2> QED
    BY <2>1, <2>2, <2>3, <2>4
<1>3. \A d \in DirLogicas : d \notin Libres <=> Contenido(d) # Mem!Nada
  BY <1>1, <1>2 DEF ContenidoSon
<1>4. Mem!Hay = DirLogicas \ Libres
  BY <1>3 DEF Mem!Hay
<1>5. ASSUME NEW d, NEW i \in Indices, pSegmentos[i].dirLogica = d
      PROVE  Mem!Tam(d) = pSegmentos[i].tamanio
  <2>1. d \in DirLogicas /\ Contenido(d) = Bloque(i)
    BY <1>1, <1>5 DEF ContenidoSon
  <2>2. Mem!Tam(d) = Cardinality(DOMAIN Contenido(d).bytes)
    BY <2>1, MismoCardinal DEF Mem!Tam
  <2> QED
    BY <1>2, <2>1, <2>2
<1> QED
  BY <1>4, <1>5

\* The bytes of a segment are in the memory, and no two segments share one.
LEMMA BytesDe ==
  ASSUME InvUmv, NEW i \in Indices, NEW k \in 0..(pSegmentos[i].tamanio - 1)
  PROVE  /\ pSegmentos[i].dirFisica + k \in Direcciones
         /\ \A j \in Indices : \A n \in 0..(pSegmentos[j].tamanio - 1) :
              pSegmentos[i].dirFisica + k = pSegmentos[j].dirFisica + n => i = j /\ k = n
<1>1. /\ TablaEnRegla /\ CANT_MEM \in Nat
      /\ \A j \in Indices :
           /\ pSegmentos[j].dirFisica \in Nat /\ pSegmentos[j].tamanio \in Nat
           /\ pSegmentos[j].dirFisica + pSegmentos[j].tamanio <= CANT_MEM
      /\ Indices \subseteq Nat
  BY Segmentos DEF InvUmv, Indices
<1>2. pSegmentos[i].dirFisica + k \in Direcciones
  BY <1>1 DEF Direcciones
<1>3. ASSUME NEW j \in Indices, NEW n \in 0..(pSegmentos[j].tamanio - 1),
             pSegmentos[i].dirFisica + k = pSegmentos[j].dirFisica + n
      PROVE  i = j /\ k = n
  <2>1. ~(i < j)
    <3>1. i < j => pSegmentos[i].dirFisica + pSegmentos[i].tamanio <= pSegmentos[j].dirFisica
      BY <1>1 DEF TablaEnRegla
    <3> QED
      BY <1>1, <1>3, <3>1
  <2>2. ~(j < i)
    <3>1. j < i => pSegmentos[j].dirFisica + pSegmentos[j].tamanio <= pSegmentos[i].dirFisica
      BY <1>1 DEF TablaEnRegla
    <3> QED
      BY <1>1, <1>3, <3>1
  <2>3. i = j
    BY <1>1, <2>1, <2>2
  <2> QED
    BY <1>1, <1>3, <2>3
<1> QED
  BY <1>2, <1>3

-----------------------------------------------------------------------------
(* What the operations do to what the segments hold. *)

\* A segment that keeps its program, its size and its bytes keeps its content,
\* wherever it is and whichever its place in the table.
LEMMA ContenidoSigue ==
  ASSUME ContenidoSon, ContenidoSon', NEW d, NEW i \in Indices, NEW j \in Indices',
         pSegmentos[i].dirLogica = d, pSegmentos'[j].dirLogica = d,
         pSegmentos'[j].idPrograma = pSegmentos[i].idPrograma,
         pSegmentos'[j].tamanio = pSegmentos[i].tamanio,
         \A k \in 0..(pSegmentos[i].tamanio - 1) :
           memoria'[pSegmentos'[j].dirFisica + k] = memoria[pSegmentos[i].dirFisica + k]
  PROVE  Contenido(d)' = Contenido(d)
<1>1. Bloque(j)' = Bloque(i)
  BY DEF Bloque
<1>2. Contenido(d) = Bloque(i)
  BY DEF ContenidoSon
<1>3. Contenido(d)' = Bloque(j)'
  BY DEF ContenidoSon
<1> QED
  BY <1>1, <1>2, <1>3

\* What nobody uses holds nothing, before and after.
LEMMA ContenidoFalta ==
  ASSUME ContenidoSon, ContenidoSon', NEW d \in Libres, d \in Libres'
  PROVE  Contenido(d)' = Contenido(d)
BY DEF ContenidoSon, Mem!Nada

\* If nothing of the table changes, nothing of what it holds does.
LEMMA ContenidoQuieto ==
  ASSUME UNCHANGED tabla
  PROVE  \A d \in DirLogicas : Contenido(d)' = Contenido(d)
BY DEF tabla, Contenido, Libres, Indices

\* When the bytes stay and a segment comes or goes, only its address changes.
LEMMA ContenidoDeLosOtros ==
  ASSUME InvUmv, InvUmv', memoria' = memoria, NEW d \in DirLogicas,
         \A i \in Indices : pSegmentos[i].dirLogica = d =>
           \E j \in Indices' : pSegmentos'[j] = pSegmentos[i],
         \A j \in Indices' : pSegmentos'[j].dirLogica = d =>
           \E i \in Indices : pSegmentos'[j] = pSegmentos[i]
  PROVE  Contenido(d)' = Contenido(d)
<1>1. ContenidoSon /\ ContenidoSon'
  BY EsContenido, EsContenidoLuego
<1>2. CASE d \in Libres
  <2>1. d \in Libres'
    BY <1>2 DEF Libres
  <2> QED
    BY <1>1, <1>2, <2>1, ContenidoFalta
<1>3. CASE d \notin Libres
  <2>1. PICK i \in Indices : pSegmentos[i].dirLogica = d
    BY <1>1, <1>3 DEF ContenidoSon
  <2>2. PICK j \in Indices' : pSegmentos'[j] = pSegmentos[i]
    BY <2>1
  <2> QED
    BY <1>1, <2>1, <2>2, ContenidoSigue
<1> QED
  BY <1>2, <1>3

\* A new segment comes, at a place of the table; the others are still there.
LEMMA TablaCrece ==
  ASSUME InvUmv, NEW h \in Hilos, InsertarSegmento(h)
  PROVE  \E d \in Libres : \E k \in Indices' :
           /\ pSegmentos'[k] =
                [idPrograma |-> Pid(h), tamanio |-> Pedido(h).tam, dirLogica |-> d,
                 dirFisica |-> hilo[h].fisica]
           /\ hilo' = [hilo EXCEPT ![h] =
                [Hilo("responder", hilo[h].pedido, SinRespuesta) EXCEPT !.nodo = d]]
           /\ \A i \in Indices : \E j \in Indices' : pSegmentos'[j] = pSegmentos[i]
           /\ \A j \in Indices' \ {k} : \E i \in Indices : pSegmentos'[j] = pSegmentos[i]
<1> DEFINE s == pSegmentos
           f == hilo[h].fisica
           k == Posicion(f)
           tam == Pedido(h).tam
<1>1. PICK d \in Libres :
        /\ s' = InsertAt(s, k, [idPrograma |-> Pid(h), tamanio |-> tam, dirLogica |-> d,
                                dirFisica |-> f])
        /\ hilo' = [hilo EXCEPT ![h] =
             [Hilo("responder", hilo[h].pedido, SinRespuesta) EXCEPT !.nodo = d]]
  BY DEF InsertarSegmento
<1>2. /\ memoria' = memoria /\ hilo[h].paso = "insertar"
      /\ hilo[h] \in HiloT /\ Control(h) /\ Avance(h) /\ Pid(h) \in Nat
      /\ Pedido(h) \in Pedidos[h] \cup {SinPedido}
  BY DeUnHilo DEF InsertarSegmento
<1>3. f \in Nat /\ tam \in Nat \ {0} /\ Libre(f, tam) /\ CANT_MEM \in Nat
  BY <1>2, PedidoTipo, ParametrosUmv DEF HiloT, Control, Avance
<1>4. s \in Seq(SegmentoT) /\ Len(s) \in Nat /\ memoria \in [Direcciones -> Bytes]
  BY Segmentos DEF InvUmv, Tipos
<1>5. k \in 1..(Len(s) + 1)
  BY <1>3, PosicionExiste DEF InvUmv
<1> DEFINE e == [idPrograma |-> Pid(h), tamanio |-> tam, dirLogica |-> d, dirFisica |-> f]
<1>6. e \in SegmentoT
  BY <1>2, <1>3 DEF SegmentoT, Libres
<1>7. /\ e.idPrograma = Pid(h) /\ e.tamanio = tam /\ e.dirLogica = d /\ e.dirFisica = f
      /\ s' = InsertAt(s, k, e)
  BY <1>1
<1> HIDE DEF e, k, f, tam
<1>8. /\ Len(s') = Len(s) + 1 /\ s'[k] = e
      /\ \A j \in 1..(k - 1) : s'[j] = s[j]
      /\ \A j \in (k + 1)..(Len(s) + 1) : s'[j] = s[j - 1]
  <2> HIDE DEF s
  <2>1. /\ Len(InsertAt(s, k, e)) = Len(s) + 1 /\ InsertAt(s, k, e)[k] = e
        /\ \A j \in 1..(k - 1) : InsertAt(s, k, e)[j] = s[j]
        /\ \A j \in (k + 1)..(Len(s) + 1) : InsertAt(s, k, e)[j] = s[j - 1]
    BY <1>4, <1>5, <1>6, Insertada DEF s
  <2> QED
    BY <1>7, <2>1
<1>9. /\ Indices = 1..Len(s) /\ Indices' = 1..(Len(s) + 1) /\ k \in Indices'
  BY <1>5, <1>8 DEF Indices
<1>10. ASSUME NEW i \in Indices PROVE \E j \in Indices' : s'[j] = s[i]
  <2>1. CASE i < k
    BY <1>4, <1>5, <1>8, <1>9, <2>1
  <2>2. CASE i >= k
    <3>1. PICK m \in Indices' : m = i + 1
      BY <1>4, <1>9
    <3>2. m \in (k + 1)..(Len(s) + 1) /\ m - 1 = i
      BY <1>4, <1>5, <1>9, <2>2, <3>1
    <3>3. s'[m] = s[m - 1]
      BY <1>8, <3>2
    <3> QED
      BY <3>1, <3>2, <3>3
  <2> QED
    BY <1>4, <1>5, <1>9, <2>1, <2>2
<1>11. ASSUME NEW j \in Indices', j # k PROVE \E i \in Indices : s'[j] = s[i]
  <2>1. CASE j < k
    BY <1>4, <1>5, <1>8, <1>9, <2>1
  <2>2. CASE j > k
    <3>1. j - 1 \in Indices /\ j \in (k + 1)..(Len(s) + 1)
      BY <1>4, <1>5, <1>9, <2>2
    <3> QED
      BY <1>8, <3>1
  <2> QED
    BY <1>4, <1>5, <1>9, <1>11, <2>1, <2>2
<1> QED
  BY <1>1, <1>7, <1>8, <1>9, <1>10, <1>11 DEF e, tam, f

\* A segment of the program leaves the table, and no other.
LEMMA TablaMengua ==
  ASSUME InvUmv, NEW h \in Hilos, QuitarSegmento(h)
  PROVE  \E k \in Indices :
           /\ pSegmentos[k].idPrograma = Pid(h)
           /\ \A i \in Indices \ {k} : \E j \in Indices' : pSegmentos'[j] = pSegmentos[i]
           /\ \A j \in Indices' : \E i \in Indices \ {k} : pSegmentos'[j] = pSegmentos[i]
<1> DEFINE s == pSegmentos
<1>1. PICK k \in Indices : s[k].idPrograma = Pid(h) /\ s' = RemoveAt(s, k)
  BY DEF QuitarSegmento, DelPrograma
<1>2. s \in Seq(SegmentoT) /\ Len(s) \in Nat /\ k \in 1..Len(s) /\ TablaEnRegla
  BY Segmentos DEF InvUmv, Tipos, Indices
<1>3. /\ Len(s') = Len(s) - 1
      /\ \A j \in 1..(k - 1) : s'[j] = s[j]
      /\ \A j \in k..(Len(s) - 1) : s'[j] = s[j + 1]
  BY <1>1, <1>2, Quitada
<1>4. Indices = 1..Len(s) /\ Indices' = 1..(Len(s) - 1)
  BY <1>3 DEF Indices
<1>5. ASSUME NEW i \in Indices \ {k} PROVE \E j \in Indices' : s'[j] = s[i]
  <2>1. CASE i < k
    BY <1>2, <1>3, <1>4, <2>1
  <2>2. CASE i > k
    <3>1. PICK m \in Indices' : m = i - 1
      BY <1>2, <1>4, <2>2
    <3>2. m \in k..(Len(s) - 1) /\ m + 1 = i
      BY <1>2, <1>4, <2>2, <3>1
    <3> QED
      BY <1>3, <3>1, <3>2
  <2> QED
    BY <1>2, <1>4, <2>1, <2>2
<1>6. ASSUME NEW j \in Indices' PROVE \E i \in Indices \ {k} : s'[j] = s[i]
  <2>1. CASE j < k
    BY <1>2, <1>3, <1>4, <2>1
  <2>2. CASE j >= k
    <3>1. j + 1 \in Indices \ {k} /\ j \in k..(Len(s) - 1)
      BY <1>2, <1>4, <2>2
    <3> QED
      BY <1>3, <3>1
  <2> QED
    BY <1>2, <1>4, <2>1, <2>2
<1> QED
  BY <1>1, <1>2, <1>4, <1>5, <1>6

\* A new segment holds what there was in the memory where it is.
LEMMA ContenidoInserta ==
  ASSUME InvUmv, InvUmv', NEW h \in Hilos, InsertarSegmento(h)
  PROVE  \E d \in Libres :
           /\ hilo' = [hilo EXCEPT ![h] =
                [Hilo("responder", hilo[h].pedido, SinRespuesta) EXCEPT !.nodo = d]]
           /\ \E b \in [0..(Pedido(h).tam - 1) -> Bytes] :
                Contenido(d)' = [pid |-> Pid(h), bytes |-> b]
           /\ \A e \in DirLogicas \ {d} : Contenido(e)' = Contenido(e)
<1> DEFINE s == pSegmentos
<1>1. PICK d \in Libres, k \in Indices' :
        /\ s'[k] = [idPrograma |-> Pid(h), tamanio |-> Pedido(h).tam, dirLogica |-> d,
                    dirFisica |-> hilo[h].fisica]
        /\ hilo' = [hilo EXCEPT ![h] =
             [Hilo("responder", hilo[h].pedido, SinRespuesta) EXCEPT !.nodo = d]]
        /\ \A i \in Indices : \E j \in Indices' : s'[j] = s[i]
        /\ \A j \in Indices' \ {k} : \E i \in Indices : s'[j] = s[i]
  BY TablaCrece
<1>2. PICK f, tam : f = hilo[h].fisica /\ tam = Pedido(h).tam
  OBVIOUS
<1>3. /\ s'[k].idPrograma = Pid(h) /\ s'[k].tamanio = tam /\ s'[k].dirLogica = d
      /\ s'[k].dirFisica = f
  BY <1>1, <1>2
<1>4. /\ memoria' = memoria /\ hilo[h].paso = "insertar"
      /\ hilo[h] \in HiloT /\ Control(h) /\ Avance(h)
      /\ Pedido(h) \in Pedidos[h] \cup {SinPedido}
      /\ memoria \in [Direcciones -> Bytes]
  BY DeUnHilo DEF InsertarSegmento, InvUmv, Tipos
<1>5. f \in Nat /\ tam \in Nat \ {0} /\ Libre(f, tam) /\ CANT_MEM \in Nat
  BY <1>2, <1>4, PedidoTipo, ParametrosUmv DEF HiloT, Control, Avance
<1>6. ASSUME NEW c \in DirLogicas \ {d} PROVE Contenido(c)' = Contenido(c)
  <2>1. \A j \in Indices' : s'[j].dirLogica = c => j \in Indices' \ {k}
    BY <1>3
  <2> QED
    BY <1>1, <1>4, <2>1, ContenidoDeLosOtros
<1>7. PICK b : b = [n \in 0..(tam - 1) |-> memoria[f + n]]
  OBVIOUS
<1>8. b \in [0..(tam - 1) -> Bytes]
  <2>1. \A n \in 0..(tam - 1) : f + n \in Direcciones
    BY <1>5 DEF Libre, Direcciones
  <2> QED
    BY <1>4, <1>7, <2>1
<1>9. Contenido(d)' = [pid |-> Pid(h), bytes |-> b]
  <2>1. Contenido(d)' = Bloque(k)'
    BY <1>3, EsContenidoLuego DEF ContenidoSon
  <2>2. Bloque(k)' = [pid |-> Pid(h), bytes |-> b]
    BY <1>3, <1>4, <1>7 DEF Bloque
  <2> QED
    BY <2>1, <2>2
<1> QED
  BY <1>1, <1>2, <1>6, <1>8, <1>9

\* A segment that leaves the table leaves its address with nothing.
LEMMA ContenidoQuita ==
  ASSUME InvUmv, InvUmv', NEW h \in Hilos, QuitarSegmento(h)
  PROVE  \E d \in DirLogicas \ Libres :
           /\ Contenido(d).pid = Pid(h)
           /\ Contenido(d)' = Mem!Nada
           /\ \A e \in DirLogicas \ {d} : Contenido(e)' = Contenido(e)
<1> DEFINE s == pSegmentos
<1>1. PICK k \in Indices :
        /\ s[k].idPrograma = Pid(h)
        /\ \A i \in Indices \ {k} : \E j \in Indices' : s'[j] = s[i]
        /\ \A j \in Indices' : \E i \in Indices \ {k} : s'[j] = s[i]
  BY TablaMengua
<1>2. memoria' = memoria
  BY DEF QuitarSegmento
<1>3. PICK d : d = s[k].dirLogica
  OBVIOUS
<1>4. /\ d \in DirLogicas \ Libres /\ Contenido(d) = Bloque(k)
      /\ ContenidoSon /\ ContenidoSon'
  BY <1>3, EsContenido, EsContenidoLuego DEF ContenidoSon
<1>5. Contenido(d).pid = Pid(h)
  BY <1>1, <1>4 DEF Bloque
<1>6. \A i \in Indices \ {k} : s[i].dirLogica # d
  <2>1. TablaEnRegla /\ Indices \subseteq Nat
    BY DEF InvUmv, Indices
  <2> QED
    BY <1>3, <2>1 DEF TablaEnRegla
<1>7. d \in Libres'
  BY <1>1, <1>4, <1>6 DEF Libres
<1>8. Contenido(d)' = Mem!Nada
  BY <1>4, <1>7 DEF ContenidoSon, Mem!Nada
<1>9. ASSUME NEW e \in DirLogicas \ {d} PROVE Contenido(e)' = Contenido(e)
  BY <1>1, <1>2, <1>3, ContenidoDeLosOtros
<1> QED
  BY <1>4, <1>5, <1>8, <1>9

\* The compaction gives a segment another physical address.
LEMMA TablaMovida ==
  ASSUME InvUmv, NEW h \in Hilos, MoverSegmento(h)
  PROVE  /\ Indices' = Indices
         /\ \A j \in Indices : /\ pSegmentos'[j].dirLogica = pSegmentos[j].dirLogica
                              /\ pSegmentos'[j].idPrograma = pSegmentos[j].idPrograma
                              /\ pSegmentos'[j].tamanio = pSegmentos[j].tamanio
<1> DEFINE s == pSegmentos
<1>1. PICK k, hasta : k = hilo[h].i /\ hasta = hilo[h].pos
  OBVIOUS
<1>2. hilo[h].paso = "compactar" /\ k <= Len(s) /\ s' = [s EXCEPT ![k].dirFisica = hasta]
  BY <1>1 DEF MoverSegmento
<1>3. /\ k \in 1..Len(s) /\ s \in Seq(SegmentoT)
      /\ \A j \in Indices : s[j] \in SegmentoT
  BY <1>1, <1>2, Busqueda, Segmentos DEF InvUmv, Tipos, Indices
<1>4. /\ Indices' = Indices
      /\ s'[k] = [s[k] EXCEPT !.dirFisica = hasta]
      /\ \A j \in Indices \ {k} : s'[j] = s[j]
  BY <1>2, <1>3 DEF Indices
<1>5. /\ s'[k].tamanio = s[k].tamanio /\ s'[k].dirLogica = s[k].dirLogica
      /\ s'[k].idPrograma = s[k].idPrograma
  BY <1>3, <1>4 DEF SegmentoT, Indices
<1> QED
  BY <1>4, <1>5

\* The compaction moves a segment over bytes that are of no other, and over its own
\* after they were copied: nobody sees it.
LEMMA ContenidoMueve ==
  ASSUME InvUmv, InvUmv', NEW h \in Hilos, MoverSegmento(h)
  PROVE  \A d \in DirLogicas : Contenido(d)' = Contenido(d)
<1> DEFINE s == pSegmentos
<1>1. PICK k : k = hilo[h].i
  OBVIOUS
<1>2. PICK hasta : hasta = hilo[h].pos
  OBVIOUS
<1>3. /\ hilo[h].paso = "compactar" /\ k <= Len(s)
      /\ memoria' = Copiado(s[k].dirFisica, hasta, s[k].tamanio)
      /\ s' = [s EXCEPT ![k].dirFisica = hasta]
  BY <1>1, <1>2 DEF MoverSegmento
<1>4. /\ k \in Indices /\ hasta = FinDe(k - 1) /\ hasta \in Nat
      /\ hasta <= s[k].dirFisica
      /\ k - 1 \in 0..Len(s)
  BY <1>1, <1>2, <1>3, Busqueda
<1>5. /\ \A j \in Indices :
           /\ s[j].dirFisica \in Nat /\ s[j].tamanio \in Nat
           /\ s[j].dirFisica + s[j].tamanio <= CANT_MEM
           /\ s[j] \in SegmentoT
      /\ CANT_MEM \in Nat /\ TablaEnRegla /\ Tipos
  BY Segmentos DEF InvUmv
<1>6. /\ Indices' = Indices
      /\ s'[k] = [s[k] EXCEPT !.dirFisica = hasta]
      /\ \A j \in Indices \ {k} : s'[j] = s[j]
  <2>1. s \in Seq(SegmentoT) /\ k \in 1..Len(s)
    BY <1>4, <1>5 DEF Tipos, Indices
  <2> QED
    BY <1>3, <2>1 DEF Indices
<1>7. s'[k].dirFisica = hasta
  BY <1>4, <1>5, <1>6 DEF SegmentoT
<1>8. \A x \in Direcciones :
        memoria'[x] = IF x \in hasta..(hasta + s[k].tamanio - 1)
                      THEN memoria[x - hasta + s[k].dirFisica] ELSE memoria[x]
  BY <1>3 DEF Copiado
<1>9. ASSUME NEW j \in Indices, NEW n \in 0..(s[j].tamanio - 1)
      PROVE  memoria'[s'[j].dirFisica + n] = memoria[s[j].dirFisica + n]
  <2>1. CASE j = k
    <3>1. PICK x : x = hasta + n
      OBVIOUS
    <3> DEFINE a == s[k].dirFisica
               t == s[k].tamanio
    <3>2. /\ n \in 0..(t - 1) /\ hasta \in Nat /\ a \in Nat /\ t \in Nat /\ hasta <= a
          /\ a + t <= CANT_MEM /\ CANT_MEM \in Nat
      BY <1>4, <1>5, <2>1
    <3> HIDE DEF a, t
    <3>3. /\ x \in 0..(CANT_MEM - 1) /\ x \in hasta..(hasta + t - 1)
          /\ x - hasta + a = a + n
      BY <3>1, <3>2
    <3>4. memoria'[x] = memoria[a + n]
      BY <1>8, <3>3 DEF Direcciones, a, t
    <3> QED
      BY <1>7, <2>1, <3>1, <3>4 DEF a
  <2>2. CASE j # k
    <3>1. PICK x : x = s[j].dirFisica + n
      OBVIOUS
    <3>2. x \in Direcciones
      BY <1>5, <3>1 DEF Direcciones
    <3>3. CASE j < k
      <4>1. s[j].dirFisica + s[j].tamanio <= hasta
        <5>1. j <= k - 1
          BY <1>4, <3>3 DEF Indices
        <5> QED
          BY <1>4, <1>5, <5>1, Orden
      <4>2. x < hasta
        BY <1>4, <1>5, <3>1, <4>1
      <4>3. x \notin hasta..(hasta + s[k].tamanio - 1)
        BY <4>2, <1>4, <3>2 DEF Direcciones
      <4> QED
        BY <1>6, <1>8, <2>2, <3>1, <3>2, <4>3
    <3>4. CASE k < j
      <4>1. s[k].dirFisica + s[k].tamanio <= s[j].dirFisica
        BY <1>4, <1>5, <3>4 DEF TablaEnRegla
      <4>2. hasta + s[k].tamanio <= x
        BY <1>4, <1>5, <3>1, <4>1
      <4>3. x \notin hasta..(hasta + s[k].tamanio - 1)
        BY <4>2, <1>4, <1>5, <3>2 DEF Direcciones
      <4> QED
        BY <1>6, <1>8, <2>2, <3>1, <3>2, <4>3
    <3> QED
      BY <1>4, <2>2, <3>3, <3>4 DEF Indices
  <2> QED
    BY <2>1, <2>2
<1>10. ContenidoSon /\ ContenidoSon'
  BY EsContenido, EsContenidoLuego
<1>11. \A j \in Indices : /\ s'[j].dirLogica = s[j].dirLogica
                          /\ s'[j].idPrograma = s[j].idPrograma
                          /\ s'[j].tamanio = s[j].tamanio
  BY TablaMovida
<1>12. ASSUME NEW d \in DirLogicas PROVE Contenido(d)' = Contenido(d)
  <2>1. CASE d \in Libres
    <3>1. d \in Libres'
      BY <1>6, <1>11, <2>1 DEF Libres
    <3> QED
      BY <1>10, <2>1, <3>1, ContenidoFalta
  <2>2. CASE d \notin Libres
    <3>1. PICK i \in Indices : s[i].dirLogica = d
      BY <1>10, <2>2 DEF ContenidoSon
    <3>2. i \in Indices' /\ s'[i].dirLogica = d
      BY <1>6, <1>11, <3>1
    <3> QED
      BY <1>9, <1>10, <1>11, <3>1, <3>2, ContenidoSigue
  <2> QED
    BY <2>1, <2>2
<1> QED
  BY <1>12

-----------------------------------------------------------------------------
(* Addresses. *)

\* A power of two is a natural number: that of the subsets of a set.
LEMMA ModuloNat == Modulo \in Nat /\ CANT_MEM \in Nat /\ CANT_MEM < Modulo
<1>1. ANCHO \in Nat /\ CANT_MEM \in Nat /\ CANT_MEM < 2^ANCHO
  BY ParametrosUmv
<1>2. IsFiniteSet(1..ANCHO) /\ Cardinality(1..ANCHO) = ANCHO
  BY <1>1, FS_Interval
<1>3. /\ IsFiniteSet(SUBSET (1..ANCHO))
      /\ Cardinality(SUBSET (1..ANCHO)) = 2^Cardinality(1..ANCHO)
  BY <1>2, FS_SUBSET
<1>4. Cardinality(SUBSET (1..ANCHO)) \in Nat
  BY <1>3, FS_CardinalityType
<1>5. 2^ANCHO \in Nat
  BY <1>2, <1>3, <1>4
<1> QED
  BY <1>1, <1>5 DEF Modulo

\* Below 2^ANCHO nothing wraps around.
LEMMA SinVuelta ==
  ASSUME NEW x \in Nat, x < Modulo
  PROVE  x % Modulo = x
BY ModuloNat

\* A program's request is served if the program has a segment at that address that
\* reaches so far; and then it is about the bytes of that segment.
EsDelPedido(h, i) ==
  /\ pSegmentos[i].idPrograma = Pid(h)
  /\ pSegmentos[i].dirLogica = Pedido(h).dir
  /\ Pedido(h).off + Pedido(h).tam <= pSegmentos[i].tamanio

\* So the test of the bounds says.
LEMMA PermitidoEs ==
  ASSUME InvUmv, SinDesborde, NEW h \in Hilos, Pedido(h) \in Pedidos[h]
  PROVE  /\ Permitido(h) <=> \E i \in Indices : EsDelPedido(h, i)
         /\ \A i \in Indices : EsDelPedido(h, i) =>
              \A k \in 0..(Pedido(h).tam - 1) :
                Direccion(h, k) = pSegmentos[i].dirFisica + (Pedido(h).off + k)
<1>1. /\ Indices \subseteq Nat /\ TablaEnRegla
      /\ \A i \in Indices : /\ pSegmentos[i].dirFisica \in Nat
                            /\ pSegmentos[i].tamanio \in Nat
                            /\ pSegmentos[i].dirFisica + pSegmentos[i].tamanio <= CANT_MEM
  BY Segmentos DEF InvUmv, Indices
<1>2. PICK off \in Nat : off = Pedido(h).off
  BY ParametrosUmv
<1>3. PICK tam \in Nat : tam = Pedido(h).tam
  BY ParametrosUmv
<1>4. off + tam < Modulo
  BY <1>2, <1>3 DEF SinDesborde
<1>5. (tam + off) % Modulo = off + tam
  BY <1>4, SinVuelta
<1>6. \A i, j \in Buscado(h) : i = j
  BY <1>1 DEF Buscado, TablaEnRegla
<1>7. Permitido(h) <=> \E i \in Indices : EsDelPedido(h, i)
  <2>1. Permitido(h) <=>
          \E i \in Buscado(h) : /\ \A j \in Buscado(h) : i <= j
                                /\ off + tam <= pSegmentos[i].tamanio
    BY <1>2, <1>3, <1>5 DEF Permitido
  <2>2. \A i \in Buscado(h) : \A j \in Buscado(h) : i <= j
    BY <1>1, <1>6 DEF Buscado
  <2> QED
    BY <1>2, <1>3, <2>1, <2>2 DEF EsDelPedido, Buscado
<1>8. ASSUME NEW i \in Indices, EsDelPedido(h, i), NEW k \in 0..(Pedido(h).tam - 1)
      PROVE  Direccion(h, k) = pSegmentos[i].dirFisica + (Pedido(h).off + k)
  <2>1. i \in Buscado(h)
    BY <1>8 DEF Buscado, EsDelPedido
  <2> DEFINE elegido == CHOOSE x \in Buscado(h) : \A j \in Buscado(h) : x <= j
  <2>2. \A j \in Buscado(h) : i <= j
    BY <1>1, <1>6, <2>1 DEF Buscado
  <2>3. elegido \in Buscado(h)
    BY <2>1, <2>2
  <2>4. elegido = i
    BY <1>6, <2>1, <2>3
  <2>5. Direccion(h, k) = (pSegmentos[elegido].dirFisica + Pedido(h).off + k) % Modulo
    BY DEF Direccion, Segmento
  <2> HIDE DEF elegido
  <2>6. PICK a \in Nat : a = pSegmentos[i].dirFisica
    BY <1>1
  <2>7. Direccion(h, k) = (a + off + k) % Modulo
    BY <1>2, <2>4, <2>5, <2>6
  <2>8. PICK t \in Nat : t = pSegmentos[i].tamanio
    BY <1>1
  <2>9. a + t <= CANT_MEM /\ off + tam <= t /\ k \in 0..(tam - 1)
    BY <1>1, <1>2, <1>3, <1>8, <2>6, <2>8 DEF EsDelPedido
  <2>10. a + off + k \in Nat /\ a + off + k < Modulo /\ a + off + k = a + (off + k)
    BY <2>9, ModuloNat
  <2>11. (a + off + k) % Modulo = a + off + k
    BY <2>10, SinVuelta
  <2> QED
    BY <1>2, <2>6, <2>7, <2>10, <2>11
<1> QED
  BY <1>7, <1>8

\* Whose a request is, for both.
LEMMA MismoPid ==
  ASSUME InvDialogo, NEW h \in Hilos, Pedido(h) \in Pedidos[h],
         Pedido(h).op # "cambioProcesoActivo"
  PROVE  Mem!Pid(h) = Pid(h)
<1>1. Dialogo(h) /\ idPrograma[h] \in Nat
  BY DEF InvDialogo, InvUmv, Tipos
<1>2. Mem!Pid(h) = IF Pedido(h).pid # 0 THEN Pedido(h).pid ELSE idPrograma[h]
  BY DEF Mem!Pid
<1>3. Pedido(h).pid # 0 => Tipo[h] = "consola"
  BY ParametrosUmv
<1>4. CASE Tipo[h] = "consola"
  BY <1>1, <1>2, <1>4 DEF Dialogo, Pid, Nadie
<1>5. CASE Tipo[h] # "consola"
  BY <1>2, <1>3, <1>5 DEF Pid
<1> QED
  BY <1>4, <1>5

\* And which bytes are its own.
LEMMA PropioEs ==
  ASSUME InvDialogo, NEW h \in Hilos, Pedido(h) \in Pedidos[h],
         Pedido(h).op # "cambioProcesoActivo"
  PROVE  Mem!Propio(h) <=> \E i \in Indices : EsDelPedido(h, i)
<1>1. Mem!Pid(h) = Pid(h) /\ InvUmv
  BY MismoPid DEF InvDialogo
<1>2. /\ Mem!Hay = DirLogicas \ Libres /\ ContenidoSon
      /\ \A d : \A i \in Indices : pSegmentos[i].dirLogica = d =>
           Mem!Tam(d) = pSegmentos[i].tamanio
  BY <1>1, EsHay, EsContenido
<1>3. PICK d : d = Pedido(h).dir
  OBVIOUS
<1>4. Mem!Propio(h) <=> /\ d \in DirLogicas \ Libres
                        /\ Contenido(d).pid = Pid(h)
                        /\ Pedido(h).off + Pedido(h).tam <= Mem!Tam(d)
  BY <1>1, <1>2, <1>3 DEF Mem!Propio
<1>5. ASSUME NEW i \in Indices, pSegmentos[i].dirLogica = d
      PROVE  /\ d \in DirLogicas \ Libres /\ Contenido(d).pid = pSegmentos[i].idPrograma
             /\ Mem!Tam(d) = pSegmentos[i].tamanio
  <2>1. d \in DirLogicas \ Libres /\ Contenido(d) = Bloque(i)
    BY <1>2, <1>5 DEF ContenidoSon
  <2> QED
    BY <1>2, <1>5, <2>1 DEF Bloque
<1>6. d \in DirLogicas \ Libres => \E i \in Indices : pSegmentos[i].dirLogica = d
  BY <1>2 DEF ContenidoSon
<1> QED
  BY <1>3, <1>4, <1>5, <1>6 DEF EsDelPedido

\* What is read is what the segment holds.
LEMMA Leido ==
  ASSUME InvUmv, SinDesborde, NEW h \in Hilos, Pedido(h) \in Pedidos[h],
         NEW i \in Indices, EsDelPedido(h, i), NEW k \in 0..(Pedido(h).tam - 1)
  PROVE  /\ Direccion(h, k) \in Direcciones
         /\ Pedido(h).off + k \in 0..(pSegmentos[i].tamanio - 1)
         /\ memoria[Direccion(h, k)] = Contenido(Pedido(h).dir).bytes[Pedido(h).off + k]
<1>1. PICK n : n = Pedido(h).off + k
  OBVIOUS
<1>2. n \in 0..(pSegmentos[i].tamanio - 1)
  <2>1. /\ Pedido(h).off \in Nat /\ Pedido(h).tam \in Nat
        /\ pSegmentos[i].tamanio \in Nat
    BY ParametrosUmv, Segmentos DEF InvUmv
  <2> QED
    BY <1>1, <2>1 DEF EsDelPedido
<1>3. Direccion(h, k) = pSegmentos[i].dirFisica + n
  BY <1>1, PermitidoEs
<1>4. pSegmentos[i].dirFisica + n \in Direcciones
  BY <1>2, BytesDe
<1>5. Contenido(Pedido(h).dir) = Bloque(i)
  BY EsContenido DEF ContenidoSon, EsDelPedido
<1>6. Bloque(i).bytes[n] = memoria[pSegmentos[i].dirFisica + n]
  BY <1>2 DEF Bloque
<1> QED
  BY <1>1, <1>2, <1>3, <1>4, <1>5, <1>6

\* What is written changes those bytes of that segment, and no other.
LEMMA ContenidoEscribe ==
  ASSUME InvUmv, InvUmv', SinDesborde, NEW h \in Hilos, Pedido(h) \in Pedidos[h],
         AlmacenarBytes(h), Permitido(h),
         NEW i \in Indices, EsDelPedido(h, i), NEW dir, dir = Pedido(h).dir
  PROVE  /\ Contenido(dir)' =
              [Contenido(dir) EXCEPT !.bytes =
                 [k \in DOMAIN @ |-> IF k \in Mem!Tramo(Pedido(h)) THEN Pedido(h).byte
                                     ELSE @[k]]]
         /\ \A d \in DirLogicas \ {dir} : Contenido(d)' = Contenido(d)
<1>1. /\ pSegmentos' = pSegmentos
      /\ memoria' = [d \in Direcciones |->
                       IF \E k \in 0..(Pedido(h).tam - 1) : d = Direccion(h, k)
                       THEN Pedido(h).byte ELSE memoria[d]]
  BY DEF AlmacenarBytes
<1>2. ContenidoSon /\ ContenidoSon' /\ Indices' = Indices
  BY <1>1, EsContenido, EsContenidoLuego DEF Indices
<1>3. /\ Pedido(h).off \in Nat /\ Pedido(h).tam \in Nat
      /\ \A j \in Indices : pSegmentos[j].tamanio \in Nat /\ pSegmentos[j].dirFisica \in Nat
  BY ParametrosUmv, Segmentos DEF InvUmv
<1>4. ASSUME NEW j \in Indices, NEW n \in 0..(pSegmentos[j].tamanio - 1)
      PROVE  memoria'[pSegmentos[j].dirFisica + n] =
               IF j = i /\ n \in Mem!Tramo(Pedido(h)) THEN Pedido(h).byte
               ELSE memoria[pSegmentos[j].dirFisica + n]
  <2>1. PICK x : x = pSegmentos[j].dirFisica + n
    OBVIOUS
  <2>2. /\ x \in Direcciones
        /\ \A m \in 0..(pSegmentos[i].tamanio - 1) :
             x = pSegmentos[i].dirFisica + m => j = i /\ n = m
    BY <2>1, BytesDe
  <2>3. \A k \in 0..(Pedido(h).tam - 1) :
          /\ Direccion(h, k) = pSegmentos[i].dirFisica + (Pedido(h).off + k)
          /\ Pedido(h).off + k \in 0..(pSegmentos[i].tamanio - 1)
    BY PermitidoEs, Leido
  <2>4. (\E k \in 0..(Pedido(h).tam - 1) : x = Direccion(h, k)) <=>
          j = i /\ n \in Mem!Tramo(Pedido(h))
    <3>1. ASSUME NEW k \in 0..(Pedido(h).tam - 1), x = Direccion(h, k)
          PROVE  j = i /\ n \in Mem!Tramo(Pedido(h))
      <4>1. j = i /\ n = Pedido(h).off + k
        BY <2>2, <2>3, <3>1
      <4> QED
        BY <1>3, <4>1 DEF Mem!Tramo
    <3>2. ASSUME j = i, n \in Mem!Tramo(Pedido(h))
          PROVE  \E k \in 0..(Pedido(h).tam - 1) : x = Direccion(h, k)
      <4>1. PICK k \in 0..(Pedido(h).tam - 1) : n = Pedido(h).off + k
        <5>1. /\ n - Pedido(h).off \in 0..(Pedido(h).tam - 1)
              /\ n = Pedido(h).off + (n - Pedido(h).off)
          BY <1>3, <3>2 DEF Mem!Tramo
        <5> QED
          BY <5>1
      <4> QED
        BY <2>1, <2>3, <3>2, <4>1
    <3> QED
      BY <3>1, <3>2
  <2> QED
    BY <1>1, <2>1, <2>2, <2>4
<1>5. ASSUME NEW d \in DirLogicas \ {dir} PROVE Contenido(d)' = Contenido(d)
  <2>1. CASE d \in Libres
    <3>1. d \in Libres'
      BY <1>1, <1>2, <2>1 DEF Libres
    <3> QED
      BY <1>2, <2>1, <3>1, ContenidoFalta
  <2>2. CASE d \notin Libres
    <3>1. PICK j \in Indices : pSegmentos[j].dirLogica = d
      BY <1>2, <2>2 DEF ContenidoSon
    <3>2. j # i /\ j \in Indices'
      BY <1>2, <3>1 DEF EsDelPedido
    <3> QED
      BY <1>1, <1>2, <1>4, <3>1, <3>2, ContenidoSigue
  <2> QED
    BY <2>1, <2>2
<1>6. Contenido(dir)' =
        [Contenido(dir) EXCEPT !.bytes =
           [k \in DOMAIN @ |-> IF k \in Mem!Tramo(Pedido(h)) THEN Pedido(h).byte ELSE @[k]]]
  <2> DEFINE t == pSegmentos[i].tamanio
             viejos == [k \in 0..(t - 1) |-> memoria[pSegmentos[i].dirFisica + k]]
             nuevos == [k \in 0..(t - 1) |->
                          IF k \in Mem!Tramo(Pedido(h)) THEN Pedido(h).byte
                          ELSE memoria[pSegmentos[i].dirFisica + k]]
  <2>1. Contenido(dir) = Bloque(i) /\ Contenido(dir)' = Bloque(i)'
    BY <1>1, <1>2 DEF ContenidoSon, EsDelPedido
  <2>2. Bloque(i) = [pid |-> pSegmentos[i].idPrograma, bytes |-> viejos]
    BY DEF Bloque
  <2>3. Bloque(i)' =
          [pid |-> pSegmentos[i].idPrograma,
           bytes |-> [k \in 0..(pSegmentos[i].tamanio - 1) |->
                        memoria'[pSegmentos[i].dirFisica + k]]]
    BY <1>1 DEF Bloque
  <2>4. Bloque(i)' = [pid |-> pSegmentos[i].idPrograma, bytes |-> nuevos]
    BY <1>4, <2>3
  <2>5. nuevos = [k \in DOMAIN viejos |->
                    IF k \in Mem!Tramo(Pedido(h)) THEN Pedido(h).byte ELSE viejos[k]]
    OBVIOUS
  <2> HIDE DEF viejos, nuevos
  <2>6. Contenido(dir)' = [Contenido(dir) EXCEPT !.bytes = nuevos]
    BY <2>1, <2>2, <2>4
  <2>7. Contenido(dir).bytes = viejos
    BY <2>1, <2>2
  <2> QED
    BY <2>5, <2>6, <2>7
<1> QED
  BY <1>5, <1>6

-----------------------------------------------------------------------------
(* The bytes in use. *)

\* The free bytes where a segment is put are of no other: with it the memory is at
\* most full.
LEMMA OcupadoCabe ==
  ASSUME InvUmv, NEW f \in Nat, NEW tam \in Nat \ {0}, Libre(f, tam)
  PROVE  Mem!Ocupado + tam <= CANT_MEM
<1> DEFINE A == {x \in Mem!Hay \X (0..CANT_MEM) : x[2] < Mem!Tam(x[1])}
           deste == f..(f + tam - 1)
           B == Direcciones \ deste
           indice == [x \in A |-> CHOOSE i \in Indices : pSegmentos[i].dirLogica = x[1]]
           fn == [x \in A |-> pSegmentos[indice[x]].dirFisica + x[2]]
<1>1. /\ Mem!Hay = DirLogicas \ Libres /\ ContenidoSon /\ CANT_MEM \in Nat
      /\ \A d : \A i \in Indices : pSegmentos[i].dirLogica = d =>
           Mem!Tam(d) = pSegmentos[i].tamanio
      /\ \A i \in Indices : pSegmentos[i].dirFisica \in Nat /\ pSegmentos[i].tamanio \in Nat
  BY EsHay, EsContenido, Segmentos DEF InvUmv
<1>2. ASSUME NEW x \in A
      PROVE  /\ indice[x] \in Indices /\ pSegmentos[indice[x]].dirLogica = x[1]
             /\ x[2] \in 0..(pSegmentos[indice[x]].tamanio - 1)
             /\ fn[x] = pSegmentos[indice[x]].dirFisica + x[2]
             /\ x = <<x[1], x[2]>>
  <2>1. x[1] \in DirLogicas \ Libres /\ x[2] \in 0..CANT_MEM /\ x = <<x[1], x[2]>>
    BY <1>1
  <2>2. \E i \in Indices : pSegmentos[i].dirLogica = x[1]
    BY <1>1, <2>1 DEF ContenidoSon
  <2>3. indice[x] = CHOOSE i \in Indices : pSegmentos[i].dirLogica = x[1]
    OBVIOUS
  <2>4. indice[x] \in Indices /\ pSegmentos[indice[x]].dirLogica = x[1]
    BY <2>2, <2>3
  <2>5. x[2] < Mem!Tam(x[1])
    OBVIOUS
  <2>6. fn[x] = pSegmentos[indice[x]].dirFisica + x[2]
    OBVIOUS
  <2> HIDE DEF A, indice, fn
  <2>7. x[2] < pSegmentos[indice[x]].tamanio
    BY <1>1, <2>4, <2>5
  <2> QED
    BY <1>1, <2>1, <2>4, <2>6, <2>7
<1> HIDE DEF indice
<1>3. \A x \in A : fn[x] \in B
  <2> SUFFICES ASSUME NEW x \in A PROVE fn[x] \in B
    OBVIOUS
  <2>1. PICK i \in Indices : i = indice[x]
    BY <1>2
  <2>2. PICK k \in 0..(pSegmentos[i].tamanio - 1) : k = x[2]
    BY <1>2, <2>1
  <2>3. fn[x] = pSegmentos[i].dirFisica + k
    BY <1>2, <2>1, <2>2
  <2>4. fn[x] \in Direcciones
    BY <2>3, BytesDe
  <2>5. \/ pSegmentos[i].dirFisica + pSegmentos[i].tamanio <= f
        \/ f + tam <= pSegmentos[i].dirFisica
    BY DEF Libre
  <2> HIDE DEF A, fn
  <2>6. fn[x] \notin deste
    BY <1>1, <2>3, <2>5
  <2> QED
    BY <2>4, <2>6
<1>4. ASSUME NEW x \in A, NEW y \in A, fn[x] = fn[y] PROVE x = y
  <2>1. PICK i \in Indices : i = indice[x]
    BY <1>2
  <2>2. PICK j \in Indices : j = indice[y]
    BY <1>2
  <2>3. PICK k \in 0..(pSegmentos[i].tamanio - 1) : k = x[2]
    BY <1>2, <2>1
  <2>4. PICK n \in 0..(pSegmentos[j].tamanio - 1) : n = y[2]
    BY <1>2, <2>2
  <2>5. pSegmentos[i].dirFisica + k = pSegmentos[j].dirFisica + n
    BY <1>2, <1>4, <2>1, <2>2, <2>3, <2>4
  <2>6. i = j /\ k = n
    BY <2>5, BytesDe
  <2> HIDE DEF A, fn
  <2>7. pSegmentos[i].dirLogica = x[1] /\ x = <<x[1], x[2]>>
    BY <1>2, <2>1
  <2>8. pSegmentos[j].dirLogica = y[1] /\ y = <<y[1], y[2]>>
    BY <1>2, <2>2
  <2> QED
    BY <2>3, <2>4, <2>6, <2>7, <2>8
<1>5. fn \in Injection(A, B)
  <2>1. fn \in [A -> B]
    BY <1>3
  <2>2. IsInjective(fn)
    BY <1>4 DEF IsInjective
  <2> QED
    BY <2>1, <2>2 DEF Injection
<1>6. IsFiniteSet(B) /\ Cardinality(B) = CANT_MEM - tam
  <2>1. IsFiniteSet(Direcciones) /\ Cardinality(Direcciones) = CANT_MEM
    BY <1>1, FS_Interval, ParametrosUmv DEF Direcciones
  <2>2. Cardinality(deste) = tam
    BY FS_Interval
  <2>3. f + tam <= CANT_MEM
    BY DEF Libre
  <2>4. Direcciones \cap deste = deste
    BY <1>1, <2>3 DEF Direcciones
  <2> HIDE DEF deste
  <2>5. /\ IsFiniteSet(Direcciones \ deste)
        /\ Cardinality(Direcciones \ deste) =
             Cardinality(Direcciones) - Cardinality(Direcciones \cap deste)
    BY <2>1, FS_Difference
  <2> QED
    BY <2>1, <2>2, <2>4, <2>5
<1> HIDE DEF fn, B
<1>7. Cardinality(A) <= CANT_MEM - tam
  <2> HIDE DEF A
  <2>1. Cardinality(A) <= Cardinality(B)
    BY <1>5, <1>6, FS_Injection
  <2> QED
    BY <1>6, <2>1
<1>8. Mem!Ocupado = Cardinality(A)
  BY MismoCardinal DEF Mem!Ocupado
<1>9. Cardinality(A) \in Nat
  <2> HIDE DEF A
  <2>1. IsFiniteSet(A)
    BY <1>5, <1>6, FS_Injection
  <2> QED
    BY <2>1, FS_CardinalityType
<1> HIDE DEF A
<1> QED
  BY <1>1, <1>7, <1>8, <1>9

-----------------------------------------------------------------------------
(* Each step of the UMV is one of the abstract memory, or none. *)

\* The answer that a client will get, by step.
Respuestas ==
  \A h \in Hilos :
    /\ hilo[h].paso \notin {"enviar", "responder"} => Respuesta(h) = SinRespuesta
    /\ hilo[h].paso = "enviar" =>
         Respuesta(h) = hilo[h].respuesta /\ hilo[h].respuesta # SinRespuesta

\* The dialogue says which answer is waiting.
LEMMA EsRespuesta == InvDialogo => Respuestas
BY DEF InvDialogo, Dialogo, Respuestas, Respuesta

\* So it is after a step.
LEMMA EsRespuestaLuego == InvDialogo' => Respuestas'
BY EsRespuesta, PTL

\* The others' requests and answers are as they were.
LEMMA LosDemas ==
  ASSUME InvUmv, NEW h \in Hilos, Recibir(h) \/ Desconectar(h) \/ Paso(h)
  PROVE  \A g \in Hilos \ {h} : Pedido(g)' = Pedido(g) /\ Respuesta(g)' = Respuesta(g)
BY SoloElSuyo DEF Pedido, Respuesta

\* What no client can see.
LEMMA NoSeVe ==
  ASSUME \A d \in DirLogicas : Contenido(d)' = Contenido(d),
         \A g \in Hilos : Pedido(g)' = Pedido(g) /\ Respuesta(g)' = Respuesta(g),
         idPrograma' = idPrograma
  PROVE  UNCHANGED Mem!varsM
BY DEF Mem!varsM

\* The step that answers one only.
LEMMA RespuestaDeUno ==
  ASSUME NEW h \in Hilos, NEW r, \A g \in Hilos \ {h} : Respuesta(g)' = Respuesta(g),
         Respuesta(h)' = r
  PROVE  [g \in Hilos |-> Respuesta(g)]' = [[g \in Hilos |-> Respuesta(g)] EXCEPT ![h] = r]
OBVIOUS

\* The answer to a request that had none.
LEMMA Contesta ==
  ASSUME NEW h \in Hilos, NEW r,
         \A g \in Hilos \ {h} : Pedido(g)' = Pedido(g) /\ Respuesta(g)' = Respuesta(g),
         Pedido(h)' = Pedido(h), Respuesta(h)' = r, Respuesta(h) = SinRespuesta,
         Pedido(h).op # "ninguno", idPrograma' = idPrograma
  PROVE  Mem!Contestar(h, r)
<1>1. [g \in Hilos |-> Pedido(g)]' = [g \in Hilos |-> Pedido(g)]
  OBVIOUS
<1>2. [g \in Hilos |-> Respuesta(g)]' = [[g \in Hilos |-> Respuesta(g)] EXCEPT ![h] = r]
  BY RespuestaDeUno
<1>3. [g \in Hilos |-> Respuesta(g)][h] = Mem!SinRespuesta
  BY DEF SinRespuesta, Resp, Mem!SinRespuesta, Mem!Resp
<1> QED
  BY <1>1, <1>2, <1>3 DEF Mem!Contestar

\* A step of the UMV that answers, as the clients see it.
LEMMA ContestaUmv ==
  ASSUME InvDialogo, InvDialogo', NEW h \in Hilos, Recibir(h) \/ Desconectar(h) \/ Paso(h),
         hilo[h].paso \notin EnEspera \cup {"enviar", "responder"},
         NEW tipo, NEW d, NEW b, Contestar(h, Resp(tipo, d, b)), idPrograma' = idPrograma
  PROVE  Mem!Contestar(h, Mem!Resp(tipo, d, b)) /\ Pedido(h) \in Pedidos[h]
<1>1. \A g \in Hilos \ {h} : Pedido(g)' = Pedido(g) /\ Respuesta(g)' = Respuesta(g)
  BY LosDemas DEF InvDialogo
<1>2. Pedido(h) \in Pedidos[h] /\ hilo \in [Hilos -> HiloT]
  BY DEF InvDialogo, Dialogo, InvUmv, Tipos
<1>3. Respuesta(h) = SinRespuesta
  BY EsRespuesta DEF Respuestas
<1>4. /\ hilo'[h].paso = "enviar" /\ hilo'[h].pedido = hilo[h].pedido
      /\ hilo'[h].respuesta = Resp(tipo, d, b)
  BY <1>2, HiloCampos DEF Contestar
<1>5. Pedido(h)' = Pedido(h) /\ Respuesta(h)' = Resp(tipo, d, b)
  BY <1>4 DEF Pedido, Respuesta
<1>6. Pedido(h).op # "ninguno"
  <2>1. Pedido(h).op \in Ops(Tipo[h]) /\ Tipo[h] \in {"kernel", "cpu", "consola"}
    BY <1>2, ParametrosUmv
  <2> QED
    BY <2>1 DEF Ops
<1>7. Mem!Resp(tipo, d, b) = Resp(tipo, d, b)
  BY DEF Resp, Mem!Resp
<1> QED
  BY <1>1, <1>2, <1>3, <1>5, <1>6, <1>7, Contesta

\* The steps of the loops, and of the mutex: the request is the same, and there is no
\* answer yet.
LEMMA InternoCampos ==
  ASSUME InvDialogo, NEW h \in Hilos,
         \/ Saludar(h) \/ Lock(h) \/ LockCompactar(h) \/ LockDestruir(h) \/ SinLugar(h)
         \/ NodoFF(h) \/ NodoWF(h) \/ FinBusqueda(h) \/ MoverSegmento(h)
         \/ (FinCompactar(h) /\ Pedido(h).op # "compactar")
  PROVE  /\ hilo[h].paso \notin {"enviar", "responder"}
         /\ hilo'[h].paso \notin {"enviar", "responder"}
         /\ hilo'[h].pedido = hilo[h].pedido /\ idPrograma' = idPrograma
<1>1. hilo \in [Hilos -> HiloT] /\ hilo[h] \in HiloT
  BY DEF InvDialogo, InvUmv, Tipos
<1>2. CASE Saludar(h) \/ Lock(h) \/ LockCompactar(h) \/ LockDestruir(h)
  BY <1>1, <1>2 DEF Saludar, Lock, LockCompactar, LockDestruir, Seguir, HiloT
<1>3. CASE SinLugar(h)
  BY <1>1, <1>3, HiloCampos DEF SinLugar
<1>4. CASE NodoFF(h) \/ NodoWF(h) \/ FinBusqueda(h)
  <2>1. hilo[h].paso = "buscar" /\ idPrograma' = idPrograma
    BY <1>4 DEF NodoFF, NodoWF, FinBusqueda
  <2>2. \/ \E pos, mayor, fisica : Avanzar(h, pos, mayor, fisica)
        \/ \E fisica : Encontrar(h, fisica)
    BY <1>4 DEF NodoFF, NodoWF, FinBusqueda
  <2>3. ASSUME NEW pos, NEW mayor, NEW fisica, Avanzar(h, pos, mayor, fisica)
        PROVE  hilo'[h].paso = hilo[h].paso /\ hilo'[h].pedido = hilo[h].pedido
    BY <1>1, <2>3 DEF Avanzar, HiloT
  <2>4. ASSUME NEW fisica, Encontrar(h, fisica)
        PROVE  hilo'[h].paso = "insertar" /\ hilo'[h].pedido = hilo[h].pedido
    BY <1>1, <2>4 DEF Encontrar, Hilo
  <2> QED
    BY <2>1, <2>2, <2>3, <2>4
<1>5. CASE MoverSegmento(h)
  BY <1>1, <1>5 DEF MoverSegmento, Avanzar, HiloT
<1>6. CASE FinCompactar(h) /\ Pedido(h).op # "compactar"
  <2>1. /\ hilo[h].paso = "compactar" /\ idPrograma' = idPrograma
        /\ hilo' = [hilo EXCEPT ![h] =
             [Hilo("lock", hilo[h].pedido, SinRespuesta) EXCEPT !.compactado = TRUE]]
    BY <1>6 DEF FinCompactar
  <2>2. hilo'[h].paso = "lock" /\ hilo'[h].pedido = hilo[h].pedido
    BY <1>1, <2>1 DEF Hilo
  <2> QED
    BY <2>1, <2>2
<1> QED
  BY <1>2, <1>3, <1>4, <1>5, <1>6

\* They are of nobody's concern.
LEMMA Interno ==
  ASSUME InvDialogo, InvDialogo', NEW h \in Hilos,
         \/ Saludar(h) \/ Lock(h) \/ LockCompactar(h) \/ LockDestruir(h) \/ SinLugar(h)
         \/ NodoFF(h) \/ NodoWF(h) \/ FinBusqueda(h) \/ MoverSegmento(h)
         \/ (FinCompactar(h) /\ Pedido(h).op # "compactar")
  PROVE  UNCHANGED Mem!varsM
<1>1. InvUmv /\ InvUmv'
  BY DEF InvDialogo
<1>2. /\ hilo[h].paso \notin {"enviar", "responder"}
      /\ hilo'[h].paso \notin {"enviar", "responder"}
      /\ hilo'[h].pedido = hilo[h].pedido /\ idPrograma' = idPrograma
  BY InternoCampos
<1>3. Paso(h)
  BY DEF Paso
<1>4. \A d \in DirLogicas : Contenido(d)' = Contenido(d)
  <2>1. CASE MoverSegmento(h)
    BY <1>1, <2>1, ContenidoMueve
  <2>2. CASE ~MoverSegmento(h)
    <3>1. UNCHANGED tabla
      BY <2>2 DEF Saludar, Lock, LockCompactar, LockDestruir, SinLugar, NodoFF, NodoWF,
                  FinBusqueda, FinCompactar
    <3> QED
      BY <3>1, ContenidoQuieto
  <2> QED
    BY <2>1, <2>2
<1>5. Respuesta(h) = SinRespuesta /\ Respuesta(h)' = SinRespuesta
  <2>1. Respuesta(h) = SinRespuesta
    BY <1>2, EsRespuesta DEF Respuestas
  <2>2. Respuesta(h)' = SinRespuesta
    BY <1>2, EsRespuestaLuego DEF Respuestas, SinRespuesta, Resp
  <2> QED
    BY <2>1, <2>2
<1>6. \A g \in Hilos : Pedido(g)' = Pedido(g) /\ Respuesta(g)' = Respuesta(g)
  <2>1. Pedido(h)' = Pedido(h)
    BY <1>2 DEF Pedido
  <2> QED
    BY <1>1, <1>3, <1>5, <2>1, LosDemas
<1> QED
  BY <1>2, <1>4, <1>6, NoSeVe

\* Requests that are not about what the memory holds.
LEMMA AceptarM ==
  ASSUME InvDialogo, InvDialogo', NEW h \in Hilos,
         \/ ResponderCambio(h) \/ CambiarAlgoritmo(h)
         \/ (FinCompactar(h) /\ Pedido(h).op = "compactar")
  PROVE  Mem!Aceptar(h)
<1>1. Dialogo(h) /\ Paso(h)
  BY DEF InvDialogo, Paso
<1>2. /\ Contestar(h, Resp("OK", 0, <<>>)) /\ idPrograma' = idPrograma
      /\ hilo[h].paso \in {"cambioProcesoActivo", "alg", "compactar"}
      /\ Pedido(h).op \in {"cambioProcesoActivo", "compactar", "alg"}
  BY <1>1 DEF ResponderCambio, CambiarAlgoritmo, FinCompactar, Dialogo, Nadie
<1>3. \A d \in DirLogicas : Contenido(d)' = Contenido(d)
  BY ContenidoQuieto DEF ResponderCambio, CambiarAlgoritmo, FinCompactar
<1>4. Mem!Contestar(h, Mem!Resp("OK", 0, <<>>))
  BY <1>1, <1>2, ContestaUmv DEF EnEspera
<1> QED
  BY <1>2, <1>3, <1>4 DEF Mem!Aceptar

\* A new request; the client has gone; the client has got its answer.
LEMMA PedirM ==
  ASSUME InvDialogo, InvDialogo', NEW h \in Hilos, Recibir(h)
  PROVE  Mem!Pedir(h)
<1>1. /\ Dialogo(h) /\ hilo \in [Hilos -> HiloT] /\ InvUmv
      /\ hilo[h].paso \in {"activar", "recv"}
  BY DEF InvDialogo, InvUmv, Tipos, Recibir
<1>2. PICK q \in Pedidos[h] :
        /\ hilo' = [hilo EXCEPT ![h] = Hilo(PasoDe(q.op), q, SinRespuesta)]
        /\ idPrograma' = IF q.op = "cambioProcesoActivo"
                         THEN [idPrograma EXCEPT ![h] = q.pid] ELSE idPrograma
  BY DEF Recibir
<1>3. hilo'[h].paso = PasoDe(q.op) /\ hilo'[h].pedido = q
  BY <1>1, <1>2, HiloCampos
<1>4. PasoDe(q.op) \notin {"enviar", "responder"}
  <2>1. q.op \in Ops(Tipo[h]) /\ Tipo[h] \in {"kernel", "cpu", "consola"}
    BY ParametrosUmv
  <2> QED
    BY <2>1 DEF PasoDe, Ops
<1>5. Respuesta(h) = SinRespuesta
  BY <1>1, EsRespuesta DEF Respuestas
<1>6. Respuesta(h)' = SinRespuesta
  BY <1>3, <1>4, EsRespuestaLuego DEF Respuestas, SinRespuesta, Resp
<1>7. \A g \in Hilos \ {h} : Pedido(g)' = Pedido(g) /\ Respuesta(g)' = Respuesta(g)
  BY <1>1, LosDemas
<1>8. Pedido(h) = SinPedido /\ Pedido(h)' = q
  BY <1>1, <1>3 DEF Dialogo, EnEspera, Pedido
<1>9. \A d \in DirLogicas : Contenido(d)' = Contenido(d)
  BY ContenidoQuieto DEF Recibir
<1>10. /\ [g \in Hilos |-> Pedido(g)][h] = Mem!SinPedido
       /\ [g \in Hilos |-> Pedido(g)]' = [[g \in Hilos |-> Pedido(g)] EXCEPT ![h] = q]
  BY <1>7, <1>8 DEF SinPedido, Mem!SinPedido
<1>11. [g \in Hilos |-> Respuesta(g)]' = [g \in Hilos |-> Respuesta(g)]
  BY <1>5, <1>6, <1>7
<1>12. [d \in DirLogicas |-> Contenido(d)]' = [d \in DirLogicas |-> Contenido(d)]
  BY <1>9
<1> QED
  BY <1>2, <1>10, <1>11, <1>12 DEF Mem!Pedir

\* A client that leaves is one whose program is forgotten.
LEMMA DesconectadoM ==
  ASSUME InvDialogo, InvDialogo', NEW h \in Hilos, Desconectar(h)
  PROVE  Mem!Desconectado(h)
<1>1. /\ Dialogo(h) /\ hilo \in [Hilos -> HiloT] /\ InvUmv
      /\ hilo[h].paso \in {"activar", "recv"}
  BY DEF InvDialogo, InvUmv, Tipos, Desconectar
<1>2. hilo'[h].paso = "saludo" /\ hilo'[h].pedido = SinPedido
  BY <1>1, HiloCampos DEF Desconectar
<1>3. Respuesta(h) = SinRespuesta
  BY <1>1, EsRespuesta DEF Respuestas
<1>4. Respuesta(h)' = SinRespuesta
  BY <1>2, EsRespuestaLuego DEF Respuestas, SinRespuesta, Resp
<1>5. \A g \in Hilos \ {h} : Pedido(g)' = Pedido(g) /\ Respuesta(g)' = Respuesta(g)
  BY <1>1, LosDemas
<1>6. Pedido(h) = SinPedido /\ Pedido(h)' = SinPedido
  BY <1>1, <1>2 DEF Dialogo, EnEspera, Pedido
<1>7. \A d \in DirLogicas : Contenido(d)' = Contenido(d)
  BY ContenidoQuieto DEF Desconectar
<1>8. /\ [g \in Hilos |-> Pedido(g)][h] = Mem!SinPedido
      /\ [g \in Hilos |-> Pedido(g)]' = [g \in Hilos |-> Pedido(g)]
  BY <1>5, <1>6 DEF SinPedido, Mem!SinPedido
<1>9. [g \in Hilos |-> Respuesta(g)]' = [g \in Hilos |-> Respuesta(g)]
  BY <1>3, <1>4, <1>5
<1>10. [d \in DirLogicas |-> Contenido(d)]' = [d \in DirLogicas |-> Contenido(d)]
  BY <1>7
<1>11. idPrograma' = [idPrograma EXCEPT ![h] = 0]
  BY DEF Desconectar, Nadie
<1> QED
  BY <1>8, <1>9, <1>10, <1>11 DEF Mem!Desconectado

\* Sending the answer is its reception.
LEMMA RecibidoM ==
  ASSUME InvDialogo, InvDialogo', NEW h \in Hilos, Enviar(h)
  PROVE  Mem!Recibido(h)
<1>1. /\ Dialogo(h) /\ hilo \in [Hilos -> HiloT] /\ InvUmv /\ hilo[h].paso = "enviar"
      /\ Paso(h)
  BY DEF InvDialogo, InvUmv, Tipos, Enviar, Paso
<1>2. hilo'[h].paso = "recv" /\ hilo'[h].pedido = SinPedido
  BY <1>1, HiloCampos DEF Enviar
<1>3. Respuesta(h) # SinRespuesta
  BY <1>1, EsRespuesta DEF Respuestas
<1>4. Respuesta(h)' = SinRespuesta
  BY <1>2, EsRespuestaLuego DEF Respuestas, SinRespuesta, Resp
<1>5. \A g \in Hilos \ {h} : Pedido(g)' = Pedido(g) /\ Respuesta(g)' = Respuesta(g)
  BY <1>1, LosDemas
<1>6. Pedido(h)' = SinPedido
  BY <1>2 DEF Pedido
<1>7. \A d \in DirLogicas : Contenido(d)' = Contenido(d)
  BY ContenidoQuieto DEF Enviar
<1>8. [g \in Hilos |-> Pedido(g)]' = [[g \in Hilos |-> Pedido(g)] EXCEPT ![h] = Mem!SinPedido]
  BY <1>5, <1>6 DEF SinPedido, Mem!SinPedido
<1>9. PICK r : r = SinRespuesta /\ r = Mem!SinRespuesta
  BY DEF SinRespuesta, Resp, Mem!SinRespuesta, Mem!Resp
<1>10. /\ [g \in Hilos |-> Respuesta(g)][h] # r
       /\ [g \in Hilos |-> Respuesta(g)]' = [[g \in Hilos |-> Respuesta(g)] EXCEPT ![h] = r]
  <2>1. Respuesta(h) # r /\ Respuesta(h)' = r
    BY <1>3, <1>4, <1>9
  <2>2. [g \in Hilos |-> Respuesta(g)][h] # r
    BY <2>1
  <2>3. [g \in Hilos |-> Respuesta(g)]' = [[g \in Hilos |-> Respuesta(g)] EXCEPT ![h] = r]
    BY <1>5, <2>1, RespuestaDeUno
  <2> QED
    BY <2>2, <2>3
<1>11. [d \in DirLogicas |-> Contenido(d)]' = [d \in DirLogicas |-> Contenido(d)]
  BY <1>7
<1>12. idPrograma' = idPrograma
  BY DEF Enviar
<1> QED
  BY <1>8, <1>9, <1>10, <1>11, <1>12 DEF Mem!Recibido

\* The request that does not fit.
LEMMA NoCrearM ==
  ASSUME InvDialogo, InvDialogo', NEW h \in Hilos, MemoryOverload(h)
  PROVE  Mem!NoCrear(h)
<1>1. Control(h) /\ Paso(h)
  BY DEF InvDialogo, InvUmv, Paso
<1>2. /\ Contestar(h, Resp("memory_overload", 0, <<>>)) /\ idPrograma' = idPrograma
      /\ hilo[h].paso = "buscar" /\ Pedido(h).op = "crearSegmento"
  BY <1>1 DEF MemoryOverload, Control, Nadie
<1>3. \A d \in DirLogicas : Contenido(d)' = Contenido(d)
  BY ContenidoQuieto DEF MemoryOverload
<1>4. Mem!Contestar(h, Mem!Resp("memory_overload", 0, <<>>))
  BY <1>1, <1>2, ContestaUmv DEF EnEspera
<1> QED
  BY <1>2, <1>3, <1>4 DEF Mem!NoCrear

\* Reading and writing.
LEMMA LeerM ==
  ASSUME InvDialogo, InvDialogo', SinDesborde, NEW h \in Hilos, SolicitarBytes(h)
  PROVE  Mem!Leer(h)
<1>1. /\ Dialogo(h) /\ Paso(h) /\ InvUmv /\ hilo[h].paso = "solicitar"
      /\ idPrograma' = idPrograma
  BY DEF InvDialogo, Paso, SolicitarBytes
<1>2. Pedido(h) \in Pedidos[h] /\ Pedido(h).op = "solicitar"
  BY <1>1 DEF Dialogo, EnEspera
<1>3. \A d \in DirLogicas : Contenido(d)' = Contenido(d)
  BY ContenidoQuieto DEF SolicitarBytes
<1>4. Mem!Propio(h) <=> Permitido(h)
  BY <1>1, <1>2, PropioEs, PermitidoEs
<1>5. CASE Permitido(h)
  <2> DEFINE leidos == [k \in 0..(Pedido(h).tam - 1) |->
                          IF Direccion(h, k) \in Direcciones
                          THEN memoria[Direccion(h, k)] ELSE basura]
             suyos == [k \in 0..(Pedido(h).tam - 1) |->
                         Contenido(Pedido(h).dir).bytes[Pedido(h).off + k]]
  <2>1. PICK i \in Indices : EsDelPedido(h, i)
    BY <1>1, <1>2, <1>5, PermitidoEs
  <2>2. \A k \in 0..(Pedido(h).tam - 1) :
          /\ Direccion(h, k) \in Direcciones
          /\ memoria[Direccion(h, k)] = Contenido(Pedido(h).dir).bytes[Pedido(h).off + k]
    BY <1>1, <1>2, <2>1, Leido
  <2>3. leidos = suyos
    BY <2>2
  <2>4. Contestar(h, Resp("bytesSolicitados", 0, leidos))
    BY <1>5 DEF SolicitarBytes, Nadie
  <2> HIDE DEF leidos
  <2>5. Mem!Contestar(h, Mem!Resp("bytesSolicitados", 0, leidos))
    BY <1>1, <2>4, ContestaUmv DEF EnEspera
  <2>6. Pedido(h).dir \in DirLogicas
    BY <1>1, <2>1, EsContenido DEF ContenidoSon, EsDelPedido
  <2>7. [k \in 0..([g \in Hilos |-> Pedido(g)][h].tam - 1) |->
           [d \in DirLogicas |-> Contenido(d)][[g \in Hilos |-> Pedido(g)][h].dir].bytes[
             [g \in Hilos |-> Pedido(g)][h].off + k]] = leidos
    BY <2>3, <2>6
  <2> HIDE DEF suyos
  <2>8. Mem!Propio(h)
    BY <1>4, <1>5
  <2>9. [d \in DirLogicas |-> Contenido(d)]' = [d \in DirLogicas |-> Contenido(d)]
    BY <1>3
  <2>10. [g \in Hilos |-> Pedido(g)][h].op = "solicitar"
    BY <1>2
  <2> QED
    BY <2>5, <2>7, <2>8, <2>9, <2>10 DEF Mem!Leer
<1>6. CASE ~Permitido(h)
  <2>1. Contestar(h, Resp("segmentation_fault", 0, <<>>))
    BY <1>6 DEF SolicitarBytes, Nadie
  <2>2. Mem!Contestar(h, Mem!Resp("segmentation_fault", 0, <<>>))
    BY <1>1, <2>1, ContestaUmv DEF EnEspera
  <2>3. ~Mem!Propio(h)
    BY <1>4, <1>6
  <2> QED
    BY <1>2, <1>3, <2>2, <2>3 DEF Mem!Leer
<1> QED
  BY <1>5, <1>6

\* Writing bytes writes them in what the address holds, or refuses.
LEMMA EscribirM ==
  ASSUME InvDialogo, InvDialogo', SinDesborde, NEW h \in Hilos, AlmacenarBytes(h)
  PROVE  Mem!Escribir(h)
<1>1. /\ Dialogo(h) /\ Control(h) /\ Paso(h) /\ InvUmv /\ InvUmv'
      /\ hilo[h].paso = "almacenar" /\ idPrograma' = idPrograma /\ UNCHANGED pSegmentos
  BY DEF InvDialogo, InvUmv, Paso, AlmacenarBytes
<1>2. Pedido(h) \in Pedidos[h] /\ Pedido(h).op = "almacenar"
  BY <1>1 DEF Dialogo, Control, EnEspera
<1>3. Mem!Propio(h) <=> Permitido(h)
  BY <1>1, <1>2, PropioEs, PermitidoEs
<1>4. CASE Permitido(h)
  <2>1. PICK i \in Indices : EsDelPedido(h, i)
    BY <1>1, <1>2, <1>4, PermitidoEs
  <2>2. PICK dir : dir = Pedido(h).dir
    OBVIOUS
  <2>3. /\ Contenido(dir)' =
             [Contenido(dir) EXCEPT !.bytes =
                [k \in DOMAIN @ |-> IF k \in Mem!Tramo(Pedido(h)) THEN Pedido(h).byte
                                    ELSE @[k]]]
        /\ \A d \in DirLogicas \ {dir} : Contenido(d)' = Contenido(d)
    BY <1>1, <1>2, <1>4, <2>1, <2>2, ContenidoEscribe
  <2>4. dir \in DirLogicas
    BY <1>1, <2>1, <2>2, EsContenido DEF ContenidoSon, EsDelPedido
  <2>5. Contestar(h, Resp("OK", 0, <<>>))
    BY <1>4 DEF AlmacenarBytes, Nadie
  <2>6. Mem!Contestar(h, Mem!Resp("OK", 0, <<>>))
    BY <1>1, <2>5, ContestaUmv DEF EnEspera
  <2>7. [d \in DirLogicas |-> Contenido(d)]' =
          [[d \in DirLogicas |-> Contenido(d)] EXCEPT ![dir].bytes =
             [k \in DOMAIN @ |-> IF k \in Mem!Tramo(Pedido(h)) THEN Pedido(h).byte
                                 ELSE @[k]]]
    BY <2>3, <2>4
  <2>8. Mem!Propio(h)
    BY <1>3, <1>4
  <2> QED
    BY <1>2, <2>2, <2>6, <2>7, <2>8 DEF Mem!Escribir
<1>5. CASE ~Permitido(h)
  <2>1. UNCHANGED tabla
    BY <1>1, <1>5 DEF AlmacenarBytes, tabla
  <2>2. \A d \in DirLogicas : Contenido(d)' = Contenido(d)
    BY <2>1, ContenidoQuieto
  <2>3. Contestar(h, Resp("segmentation_fault", 0, <<>>))
    BY <1>5 DEF AlmacenarBytes, Nadie
  <2>4. Mem!Contestar(h, Mem!Resp("segmentation_fault", 0, <<>>))
    BY <1>1, <2>3, ContestaUmv DEF EnEspera
  <2>5. ~Mem!Propio(h)
    BY <1>3, <1>5
  <2> QED
    BY <1>2, <2>2, <2>4, <2>5 DEF Mem!Escribir
<1> QED
  BY <1>4, <1>5

\* Creating a segment: it takes effect when it is in the table.
LEMMA CrearM ==
  ASSUME InvDialogo, InvDialogo', NEW h \in Hilos, InsertarSegmento(h)
  PROVE  Mem!Crear(h)
<1>1. /\ Dialogo(h) /\ Control(h) /\ Avance(h) /\ Paso(h) /\ InvUmv /\ InvUmv'
      /\ hilo[h].paso = "insertar" /\ idPrograma' = idPrograma
      /\ hilo \in [Hilos -> HiloT] /\ hilo[h] \in HiloT
  BY DEF InvDialogo, InvUmv, Tipos, Paso, InsertarSegmento
<1>2. Pedido(h) \in Pedidos[h] /\ Pedido(h).op = "crearSegmento"
  BY <1>1 DEF Dialogo, Control, EnEspera
<1>3. PICK d \in Libres :
        /\ hilo' = [hilo EXCEPT ![h] =
             [Hilo("responder", hilo[h].pedido, SinRespuesta) EXCEPT !.nodo = d]]
        /\ \E b \in [0..(Pedido(h).tam - 1) -> Bytes] :
             Contenido(d)' = [pid |-> Pid(h), bytes |-> b]
        /\ \A e \in DirLogicas \ {d} : Contenido(e)' = Contenido(e)
  BY <1>1, ContenidoInserta
<1>4. PICK b \in [0..(Pedido(h).tam - 1) -> Bytes] :
        Contenido(d)' = [pid |-> Pid(h), bytes |-> b]
  BY <1>3
<1>5. /\ hilo'[h].paso = "responder" /\ hilo'[h].pedido = hilo[h].pedido
      /\ hilo'[h].nodo = d
  BY <1>1, <1>3 DEF Hilo
<1>6. Mem!Hay = DirLogicas \ Libres /\ d \in DirLogicas \ Mem!Hay
  BY <1>1, EsHay DEF Libres
<1>7. Mem!Ocupado + Pedido(h).tam <= CANT_MEM
  <2>1. Libre(hilo[h].fisica, Pedido(h).tam) /\ hilo[h].fisica \in Nat
    BY <1>1 DEF Avance, HiloT
  <2>2. Pedido(h).tam \in Nat \ {0}
    BY <1>2, ParametrosUmv
  <2> QED
    BY <1>1, <2>1, <2>2, OcupadoCabe
<1>8. Mem!Contestar(h, Mem!Resp("segmentoCreado", d, <<>>))
  <2>1. \A g \in Hilos \ {h} : Pedido(g)' = Pedido(g) /\ Respuesta(g)' = Respuesta(g)
    BY <1>1, LosDemas
  <2>2. Respuesta(h) = SinRespuesta
    BY <1>1, EsRespuesta DEF Respuestas
  <2>3. Pedido(h)' = Pedido(h) /\ Respuesta(h)' = Resp("segmentoCreado", d, <<>>)
    BY <1>5 DEF Pedido, Respuesta
  <2>4. Mem!Resp("segmentoCreado", d, <<>>) = Resp("segmentoCreado", d, <<>>)
    BY DEF Resp, Mem!Resp
  <2> QED
    BY <1>1, <1>2, <2>1, <2>2, <2>3, <2>4, Contesta
<1>9. Mem!Pid(h) = Pid(h)
  BY <1>2, MismoPid
<1>10. [e \in DirLogicas |-> Contenido(e)]' =
         [[e \in DirLogicas |-> Contenido(e)] EXCEPT ![d] = [pid |-> Pid(h), bytes |-> b]]
  BY <1>3, <1>4, <1>6
<1> QED
  BY <1>2, <1>6, <1>7, <1>8, <1>9, <1>10 DEF Mem!Crear

\* Destroying the segments of a program.
LEMMA QuitarM ==
  ASSUME InvDialogo, InvDialogo', NEW h \in Hilos, QuitarSegmento(h)
  PROVE  Mem!Quitar(h)
<1>1. /\ Dialogo(h) /\ Paso(h) /\ InvUmv /\ InvUmv' /\ hilo[h].paso = "destruir"
      /\ hilo' = hilo /\ idPrograma' = idPrograma
  BY DEF InvDialogo, Paso, QuitarSegmento
<1>2. Pedido(h) \in Pedidos[h] /\ Pedido(h).op = "destruirSegmentos"
  BY <1>1 DEF Dialogo, EnEspera
<1>3. PICK d \in DirLogicas \ Libres :
        /\ Contenido(d).pid = Pid(h) /\ Contenido(d)' = Mem!Nada
        /\ \A e \in DirLogicas \ {d} : Contenido(e)' = Contenido(e)
  BY <1>1, ContenidoQuita
<1>4. Mem!Hay = DirLogicas \ Libres
  BY <1>1, EsHay
<1>5. Mem!Pid(h) = Pid(h)
  BY <1>2, MismoPid
<1>6. [e \in DirLogicas |-> Contenido(e)]' =
        [[e \in DirLogicas |-> Contenido(e)] EXCEPT ![d] = Mem!Nada]
  BY <1>3
<1>7. [e \in DirLogicas |-> Contenido(e)][d].pid = Mem!Pid(h)
  BY <1>3, <1>5
<1>8. /\ [g \in Hilos |-> Pedido(g)]' = [g \in Hilos |-> Pedido(g)]
      /\ [g \in Hilos |-> Respuesta(g)]' = [g \in Hilos |-> Respuesta(g)]
  BY <1>1 DEF Pedido, Respuesta
<1> QED
  BY <1>1, <1>2, <1>3, <1>4, <1>6, <1>7, <1>8 DEF Mem!Quitar

\* The end of the destruction, when the program has no segment left.
LEMMA NoQuedanM ==
  ASSUME InvDialogo, InvDialogo', NEW h \in Hilos, FinDestruir(h)
  PROVE  Mem!NoQuedan(h)
<1>1. /\ Dialogo(h) /\ Paso(h) /\ InvUmv /\ hilo[h].paso = "destruir"
      /\ idPrograma' = idPrograma /\ Contestar(h, Resp("OK", 0, <<>>))
      /\ DelPrograma(Pid(h)) = {}
  BY DEF InvDialogo, Paso, FinDestruir, Nadie
<1>2. Pedido(h) \in Pedidos[h] /\ Pedido(h).op = "destruirSegmentos"
  BY <1>1 DEF Dialogo, EnEspera
<1>3. \A d \in DirLogicas : Contenido(d)' = Contenido(d)
  BY ContenidoQuieto DEF FinDestruir
<1>4. Mem!Contestar(h, Mem!Resp("OK", 0, <<>>))
  BY <1>1, ContestaUmv DEF EnEspera
<1>5. Mem!Hay = DirLogicas \ Libres /\ ContenidoSon
  BY <1>1, EsHay, EsContenido
<1>6. Mem!Pid(h) = Pid(h)
  BY <1>2, MismoPid
<1>7. ASSUME NEW d \in DirLogicas \ Libres
      PROVE  [e \in DirLogicas |-> Contenido(e)][d].pid # Pid(h)
  <2>1. PICK i \in Indices : pSegmentos[i].dirLogica = d
    BY <1>5 DEF ContenidoSon
  <2>2. Contenido(d) = Bloque(i)
    BY <1>5, <2>1 DEF ContenidoSon
  <2>3. pSegmentos[i].idPrograma # Pid(h)
    BY <1>1 DEF DelPrograma
  <2>4. Contenido(d).pid # Pid(h)
    BY <2>2, <2>3 DEF Bloque
  <2> QED
    BY <2>4
<1> QED
  BY <1>2, <1>3, <1>4, <1>5, <1>6, <1>7 DEF Mem!NoQuedan

\* The answer of a creation is that of when the segment came, if it is still there.
LEMMA ResponderM ==
  ASSUME InvDialogo, InvDialogo', NodoVivo, NEW h \in Hilos, ResponderCreado(h)
  PROVE  UNCHANGED Mem!varsM
<1>1. /\ Paso(h) /\ InvUmv /\ hilo[h].paso = "responder" /\ idPrograma' = idPrograma
      /\ hilo \in [Hilos -> HiloT]
  BY DEF InvDialogo, InvUmv, Tipos, Paso, ResponderCreado
<1>2. Contestar(h, Resp("segmentoCreado", hilo[h].nodo, <<>>))
  BY <1>1 DEF ResponderCreado, NodoVivo
<1>3. /\ hilo'[h].paso = "enviar" /\ hilo'[h].pedido = hilo[h].pedido
      /\ hilo'[h].respuesta = Resp("segmentoCreado", hilo[h].nodo, <<>>)
  BY <1>1, <1>2, HiloCampos DEF Contestar
<1>4. Pedido(h)' = Pedido(h) /\ Respuesta(h)' = Respuesta(h)
  BY <1>1, <1>3 DEF Pedido, Respuesta
<1>5. \A g \in Hilos : Pedido(g)' = Pedido(g) /\ Respuesta(g)' = Respuesta(g)
  BY <1>1, <1>4, LosDemas
<1>6. \A d \in DirLogicas : Contenido(d)' = Contenido(d)
  BY ContenidoQuieto DEF ResponderCreado
<1> QED
  BY <1>1, <1>5, <1>6, NoSeVe

\* The memory begins with nothing, and nobody has asked for anything.
LEMMA InicioM == Init => Mem!InitM
<1> SUFFICES ASSUME Init PROVE Mem!InitM
  OBVIOUS
<1>1. \A d \in DirLogicas : Contenido(d) = Mem!Nada
  BY DEF Init, Contenido, Libres, Indices, Mem!Nada
<1>2. ASSUME NEW h \in Hilos
      PROVE  Pedido(h) = Mem!SinPedido /\ Respuesta(h) = Mem!SinRespuesta
  <2>1. /\ hilo[h].paso = Inicio(h) /\ hilo[h].pedido = SinPedido
        /\ hilo[h].respuesta = SinRespuesta
    BY HiloCampos DEF Init
  <2> QED
    BY <2>1 DEF Inicio, Pedido, Respuesta, SinPedido, SinRespuesta, Resp, Mem!SinPedido,
                Mem!SinRespuesta, Mem!Resp
<1>3. idPrograma = [h \in Hilos |-> 0]
  BY DEF Init, Nadie
<1> QED
  BY <1>1, <1>2, <1>3 DEF Mem!InitM

\* Every step.
LEMMA PasoM ==
  SinDesborde => (InvDialogo /\ InvDialogo' /\ NodoVivo /\ [Next]_vars =>
                    [Mem!NextM]_(Mem!varsM))
<1> SUFFICES ASSUME SinDesborde, InvDialogo, InvDialogo', NodoVivo, [Next]_vars
             PROVE  [Mem!NextM]_(Mem!varsM)
  OBVIOUS
<1>1. ASSUME NEW h \in Hilos, Recibir(h) \/ Desconectar(h) \/ Paso(h)
      PROVE  [Mem!NextM]_(Mem!varsM)
  <2>1. CASE Recibir(h)
    BY <2>1, PedirM DEF Mem!NextM
  <2>2. CASE Desconectar(h)
    BY <2>2, DesconectadoM DEF Mem!NextM
  <2>3. CASE Enviar(h)
    BY <2>3, RecibidoM DEF Mem!NextM
  <2>4. CASE ResponderCambio(h) \/ CambiarAlgoritmo(h)
    BY <2>4, AceptarM DEF Mem!NextM
  <2>5. CASE FinCompactar(h)
    BY <2>5, AceptarM, Interno DEF Mem!NextM
  <2>6. CASE SolicitarBytes(h)
    BY <2>6, LeerM DEF Mem!NextM
  <2>7. CASE AlmacenarBytes(h)
    BY <2>7, EscribirM DEF Mem!NextM
  <2>8. CASE InsertarSegmento(h)
    BY <2>8, CrearM DEF Mem!NextM
  <2>9. CASE MemoryOverload(h)
    BY <2>9, NoCrearM DEF Mem!NextM
  <2>10. CASE QuitarSegmento(h)
    BY <2>10, QuitarM DEF Mem!NextM
  <2>11. CASE FinDestruir(h)
    BY <2>11, NoQuedanM DEF Mem!NextM
  <2>12. CASE ResponderCreado(h)
    BY <2>12, ResponderM
  <2>13. CASE Saludar(h) \/ Lock(h) \/ LockCompactar(h) \/ LockDestruir(h) \/ SinLugar(h)
    BY <2>13, Interno
  <2>14. CASE NodoFF(h) \/ NodoWF(h) \/ FinBusqueda(h) \/ MoverSegmento(h)
    BY <2>14, Interno
  <2> QED
    BY <1>1, <2>1, <2>2, <2>3, <2>4, <2>5, <2>6, <2>7, <2>8, <2>9, <2>10, <2>11, <2>12,
       <2>13, <2>14 DEF Paso
<1>2. CASE UNCHANGED vars
  BY <1>2 DEF vars, tabla, Mem!varsM, Contenido, Libres, Indices, Pedido, Respuesta
<1> QED
  BY <1>1, <1>2 DEF Next

\* The memory that a client sees is the abstract one as long as the address of a
\* new segment is read from a node that is still there.
LEMMA RefinaConNodos ==
  ASSUME SinDesborde
  PROVE  Spec /\ []NodoVivo => ImplementaMemoria
<1>1. Spec => []InvDialogo
  BY InvarianteDialogo
<1>2. InvDialogo /\ InvDialogo' /\ NodoVivo /\ [Next]_vars => [Mem!NextM]_(Mem!varsM)
  BY PasoM
<1>3. Init => Mem!InitM
  BY InicioM
<1> QED
  BY <1>1, <1>2, <1>3, PTL DEF Spec, ImplementaMemoria, Mem!SpecM

-----------------------------------------------------------------------------
(* The node that is read after the unlock. *)

\* It is in the table, and it is of the program for which it was created.
Vivo(h) ==
  hilo[h].paso = "responder" =>
    \E i \in Indices : /\ pSegmentos[i].dirLogica = hilo[h].nodo
                       /\ pSegmentos[i].idPrograma = Pid(h)
InvVivo == InvDialogo /\ \A h \in Hilos : Vivo(h)

\* A segment stays in the table, unless those of its program are destroyed.
LEMMA SegmentoQueda ==
  ASSUME InvUmv, NEW h \in Hilos, Recibir(h) \/ Desconectar(h) \/ Paso(h),
         NEW i \in Indices, QuitarSegmento(h) => pSegmentos[i].idPrograma # Pid(h)
  PROVE  \E j \in Indices' : /\ pSegmentos'[j].dirLogica = pSegmentos[i].dirLogica
                             /\ pSegmentos'[j].idPrograma = pSegmentos[i].idPrograma
<1>1. CASE InsertarSegmento(h)
  BY <1>1, TablaCrece
<1>2. CASE QuitarSegmento(h)
  <2>1. PICK k \in Indices :
          /\ pSegmentos[k].idPrograma = Pid(h)
          /\ \A j \in Indices \ {k} : \E m \in Indices' : pSegmentos'[m] = pSegmentos[j]
    BY <1>2, TablaMengua
  <2>2. i # k
    BY <1>2, <2>1
  <2> QED
    BY <2>1, <2>2
<1>3. CASE MoverSegmento(h)
  BY <1>3, TablaMovida
<1>4. CASE ~InsertarSegmento(h) /\ ~QuitarSegmento(h) /\ ~MoverSegmento(h)
  <2>1. pSegmentos' = pSegmentos
    <3>1. CASE Recibir(h) \/ Desconectar(h)
      BY <3>1 DEF Recibir, Desconectar, tabla
    <3>2. CASE Saludar(h) \/ ResponderCambio(h) \/ Enviar(h) \/ CambiarAlgoritmo(h)
                 \/ SolicitarBytes(h) \/ AlmacenarBytes(h)
      BY <3>2 DEF Saludar, ResponderCambio, Enviar, CambiarAlgoritmo, SolicitarBytes,
                  AlmacenarBytes, tabla
    <3>3. CASE Lock(h) \/ NodoFF(h) \/ NodoWF(h) \/ FinBusqueda(h) \/ SinLugar(h)
                 \/ MemoryOverload(h) \/ ResponderCreado(h) \/ LockCompactar(h)
      BY <3>3 DEF Lock, NodoFF, NodoWF, FinBusqueda, SinLugar, MemoryOverload,
                  ResponderCreado, LockCompactar, tabla
    <3>4. CASE FinCompactar(h) \/ LockDestruir(h) \/ FinDestruir(h)
      BY <3>4 DEF FinCompactar, LockDestruir, FinDestruir, tabla
    <3> QED
      BY <1>4, <3>1, <3>2, <3>3, <3>4 DEF Paso
  <2> QED
    BY <2>1 DEF Indices
<1> QED
  BY <1>1, <1>2, <1>3, <1>4

\* Only who has inserted a segment is about to answer that it has.
LEMMA SoloInserta ==
  ASSUME InvDialogo, InvDialogo', NEW h \in Hilos, Recibir(h) \/ Desconectar(h) \/ Paso(h),
         hilo'[h].paso = "responder"
  PROVE  InsertarSegmento(h)
<1>1. /\ hilo \in [Hilos -> HiloT] /\ Dialogo(h) /\ Dialogo(h)'
  BY DEF InvDialogo, InvUmv, Tipos
<1>2. ~Recibir(h)
  <2> SUFFICES ASSUME Recibir(h) PROVE FALSE
    OBVIOUS
  <2>1. PICK q \in Pedidos[h] : hilo' = [hilo EXCEPT ![h] = Hilo(PasoDe(q.op), q, SinRespuesta)]
    BY DEF Recibir
  <2>2. hilo'[h].paso = PasoDe(q.op)
    BY <1>1, <2>1, HiloCampos
  <2>3. q.op \in Ops(Tipo[h]) /\ Tipo[h] \in {"kernel", "cpu", "consola"}
    BY ParametrosUmv
  <2> QED
    BY <2>2, <2>3 DEF PasoDe, Ops
<1>3. ~Desconectar(h) /\ ~Enviar(h)
  BY <1>1, HiloCampos DEF Desconectar, Enviar
<1>4. ASSUME NEW r, Contestar(h, r) PROVE FALSE
  BY <1>1, <1>4, HiloCampos DEF Contestar
<1>5. /\ ~ResponderCambio(h) /\ ~CambiarAlgoritmo(h) /\ ~SolicitarBytes(h)
      /\ ~AlmacenarBytes(h) /\ ~MemoryOverload(h) /\ ~ResponderCreado(h) /\ ~FinDestruir(h)
      /\ ~(FinCompactar(h) /\ Pedido(h).op = "compactar")
  BY <1>4 DEF ResponderCambio, CambiarAlgoritmo, SolicitarBytes, AlmacenarBytes,
              MemoryOverload, ResponderCreado, FinDestruir, FinCompactar
<1>6. ~QuitarSegmento(h)
  BY DEF QuitarSegmento
<1>7. /\ ~Saludar(h) /\ ~Lock(h) /\ ~LockCompactar(h) /\ ~LockDestruir(h) /\ ~SinLugar(h)
      /\ ~NodoFF(h) /\ ~NodoWF(h) /\ ~FinBusqueda(h) /\ ~MoverSegmento(h)
      /\ ~(FinCompactar(h) /\ Pedido(h).op # "compactar")
  BY InternoCampos
<1> QED
  BY <1>2, <1>3, <1>5, <1>6, <1>7 DEF Paso

\* The invariant is one as long as nobody destroys what another is creating.
LEMMA VivoSigue ==
  InvVivo /\ InvDialogo' /\ SinCruces /\ [Next]_vars => InvVivo'
<1> SUFFICES ASSUME InvVivo, InvDialogo', SinCruces, [Next]_vars PROVE InvVivo'
  OBVIOUS
<1>1. InvDialogo /\ InvUmv
  BY DEF InvVivo, InvDialogo
<1>2. ASSUME NEW h \in Hilos, Recibir(h) \/ Desconectar(h) \/ Paso(h), NEW g \in Hilos \ {h}
      PROVE  Vivo(g)'
  <2> SUFFICES ASSUME hilo'[g].paso = "responder"
               PROVE  \E j \in Indices' : /\ pSegmentos'[j].dirLogica = hilo'[g].nodo
                                          /\ pSegmentos'[j].idPrograma = Pid(g)'
    BY DEF Vivo
  <2>1. hilo'[g] = hilo[g] /\ Pid(g)' = Pid(g)
    BY <1>1, <1>2, SoloElSuyo DEF Pid, Pedido
  <2>2. PICK i \in Indices : /\ pSegmentos[i].dirLogica = hilo[g].nodo
                            /\ pSegmentos[i].idPrograma = Pid(g)
    BY <2>1 DEF InvVivo, Vivo
  <2>3. QuitarSegmento(h) => pSegmentos[i].idPrograma # Pid(h)
    BY <2>1, <2>2 DEF QuitarSegmento, SinCruces
  <2>4. PICK j \in Indices' : /\ pSegmentos'[j].dirLogica = pSegmentos[i].dirLogica
                             /\ pSegmentos'[j].idPrograma = pSegmentos[i].idPrograma
    BY <1>1, <1>2, <2>3, SegmentoQueda
  <2> QED
    BY <2>1, <2>2, <2>4
<1>3. ASSUME NEW h \in Hilos, Recibir(h) \/ Desconectar(h) \/ Paso(h) PROVE Vivo(h)'
  <2> SUFFICES ASSUME hilo'[h].paso = "responder"
               PROVE  \E j \in Indices' : /\ pSegmentos'[j].dirLogica = hilo'[h].nodo
                                          /\ pSegmentos'[j].idPrograma = Pid(h)'
    BY DEF Vivo
  <2>1. InsertarSegmento(h)
    BY <1>1, <1>3, SoloInserta
  <2>2. PICK d \in Libres, k \in Indices' :
          /\ pSegmentos'[k] =
               [idPrograma |-> Pid(h), tamanio |-> Pedido(h).tam, dirLogica |-> d,
                dirFisica |-> hilo[h].fisica]
          /\ hilo' = [hilo EXCEPT ![h] =
               [Hilo("responder", hilo[h].pedido, SinRespuesta) EXCEPT !.nodo = d]]
    BY <1>1, <2>1, TablaCrece
  <2>3. /\ hilo'[h].nodo = d /\ hilo'[h].pedido = hilo[h].pedido
        /\ idPrograma' = idPrograma
    BY <1>1, <2>1, <2>2 DEF Hilo, InvUmv, Tipos, InsertarSegmento
  <2>4. Pid(h)' = Pid(h)
    BY <2>3 DEF Pid, Pedido
  <2> QED
    BY <2>2, <2>3, <2>4
<1>4. CASE UNCHANGED vars
  BY <1>4 DEF vars, tabla, InvVivo, Vivo, Indices, Pid, Pedido
<1> QED
  BY <1>2, <1>3, <1>4 DEF Next, InvVivo

\* NodoVivo: whatever else the threads do, the address that generarSegmento reads
\* after its unlock is that of a node in the table, if nobody destroys the segments
\* of that program just then.
THEOREM NodoSigueVivo == Spec /\ []SinCruces => []NodoVivo
<1>1. Spec => []InvDialogo
  BY InvarianteDialogo
<1>2. Init /\ InvDialogo => InvVivo
  <2> SUFFICES ASSUME Init, InvDialogo, NEW h \in Hilos PROVE Vivo(h)
    BY DEF InvVivo
  <2>1. hilo[h].paso = Inicio(h)
    BY HiloCampos DEF Init
  <2> QED
    BY <2>1 DEF Vivo, Inicio
<1>3. InvVivo /\ InvDialogo' /\ SinCruces /\ [Next]_vars => InvVivo'
  BY VivoSigue
<1>4. InvVivo => NodoVivo
  BY DEF InvVivo, Vivo, NodoVivo, Libres
<1> QED
  BY <1>1, <1>2, <1>3, <1>4, PTL DEF Spec

\* ImplementaMemoria: solicitarBytes, almacenarBytes, generarSegmento with its
\* searches and compactions, and eliminarSegmentos take effect at one instant each,
\* and nobody sees where the segments are; as long as no bounds test wraps around
\* and nobody destroys the segments of a program while another creates them.
THEOREM RefinaMemoria ==
  ASSUME SinDesborde
  PROVE  Spec /\ []SinCruces => ImplementaMemoria
<1>1. Spec /\ []SinCruces => []NodoVivo
  BY NodoSigueVivo
<1>2. Spec /\ []NodoVivo => ImplementaMemoria
  BY RefinaConNodos
<1> QED
  BY <1>1, <1>2

=============================================================================
