---------------------------- MODULE PCPCpu_proof ----------------------------
(***************************************************************************)
(* Proofs about PCPCpu that need nothing of what the programs do, for any  *)
(* number of programs, CPUs, semaphores and devices, and whatever the CPUs *)
(* send: productorConsumidor counts READY.                                 *)
(***************************************************************************)
EXTENDS PCPCpu, FiniteSetTheorems, SequenceTheorems, TLAPS

-----------------------------------------------------------------------------
(* Sequences: queues of programs and channels. *)

\* Taking the first element of a queue shifts the rest.
LEMMA ColaSinCabeza ==
  ASSUME NEW T, NEW s \in Seq(T), s # <<>>
  PROVE  /\ Len(s) \in Nat \ {0}
         /\ Head(s) \in T
         /\ Head(s) = s[1]
         /\ Tail(s) \in Seq(T)
         /\ Len(Tail(s)) = Len(s) - 1
         /\ \A i \in 1..Len(Tail(s)) : Tail(s)[i] = s[i + 1]
BY HeadTailProperties, EmptySeq, LenProperties

\* Appending leaves the queue as it was, with one more element at its end.
LEMMA ColaConUltimo ==
  ASSUME NEW T, NEW s \in Seq(T), NEW e \in T
  PROVE  /\ Len(s) \in Nat
         /\ Append(s, e) \in Seq(T)
         /\ Len(Append(s, e)) = Len(s) + 1
         /\ \A i \in 1..Len(s) : Append(s, e)[i] = s[i]
         /\ Append(s, e)[Len(s) + 1] = e
BY AppendProperties, LenProperties

\* Removing the i-th element shifts what follows it.
LEMMA ColaSinUno ==
  ASSUME NEW T, NEW s \in Seq(T), NEW i \in 1..Len(s)
  PROVE  /\ Sin(s, i) \in Seq(T)
         /\ Len(Sin(s, i)) = Len(s) - 1
         /\ \A j \in 1..(i - 1) : Sin(s, i)[j] = s[j]
         /\ \A j \in i..(Len(s) - 1) : Sin(s, i)[j] = s[j + 1]
<1> DEFINE a == SubSeq(s, 1, i - 1)
           b == SubSeq(s, i + 1, Len(s))
<1>1. Len(s) \in Nat /\ i \in Nat /\ 1 <= i /\ i <= Len(s)
  BY LenProperties
<1>2. a \in Seq(T) /\ Len(a) = i - 1 /\ \A j \in 1..(i - 1) : a[j] = s[j]
  <2>1. \A j \in 1..(i - 1) : s[j] \in T
    BY <1>1, ElementOfSeq
  <2> QED
    BY <1>1, <2>1, SubSeqProperties
<1>3. /\ b \in Seq(T) /\ Len(b) = Len(s) - i
      /\ \A j \in 1..(Len(s) - i) : b[j] = s[i + j]
  <2>1. \A j \in (i + 1)..Len(s) : s[j] \in T
    BY <1>1, ElementOfSeq
  <2> QED
    BY <1>1, <2>1, SubSeqProperties
<1>4. Sin(s, i) = a \o b
  BY DEF Sin
<1> HIDE DEF a, b
<1>5. /\ Sin(s, i) \in Seq(T)
      /\ Len(Sin(s, i)) = Len(s) - 1
      /\ \A j \in 1..(Len(s) - 1) :
           Sin(s, i)[j] = IF j <= i - 1 THEN a[j] ELSE b[j - (i - 1)]
  <2>1. /\ a \o b \in Seq(T)
        /\ Len(a \o b) = Len(a) + Len(b)
        /\ \A j \in 1..(Len(a) + Len(b)) :
             (a \o b)[j] = IF j <= Len(a) THEN a[j] ELSE b[j - Len(a)]
    BY <1>2, <1>3, ConcatProperties
  <2>2. Len(a) + Len(b) = Len(s) - 1
    BY <1>1, <1>2, <1>3
  <2> QED
    BY <1>2, <1>4, <2>1, <2>2
<1>6. ASSUME NEW j \in i..(Len(s) - 1)
      PROVE  Sin(s, i)[j] = s[j + 1]
  <2>1. j \in 1..(Len(s) - 1) /\ ~(j <= i - 1) /\ j - (i - 1) \in 1..(Len(s) - i)
    BY <1>1
  <2>2. i + (j - (i - 1)) = j + 1
    BY <1>1
  <2> QED
    BY <2>1, <2>2, <1>3, <1>5
<1>7. ASSUME NEW j \in 1..(i - 1)
      PROVE  Sin(s, i)[j] = s[j]
  <2>1. j \in 1..(Len(s) - 1) /\ j <= i - 1
    BY <1>1
  <2> QED
    BY <2>1, <1>2, <1>5
<1> QED
  BY <1>5, <1>6, <1>7

\* Two queues of unknown things, in one type.
LEMMA ColaCrece ==
  ASSUME NEW A, NEW B, A \subseteq B, NEW s \in Seq(A)
  PROVE  s \in Seq(B)
BY SeqMonotonic

-----------------------------------------------------------------------------
(* What the threads, queues and channels hold, whatever the CPUs send. *)

PasosDisp == {"esperar", "sacar", "usar", "post"}
PasosNombre == (PasosWait \cup PasosSignal)

\* What a CPU sends.
Pedidos == {"consulta", "waitKernel", "signalKernel", "entradaSalidaKernel",
            "notificarPorFinRafaga", "notificarPorFinPrograma", "exception"}
SonPedidos(s) == \E T : s \in Seq(T) /\ \A m \in T : m.op \in Pedidos

HiloEntero(h) ==
  h = [paso |-> h.paso, prog |-> h.prog, msg |-> h.msg, leido |-> h.leido,
       otro |-> h.otro]

ColasSanas ==
  /\ admitidos \in Nat /\ debePost \in BOOLEAN /\ productorConsumidor \in Nat
  /\ listaReady \in Seq(Nat) /\ listaExec \in Seq(Nat)
  /\ progEncolados \in [Semaforos \cup Dispositivos -> Seq(Nat)]
DispositivosSanos == dispositivo \in [Dispositivos -> [paso : PasosDisp, prog : Nat]]
HilosSanos ==
  /\ hilo = [c \in CPUs |-> hilo[c]]
  /\ \A c \in CPUs :
       /\ HiloEntero(hilo[c])
       /\ hilo[c].prog \in Nat /\ hilo[c].otro \in Nat
       /\ hilo[c].paso \in PasosNombre => hilo[c].msg.nombre \in Semaforos
CanalesSanos ==
  /\ haciaKernel = [c \in CPUs |-> haciaKernel[c]]
  /\ \A c \in CPUs : SonPedidos(haciaKernel[c])

Sanos == ColasSanas /\ DispositivosSanos /\ HilosSanos /\ CanalesSanos
InvReady == Sanos /\ ReadyContado

\* The kernel starts with nothing queued, nothing owed and every thread waiting.
LEMMA SanosInicial == Init => Sanos
<1> SUFFICES ASSUME Init PROVE Sanos
  OBVIOUS
<1>1. \A T : <<>> \in Seq(T)
  BY EmptySeq
<1>2. ColasSanas
  BY <1>1 DEF Init, InitPCP, ColasSanas
<1>3. DispositivosSanos
  BY DEF Init, InitPCP, DispositivosSanos, PasosDisp, Nadie
<1>4. HilosSanos
  BY DEF Init, InitPCP, HilosSanos, Hilo, HiloEntero, PasosNombre, PasosWait, PasosSignal, Nadie
<1>5. CanalesSanos
  <2>1. SonPedidos(<<>>)
    <3> DEFINE U == {}
    <3>1. <<>> \in Seq(U)
      BY <1>1
    <3>2. \A m \in U : m.op \in Pedidos
      OBVIOUS
    <3> HIDE DEF U
    <3> QED
      BY <3>1, <3>2 DEF SonPedidos
  <2> QED
    BY <2>1 DEF Init, InitConexion, CanalesSanos
<1> QED
  BY <1>2, <1>3, <1>4, <1>5 DEF Sanos

\* A channel stays one of requests when one more is sent, and when some are read.
LEMMA PedidoEnviado ==
  ASSUME NEW s, SonPedidos(s), NEW m, m.op \in Pedidos
  PROVE  SonPedidos(Append(s, m))
<1>1. PICK T : s \in Seq(T) /\ \A x \in T : x.op \in Pedidos
  BY DEF SonPedidos
<1> DEFINE U == T \cup {m}
<1>2. s \in Seq(U) /\ m \in U
  BY <1>1, ColaCrece
<1>3. Append(s, m) \in Seq(U)
  BY <1>2, ColaConUltimo
<1>4. \A x \in U : x.op \in Pedidos
  BY <1>1
<1> QED
  BY <1>3, <1>4 DEF SonPedidos

\* A recv from a channel of requests gives one, and leaves a channel of requests.
LEMMA PedidosLeidos ==
  ASSUME NEW s, SonPedidos(s), s # <<>>
  PROVE  Head(s).op \in Pedidos /\ \A r \in Restos(s) : SonPedidos(r)
<1>1. PICK T : s \in Seq(T) /\ \A x \in T : x.op \in Pedidos
  BY DEF SonPedidos
<1>2. Head(s) \in T
  BY <1>1, ColaSinCabeza
<1>3. ASSUME NEW r \in Restos(s)
      PROVE  r \in Seq(T)
  <2>1. PICK n \in Nat : r = SubSeq(s, n + 1, Len(s))
    BY <1>3, ParametrosConexion DEF Restos
  <2>2. Len(s) \in Nat /\ \A i \in (n + 1)..Len(s) : s[i] \in T
    BY <1>1, <2>1, LenProperties, ElementOfSeq
  <2> QED
    BY <2>1, <2>2, SubSeqProperties
<1> QED
  BY <1>1, <1>2, <1>3 DEF SonPedidos

-----------------------------------------------------------------------------
(* What one step does to the thread that takes it. *)

\* A thread that changes stays a thread, and the others are as they were.
LEMMA HiloCambia ==
  ASSUME HilosSanos, NEW c \in CPUs, NEW h, HiloEntero(h),
         h.prog \in Nat, h.otro \in Nat,
         h.paso \in PasosNombre => h.msg.nombre \in Semaforos,
         hilo' = [hilo EXCEPT ![c] = h]
  PROVE  /\ HilosSanos'
         /\ hilo'[c] = h
         /\ \A x \in CPUs \ {c} : hilo'[x] = hilo[x]
<1>1. hilo'[c] = h /\ \A x \in CPUs \ {c} : hilo'[x] = hilo[x]
  BY DEF HilosSanos
<1>2. hilo' = [x \in CPUs |-> hilo'[x]]
  BY DEF HilosSanos
<1>3. ASSUME NEW x \in CPUs
      PROVE  /\ HiloEntero(hilo'[x])
             /\ hilo'[x].prog \in Nat /\ hilo'[x].otro \in Nat
             /\ hilo'[x].paso \in PasosNombre => hilo'[x].msg.nombre \in Semaforos
  <2>1. CASE x = c
    BY <2>1, <1>1
  <2>2. CASE x # c
    <3>1. hilo'[x] = hilo[x]
      BY <2>2, <1>1
    <3> QED
      BY <3>1 DEF HilosSanos
  <2> QED
    BY <2>1, <2>2
<1> QED
  BY <1>1, <1>2, <1>3 DEF HilosSanos, HiloEntero

\* A thread that goes on with its locals.
LEMMA HiloSigue ==
  ASSUME HilosSanos, NEW c \in CPUs, NEW b, Seguir(c, b),
         b \in PasosNombre => hilo[c].msg.nombre \in Semaforos
  PROVE  /\ HilosSanos'
         /\ hilo'[c].paso = b
         /\ hilo'[c].prog = hilo[c].prog /\ hilo'[c].otro = hilo[c].otro
         /\ hilo'[c].msg = hilo[c].msg /\ hilo'[c].leido = hilo[c].leido
         /\ \A x \in CPUs \ {c} : hilo'[x] = hilo[x]
<1> DEFINE h == [hilo[c] EXCEPT !.paso = b]
<1>1. /\ HiloEntero(hilo[c]) /\ hilo[c].prog \in Nat /\ hilo[c].otro \in Nat
  BY DEF HilosSanos
<1>2. h = [paso |-> b, prog |-> hilo[c].prog, msg |-> hilo[c].msg,
           leido |-> hilo[c].leido, otro |-> hilo[c].otro]
  BY <1>1 DEF HiloEntero
<1>3. hilo' = [hilo EXCEPT ![c] = h]
  BY DEF Seguir
<1> HIDE DEF h
<1>4. HiloEntero(h)
  BY <1>2 DEF HiloEntero
<1>5. /\ h.paso = b /\ h.prog = hilo[c].prog /\ h.otro = hilo[c].otro
      /\ h.msg = hilo[c].msg /\ h.leido = hilo[c].leido
  BY <1>2
<1> QED
  BY <1>1, <1>3, <1>4, <1>5, HiloCambia

\* A thread that is done with its locals.
LEMMA HiloVuelve ==
  ASSUME HilosSanos, NEW c \in CPUs, NEW b, Volver(c, b), b \notin PasosNombre
  PROVE  /\ HilosSanos'
         /\ hilo'[c] = Hilo(b, hilo[c].prog)
         /\ hilo'[c].paso = b
         /\ \A x \in CPUs \ {c} : hilo'[x] = hilo[x]
<1> DEFINE h == Hilo(b, hilo[c].prog)
<1>1. hilo[c].prog \in Nat
  BY DEF HilosSanos
<1>2. HiloEntero(h) /\ h.prog \in Nat /\ h.otro \in Nat /\ h.paso = b
  BY <1>1 DEF Hilo, HiloEntero, Nadie
<1>3. hilo' = [hilo EXCEPT ![c] = h]
  BY DEF Volver
<1> HIDE DEF h
<1>4. /\ HilosSanos' /\ hilo'[c] = h /\ hilo'[c].paso = b
      /\ \A x \in CPUs \ {c} : hilo'[x] = hilo[x]
  BY <1>2, <1>3, HiloCambia
<1> QED
  BY <1>4 DEF h

\* A thread that goes on with a value it has read.
LEMMA HiloLee ==
  ASSUME HilosSanos, NEW c \in CPUs, NEW b, NEW v, 
         hilo' = [hilo EXCEPT ![c].leido = v, ![c].paso = b],
         b \in PasosNombre => hilo[c].msg.nombre \in Semaforos
  PROVE  /\ HilosSanos'
         /\ hilo'[c].paso = b
         /\ hilo'[c].prog = hilo[c].prog
         /\ hilo'[c].msg = hilo[c].msg
         /\ hilo'[c].leido = v
         /\ hilo'[c].otro = hilo[c].otro
         /\ \A x \in CPUs \ {c} : hilo'[x] = hilo[x]
<1> DEFINE g == [hilo[c] EXCEPT !.leido = v]
           h == [g EXCEPT !.paso = b]
<1>1. /\ HiloEntero(hilo[c]) /\ hilo[c].prog \in Nat /\ hilo[c].otro \in Nat
  BY DEF HilosSanos
<1>2. h = [paso |-> b, prog |-> hilo[c].prog, msg |-> hilo[c].msg, leido |-> v, otro |-> hilo[c].otro]
  <2>1. g = [paso |-> hilo[c].paso, prog |-> hilo[c].prog, msg |-> hilo[c].msg, leido |-> v,
             otro |-> hilo[c].otro]
    BY <1>1 DEF HiloEntero
  <2> HIDE DEF g
  <2> QED
    BY <2>1
<1>3. hilo' = [hilo EXCEPT ![c] = h]
  BY <1>1 DEF HilosSanos
<1> HIDE DEF h
<1>4. HiloEntero(h)
  BY <1>2 DEF HiloEntero
<1>5. /\ h.paso = b
      /\ h.prog = hilo[c].prog
      /\ h.msg = hilo[c].msg
      /\ h.leido = v
      /\ h.otro = hilo[c].otro
  BY <1>2
<1> QED
  BY <1>1, <1>3, <1>4, <1>5, HiloCambia

\* A thread that goes on with a program it has taken.
LEMMA HiloTiene ==
  ASSUME HilosSanos, NEW c \in CPUs, NEW b, NEW v, v \in Nat, 
         hilo' = [hilo EXCEPT ![c].otro = v, ![c].paso = b],
         b \in PasosNombre => hilo[c].msg.nombre \in Semaforos
  PROVE  /\ HilosSanos'
         /\ hilo'[c].paso = b
         /\ hilo'[c].prog = hilo[c].prog
         /\ hilo'[c].msg = hilo[c].msg
         /\ hilo'[c].leido = hilo[c].leido
         /\ hilo'[c].otro = v
         /\ \A x \in CPUs \ {c} : hilo'[x] = hilo[x]
<1> DEFINE g == [hilo[c] EXCEPT !.otro = v]
           h == [g EXCEPT !.paso = b]
<1>1. /\ HiloEntero(hilo[c]) /\ hilo[c].prog \in Nat /\ hilo[c].otro \in Nat
  BY DEF HilosSanos
<1>2. h = [paso |-> b, prog |-> hilo[c].prog, msg |-> hilo[c].msg, leido |-> hilo[c].leido, otro |-> v]
  <2>1. g = [paso |-> hilo[c].paso, prog |-> hilo[c].prog, msg |-> hilo[c].msg,
             leido |-> hilo[c].leido, otro |-> v]
    BY <1>1 DEF HiloEntero
  <2> HIDE DEF g
  <2> QED
    BY <2>1
<1>3. hilo' = [hilo EXCEPT ![c] = h]
  BY <1>1 DEF HilosSanos
<1> HIDE DEF h
<1>4. HiloEntero(h)
  BY <1>2 DEF HiloEntero
<1>5. /\ h.paso = b
      /\ h.prog = hilo[c].prog
      /\ h.msg = hilo[c].msg
      /\ h.leido = hilo[c].leido
      /\ h.otro = v
  BY <1>2
<1> QED
  BY <1>1, <1>3, <1>4, <1>5, HiloCambia

\* A thread that goes on with a message.
LEMMA HiloAtiende ==
  ASSUME HilosSanos, NEW c \in CPUs, NEW b, NEW v, 
         hilo' = [hilo EXCEPT ![c].msg = v, ![c].paso = b],
         b \in PasosNombre => v.nombre \in Semaforos
  PROVE  /\ HilosSanos'
         /\ hilo'[c].paso = b
         /\ hilo'[c].prog = hilo[c].prog
         /\ hilo'[c].msg = v
         /\ hilo'[c].leido = hilo[c].leido
         /\ hilo'[c].otro = hilo[c].otro
         /\ \A x \in CPUs \ {c} : hilo'[x] = hilo[x]
<1> DEFINE g == [hilo[c] EXCEPT !.msg = v]
           h == [g EXCEPT !.paso = b]
<1>1. /\ HiloEntero(hilo[c]) /\ hilo[c].prog \in Nat /\ hilo[c].otro \in Nat
  BY DEF HilosSanos
<1>2. h = [paso |-> b, prog |-> hilo[c].prog, msg |-> v, leido |-> hilo[c].leido, otro |-> hilo[c].otro]
  <2>1. g = [paso |-> hilo[c].paso, prog |-> hilo[c].prog, msg |-> v, leido |-> hilo[c].leido,
             otro |-> hilo[c].otro]
    BY <1>1 DEF HiloEntero
  <2> HIDE DEF g
  <2> QED
    BY <2>1
<1>3. hilo' = [hilo EXCEPT ![c] = h]
  BY <1>1 DEF HilosSanos
<1> HIDE DEF h
<1>4. HiloEntero(h)
  BY <1>2 DEF HiloEntero
<1>5. /\ h.paso = b
      /\ h.prog = hilo[c].prog
      /\ h.msg = v
      /\ h.leido = hilo[c].leido
      /\ h.otro = hilo[c].otro
  BY <1>2
<1> QED
  BY <1>1, <1>3, <1>4, <1>5, HiloCambia

\* Where a request takes the thread: to the steps of a semaphore only with one
\* that is configured.
PasosInicio == {"consulta", "waitLeer", "waitInexistente", "signalLeer",
                "signalInexistente", "ioPcb", "recargarSacar", "exitSacar"}

\* A request takes the thread to the first step of its case; to a semaphore's only if
\* it names one that is configured.
LEMMA PasoDelPedido ==
  ASSUME NEW m, m.op \in Pedidos
  PROVE  /\ PasoPara(m) \in PasosInicio
         /\ PasoPara(m) \in PasosNombre => m.nombre \in Semaforos
BY DEF Pedidos, PasoPara, PasosInicio, PasosNombre, PasosWait, PasosSignal

-----------------------------------------------------------------------------
(* Counting threads and devices by the step they are in. *)

\* The threads in a given set of steps are finitely many.
LEMMA HilosTipo ==
  ASSUME NEW S
  PROVE  IsFiniteSet(HilosEn(S)) /\ Cardinality(HilosEn(S)) \in Nat
<1>1. IsFiniteSet(HilosEn(S))
  BY ParametrosConexion, FS_Subset DEF HilosEn
<1> QED
  BY <1>1, FS_CardinalityType

\* When one thread steps, the threads in S change by what that thread counts for
\* after and before.
LEMMA HilosCambian ==
  ASSUME NEW S, NEW c \in CPUs, \A x \in CPUs \ {c} : hilo'[x] = hilo[x]
  PROVE  /\ hilo'[c].paso \in S /\ hilo[c].paso \notin S =>
              Cardinality(HilosEn(S))' = Cardinality(HilosEn(S)) + 1
         /\ hilo'[c].paso \notin S /\ hilo[c].paso \in S =>
              Cardinality(HilosEn(S))' = Cardinality(HilosEn(S)) - 1
         /\ (hilo'[c].paso \in S <=> hilo[c].paso \in S) =>
              Cardinality(HilosEn(S))' = Cardinality(HilosEn(S))
<1> DEFINE A == {x \in CPUs : hilo[x].paso \in S}
           B == {x \in CPUs : hilo'[x].paso \in S}
<1>1. IsFiniteSet(A) /\ IsFiniteSet(B)
  BY ParametrosConexion, FS_Subset
<1>2. Cardinality(HilosEn(S)) = Cardinality(A) /\ Cardinality(HilosEn(S))' = Cardinality(B)
  BY DEF HilosEn
<1>3. ASSUME hilo'[c].paso \in S, hilo[c].paso \notin S
      PROVE  Cardinality(B) = Cardinality(A) + 1
  <2>1. B = A \cup {c} /\ c \notin A
    BY <1>3
  <2> QED
    BY <2>1, <1>1, FS_AddElement
<1>4. ASSUME hilo'[c].paso \notin S, hilo[c].paso \in S
      PROVE  Cardinality(B) = Cardinality(A) - 1
  <2>1. B = A \ {c} /\ c \in A
    BY <1>4
  <2> QED
    BY <2>1, <1>1, FS_RemoveElement
<1>5. ASSUME hilo'[c].paso \in S <=> hilo[c].paso \in S PROVE A = B
  BY <1>5
<1> QED
  BY <1>2, <1>3, <1>4, <1>5

\* The devices that owe the post of a program.
Deben == {d \in Dispositivos : dispositivo[d].paso = "post"}

\* They can be counted.
LEMMA DebenTipo == Cardinality(Deben) \in Nat
<1>1. IsFiniteSet(Deben)
  BY ParametrosPCP, FS_Subset DEF Deben
<1> QED
  BY <1>1, FS_CardinalityType

\* What their count changes by when one device steps.
LEMMA DebenCambian ==
  ASSUME NEW d \in Dispositivos,
         \A x \in Dispositivos \ {d} : dispositivo'[x] = dispositivo[x]
  PROVE  /\ dispositivo'[d].paso = "post" /\ dispositivo[d].paso # "post" =>
              Cardinality(Deben)' = Cardinality(Deben) + 1
         /\ dispositivo'[d].paso # "post" /\ dispositivo[d].paso = "post" =>
              Cardinality(Deben)' = Cardinality(Deben) - 1
         /\ (dispositivo'[d].paso = "post" <=> dispositivo[d].paso = "post") =>
              Cardinality(Deben)' = Cardinality(Deben)
<1> DEFINE A == {x \in Dispositivos : dispositivo[x].paso = "post"}
           B == {x \in Dispositivos : dispositivo'[x].paso = "post"}
<1>1. IsFiniteSet(A) /\ IsFiniteSet(B)
  BY ParametrosPCP, FS_Subset
<1>2. Cardinality(Deben) = Cardinality(A) /\ Cardinality(Deben)' = Cardinality(B)
  BY DEF Deben
<1>3. ASSUME dispositivo'[d].paso = "post", dispositivo[d].paso # "post"
      PROVE  Cardinality(B) = Cardinality(A) + 1
  <2>1. B = A \cup {d} /\ d \notin A
    BY <1>3
  <2> QED
    BY <2>1, <1>1, FS_AddElement
<1>4. ASSUME dispositivo'[d].paso # "post", dispositivo[d].paso = "post"
      PROVE  Cardinality(B) = Cardinality(A) - 1
  <2>1. B = A \ {d} /\ d \in A
    BY <1>4
  <2> QED
    BY <2>1, <1>1, FS_RemoveElement
<1>5. ASSUME dispositivo'[d].paso = "post" <=> dispositivo[d].paso = "post" PROVE A = B
  BY <1>5
<1> QED
  BY <1>2, <1>3, <1>4, <1>5

\* ReadyContado, with names for its parts.
Sacando == Cardinality(HilosEn({"sacar"}))
Posteando == Cardinality(HilosEn({"signalPost", "recargarPost"}))
PasosReady == {"sacar", "signalPost", "recargarPost"}

\* ReadyContado in terms of the counts that the lemmas are about.
LEMMA Contado ==
  ReadyContado <=>
    productorConsumidor + Uno(debePost) + Sacando + Posteando + Cardinality(Deben)
      = Len(listaReady)
BY DEF ReadyContado, Sacando, Posteando, Deben

\* The same of the next state.
LEMMA ContadoLuego ==
  ReadyContado' <=>
    productorConsumidor' + Uno(debePost') + Sacando' + Posteando' + Cardinality(Deben)'
      = Len(listaReady')
BY DEF ReadyContado, Sacando, Posteando, Deben

\* All that ReadyContado adds up is natural.
LEMMA ContadoTipo ==
  Sacando \in Nat /\ Posteando \in Nat /\ Cardinality(Deben) \in Nat
    /\ Uno(debePost) \in Nat
BY HilosTipo, DebenTipo DEF Sacando, Posteando, Uno

\* What the counts of threads change by when one thread steps.
LEMMA HilosReady ==
  ASSUME NEW c \in CPUs, \A x \in CPUs \ {c} : hilo'[x] = hilo[x]
  PROVE  /\ Sacando' = Sacando + Uno(hilo'[c].paso = "sacar")
                               - Uno(hilo[c].paso = "sacar")
         /\ Posteando' = Posteando
              + Uno(hilo'[c].paso \in {"signalPost", "recargarPost"})
              - Uno(hilo[c].paso \in {"signalPost", "recargarPost"})
<1>1. Sacando \in Nat /\ Posteando \in Nat
  BY ContadoTipo
<1>2. Sacando' = Sacando + Uno(hilo'[c].paso = "sacar") - Uno(hilo[c].paso = "sacar")
  <2> DEFINE S == {"sacar"}
  <2>1. Sacando = Cardinality(HilosEn(S)) /\ Sacando' = Cardinality(HilosEn(S))'
    BY DEF Sacando
  <2> HIDE DEF S
  <2>2. Sacando' = Sacando + Uno(hilo'[c].paso \in S) - Uno(hilo[c].paso \in S)
    BY <1>1, <2>1, HilosCambian DEF Uno
  <2> QED
    BY <2>2 DEF S, Uno
<1>3. Posteando' = Posteando
              + Uno(hilo'[c].paso \in {"signalPost", "recargarPost"})
              - Uno(hilo[c].paso \in {"signalPost", "recargarPost"})
  <2> DEFINE S == {"signalPost", "recargarPost"}
  <2>1. Posteando = Cardinality(HilosEn(S)) /\ Posteando' = Cardinality(HilosEn(S))'
    BY DEF Posteando
  <2> HIDE DEF S
  <2>2. Posteando' = Posteando + Uno(hilo'[c].paso \in S) - Uno(hilo[c].paso \in S)
    BY <1>1, <2>1, HilosCambian DEF Uno
  <2> QED
    BY <2>2 DEF S
<1> QED
  BY <1>2, <1>3

\* A step of a thread that is not about READY.
LEMMA ContadoQuieto ==
  ASSUME ReadyContado, NEW c \in CPUs, \A x \in CPUs \ {c} : hilo'[x] = hilo[x],
         hilo[c].paso \notin PasosReady, hilo'[c].paso \notin PasosReady,
         UNCHANGED <<ready, debePost, dispositivo>>
  PROVE  ReadyContado'
<1>1. Cardinality(Deben)' = Cardinality(Deben)
  BY DEF Deben
<1>2. Sacando' = Sacando /\ Posteando' = Posteando
  BY HilosReady, ContadoTipo DEF PasosReady, Uno
<1>3. ready' = ready /\ debePost' = debePost
  OBVIOUS
<1> QED
  BY <1>1, <1>2, <1>3, Contado, ContadoLuego DEF ready

-----------------------------------------------------------------------------
(* Every step keeps InvReady. *)

\* A step of a thread that is not about READY.
LEMMA Quieto ==
  ASSUME InvReady, NEW c \in CPUs, HilosSanos', ColasSanas', CanalesSanos',
         \A x \in CPUs \ {c} : hilo'[x] = hilo[x],
         hilo[c].paso \notin PasosReady, hilo'[c].paso \notin PasosReady,
         UNCHANGED <<ready, debePost, dispositivo>>
  PROVE  InvReady'
<1>1. ReadyContado'
  BY ContadoQuieto DEF InvReady
<1>2. DispositivosSanos'
  BY DEF InvReady, Sanos, DispositivosSanos
<1> QED
  BY <1>1, <1>2 DEF InvReady, Sanos

\* Queues that do not change.
LEMMA ColasIguales ==
  ASSUME ColasSanas, UNCHANGED <<plp, ready, listaExec, progEncolados>>
  PROVE  ColasSanas'
BY DEF ColasSanas, plp, ready

\* Channels that are left alone.
LEMMA CanalesIguales ==
  ASSUME CanalesSanos, UNCHANGED haciaKernel
  PROVE  CanalesSanos'
BY DEF CanalesSanos

\* One channel that changes into one of requests.
LEMMA CanalCambia ==
  ASSUME CanalesSanos, NEW c \in CPUs, NEW s, SonPedidos(s),
         haciaKernel' = [haciaKernel EXCEPT ![c] = s]
  PROVE  CanalesSanos'
<1>1. haciaKernel' = [x \in CPUs |-> haciaKernel'[x]]
  BY DEF CanalesSanos
<1>2. ASSUME NEW x \in CPUs PROVE SonPedidos(haciaKernel'[x])
  <2>1. haciaKernel'[x] = s \/ haciaKernel'[x] = haciaKernel[x]
    BY DEF CanalesSanos
  <2>2. SonPedidos(haciaKernel[x])
    BY DEF CanalesSanos
  <2> QED
    BY <2>1, <2>2
<1> QED
  BY <1>1, <1>2 DEF CanalesSanos, SonPedidos

\* The steps of a thread that receive.
LEMMA RecibirSano ==
  ASSUME InvReady, NEW c \in CPUs, Recibir(c)
  PROVE  InvReady'
<1>1. ColasSanas /\ HilosSanos /\ CanalesSanos
  BY DEF InvReady, Sanos
<1>2. CASE RecibirMensaje(c)
  <2> DEFINE m == Head(haciaKernel[c])
             b == PasoPara(m)
  <2>1. SonPedidos(haciaKernel[c]) /\ haciaKernel[c] # <<>>
    BY <1>1, <1>2 DEF RecibirMensaje, CanalesSanos
  <2>2. m.op \in Pedidos /\ \A r \in Restos(haciaKernel[c]) : SonPedidos(r)
    BY <2>1, PedidosLeidos
  <2>3. b \in PasosInicio /\ (b \in PasosNombre => m.nombre \in Semaforos)
    BY <2>2, PasoDelPedido
  <2>4. hilo' = [hilo EXCEPT ![c].msg = m, ![c].paso = b]
    BY <1>2 DEF RecibirMensaje
  <2> HIDE DEF m, b
  <2>5. HilosSanos' /\ hilo'[c].paso = b /\ \A x \in CPUs \ {c} : hilo'[x] = hilo[x]
    BY <1>1, <2>3, <2>4, HiloAtiende
  <2>6. CanalesSanos'
    <3>1. PICK r \in Restos(haciaKernel[c]) : haciaKernel' = [haciaKernel EXCEPT ![c] = r]
      BY <1>2 DEF RecibirMensaje
    <3> QED
      BY <1>1, <2>2, <3>1, CanalCambia
  <2>7. hilo[c].paso \notin PasosReady /\ hilo'[c].paso \notin PasosReady
    BY <1>2, <2>3, <2>5 DEF RecibirMensaje, PasosReady, PasosInicio
  <2>8. ColasSanas' /\ UNCHANGED <<ready, debePost, dispositivo>>
    BY <1>1, <1>2, ColasIguales DEF RecibirMensaje, plp, colas
  <2> QED
    BY <2>5, <2>6, <2>7, <2>8, Quieto
<1>3. CASE RecibirFin(c)
  <2> DEFINE m == Respuesta("desconexion")
  <2>1. hilo' = [hilo EXCEPT ![c].msg = m, ![c].paso = "exitSacar"]
    BY <1>3 DEF RecibirFin
  <2> HIDE DEF m
  <2>2. /\ HilosSanos' /\ hilo'[c].paso = "exitSacar"
        /\ \A x \in CPUs \ {c} : hilo'[x] = hilo[x]
    BY <1>1, <2>1, HiloAtiende DEF PasosNombre, PasosWait, PasosSignal
  <2>3. hilo[c].paso \notin PasosReady /\ hilo'[c].paso \notin PasosReady
    BY <1>3, <2>2 DEF RecibirFin, PasosReady
  <2>4. ColasSanas' /\ CanalesSanos' /\ UNCHANGED <<ready, debePost, dispositivo>>
    BY <1>1, <1>3, ColasIguales, CanalesIguales DEF RecibirFin, plp, colas
  <2> QED
    BY <2>2, <2>3, <2>4, Quieto
<1> QED
  BY <1>2, <1>3 DEF Recibir

\* The steps that answer the CPU.
LEMMA EnviarSano ==
  ASSUME InvReady, NEW c \in CPUs, Enviar(c)
  PROVE  InvReady'
<1>1. ColasSanas /\ HilosSanos /\ CanalesSanos
  BY DEF InvReady, Sanos
<1>2. CASE EnviarPcb(c)
  <2>1. hilo[c].paso = "enviar" /\ Seguir(c, "recibir")
    BY <1>2 DEF EnviarPcb
  <2>2. /\ HilosSanos' /\ hilo'[c].paso = "recibir"
        /\ \A x \in CPUs \ {c} : hilo'[x] = hilo[x]
    BY <1>1, <2>1, HiloSigue DEF PasosNombre, PasosWait, PasosSignal
  <2>3. ColasSanas' /\ CanalesSanos' /\ UNCHANGED <<ready, debePost, dispositivo>>
    BY <1>1, <1>2, ColasIguales, CanalesIguales DEF EnviarPcb, Enviar, plp, colas
  <2> QED
    BY <2>1, <2>2, <2>3, Quieto DEF PasosReady
<1>3. CASE Consulta(c)
  <2>1. hilo[c].paso = "consulta" /\ Volver(c, "recibir")
    BY <1>3 DEF Consulta
  <2>2. /\ HilosSanos' /\ hilo'[c].paso = "recibir"
        /\ \A x \in CPUs \ {c} : hilo'[x] = hilo[x]
    BY <1>1, <2>1, HiloVuelve DEF PasosNombre, PasosWait, PasosSignal
  <2>3. ColasSanas' /\ CanalesSanos' /\ UNCHANGED <<ready, debePost, dispositivo>>
    BY <1>1, <1>3, ColasIguales, CanalesIguales DEF Consulta, Enviar, plp, colas
  <2> QED
    BY <2>1, <2>2, <2>3, Quieto DEF PasosReady
<1>4. CASE WaitInexistente(c)
  <2>1. hilo[c].paso = "waitInexistente" /\ Volver(c, "esperar")
    BY <1>4 DEF WaitInexistente
  <2>2. /\ HilosSanos' /\ hilo'[c].paso = "esperar"
        /\ \A x \in CPUs \ {c} : hilo'[x] = hilo[x]
    BY <1>1, <2>1, HiloVuelve DEF PasosNombre, PasosWait, PasosSignal
  <2>3. ColasSanas' /\ CanalesSanos' /\ UNCHANGED <<ready, debePost, dispositivo>>
    BY <1>1, <1>4, ColasIguales, CanalesIguales DEF WaitInexistente, Enviar, plp, colas
  <2> QED
    BY <2>1, <2>2, <2>3, Quieto DEF PasosReady
<1>5. CASE WaitBloquear(c)
  <2>1. hilo[c].paso = "waitBloquear" /\ Volver(c, "esperar")
    BY <1>5 DEF WaitBloquear
  <2>2. /\ HilosSanos' /\ hilo'[c].paso = "esperar"
        /\ \A x \in CPUs \ {c} : hilo'[x] = hilo[x]
    BY <1>1, <2>1, HiloVuelve DEF PasosNombre, PasosWait, PasosSignal
  <2>3. ColasSanas' /\ CanalesSanos' /\ UNCHANGED <<ready, debePost, dispositivo>>
    BY <1>1, <1>5, ColasIguales, CanalesIguales DEF WaitBloquear, Enviar, plp, colas
  <2> QED
    BY <2>1, <2>2, <2>3, Quieto DEF PasosReady
<1>6. CASE SignalInexistente(c)
  <2>1. hilo[c].paso = "signalInexistente" /\ Volver(c, "recibir")
    BY <1>6 DEF SignalInexistente
  <2>2. /\ HilosSanos' /\ hilo'[c].paso = "recibir"
        /\ \A x \in CPUs \ {c} : hilo'[x] = hilo[x]
    BY <1>1, <2>1, HiloVuelve DEF PasosNombre, PasosWait, PasosSignal
  <2>3. ColasSanas' /\ CanalesSanos' /\ UNCHANGED <<ready, debePost, dispositivo>>
    BY <1>1, <1>6, ColasIguales, CanalesIguales DEF SignalInexistente, Enviar, plp, colas
  <2> QED
    BY <2>1, <2>2, <2>3, Quieto DEF PasosReady
<1>7. CASE SignalResponder(c)
  <2>1. hilo[c].paso = "signalResponder" /\ Volver(c, "recibir")
    BY <1>7 DEF SignalResponder
  <2>2. /\ HilosSanos' /\ hilo'[c].paso = "recibir"
        /\ \A x \in CPUs \ {c} : hilo'[x] = hilo[x]
    BY <1>1, <2>1, HiloVuelve DEF PasosNombre, PasosWait, PasosSignal
  <2>3. ColasSanas' /\ CanalesSanos' /\ UNCHANGED <<ready, debePost, dispositivo>>
    BY <1>1, <1>7, ColasIguales, CanalesIguales DEF SignalResponder, Enviar, plp, colas
  <2> QED
    BY <2>1, <2>2, <2>3, Quieto DEF PasosReady
<1>8. CASE WaitProbar(c)
  <2>1. hilo[c].paso = "waitProbar" /\ (Seguir(c, "waitSacar") \/ Volver(c, "recibir"))
    BY <1>8 DEF WaitProbar
  <2>2. hilo[c].msg.nombre \in Semaforos
    BY <1>1, <2>1 DEF HilosSanos, PasosNombre, PasosWait
  <2>3. /\ HilosSanos' /\ hilo'[c].paso \in {"waitSacar", "recibir"}
        /\ \A x \in CPUs \ {c} : hilo'[x] = hilo[x]
    <3>1. CASE Seguir(c, "waitSacar")
      BY <1>1, <2>2, <3>1, HiloSigue
    <3>2. CASE Volver(c, "recibir")
      BY <1>1, <3>2, HiloVuelve DEF PasosNombre, PasosWait, PasosSignal
    <3> QED
      BY <2>1, <3>1, <3>2
  <2>4. ColasSanas' /\ CanalesSanos' /\ UNCHANGED <<ready, debePost, dispositivo>>
    BY <1>1, <1>8, ColasIguales, CanalesIguales DEF WaitProbar, Enviar, plp, colas
  <2> QED
    BY <2>1, <2>3, <2>4, Quieto DEF PasosReady
<1> QED
  BY <1>2, <1>3, <1>4, <1>5, <1>6, <1>7, <1>8 DEF Enviar

\* What the steps do to the queues of programs.
LEMMA ExecSano ==
  ASSUME NEW T, listaExec \in Seq(T), NEW pid, SacarSiEsta(pid)
  PROVE  listaExec' \in Seq(T)
<1>1. \A i \in EnExec(pid) : Sin(listaExec, i) \in Seq(T)
  BY ColaSinUno DEF EnExec
<1> QED
  BY <1>1 DEF SacarSiEsta

\* A program that is queued leaves queues of programs.
LEMMA EncoladoSano ==
  ASSUME NEW D, NEW T, progEncolados \in [D -> Seq(T)], NEW r, NEW p \in T, Encolar(r, p)
  PROVE  progEncolados' \in [D -> Seq(T)]
<1>1. \A x \in D : Append(progEncolados[x], p) \in Seq(T)
  BY ColaConUltimo
<1> QED
  BY <1>1 DEF Encolar

\* The dispatch.
LEMMA DespachoSano ==
  ASSUME InvReady, NEW c \in CPUs, UNCHANGED canales,
         EsperarReady(c) \/ SacarReady(c) \/ CargarExec(c)
  PROVE  InvReady'
<1>1. /\ ColasSanas /\ HilosSanos /\ CanalesSanos /\ DispositivosSanos
      /\ ReadyContado
  BY DEF InvReady, Sanos
<1>2. CanalesSanos'
  BY <1>1, CanalesIguales DEF canales
<1>3. CASE EsperarReady(c)
  <2>1. /\ hilo[c].paso = "esperar" /\ Seguir(c, "sacar")
        /\ productorConsumidor' = productorConsumidor - 1 /\ productorConsumidor > 0
        /\ UNCHANGED <<plp, listaReady, listaExec, progEncolados, dispositivo>>
    BY <1>3 DEF EsperarReady, colas
  <2>2. /\ HilosSanos' /\ hilo'[c].paso = "sacar"
        /\ \A x \in CPUs \ {c} : hilo'[x] = hilo[x]
    BY <1>1, <2>1, HiloSigue DEF PasosNombre, PasosWait, PasosSignal
  <2>3. ColasSanas' /\ DispositivosSanos'
    BY <1>1, <2>1 DEF ColasSanas, DispositivosSanos, plp
  <2>4. Sacando' = Sacando + 1 /\ Posteando' = Posteando
    BY <2>1, <2>2, HilosReady, ContadoTipo DEF Uno
  <2>5. Cardinality(Deben)' = Cardinality(Deben) /\ debePost' = debePost
    BY <2>1 DEF Deben, plp
  <2>6. ReadyContado'
    BY <1>1, <2>1, <2>4, <2>5, Contado, ContadoLuego, ContadoTipo DEF ColasSanas
  <2> QED
    BY <1>2, <2>2, <2>3, <2>6 DEF InvReady, Sanos
<1>4. CASE SacarReady(c)
  <2>1. /\ hilo[c].paso = "sacar"
        /\ UNCHANGED <<plp, productorConsumidor, listaExec, progEncolados, dispositivo>>
    BY <1>4 DEF SacarReady, colas
  <2>2. DispositivosSanos' /\ Cardinality(Deben)' = Cardinality(Deben)
        /\ debePost' = debePost
    BY <1>1, <2>1 DEF DispositivosSanos, Deben, plp
  <2>3. listaReady # <<>>
    <3>1. c \in HilosEn({"sacar"})
      BY <2>1 DEF HilosEn
    <3>2. Sacando # 0
      BY <3>1, HilosTipo, FS_EmptySet DEF Sacando
    <3>3. Len(listaReady) # 0
      BY <1>1, <3>2, Contado, ContadoTipo DEF ColasSanas
    <3> QED
      BY <3>3
  <2>4. /\ Head(listaReady) \in Nat /\ Tail(listaReady) \in Seq(Nat)
        /\ Len(Tail(listaReady)) = Len(listaReady) - 1 /\ Len(listaReady) \in Nat
    BY <1>1, <2>3, ColaSinCabeza DEF ColasSanas
  <2>5. listaReady' = Tail(listaReady)
    BY <1>4, <2>3 DEF SacarReady
  <2>6. ColasSanas'
    BY <1>1, <2>1, <2>4, <2>5 DEF ColasSanas, plp
  <2>7. /\ HilosSanos' /\ hilo'[c].paso \in {"null", "cargar"}
        /\ \A x \in CPUs \ {c} : hilo'[x] = hilo[x]
    <3>1. CASE NullEn(c)
      BY <1>1, <3>1, HiloSigue DEF NullEn, PasosNombre, PasosWait, PasosSignal
    <3>2. CASE hilo' = [hilo EXCEPT ![c] = Hilo("cargar", Head(listaReady))]
      <4> DEFINE h == Hilo("cargar", Head(listaReady))
      <4>1. /\ HiloEntero(h) /\ h.prog \in Nat /\ h.otro \in Nat /\ h.paso = "cargar"
        BY <2>4 DEF Hilo, HiloEntero, Nadie
      <4>2. hilo' = [hilo EXCEPT ![c] = h]
        BY <3>2
      <4> HIDE DEF h
      <4> QED
        BY <1>1, <4>1, <4>2, HiloCambia DEF PasosNombre, PasosWait, PasosSignal
    <3> QED
      BY <1>4, <3>1, <3>2 DEF SacarReady
  <2>8. Sacando' = Sacando - 1 /\ Posteando' = Posteando
    BY <2>1, <2>7, HilosReady, ContadoTipo DEF Uno
  <2>9. ReadyContado'
    <3>1. productorConsumidor' = productorConsumidor
      BY <2>1
    <3>2. Len(listaReady') = Len(listaReady) - 1
      BY <2>4, <2>5
    <3>3. /\ productorConsumidor \in Nat /\ Len(listaReady) \in Nat
          /\ Uno(debePost') = Uno(debePost)
      BY <1>1, <2>2, <2>4 DEF ColasSanas
    <3> QED
      BY <1>1, <2>2, <2>8, <3>1, <3>2, <3>3, Contado, ContadoLuego, ContadoTipo
  <2> QED
    BY <1>2, <2>2, <2>6, <2>7, <2>9 DEF InvReady, Sanos
<1>5. CASE CargarExec(c)
  <2>1. /\ hilo[c].paso = "cargar" /\ Seguir(c, "enviar")
        /\ listaExec' = Append(listaExec, hilo[c].prog)
        /\ UNCHANGED <<plp, ready, progEncolados, dispositivo>>
    BY <1>5 DEF CargarExec, colas
  <2>2. /\ HilosSanos' /\ hilo'[c].paso = "enviar"
        /\ \A x \in CPUs \ {c} : hilo'[x] = hilo[x]
    BY <1>1, <2>1, HiloSigue DEF PasosNombre, PasosWait, PasosSignal
  <2>3. listaExec' \in Seq(Nat)
    BY <1>1, <2>1, ColaConUltimo DEF HilosSanos, ColasSanas
  <2>4. ColasSanas'
    BY <1>1, <2>1, <2>3 DEF ColasSanas, plp, ready
  <2>5. UNCHANGED <<ready, debePost, dispositivo>>
    BY <2>1 DEF plp
  <2> QED
    BY <1>2, <2>1, <2>2, <2>4, <2>5, Quieto DEF PasosReady
<1> QED
  BY <1>3, <1>4, <1>5

\* fnLock.
LEMMA WaitSano ==
  ASSUME InvReady, NEW c \in CPUs, UNCHANGED canales,
         WaitLeer(c) \/ WaitEscribir(c) \/ WaitSacar(c) \/ WaitEncolar(c)
  PROVE  InvReady'
<1>1. /\ ColasSanas /\ HilosSanos /\ CanalesSanos /\ DispositivosSanos
      /\ ReadyContado
  BY DEF InvReady, Sanos
<1>2. CanalesSanos'
  BY <1>1, CanalesIguales DEF canales
<1>3. CASE WaitLeer(c)
  <2>1. /\ hilo[c].paso = "waitLeer"
        /\ hilo' = [hilo EXCEPT ![c].leido = iSemaforo[hilo[c].msg.nombre], ![c].paso = "waitEscribir"]
        /\ UNCHANGED <<plp, ready, dispositivo>>
    BY <1>3 DEF WaitLeer
  <2>2. hilo[c].paso \in PasosNombre => hilo[c].msg.nombre \in Semaforos
    BY <1>1 DEF HilosSanos
  <2>3. /\ HilosSanos'
        /\ hilo'[c].paso = "waitEscribir"
        /\ \A x \in CPUs \ {c} : hilo'[x] = hilo[x]
    BY <1>1, <2>1, <2>2, HiloLee DEF PasosNombre, PasosWait, PasosSignal
  <2>4. UNCHANGED <<listaExec, progEncolados>>
    BY <1>3 DEF WaitLeer, colas
  <2>5. ColasSanas' /\ UNCHANGED <<ready, debePost, dispositivo>>
    BY <1>1, <2>1, <2>4 DEF ColasSanas, plp, ready
  <2> QED
    BY <1>2, <2>1, <2>3, <2>5, Quieto DEF PasosReady
<1>4. CASE WaitEscribir(c)
  <2>1. /\ hilo[c].paso = "waitEscribir"
        /\ Seguir(c, "waitProbar")
        /\ UNCHANGED <<plp, ready, dispositivo>>
    BY <1>4 DEF WaitEscribir
  <2>2. hilo[c].paso \in PasosNombre => hilo[c].msg.nombre \in Semaforos
    BY <1>1 DEF HilosSanos
  <2>3. /\ HilosSanos'
        /\ hilo'[c].paso = "waitProbar"
        /\ \A x \in CPUs \ {c} : hilo'[x] = hilo[x]
    BY <1>1, <2>1, <2>2, HiloSigue DEF PasosNombre, PasosWait, PasosSignal
  <2>4. UNCHANGED <<listaExec, progEncolados>>
    BY <1>4 DEF WaitEscribir, colas
  <2>5. ColasSanas' /\ UNCHANGED <<ready, debePost, dispositivo>>
    BY <1>1, <2>1, <2>4 DEF ColasSanas, plp, ready
  <2> QED
    BY <1>2, <2>1, <2>3, <2>5, Quieto DEF PasosReady
<1>5. CASE WaitSacar(c)
  <2>1. /\ hilo[c].paso = "waitSacar"
        /\ Seguir(c, "waitEncolar")
        /\ UNCHANGED <<plp, ready, dispositivo>>
    BY <1>5 DEF WaitSacar
  <2>2. hilo[c].paso \in PasosNombre => hilo[c].msg.nombre \in Semaforos
    BY <1>1 DEF HilosSanos
  <2>3. /\ HilosSanos'
        /\ hilo'[c].paso = "waitEncolar"
        /\ \A x \in CPUs \ {c} : hilo'[x] = hilo[x]
    BY <1>1, <2>1, <2>2, HiloSigue DEF PasosNombre, PasosWait, PasosSignal
  <2>4. listaExec' \in Seq(Nat) /\ UNCHANGED progEncolados
    BY <1>1, <1>5, ExecSano DEF WaitSacar, colas, ColasSanas
  <2>5. ColasSanas' /\ UNCHANGED <<ready, debePost, dispositivo>>
    BY <1>1, <2>1, <2>4 DEF ColasSanas, plp, ready
  <2> QED
    BY <1>2, <2>1, <2>3, <2>5, Quieto DEF PasosReady
<1>6. CASE WaitEncolar(c)
  <2>1. /\ hilo[c].paso = "waitEncolar"
        /\ Seguir(c, "waitBloquear")
        /\ UNCHANGED <<plp, ready, dispositivo>>
    BY <1>6 DEF WaitEncolar
  <2>2. hilo[c].paso \in PasosNombre => hilo[c].msg.nombre \in Semaforos
    BY <1>1 DEF HilosSanos
  <2>3. /\ HilosSanos'
        /\ hilo'[c].paso = "waitBloquear"
        /\ \A x \in CPUs \ {c} : hilo'[x] = hilo[x]
    BY <1>1, <2>1, <2>2, HiloSigue DEF PasosNombre, PasosWait, PasosSignal
  <2>4. /\ progEncolados' \in [Semaforos \cup Dispositivos -> Seq(Nat)]
        /\ UNCHANGED listaExec
    <3>1. hilo[c].prog \in Nat /\ Encolar(hilo[c].msg.nombre, hilo[c].prog)
      BY <1>1, <1>6 DEF WaitEncolar, HilosSanos
    <3> QED
      <4> DEFINE D == Semaforos \cup Dispositivos
      <4>1. progEncolados \in [D -> Seq(Nat)]
        BY <1>1 DEF ColasSanas
      <4> HIDE DEF D
      <4>2. progEncolados' \in [D -> Seq(Nat)]
        BY <3>1, <4>1, EncoladoSano
      <4> QED
        BY <1>6, <4>2 DEF WaitEncolar, D
  <2>5. ColasSanas' /\ UNCHANGED <<ready, debePost, dispositivo>>
    BY <1>1, <2>1, <2>4 DEF ColasSanas, plp, ready
  <2> QED
    BY <1>2, <2>1, <2>3, <2>5, Quieto DEF PasosReady
<1> QED
  BY <1>3, <1>4, <1>5, <1>6

\* fnUnlock.
LEMMA SignalSano ==
  ASSUME InvReady, NEW c \in CPUs, UNCHANGED canales,
         SignalLeer(c) \/ SignalEscribir(c) \/ SignalProbar(c) \/ SignalSacar(c)
           \/ SignalReady(c) \/ SignalPost(c)
  PROVE  InvReady'
<1>1. /\ ColasSanas /\ HilosSanos /\ CanalesSanos /\ DispositivosSanos
      /\ ReadyContado
  BY DEF InvReady, Sanos
<1>2. CanalesSanos'
  BY <1>1, CanalesIguales DEF canales
<1>3. CASE SignalLeer(c)
  <2>1. /\ hilo[c].paso = "signalLeer"
        /\ hilo' = [hilo EXCEPT ![c].leido = iSemaforo[hilo[c].msg.nombre], ![c].paso = "signalEscribir"]
        /\ UNCHANGED <<plp, ready, dispositivo>>
    BY <1>3 DEF SignalLeer
  <2>2. hilo[c].paso \in PasosNombre => hilo[c].msg.nombre \in Semaforos
    BY <1>1 DEF HilosSanos
  <2>3. /\ HilosSanos'
        /\ hilo'[c].paso = "signalEscribir"
        /\ \A x \in CPUs \ {c} : hilo'[x] = hilo[x]
    BY <1>1, <2>1, <2>2, HiloLee DEF PasosNombre, PasosWait, PasosSignal
  <2>4. UNCHANGED <<listaExec, progEncolados>>
    BY <1>3 DEF SignalLeer, colas
  <2>5. ColasSanas' /\ UNCHANGED <<ready, debePost, dispositivo>>
    BY <1>1, <2>1, <2>4 DEF ColasSanas, plp, ready
  <2> QED
    BY <1>2, <2>1, <2>3, <2>5, Quieto DEF PasosReady
<1>4. CASE SignalEscribir(c)
  <2>1. /\ hilo[c].paso = "signalEscribir"
        /\ Seguir(c, "signalProbar")
        /\ UNCHANGED <<plp, ready, dispositivo>>
    BY <1>4 DEF SignalEscribir
  <2>2. hilo[c].paso \in PasosNombre => hilo[c].msg.nombre \in Semaforos
    BY <1>1 DEF HilosSanos
  <2>3. /\ HilosSanos'
        /\ hilo'[c].paso = "signalProbar"
        /\ \A x \in CPUs \ {c} : hilo'[x] = hilo[x]
    BY <1>1, <2>1, <2>2, HiloSigue DEF PasosNombre, PasosWait, PasosSignal
  <2>4. UNCHANGED <<listaExec, progEncolados>>
    BY <1>4 DEF SignalEscribir, colas
  <2>5. ColasSanas' /\ UNCHANGED <<ready, debePost, dispositivo>>
    BY <1>1, <2>1, <2>4 DEF ColasSanas, plp, ready
  <2> QED
    BY <1>2, <2>1, <2>3, <2>5, Quieto DEF PasosReady
<1>5. CASE SignalProbar(c)
  <2>1. /\ hilo[c].paso = "signalProbar"
        /\ Seguir(c, "signalSacar") \/ Seguir(c, "signalResponder")
        /\ UNCHANGED <<plp, ready, dispositivo>>
    BY <1>5 DEF SignalProbar
  <2>2. hilo[c].paso \in PasosNombre => hilo[c].msg.nombre \in Semaforos
    BY <1>1 DEF HilosSanos
  <2>3. /\ HilosSanos'
        /\ hilo'[c].paso = "signalSacar" \/ hilo'[c].paso = "signalResponder"
        /\ \A x \in CPUs \ {c} : hilo'[x] = hilo[x]
    BY <1>1, <2>1, <2>2, HiloSigue DEF PasosNombre, PasosWait, PasosSignal
  <2>4. UNCHANGED <<listaExec, progEncolados>>
    BY <1>5 DEF SignalProbar, colas
  <2>5. ColasSanas' /\ UNCHANGED <<ready, debePost, dispositivo>>
    BY <1>1, <2>1, <2>4 DEF ColasSanas, plp, ready
  <2> QED
    BY <1>2, <2>1, <2>3, <2>5, Quieto DEF PasosReady
<1>6. CASE SignalSacar(c)
  <2> DEFINE s == hilo[c].msg.nombre
  <2>1. hilo[c].paso = "signalSacar" /\ UNCHANGED <<plp, ready, listaExec, dispositivo>>
    BY <1>6 DEF SignalSacar
  <2>2. s \in Semaforos
    BY <1>1, <2>1 DEF HilosSanos, PasosNombre, PasosSignal
  <2>3. progEncolados[s] \in Seq(Nat)
    BY <1>1, <2>2 DEF ColasSanas
  <2>4. PICK p \in Nat : hilo' = [hilo EXCEPT ![c].otro = p, ![c].paso = "signalReady"]
    <3>1. CASE progEncolados[s] = <<>>
      BY <1>6, <3>1 DEF SignalSacar, Nadie
    <3>2. CASE progEncolados[s] # <<>>
      <4>1. Head(progEncolados[s]) \in Nat
        BY <2>3, <3>2, ColaSinCabeza
      <4> QED
        BY <1>6, <3>2, <4>1 DEF SignalSacar
    <3> QED
      BY <3>1, <3>2
  <2>5. progEncolados' \in [Semaforos \cup Dispositivos -> Seq(Nat)]
    <3>1. CASE progEncolados[s] = <<>>
      BY <1>1, <1>6, <3>1 DEF SignalSacar, ColasSanas
    <3>2. CASE progEncolados[s] # <<>>
      <4>1. Tail(progEncolados[s]) \in Seq(Nat)
        BY <2>3, <3>2, ColaSinCabeza
      <4>2. progEncolados' = [progEncolados EXCEPT ![s] = Tail(progEncolados[s])]
        BY <1>6, <3>2 DEF SignalSacar
      <4> QED
        BY <1>1, <4>1, <4>2 DEF ColasSanas
    <3> QED
      BY <3>1, <3>2
  <2>6. /\ HilosSanos' /\ hilo'[c].paso = "signalReady"
        /\ \A x \in CPUs \ {c} : hilo'[x] = hilo[x]
    BY <1>1, <2>2, <2>4, HiloTiene
  <2>7. ColasSanas' /\ UNCHANGED <<ready, debePost, dispositivo>>
    BY <1>1, <2>1, <2>5 DEF ColasSanas, plp, ready
  <2> QED
    BY <1>2, <2>1, <2>6, <2>7, Quieto DEF PasosReady
<1>7. CASE SignalReady(c)
  <2>1. /\ hilo[c].paso = "signalReady"
        /\ hilo' = [hilo EXCEPT ![c].otro = Nadie, ![c].paso = "signalPost"]
        /\ listaReady' = Append(listaReady, hilo[c].otro) /\ UNCHANGED productorConsumidor
        /\ UNCHANGED <<plp, listaExec, progEncolados, dispositivo>>
    BY <1>7 DEF SignalReady, colas
  <2>2. hilo[c].paso \in PasosNombre => hilo[c].msg.nombre \in Semaforos
    BY <1>1 DEF HilosSanos
  <2>3. /\ HilosSanos'
        /\ hilo'[c].paso = "signalPost"
        /\ \A x \in CPUs \ {c} : hilo'[x] = hilo[x]
    BY <1>1, <2>1, <2>2, HiloTiene DEF PasosNombre, PasosWait, PasosSignal, Nadie
  <2>4. /\ listaReady' \in Seq(Nat) /\ Len(listaReady') = Len(listaReady) + 1
        /\ Len(listaReady) \in Nat
    BY <1>1, <2>1, ColaConUltimo DEF ColasSanas, HilosSanos
  <2>5. /\ ColasSanas' /\ DispositivosSanos' /\ productorConsumidor \in Nat
        /\ Cardinality(Deben)' = Cardinality(Deben) /\ Uno(debePost') = Uno(debePost)
    BY <1>1, <2>1, <2>4 DEF ColasSanas, DispositivosSanos, plp, Deben
  <2>6. Sacando' = Sacando /\ Posteando' = Posteando + 1
    <3>1. /\ hilo[c].paso \notin {"signalPost", "recargarPost"} /\ hilo[c].paso # "sacar"
          /\ hilo'[c].paso \in {"signalPost", "recargarPost"} /\ hilo'[c].paso # "sacar"
      BY <2>1, <2>3
    <3> QED
      BY <2>3, <3>1, HilosReady, ContadoTipo DEF Uno
  <2>7. ReadyContado'
    BY <1>1, <2>1, <2>4, <2>5, <2>6, Contado, ContadoLuego, ContadoTipo
  <2> QED
    BY <1>2, <2>3, <2>5, <2>7 DEF InvReady, Sanos
<1>8. CASE SignalPost(c)
  <2>1. /\ hilo[c].paso = "signalPost"
        /\ Seguir(c, "signalResponder")
        /\ productorConsumidor' = productorConsumidor + 1 /\ UNCHANGED listaReady
        /\ UNCHANGED <<plp, listaExec, progEncolados, dispositivo>>
    BY <1>8 DEF SignalPost, colas
  <2>2. hilo[c].paso \in PasosNombre => hilo[c].msg.nombre \in Semaforos
    BY <1>1 DEF HilosSanos
  <2>3. /\ HilosSanos'
        /\ hilo'[c].paso = "signalResponder"
        /\ \A x \in CPUs \ {c} : hilo'[x] = hilo[x]
    BY <1>1, <2>1, <2>2, HiloSigue DEF PasosNombre, PasosWait, PasosSignal, Nadie
  <2>4. listaReady' \in Seq(Nat) /\ listaReady' = listaReady /\ Len(listaReady) \in Nat
    BY <1>1, <2>1, LenProperties DEF ColasSanas
  <2>5. /\ ColasSanas' /\ DispositivosSanos' /\ productorConsumidor \in Nat
        /\ Cardinality(Deben)' = Cardinality(Deben) /\ Uno(debePost') = Uno(debePost)
    BY <1>1, <2>1, <2>4 DEF ColasSanas, DispositivosSanos, plp, Deben
  <2>6. Sacando' = Sacando /\ Posteando' = Posteando - 1
    BY <2>1, <2>3, HilosReady, ContadoTipo DEF Uno
  <2>7. ReadyContado'
    BY <1>1, <2>1, <2>4, <2>5, <2>6, Contado, ContadoLuego, ContadoTipo
  <2> QED
    BY <1>2, <2>3, <2>5, <2>7 DEF InvReady, Sanos
<1> QED
  BY <1>3, <1>4, <1>5, <1>6, <1>7, <1>8

\* mandarADispositivo.
LEMMA IoSano ==
  ASSUME InvReady, NEW c \in CPUs, UNCHANGED canales,
         IoPcb(c) \/ IoEncolar(c) \/ IoSacar(c) \/ IoPost(c)
  PROVE  InvReady'
<1>1. /\ ColasSanas /\ HilosSanos /\ CanalesSanos /\ DispositivosSanos
      /\ ReadyContado
  BY DEF InvReady, Sanos
<1>2. CanalesSanos'
  BY <1>1, CanalesIguales DEF canales
<1>3. CASE IoPcb(c)
  <2>1. /\ hilo[c].paso = "ioPcb"
        /\ Seguir(c, "ioEncolar") \/ Seguir(c, "exitSacar")
        /\ UNCHANGED <<plp, ready, dispositivo>>
    BY <1>3 DEF IoPcb
  <2>2. hilo[c].paso \in PasosNombre => hilo[c].msg.nombre \in Semaforos
    BY <1>1 DEF HilosSanos
  <2>3. /\ HilosSanos'
        /\ hilo'[c].paso = "ioEncolar" \/ hilo'[c].paso = "exitSacar"
        /\ \A x \in CPUs \ {c} : hilo'[x] = hilo[x]
    BY <1>1, <2>1, <2>2, HiloSigue DEF PasosNombre, PasosWait, PasosSignal
  <2>4. UNCHANGED <<listaExec, progEncolados>>
    BY <1>3 DEF IoPcb, colas
  <2>5. ColasSanas' /\ UNCHANGED <<ready, debePost, dispositivo>>
    BY <1>1, <2>1, <2>4 DEF ColasSanas, plp, ready
  <2> QED
    BY <1>2, <2>1, <2>3, <2>5, Quieto DEF PasosReady
<1>4. CASE IoEncolar(c)
  <2>1. /\ hilo[c].paso = "ioEncolar"
        /\ Seguir(c, "ioSacar")
        /\ UNCHANGED <<plp, ready, dispositivo>>
    BY <1>4 DEF IoEncolar
  <2>2. hilo[c].paso \in PasosNombre => hilo[c].msg.nombre \in Semaforos
    BY <1>1 DEF HilosSanos
  <2>3. /\ HilosSanos'
        /\ hilo'[c].paso = "ioSacar"
        /\ \A x \in CPUs \ {c} : hilo'[x] = hilo[x]
    BY <1>1, <2>1, <2>2, HiloSigue DEF PasosNombre, PasosWait, PasosSignal
  <2>4. /\ progEncolados' \in [Semaforos \cup Dispositivos -> Seq(Nat)]
        /\ UNCHANGED listaExec
    BY <1>1, <1>4, EncoladoSano DEF IoEncolar, ColasSanas, HilosSanos
  <2>5. ColasSanas' /\ UNCHANGED <<ready, debePost, dispositivo>>
    BY <1>1, <2>1, <2>4 DEF ColasSanas, plp, ready
  <2> QED
    BY <1>2, <2>1, <2>3, <2>5, Quieto DEF PasosReady
<1>5. CASE IoSacar(c)
  <2>1. /\ hilo[c].paso = "ioSacar"
        /\ Seguir(c, "ioPost")
        /\ UNCHANGED <<plp, ready, dispositivo>>
    BY <1>5 DEF IoSacar
  <2>2. hilo[c].paso \in PasosNombre => hilo[c].msg.nombre \in Semaforos
    BY <1>1 DEF HilosSanos
  <2>3. /\ HilosSanos'
        /\ hilo'[c].paso = "ioPost"
        /\ \A x \in CPUs \ {c} : hilo'[x] = hilo[x]
    BY <1>1, <2>1, <2>2, HiloSigue DEF PasosNombre, PasosWait, PasosSignal
  <2>4. listaExec' \in Seq(Nat) /\ UNCHANGED progEncolados
    BY <1>1, <1>5, ExecSano DEF IoSacar, colas, ColasSanas
  <2>5. ColasSanas' /\ UNCHANGED <<ready, debePost, dispositivo>>
    BY <1>1, <2>1, <2>4 DEF ColasSanas, plp, ready
  <2> QED
    BY <1>2, <2>1, <2>3, <2>5, Quieto DEF PasosReady
<1>6. CASE IoPost(c)
  <2>1. /\ hilo[c].paso = "ioPost"
        /\ Volver(c, "esperar")
        /\ UNCHANGED <<plp, ready, dispositivo>>
    BY <1>6 DEF IoPost
  <2>2. hilo[c].paso \in PasosNombre => hilo[c].msg.nombre \in Semaforos
    BY <1>1 DEF HilosSanos
  <2>3. /\ HilosSanos'
        /\ hilo'[c].paso = "esperar"
        /\ \A x \in CPUs \ {c} : hilo'[x] = hilo[x]
    BY <1>1, <2>1, <2>2, HiloVuelve DEF PasosNombre, PasosWait, PasosSignal
  <2>4. UNCHANGED <<listaExec, progEncolados>>
    BY <1>6 DEF IoPost
  <2>5. ColasSanas' /\ UNCHANGED <<ready, debePost, dispositivo>>
    BY <1>1, <2>1, <2>4 DEF ColasSanas, plp, ready
  <2> QED
    BY <1>2, <2>1, <2>3, <2>5, Quieto DEF PasosReady
<1> QED
  BY <1>3, <1>4, <1>5, <1>6

\* recargarReady.
LEMMA RecargarSano ==
  ASSUME InvReady, NEW c \in CPUs, UNCHANGED canales,
         RecargarSacar(c) \/ RecargarReady(c) \/ RecargarPost(c)
  PROVE  InvReady'
<1>1. /\ ColasSanas /\ HilosSanos /\ CanalesSanos /\ DispositivosSanos
      /\ ReadyContado
  BY DEF InvReady, Sanos
<1>2. CanalesSanos'
  BY <1>1, CanalesIguales DEF canales
<1>3. CASE RecargarSacar(c)
  <2>1. /\ hilo[c].paso = "recargarSacar"
        /\ UNCHANGED <<plp, ready, dispositivo, progEncolados>>
    BY <1>3 DEF RecargarSacar, colas
  <2>2. \/ NullEn(c) /\ UNCHANGED listaExec
        \/ \E i \in 1..Len(listaExec) :
             /\ hilo' = [hilo EXCEPT ![c].otro = listaExec[i], ![c].paso = "recargarReady"]
             /\ listaExec' = Sin(listaExec, i)
    BY <1>3 DEF RecargarSacar, EnExec
  <2>3. /\ HilosSanos' /\ hilo'[c].paso \in {"null", "recargarReady"} /\ listaExec' \in Seq(Nat)
        /\ \A x \in CPUs \ {c} : hilo'[x] = hilo[x]
    <3>1. CASE NullEn(c) /\ UNCHANGED listaExec
      BY <1>1, <3>1, HiloSigue DEF NullEn, ColasSanas, PasosNombre, PasosWait, PasosSignal
    <3>2. ASSUME NEW i \in 1..Len(listaExec),
                 hilo' = [hilo EXCEPT ![c].otro = listaExec[i], ![c].paso = "recargarReady"],
                 listaExec' = Sin(listaExec, i)
          PROVE  /\ HilosSanos' /\ hilo'[c].paso = "recargarReady" /\ listaExec' \in Seq(Nat)
                 /\ \A x \in CPUs \ {c} : hilo'[x] = hilo[x]
      <4>1. listaExec[i] \in Nat
        BY <1>1, ElementOfSeq DEF ColasSanas
      <4>2. listaExec' \in Seq(Nat)
        BY <1>1, <3>2, ColaSinUno DEF ColasSanas
      <4> QED
        BY <1>1, <3>2, <4>1, <4>2, HiloTiene DEF PasosNombre, PasosWait, PasosSignal
    <3> QED
      BY <2>2, <3>1, <3>2
  <2>4. ColasSanas' /\ UNCHANGED <<ready, debePost, dispositivo>>
    BY <1>1, <2>1, <2>3 DEF ColasSanas, plp, ready
  <2> QED
    BY <1>2, <2>1, <2>3, <2>4, Quieto DEF PasosReady
<1>4. CASE RecargarReady(c)
  <2>1. /\ hilo[c].paso = "recargarReady"
        /\ Seguir(c, "recargarPost")
        /\ listaReady' = Append(listaReady, hilo[c].otro) /\ UNCHANGED productorConsumidor
        /\ UNCHANGED <<plp, listaExec, progEncolados, dispositivo>>
    BY <1>4 DEF RecargarReady, colas
  <2>2. hilo[c].paso \in PasosNombre => hilo[c].msg.nombre \in Semaforos
    BY <1>1 DEF HilosSanos
  <2>3. /\ HilosSanos'
        /\ hilo'[c].paso = "recargarPost"
        /\ \A x \in CPUs \ {c} : hilo'[x] = hilo[x]
    BY <1>1, <2>1, <2>2, HiloSigue DEF PasosNombre, PasosWait, PasosSignal, Nadie
  <2>4. /\ listaReady' \in Seq(Nat) /\ Len(listaReady') = Len(listaReady) + 1
        /\ Len(listaReady) \in Nat
    BY <1>1, <2>1, ColaConUltimo DEF ColasSanas, HilosSanos
  <2>5. /\ ColasSanas' /\ DispositivosSanos' /\ productorConsumidor \in Nat
        /\ Cardinality(Deben)' = Cardinality(Deben) /\ Uno(debePost') = Uno(debePost)
    BY <1>1, <2>1, <2>4 DEF ColasSanas, DispositivosSanos, plp, Deben
  <2>6. Sacando' = Sacando /\ Posteando' = Posteando + 1
    BY <2>1, <2>3, HilosReady, ContadoTipo DEF Uno
  <2>7. ReadyContado'
    BY <1>1, <2>1, <2>4, <2>5, <2>6, Contado, ContadoLuego, ContadoTipo
  <2> QED
    BY <1>2, <2>3, <2>5, <2>7 DEF InvReady, Sanos
<1>5. CASE RecargarPost(c)
  <2>1. /\ hilo[c].paso = "recargarPost"
        /\ Volver(c, "esperar")
        /\ productorConsumidor' = productorConsumidor + 1 /\ UNCHANGED listaReady
        /\ UNCHANGED <<plp, listaExec, progEncolados, dispositivo>>
    BY <1>5 DEF RecargarPost, colas
  <2>2. hilo[c].paso \in PasosNombre => hilo[c].msg.nombre \in Semaforos
    BY <1>1 DEF HilosSanos
  <2>3. /\ HilosSanos'
        /\ hilo'[c].paso = "esperar"
        /\ \A x \in CPUs \ {c} : hilo'[x] = hilo[x]
    BY <1>1, <2>1, <2>2, HiloVuelve DEF PasosNombre, PasosWait, PasosSignal, Nadie
  <2>4. listaReady' \in Seq(Nat) /\ listaReady' = listaReady /\ Len(listaReady) \in Nat
    BY <1>1, <2>1, LenProperties DEF ColasSanas
  <2>5. /\ ColasSanas' /\ DispositivosSanos' /\ productorConsumidor \in Nat
        /\ Cardinality(Deben)' = Cardinality(Deben) /\ Uno(debePost') = Uno(debePost)
    BY <1>1, <2>1, <2>4 DEF ColasSanas, DispositivosSanos, plp, Deben
  <2>6. Sacando' = Sacando /\ Posteando' = Posteando - 1
    BY <2>1, <2>3, HilosReady, ContadoTipo DEF Uno
  <2>7. ReadyContado'
    BY <1>1, <2>1, <2>4, <2>5, <2>6, Contado, ContadoLuego, ContadoTipo
  <2> QED
    BY <1>2, <2>3, <2>5, <2>7 DEF InvReady, Sanos
<1> QED
  BY <1>3, <1>4, <1>5

\* moverAExit.
LEMMA ExitSano ==
  ASSUME InvReady, NEW c \in CPUs, UNCHANGED canales,
         ExitSacar(c) \/ ExitAgregar(c)
  PROVE  InvReady'
<1>1. /\ ColasSanas /\ HilosSanos /\ CanalesSanos /\ DispositivosSanos
      /\ ReadyContado
  BY DEF InvReady, Sanos
<1>2. CanalesSanos'
  BY <1>1, CanalesIguales DEF canales
<1>3. CASE ExitSacar(c)
  <2>1. /\ hilo[c].paso = "exitSacar"
        /\ UNCHANGED <<plp, ready, dispositivo, progEncolados>>
    BY <1>3 DEF ExitSacar, colas
  <2>2. \/ NullEn(c) /\ UNCHANGED listaExec
        \/ \E i \in 1..Len(listaExec) :
             /\ hilo' = [hilo EXCEPT ![c].otro = listaExec[i], ![c].paso = "exitAgregar"]
             /\ listaExec' = Sin(listaExec, i)
    BY <1>3 DEF ExitSacar, EnExec
  <2>3. /\ HilosSanos' /\ hilo'[c].paso \in {"null", "exitAgregar"} /\ listaExec' \in Seq(Nat)
        /\ \A x \in CPUs \ {c} : hilo'[x] = hilo[x]
    <3>1. CASE NullEn(c) /\ UNCHANGED listaExec
      BY <1>1, <3>1, HiloSigue DEF NullEn, ColasSanas, PasosNombre, PasosWait, PasosSignal
    <3>2. ASSUME NEW i \in 1..Len(listaExec),
                 hilo' = [hilo EXCEPT ![c].otro = listaExec[i], ![c].paso = "exitAgregar"],
                 listaExec' = Sin(listaExec, i)
          PROVE  /\ HilosSanos' /\ hilo'[c].paso = "exitAgregar" /\ listaExec' \in Seq(Nat)
                 /\ \A x \in CPUs \ {c} : hilo'[x] = hilo[x]
      <4>1. listaExec[i] \in Nat
        BY <1>1, ElementOfSeq DEF ColasSanas
      <4>2. listaExec' \in Seq(Nat)
        BY <1>1, <3>2, ColaSinUno DEF ColasSanas
      <4> QED
        BY <1>1, <3>2, <4>1, <4>2, HiloTiene DEF PasosNombre, PasosWait, PasosSignal
    <3> QED
      BY <2>2, <3>1, <3>2
  <2>4. ColasSanas' /\ UNCHANGED <<ready, debePost, dispositivo>>
    BY <1>1, <2>1, <2>3 DEF ColasSanas, plp, ready
  <2> QED
    BY <1>2, <2>1, <2>3, <2>4, Quieto DEF PasosReady
<1>4. CASE ExitAgregar(c)
  <2>1. /\ hilo[c].paso = "exitAgregar"
        /\ Volver(c, "terminado") \/ Volver(c, "esperar")
        /\ UNCHANGED <<plp, ready, dispositivo>>
    BY <1>4 DEF ExitAgregar
  <2>2. hilo[c].paso \in PasosNombre => hilo[c].msg.nombre \in Semaforos
    BY <1>1 DEF HilosSanos
  <2>3. /\ HilosSanos'
        /\ hilo'[c].paso = "terminado" \/ hilo'[c].paso = "esperar"
        /\ \A x \in CPUs \ {c} : hilo'[x] = hilo[x]
    BY <1>1, <2>1, <2>2, HiloVuelve DEF PasosNombre, PasosWait, PasosSignal
  <2>4. UNCHANGED <<listaExec, progEncolados>>
    BY <1>4 DEF ExitAgregar, colas
  <2>5. ColasSanas' /\ UNCHANGED <<ready, debePost, dispositivo>>
    BY <1>1, <2>1, <2>4 DEF ColasSanas, plp, ready
  <2> QED
    BY <1>2, <2>1, <2>3, <2>5, Quieto DEF PasosReady
<1> QED
  BY <1>3, <1>4

\* The devices.
LEMMA DispositivoSano ==
  ASSUME InvReady, NEW d \in Dispositivos, fnDispositivos(d)
  PROVE  InvReady'
<1>1. /\ ColasSanas /\ HilosSanos /\ CanalesSanos /\ DispositivosSanos
      /\ ReadyContado
  BY DEF InvReady, Sanos
<1>2. CanalesSanos'
  BY <1>1, CanalesIguales DEF canales, fnDispositivos
<1>3. HilosSanos' /\ Sacando' = Sacando /\ Posteando' = Posteando
      /\ Uno(debePost') = Uno(debePost)
  <2>1. UNCHANGED <<hilo, debePost>>
    BY DEF fnDispositivos, DispEsperar, DispSacar, DispReady, DispPost, plp
  <2> QED
    BY <1>1, <2>1 DEF HilosSanos, HiloEntero, Sacando, Posteando, HilosEn
<1>4. dispositivo[d] \in [paso : PasosDisp, prog : Nat] /\ d \in Semaforos \cup Dispositivos
  BY <1>1 DEF DispositivosSanos
<1>5. ASSUME NEW x, dispositivo' = [dispositivo EXCEPT ![d] = x],
             x \in [paso : PasosDisp, prog : Nat]
      PROVE  /\ DispositivosSanos' /\ dispositivo'[d] = x
             /\ \A e \in Dispositivos \ {d} : dispositivo'[e] = dispositivo[e]
  BY <1>1, <1>5 DEF DispositivosSanos
<1>6. CASE DispEsperar(d)
  <2>1. /\ dispositivo[d].paso = "esperar"
        /\ dispositivo' = [dispositivo EXCEPT ![d] = [dispositivo[d] EXCEPT !.paso = "sacar"]]
        /\ UNCHANGED <<plp, ready, listaExec, progEncolados>>
    BY <1>6 DEF DispEsperar
  <2>2. /\ [dispositivo[d] EXCEPT !.paso = "sacar"] \in [paso : PasosDisp, prog : Nat]
        /\ [dispositivo[d] EXCEPT !.paso = "sacar"].paso = "sacar"
    BY <1>4 DEF PasosDisp
  <2>3. /\ DispositivosSanos' /\ dispositivo'[d].paso = "sacar"
        /\ \A e \in Dispositivos \ {d} : dispositivo'[e] = dispositivo[e]
    BY <1>5, <2>1, <2>2
  <2>4. Cardinality(Deben)' = Cardinality(Deben)
    BY <2>1, <2>3, DebenCambian
  <2>5. ReadyContado' /\ ColasSanas'
    BY <1>1, <1>3, <2>1, <2>4, Contado, ContadoLuego, ColasIguales DEF ready
  <2> QED
    BY <1>2, <1>3, <2>3, <2>5 DEF InvReady, Sanos
<1>7. CASE DispSacar(d)
  <2>1. dispositivo[d].paso = "sacar" /\ UNCHANGED <<plp, ready, listaExec>>
    BY <1>7 DEF DispSacar
  <2>2. progEncolados[d] \in Seq(Nat)
    BY <1>1, <1>4 DEF ColasSanas
  <2>3. /\ DispositivosSanos' /\ Cardinality(Deben)' = Cardinality(Deben)
        /\ progEncolados' \in [Semaforos \cup Dispositivos -> Seq(Nat)]
    <3>1. CASE progEncolados[d] = <<>>
      BY <1>1, <1>7, <3>1 DEF DispSacar, DispositivosSanos, Deben, ColasSanas
    <3>2. CASE progEncolados[d] # <<>>
      <4>1. Head(progEncolados[d]) \in Nat /\ Tail(progEncolados[d]) \in Seq(Nat)
        BY <2>2, <3>2, ColaSinCabeza
      <4> DEFINE x == [paso |-> "usar", prog |-> Head(progEncolados[d])]
      <4>2. x \in [paso : PasosDisp, prog : Nat] /\ x.paso = "usar"
        BY <4>1 DEF PasosDisp
      <4>3. /\ dispositivo' = [dispositivo EXCEPT ![d] = x]
            /\ progEncolados' = [progEncolados EXCEPT ![d] = Tail(progEncolados[d])]
        BY <1>7, <3>2 DEF DispSacar
      <4> HIDE DEF x
      <4>4. /\ DispositivosSanos' /\ dispositivo'[d] = x
            /\ \A e \in Dispositivos \ {d} : dispositivo'[e] = dispositivo[e]
        BY <1>5, <4>2, <4>3
      <4>5. Cardinality(Deben)' = Cardinality(Deben)
        BY <2>1, <4>2, <4>4, DebenCambian
      <4> QED
        BY <1>1, <4>1, <4>3, <4>4, <4>5 DEF ColasSanas
    <3> QED
      BY <3>1, <3>2
  <2>4. ColasSanas'
    BY <1>1, <2>1, <2>3 DEF ColasSanas, plp, ready
  <2>5. ReadyContado'
    BY <1>1, <1>3, <2>1, <2>3, Contado, ContadoLuego DEF ready
  <2> QED
    BY <1>2, <1>3, <2>3, <2>4, <2>5 DEF InvReady, Sanos
<1>8. CASE DispReady(d)
  <2> DEFINE x == [paso |-> "post", prog |-> Nadie]
  <2>1. /\ dispositivo[d].paso = "usar"
        /\ listaReady' = Append(listaReady, dispositivo[d].prog)
        /\ dispositivo' = [dispositivo EXCEPT ![d] = x]
        /\ UNCHANGED <<plp, productorConsumidor, listaExec, progEncolados>>
    BY <1>8 DEF DispReady, colas
  <2>2. x \in [paso : PasosDisp, prog : Nat] /\ x.paso = "post"
    BY DEF PasosDisp, Nadie
  <2> HIDE DEF x
  <2>3. /\ DispositivosSanos' /\ dispositivo'[d] = x
        /\ \A e \in Dispositivos \ {d} : dispositivo'[e] = dispositivo[e]
    BY <1>5, <2>1, <2>2
  <2>4. Cardinality(Deben)' = Cardinality(Deben) + 1
    BY <2>1, <2>2, <2>3, DebenCambian
  <2>5. /\ listaReady' \in Seq(Nat) /\ Len(listaReady') = Len(listaReady) + 1
        /\ Len(listaReady) \in Nat
    BY <1>1, <1>4, <2>1, ColaConUltimo DEF ColasSanas
  <2>6. ColasSanas' /\ productorConsumidor \in Nat
    BY <1>1, <2>1, <2>5 DEF ColasSanas, plp
  <2>7. ReadyContado'
    BY <1>1, <1>3, <2>1, <2>4, <2>5, <2>6, Contado, ContadoLuego, ContadoTipo
  <2> QED
    BY <1>2, <1>3, <2>3, <2>6, <2>7 DEF InvReady, Sanos
<1>9. CASE DispPost(d)
  <2> DEFINE x == [dispositivo[d] EXCEPT !.paso = "esperar"]
  <2>1. /\ dispositivo[d].paso = "post"
        /\ productorConsumidor' = productorConsumidor + 1
        /\ dispositivo' = [dispositivo EXCEPT ![d] = x]
        /\ UNCHANGED <<plp, listaReady, listaExec, progEncolados>>
    BY <1>9 DEF DispPost, colas
  <2>2. x \in [paso : PasosDisp, prog : Nat] /\ x.paso = "esperar"
    BY <1>4 DEF PasosDisp
  <2> HIDE DEF x
  <2>3. /\ DispositivosSanos' /\ dispositivo'[d] = x
        /\ \A e \in Dispositivos \ {d} : dispositivo'[e] = dispositivo[e]
    BY <1>5, <2>1, <2>2
  <2>4. Cardinality(Deben)' = Cardinality(Deben) - 1
    BY <2>1, <2>2, <2>3, DebenCambian
  <2>5. ColasSanas' /\ productorConsumidor \in Nat /\ Len(listaReady) \in Nat
    BY <1>1, <2>1, LenProperties DEF ColasSanas, plp
  <2>6. ReadyContado'
    BY <1>1, <1>3, <2>1, <2>4, <2>5, Contado, ContadoLuego, ContadoTipo
  <2> QED
    BY <1>2, <1>3, <2>3, <2>5, <2>6 DEF InvReady, Sanos
<1> QED
  BY <1>6, <1>7, <1>8, <1>9 DEF fnDispositivos

\* The admission of programs.
LEMMA AdmisionSana ==
  ASSUME InvReady, Admision
  PROVE  InvReady'
<1>1. /\ ColasSanas /\ HilosSanos /\ CanalesSanos /\ DispositivosSanos
      /\ ReadyContado
  BY DEF InvReady, Sanos
<1>2. CanalesSanos'
  BY <1>1, CanalesIguales DEF canales, Admision
<1>3. /\ HilosSanos' /\ Sacando' = Sacando /\ Posteando' = Posteando
      /\ DispositivosSanos' /\ Cardinality(Deben)' = Cardinality(Deben)
  <2>1. UNCHANGED <<hilo, dispositivo>>
    BY DEF Admision, PonerEnReady, PostProductor
  <2> QED
    BY <1>1, <2>1 DEF HilosSanos, HiloEntero, DispositivosSanos, Deben, Sacando, Posteando, HilosEn
<1>4. CASE PonerEnReady
  <2>1. /\ listaReady' \in Seq(Nat) /\ Len(listaReady') = Len(listaReady) + 1
        /\ Len(listaReady) \in Nat
    BY <1>1, <1>4, ColaConUltimo DEF ColasSanas, PonerEnReady
  <2>2. ColasSanas' /\ productorConsumidor' = productorConsumidor /\ productorConsumidor \in Nat
    BY <1>1, <1>4, <2>1 DEF ColasSanas, PonerEnReady, colas
  <2>3. Uno(debePost) = 0 /\ Uno(debePost') = 1
    BY <1>4 DEF PonerEnReady, Uno
  <2>4. ReadyContado'
    BY <1>1, <1>3, <2>1, <2>2, <2>3, Contado, ContadoLuego, ContadoTipo
  <2> QED
    BY <1>2, <1>3, <2>2, <2>4 DEF InvReady, Sanos
<1>5. CASE PostProductor
  <2>1. /\ productorConsumidor' = productorConsumidor + 1 /\ debePost' = FALSE
        /\ UNCHANGED <<admitidos, listaReady, listaExec, progEncolados>>
    BY <1>5 DEF PostProductor, colas
  <2>4. /\ ColasSanas' /\ productorConsumidor \in Nat /\ Len(listaReady) \in Nat
    <3>1. debePost' \in BOOLEAN
      BY <2>1
    <3>2. productorConsumidor \in Nat /\ productorConsumidor' \in Nat
      BY <1>1, <2>1 DEF ColasSanas
    <3>3. /\ admitidos' \in Nat /\ listaReady' \in Seq(Nat) /\ listaExec' \in Seq(Nat)
          /\ progEncolados' \in [Semaforos \cup Dispositivos -> Seq(Nat)]
          /\ Len(listaReady) \in Nat
      BY <1>1, <2>1, LenProperties DEF ColasSanas
    <3> QED
      BY <3>1, <3>2, <3>3 DEF ColasSanas
  <2>2. Uno(debePost) = 1 /\ Uno(debePost') = 0
    BY <1>5 DEF PostProductor, Uno
  <2>3. ReadyContado'
    BY <1>1, <1>3, <2>1, <2>2, <2>4, Contado, ContadoLuego, ContadoTipo
  <2> QED
    BY <1>2, <1>3, <2>3, <2>4 DEF InvReady, Sanos
<1> QED
  BY <1>4, <1>5 DEF Admision

\* A CPU sends only requests, whatever its program and the kernel's answers.
LEMMA CpuSana ==
  ASSUME InvReady, NextCpu, UNCHANGED varsPCP
  PROVE  InvReady'
<1>1. /\ ColasSanas /\ HilosSanos /\ CanalesSanos /\ DispositivosSanos
      /\ ReadyContado
  BY DEF InvReady, Sanos
<1>2. ColasSanas' /\ HilosSanos' /\ DispositivosSanos' /\ ReadyContado'
  BY <1>1, ColasIguales DEF varsPCP, colas, ready, plp, HilosSanos, HiloEntero,
     DispositivosSanos, ReadyContado, HilosEn
<1>3. ASSUME NEW c \in CPUs, NEW op \in Pedidos, NEW n, NEW p, NEW q,
             EnviarAKernel(c, Mensaje(op, n, p, q))
      PROVE  CanalesSanos'
  <2> DEFINE m == Mensaje(op, n, p, q)
  <2>1. m.op \in Pedidos
    BY DEF Mensaje
  <2>2. haciaKernel' = [haciaKernel EXCEPT ![c] = Append(haciaKernel[c], m)]
    BY <1>3 DEF EnviarAKernel
  <2> HIDE DEF m
  <2>3. SonPedidos(Append(haciaKernel[c], m))
    BY <1>1, <2>1, PedidoEnviado DEF CanalesSanos
  <2> QED
    BY <1>1, <2>2, <2>3, CanalCambia
<1>4. ASSUME NEW c \in CPUs, EjecutarRafaga(c) \/ signal_handler(c)
      PROVE  \/ UNCHANGED haciaKernel
             \/ \E op \in Pedidos : \E n, p, q : EnviarAKernel(c, Mensaje(op, n, p, q))
  <2>1. CASE RecibirPcb(c)
    BY <2>1 DEF RecibirPcb
  <2>2. CASE RecibirRespuesta(c)
    BY <2>2 DEF RecibirRespuesta
  <2>3. CASE EjecutarLinea(c)
    BY <2>3 DEF EjecutarLinea, Pedidos
  <2>4. CASE Pedir(c)
    BY <2>4 DEF Pedir, Pedidos
  <2>5. CASE Fallar(c)
    BY <2>5 DEF Fallar, Pedidos
  <2>6. CASE TerminarRafaga(c)
    BY <2>6 DEF TerminarRafaga, Pedidos
  <2>7. CASE signal_handler(c)
    BY <2>7 DEF signal_handler, Pedidos
  <2> QED
    BY <1>4, <2>1, <2>2, <2>3, <2>4, <2>5, <2>6, <2>7 DEF EjecutarRafaga
<1>5. CanalesSanos'
  BY <1>1, <1>3, <1>4, CanalesIguales DEF NextCpu
<1> QED
  BY <1>2, <1>5 DEF InvReady, Sanos

-----------------------------------------------------------------------------
(* Theorems *)

\* The lists, posts, threads and channels are what InvReady says in every
\* reachable state, with any programs and CPUs, also those that leave on SIGUSR1,
\* fail twice in a line or lose messages.
THEOREM InvarianteReady == Spec => []InvReady
<1>1. Init => InvReady
  <2> SUFFICES ASSUME Init PROVE InvReady
    OBVIOUS
  <2>1. Sanos
    BY SanosInicial
  <2>2. \A S : HilosEn(S) = IF "esperar" \in S THEN CPUs ELSE {}
    BY DEF Init, InitPCP, HilosEn, Hilo
  <2>3. Sacando = 0 /\ Posteando = 0
    BY <2>2, FS_EmptySet DEF Sacando, Posteando
  <2>4. Cardinality(Deben) = 0
    <3>1. Deben = {}
      BY DEF Init, InitPCP, Deben
    <3> QED
      BY <3>1, FS_EmptySet
  <2>5. Uno(debePost) = 0 /\ Len(listaReady) = 0 /\ productorConsumidor = 0
    BY EmptySeq DEF Init, InitPCP, Uno
  <2>6. ReadyContado
    BY <2>3, <2>4, <2>5, Contado
  <2> QED
    BY <2>1, <2>6 DEF InvReady
<1>2. InvReady /\ [Next]_vars => InvReady'
  <2> SUFFICES ASSUME InvReady, [Next]_vars PROVE InvReady'
    OBVIOUS
  <2>1. CASE Admision
    BY <2>1, AdmisionSana
  <2>2. ASSUME NEW c \in CPUs, pfnControladorConexion(c) PROVE InvReady'
    <3>1. CASE Interno(c)
      BY <3>1, DespachoSano, WaitSano, SignalSano, IoSano, RecargarSano, ExitSano DEF Interno
    <3> QED
      BY <2>2, <3>1, RecibirSano, EnviarSano DEF pfnControladorConexion
  <2>3. ASSUME NEW d \in Dispositivos, fnDispositivos(d) PROVE InvReady'
    BY <2>3, DispositivoSano
  <2>4. CASE NextCpu /\ UNCHANGED varsPCP
    BY <2>4, CpuSana
  <2>5. CASE UNCHANGED vars
    <3>1. UNCHANGED <<hilo, dispositivo, haciaKernel, plp, ready, listaExec, progEncolados>>
      BY <2>5 DEF vars, varsPCP, canales, colas
    <3> QED
      BY <3>1, ColasIguales, CanalesIguales DEF InvReady, Sanos, HilosSanos, HiloEntero,
         DispositivosSanos, ReadyContado, HilosEn, ready, plp
  <2> QED
    BY <2>1, <2>2, <2>3, <2>4, <2>5 DEF Next, NextPCP
<1> QED
  BY <1>1, <1>2, PTL DEF Spec

\* ReadyContado in every reachable state: READY has exactly the programs that were
\* posted or will be, so a thread that has taken a post finds one.
THEOREM ReadySiempreContado == Spec => []ReadyContado
<1>1. InvReady => ReadyContado
  BY DEF InvReady
<1> QED
  BY <1>1, InvarianteReady, PTL

=============================================================================
