---------------------------- MODULE PCPLugar_proof ----------------------------
(***************************************************************************)
(* Proofs about PCPCpu for programs that end and CPUs that stay            *)
(* (ProgramasEnRegla), for any number of each, of semaphores and of        *)
(* devices, and any fusion of messages: types, UnSoloLugar, and what the   *)
(* kernel can die of. They rest on the protocol that a thread and its CPU  *)
(* keep.                                                                   *)
(***************************************************************************)
EXTENDS PCPCpu_proof, FunctionTheorems, WellFoundedInduction

-----------------------------------------------------------------------------
(* The threads. *)

\* The steps at which a thread answers for the program in "programa": it is in
\* listaExec on its account.
PasosDueno ==
  {"enviar", "recibir", "consulta", "waitInexistente", "waitLeer", "waitEscribir",
   "waitProbar", "waitSacar", "signalInexistente", "signalLeer", "signalEscribir",
   "signalProbar", "signalSacar", "signalReady", "signalPost", "signalResponder",
   "ioPcb", "ioEncolar", "ioSacar", "recargarSacar", "exitSacar"}
PasosConProg == PasosDueno \cup {"cargar", "waitEncolar"}
PasosConOtro == {"recargarReady", "exitAgregar"}

\* What thread h does with program p: answers for it, has it in its hands, or has it
\* in two lists; and the device it has a program for.
Dueno(h, p) == h.paso \in PasosDueno /\ h.prog = p
Lleva(h, p) ==
  \/ h.paso \in {"cargar", "waitEncolar"} /\ h.prog = p
  \/ h.paso \in {"signalReady", "recargarReady", "exitAgregar"} /\ h.otro = p
Entre(h, p) == h.paso = "ioSacar" /\ h.prog = p
Manda(h, d) == h.paso \in {"ioSacar", "ioPost"} /\ h.msg.nombre = d

Duenos(p) == {c \in CPUs : Dueno(hilo[c], p)}
Mandan(d) == {c \in CPUs : Manda(hilo[c], d)}
EnManos(p) == {d \in Dispositivos : dispositivo[d].prog = p}

-----------------------------------------------------------------------------
(* Counting. *)

\* A set of positions that is not empty has a first one.
LEMMA PrimerNatural ==
  ASSUME NEW T, T \subseteq Nat, T # {}
  PROVE  \E x \in T : \A y \in T : x <= y
<1>1. PICK x \in T : \A y \in T : ~(<<y, x>> \in OpToRel(<, Nat))
  BY NatLessThanWellFounded, WFMin
<1>2. \A y \in T : ~(<<y, x>> \in Nat \X Nat /\ y < x)
  BY <1>1, Zenon DEF OpToRel
<1>3. \A y \in T : y \in Nat /\ x \in Nat /\ ~(y < x)
  BY <1>2, Zenon
<1> QED
  BY <1>3

\* A set in which one element may change.
LEMMA ConjuntoCambia ==
  ASSUME NEW S, IsFiniteSet(S), NEW A \in SUBSET S, NEW B \in SUBSET S, NEW c \in S,
         \A x \in S \ {c} : x \in A <=> x \in B
  PROVE  /\ Cardinality(A) \in Nat
         /\ Cardinality(B) = Cardinality(A) + Uno(c \in B) - Uno(c \in A)
<1>1. IsFiniteSet(A) /\ IsFiniteSet(B) /\ Cardinality(A) \in Nat /\ Cardinality(B) \in Nat
  BY FS_Subset, FS_CardinalityType
<1>2. CASE c \in B /\ c \notin A
  <2>1. B = A \cup {c}
    BY <1>2
  <2> QED
    BY <1>1, <1>2, <2>1, FS_AddElement DEF Uno
<1>3. CASE c \notin B /\ c \in A
  <2>1. B = A \ {c}
    BY <1>3
  <2> QED
    BY <1>1, <1>3, <2>1, FS_RemoveElement DEF Uno
<1>4. CASE c \in B <=> c \in A
  <2>1. B = A
    BY <1>4
  <2> QED
    BY <1>1, <1>4, <2>1 DEF Uno
<1> QED
  BY <1>2, <1>3, <1>4

\* The occurrences of p in a list are finitely many, and there are some if there
\* is one.
LEMMA VecesTipo ==
  ASSUME NEW T, NEW s \in Seq(T), NEW p
  PROVE  /\ IsFiniteSet({i \in 1..Len(s) : s[i] = p})
         /\ Veces(s, p) \in Nat
         /\ Veces(s, p) = 0 <=> \A i \in 1..Len(s) : s[i] # p
<1> DEFINE I == {i \in 1..Len(s) : s[i] = p}
<1>1. IsFiniteSet(1..Len(s))
  BY LenProperties, FS_Interval
<1>2. IsFiniteSet(I)
  BY <1>1, FS_Subset
<1>3. Cardinality(I) \in Nat /\ (Cardinality(I) = 0 <=> I = {})
  BY <1>2, FS_CardinalityType, FS_EmptySet
<1>4. Veces(s, p) = Cardinality(I)
  BY DEF Veces
<1> QED
  BY <1>2, <1>3, <1>4

\* Taking the i-th element out of a list.
LEMMA VecesMenosUno ==
  ASSUME NEW T, NEW s \in Seq(T), NEW t \in Seq(T), NEW i \in 1..Len(s),
         Len(t) = Len(s) - 1,
         \A j \in 1..(i - 1) : t[j] = s[j],
         \A j \in i..(Len(s) - 1) : t[j] = s[j + 1],
         NEW p
  PROVE  Veces(t, p) = Veces(s, p) - Uno(s[i] = p)
<1> DEFINE A == {j \in 1..Len(t) : t[j] = p}
           B == {j \in 1..Len(s) : s[j] = p}
           f == [j \in A |-> IF j < i THEN j ELSE j + 1]
<1>1. Len(s) \in Nat /\ Len(t) \in Nat /\ i \in Nat
  BY LenProperties
<1>2. IsFiniteSet(A) /\ IsFiniteSet(B) /\ Veces(t, p) = Cardinality(A)
      /\ Veces(s, p) = Cardinality(B)
  BY VecesTipo DEF Veces
<1>3. f \in [A -> B \ {i}]
  <2> SUFFICES ASSUME NEW j \in A PROVE f[j] \in B \ {i}
    OBVIOUS
  <2> QED
    BY <1>1
<1>4. ASSUME NEW j \in A, NEW k \in A, f[j] = f[k] PROVE j = k
  BY <1>1, <1>4
<1>5. ASSUME NEW k \in B \ {i} PROVE \E j \in A : f[j] = k
  <2>1. CASE k < i
    <3>1. k \in A
      BY <1>1, <1>5, <2>1
    <3> QED
      BY <2>1, <3>1
  <2>2. CASE k > i
    <3>1. k - 1 \in A /\ ~(k - 1 < i) /\ (k - 1) + 1 = k
      BY <1>1, <1>5, <2>2
    <3> QED
      BY <3>1
  <2>3. k < i \/ k > i
    BY <1>1, <1>5
  <2> QED
    BY <2>1, <2>2, <2>3
<1> HIDE DEF f, A, B
<1>6. f \in Bijection(A, B \ {i})
  BY <1>3, <1>4, <1>5, Fun_IsBij
<1>7. ExistsBijection(A, B \ {i})
  BY <1>6 DEF ExistsBijection
<1>8. Cardinality(B \ {i}) = Cardinality(A)
  BY <1>2, <1>7, FS_Bijection
<1>9. i \in B <=> s[i] = p
  BY DEF B
<1>10. Cardinality(B \ {i}) = IF i \in B THEN Cardinality(B) - 1 ELSE Cardinality(B)
  BY <1>2, FS_RemoveElement
<1>11. Cardinality(B) \in Nat
  BY <1>2, FS_CardinalityType
<1> QED
  BY <1>2, <1>8, <1>9, <1>10, <1>11 DEF Uno

\* A program more at the end of a list.
LEMMA VecesConUltimo ==
  ASSUME NEW T, NEW s \in Seq(T), NEW e \in T, NEW p
  PROVE  Veces(Append(s, e), p) = Veces(s, p) + Uno(e = p)
<1> DEFINE t == Append(s, e)
<1>1. /\ t \in Seq(T) /\ Len(t) = Len(s) + 1 /\ Len(s) \in Nat
      /\ \A j \in 1..Len(s) : t[j] = s[j]
      /\ t[Len(s) + 1] = e
  BY ColaConUltimo
<1> HIDE DEF t
<1> DEFINE i == Len(t)
<1>2. /\ i \in 1..Len(t) /\ i = Len(s) + 1 /\ Len(s) = Len(t) - 1 /\ t[i] = e
      /\ \A j \in 1..(i - 1) : s[j] = t[j]
      /\ \A j \in i..(Len(t) - 1) : s[j] = t[j + 1]
  BY <1>1
<1> HIDE DEF i
<1>3. Veces(s, p) = Veces(t, p) - Uno(t[i] = p)
  BY <1>1, <1>2, VecesMenosUno
<1>4. Veces(t, p) \in Nat /\ Veces(s, p) \in Nat
  BY <1>1, VecesTipo
<1> QED
  BY <1>2, <1>3, <1>4 DEF t, Uno

\* The first program out of a list.
LEMMA VecesSinCabeza ==
  ASSUME NEW T, NEW s \in Seq(T), s # <<>>, NEW p
  PROVE  Veces(Tail(s), p) = Veces(s, p) - Uno(Head(s) = p)
<1> DEFINE t == Tail(s)
           i == 1
<1>1. /\ Len(s) \in Nat \ {0} /\ Head(s) = s[1] /\ t \in Seq(T) /\ Len(t) = Len(s) - 1
      /\ \A j \in 1..Len(t) : t[j] = s[j + 1]
  BY ColaSinCabeza
<1>2. /\ i \in 1..Len(s) /\ Head(s) = s[i]
      /\ \A j \in 1..(i - 1) : t[j] = s[j]
      /\ \A j \in i..(Len(s) - 1) : t[j] = s[j + 1]
  BY <1>1
<1> HIDE DEF t, i
<1>3. Veces(t, p) = Veces(s, p) - Uno(s[i] = p)
  BY <1>1, <1>2, VecesMenosUno, SMTT(30)
<1> QED
  BY <1>2, <1>3 DEF t

\* The i-th program out of a list.
LEMMA VecesSinUno ==
  ASSUME NEW T, NEW s \in Seq(T), NEW i \in 1..Len(s), NEW p
  PROVE  Veces(Sin(s, i), p) = Veces(s, p) - Uno(s[i] = p)
<1> DEFINE t == Sin(s, i)
<1>1. /\ t \in Seq(T) /\ Len(t) = Len(s) - 1
      /\ \A j \in 1..(i - 1) : t[j] = s[j]
      /\ \A j \in i..(Len(s) - 1) : t[j] = s[j + 1]
  BY ColaSinUno
<1> HIDE DEF t
<1>2. Veces(t, p) = Veces(s, p) - Uno(s[i] = p)
  BY <1>1, VecesMenosUno, SMTT(30)
<1> QED
  BY <1>2 DEF t

-----------------------------------------------------------------------------
(* The invariant: types, with what their bounds depend on. *)

TipoHilo == [paso : PasosHilo, prog : Pids, msg : Mensajes, leido : Int, otro : Pids]
TipoCpu == [paso : {"recibirPcb", "ejecutar", "respuesta", "muerta"},
            pid : Pids, pc : Nat, i : 0..Quantum, fallas : Nat,
            estadoRafaga : DeCpu \cup {"waitPcbBloqueado"}, manejador : BOOLEAN]

ListasEnRegla ==
  /\ admitidos \in Pids
  /\ listaReady \in Seq(0..admitidos)
  /\ listaExec \in Seq(1..admitidos)
  /\ exitProcesos \in Seq(1..admitidos)
  /\ pcb \in [Programas -> [pid : Programas, pc : Nat]]
  /\ progEncolados \in [Semaforos \cup Dispositivos -> Seq(1..admitidos)]
  /\ semaforoDisp \in [Dispositivos -> Nat]
ValoresEnRegla ==
  /\ debePost \in BOOLEAN /\ vivo \in BOOLEAN /\ productorConsumidor \in Nat
  /\ iSemaforo \in [Semaforos -> Int]

\* A thread that has a program has one that was admitted.
Acotado(h) ==
  /\ h.prog \in 0..admitidos /\ h.otro \in 0..admitidos
  /\ h.paso \in PasosConProg => h.prog # Nadie
  /\ h.paso \in PasosConOtro => h.otro # Nadie
HilosEnRegla ==
  hilo \in [CPUs -> TipoHilo] /\ \A c \in CPUs : Acotado(hilo[c])

DispositivosEnRegla ==
  /\ dispositivo \in [Dispositivos -> [paso : PasosDisp, prog : Pids]]
  /\ \A d \in Dispositivos :
       /\ dispositivo[d].prog \in 0..admitidos
       /\ dispositivo[d].paso = "usar" <=> dispositivo[d].prog # Nadie

CanalesEnRegla ==
  /\ haciaCpu \in [CPUs -> Seq(Mensajes)]
  /\ haciaKernel \in [CPUs -> Seq(Mensajes)]
  /\ conectada \in [CPUs -> BOOLEAN]
CpusEnRegla == cpu \in [CPUs -> TipoCpu]

Tipos ==
  /\ ListasEnRegla /\ ValoresEnRegla /\ HilosEnRegla /\ DispositivosEnRegla
  /\ CanalesEnRegla /\ CpusEnRegla

\* They are what TypeOK says, and more.
LEMMA TiposBastan == Tipos => TypeOK
BY DEF Tipos, ListasEnRegla, ValoresEnRegla, HilosEnRegla, DispositivosEnRegla, CanalesEnRegla,
   CpusEnRegla, TypeOK, TipoHilo, TipoCpu, PasosDisp

-----------------------------------------------------------------------------
(* What a step does to its thread. *)

Otros(c) == \A x \in CPUs \ {c} : hilo'[x] = hilo[x]
Mueve(c, b, p, m, o) ==
  /\ hilo'[c].paso = b /\ hilo'[c].prog = p /\ hilo'[c].msg = m /\ hilo'[c].otro = o
  /\ Otros(c)

\* A thread that changes, and the rest as they were.
LEMMA HiloNuevo ==
  ASSUME HilosEnRegla, UNCHANGED admitidos, NEW c \in CPUs, NEW h \in TipoHilo, Acotado(h),
         hilo' = [hilo EXCEPT ![c] = h]
  PROVE  HilosEnRegla' /\ hilo'[c] = h /\ Otros(c)
<1>1. hilo' \in [CPUs -> TipoHilo] /\ hilo'[c] = h /\ Otros(c)
  BY DEF HilosEnRegla, Otros
<1>2. ASSUME NEW x \in CPUs PROVE Acotado(hilo[x])'
  <2>1. CASE x = c
    BY <1>1, <2>1 DEF Acotado
  <2>2. CASE x # c
    BY <1>1, <2>2 DEF Acotado, HilosEnRegla, Otros
  <2> QED
    BY <2>1, <2>2
<1> QED
  BY <1>1, <1>2 DEF HilosEnRegla

\* Seguir: the thread goes on with what it had.
LEMMA Sigue ==
  ASSUME HilosEnRegla, UNCHANGED admitidos, NEW c \in CPUs, NEW b \in PasosHilo, Seguir(c, b),
         b \in PasosConProg => hilo[c].paso \in PasosConProg, b \notin PasosConOtro
  PROVE  HilosEnRegla' /\ Mueve(c, b, hilo[c].prog, hilo[c].msg, hilo[c].otro)
<1> DEFINE h == [hilo[c] EXCEPT !.paso = b]
<1>1. hilo[c] \in TipoHilo /\ Acotado(hilo[c])
  BY DEF HilosEnRegla
<1>2. /\ h \in TipoHilo /\ h.paso = b /\ h.prog = hilo[c].prog /\ h.msg = hilo[c].msg
      /\ h.otro = hilo[c].otro
  BY <1>1 DEF TipoHilo
<1>3. hilo' = [hilo EXCEPT ![c] = h]
  BY DEF Seguir
<1> HIDE DEF h
<1>4. Acotado(h)
  BY <1>1, <1>2 DEF Acotado
<1> QED
  BY <1>2, <1>3, <1>4, HiloNuevo DEF Mueve

\* Volver: the thread is done with its message.
LEMMA Vuelve ==
  ASSUME HilosEnRegla, UNCHANGED admitidos, admitidos \in Nat, NEW c \in CPUs,
     NEW b \in PasosHilo, Volver(c, b),
         b \in PasosConProg => hilo[c].paso \in PasosConProg, b \notin PasosConOtro
  PROVE  HilosEnRegla' /\ Mueve(c, b, hilo[c].prog, Respuesta("ninguno"), Nadie)
<1> DEFINE h == Hilo(b, hilo[c].prog)
<1>1. hilo[c] \in TipoHilo /\ Acotado(hilo[c])
  BY DEF HilosEnRegla
<1>2. /\ h.paso = b /\ h.prog = hilo[c].prog /\ h.msg = Respuesta("ninguno")
      /\ h.otro = Nadie
  BY DEF Hilo
<1>3. hilo' = [hilo EXCEPT ![c] = h]
  BY DEF Volver
<1>4. h \in TipoHilo
  <2>1. Respuesta("ninguno") \in Mensajes
    BY DEF Respuesta, Mensaje, Mensajes, Pids, SinNombre
  <2>2. Nadie \in Pids
    BY DEF Pids
  <2> QED
    BY <1>1, <2>1, <2>2 DEF TipoHilo, Hilo
<1> HIDE DEF h
<1>5. Acotado(h)
  BY <1>1, <1>2 DEF Acotado, Nadie
<1> QED
  BY <1>2, <1>3, <1>4, <1>5, HiloNuevo DEF Mueve

\* A thread that has read a value.
LEMMA Lee ==
  ASSUME HilosEnRegla, UNCHANGED admitidos, NEW c \in CPUs, NEW b \in PasosHilo, NEW v \in Int,
         hilo' = [hilo EXCEPT ![c].leido = v, ![c].paso = b],
         b \in PasosConProg => hilo[c].paso \in PasosConProg, b \notin PasosConOtro
  PROVE  HilosEnRegla' /\ Mueve(c, b, hilo[c].prog, hilo[c].msg, hilo[c].otro)
<1> DEFINE h == [hilo[c] EXCEPT !.leido = v, !.paso = b]
<1>1. hilo[c] \in TipoHilo /\ Acotado(hilo[c]) /\ hilo \in [CPUs -> TipoHilo]
  BY DEF HilosEnRegla
<1>2. /\ h \in TipoHilo /\ h.paso = b /\ h.prog = hilo[c].prog /\ h.msg = hilo[c].msg
      /\ h.otro = hilo[c].otro
  BY <1>1 DEF TipoHilo
<1>3. hilo' = [hilo EXCEPT ![c] = h]
  BY <1>1
<1> HIDE DEF h
<1>4. Acotado(h)
  BY <1>1, <1>2 DEF Acotado
<1> QED
  BY <1>2, <1>3, <1>4, HiloNuevo DEF Mueve

\* A thread that has taken a program out of a list, or let go of one.
LEMMA Tiene ==
  ASSUME HilosEnRegla, UNCHANGED admitidos, NEW c \in CPUs, NEW b \in PasosHilo,
         NEW o \in 0..admitidos, o \in Pids,
         hilo' = [hilo EXCEPT ![c].otro = o, ![c].paso = b],
         b \in PasosConProg => hilo[c].paso \in PasosConProg, b \in PasosConOtro => o # Nadie
  PROVE  HilosEnRegla' /\ Mueve(c, b, hilo[c].prog, hilo[c].msg, o)
<1> DEFINE h == [hilo[c] EXCEPT !.otro = o, !.paso = b]
<1>1. hilo[c] \in TipoHilo /\ Acotado(hilo[c]) /\ hilo \in [CPUs -> TipoHilo]
  BY DEF HilosEnRegla
<1>2. /\ h \in TipoHilo /\ h.paso = b /\ h.prog = hilo[c].prog /\ h.msg = hilo[c].msg
      /\ h.otro = o
  BY <1>1 DEF TipoHilo
<1>3. hilo' = [hilo EXCEPT ![c] = h]
  BY <1>1
<1> HIDE DEF h
<1>4. Acotado(h)
  BY <1>1, <1>2 DEF Acotado
<1> QED
  BY <1>2, <1>3, <1>4, HiloNuevo DEF Mueve

\* A thread that has received a message.
LEMMA Atiende ==
  ASSUME HilosEnRegla, UNCHANGED admitidos, NEW c \in CPUs, NEW b \in PasosHilo,
         NEW m \in Mensajes, hilo' = [hilo EXCEPT ![c].msg = m, ![c].paso = b],
         b \in PasosConProg => hilo[c].paso \in PasosConProg, b \notin PasosConOtro
  PROVE  HilosEnRegla' /\ Mueve(c, b, hilo[c].prog, m, hilo[c].otro)
<1> DEFINE h == [hilo[c] EXCEPT !.msg = m, !.paso = b]
<1>1. hilo[c] \in TipoHilo /\ Acotado(hilo[c]) /\ hilo \in [CPUs -> TipoHilo]
  BY DEF HilosEnRegla
<1>2. /\ h \in TipoHilo /\ h.paso = b /\ h.prog = hilo[c].prog /\ h.msg = m
      /\ h.otro = hilo[c].otro
  BY <1>1 DEF TipoHilo
<1>3. hilo' = [hilo EXCEPT ![c] = h]
  BY <1>1
<1> HIDE DEF h
<1>4. Acotado(h)
  BY <1>1, <1>2 DEF Acotado
<1> QED
  BY <1>2, <1>3, <1>4, HiloNuevo DEF Mueve

-----------------------------------------------------------------------------
(* The programs counted in each place. *)

\* What the lists hold, of each program, when one has changed at one place.
LEMMA ListaTipo ==
  ASSUME ListasEnRegla, NEW p
  PROVE  /\ admitidos \in Nat
         /\ Veces(listaReady, p) \in Nat
         /\ Veces(listaExec, p) \in Nat
         /\ Veces(exitProcesos, p) \in Nat
<1>1. admitidos \in Nat
  BY ParametrosConexion DEF ListasEnRegla, Pids, Programas, Nadie
<1> DEFINE T == 0..admitidos
           U == 1..admitidos
<1>2. listaReady \in Seq(T) /\ listaExec \in Seq(U) /\ exitProcesos \in Seq(U)
  BY DEF ListasEnRegla
<1> HIDE DEF T, U
<1> QED
  BY <1>1, <1>2, VecesTipo

\* A step of one thread changes the counts of threads by what that thread counts
\* for after and before.
LEMMA HiloCuenta ==
  ASSUME NEW c \in CPUs, Otros(c), NEW p
  PROVE  /\ Cardinality(Duenos(p)) \in Nat /\ Cardinality(Llevan(p)) \in Nat
         /\ Cardinality(EntreDosListas(p)) \in Nat /\ Cardinality(Mandan(p)) \in Nat
         /\ Cardinality(Duenos(p)') = Cardinality(Duenos(p))
              + Uno(Dueno(hilo'[c], p)) - Uno(Dueno(hilo[c], p))
         /\ Cardinality(Llevan(p)') = Cardinality(Llevan(p))
              + Uno(Lleva(hilo'[c], p)) - Uno(Lleva(hilo[c], p))
         /\ Cardinality(EntreDosListas(p)') = Cardinality(EntreDosListas(p))
              + Uno(Entre(hilo'[c], p)) - Uno(Entre(hilo[c], p))
         /\ Cardinality(Mandan(p)') = Cardinality(Mandan(p))
              + Uno(Manda(hilo'[c], p)) - Uno(Manda(hilo[c], p))
<1>1. \A x \in CPUs \ {c} : hilo'[x] = hilo[x]
  BY DEF Otros
<1>2. IsFiniteSet(CPUs)
  BY ParametrosConexion
<1>3. /\ Cardinality(Duenos(p)) \in Nat
      /\ Cardinality(Duenos(p)') = Cardinality(Duenos(p))
              + Uno(Dueno(hilo'[c], p)) - Uno(Dueno(hilo[c], p))
  <2> DEFINE A == {x \in CPUs : Dueno(hilo[x], p)}
             B == {x \in CPUs : Dueno(hilo'[x], p)}
  <2>1. A \in SUBSET CPUs /\ B \in SUBSET CPUs
    OBVIOUS
  <2>2. \A x \in CPUs \ {c} : x \in A <=> x \in B
    BY <1>1
  <2>3. Duenos(p) = A /\ Duenos(p)' = B
    BY DEF Duenos, Dueno
  <2>4. (c \in A <=> Dueno(hilo[c], p)) /\ (c \in B <=> Dueno(hilo'[c], p))
    OBVIOUS
  <2> HIDE DEF A, B
  <2>5. /\ Cardinality(A) \in Nat
        /\ Cardinality(B) = Cardinality(A) + Uno(c \in B) - Uno(c \in A)
    BY <1>2, <2>1, <2>2, ConjuntoCambia
  <2> QED
    BY <2>3, <2>4, <2>5 DEF Uno
<1>4. /\ Cardinality(Llevan(p)) \in Nat
      /\ Cardinality(Llevan(p)') = Cardinality(Llevan(p))
              + Uno(Lleva(hilo'[c], p)) - Uno(Lleva(hilo[c], p))
  <2> DEFINE A == {x \in CPUs : Lleva(hilo[x], p)}
             B == {x \in CPUs : Lleva(hilo'[x], p)}
  <2>1. A \in SUBSET CPUs /\ B \in SUBSET CPUs
    OBVIOUS
  <2>2. \A x \in CPUs \ {c} : x \in A <=> x \in B
    BY <1>1
  <2>3. Llevan(p) = A /\ Llevan(p)' = B
    BY DEF Llevan, Lleva, HilosEn
  <2>4. (c \in A <=> Lleva(hilo[c], p)) /\ (c \in B <=> Lleva(hilo'[c], p))
    OBVIOUS
  <2> HIDE DEF A, B
  <2>5. /\ Cardinality(A) \in Nat
        /\ Cardinality(B) = Cardinality(A) + Uno(c \in B) - Uno(c \in A)
    BY <1>2, <2>1, <2>2, ConjuntoCambia
  <2> QED
    BY <2>3, <2>4, <2>5 DEF Uno
<1>5. /\ Cardinality(EntreDosListas(p)) \in Nat
      /\ Cardinality(EntreDosListas(p)') = Cardinality(EntreDosListas(p))
              + Uno(Entre(hilo'[c], p)) - Uno(Entre(hilo[c], p))
  <2> DEFINE A == {x \in CPUs : Entre(hilo[x], p)}
             B == {x \in CPUs : Entre(hilo'[x], p)}
  <2>1. A \in SUBSET CPUs /\ B \in SUBSET CPUs
    OBVIOUS
  <2>2. \A x \in CPUs \ {c} : x \in A <=> x \in B
    BY <1>1
  <2>3. EntreDosListas(p) = A /\ EntreDosListas(p)' = B
    BY DEF EntreDosListas, Entre, HilosEn
  <2>4. (c \in A <=> Entre(hilo[c], p)) /\ (c \in B <=> Entre(hilo'[c], p))
    OBVIOUS
  <2> HIDE DEF A, B
  <2>5. /\ Cardinality(A) \in Nat
        /\ Cardinality(B) = Cardinality(A) + Uno(c \in B) - Uno(c \in A)
    BY <1>2, <2>1, <2>2, ConjuntoCambia
  <2> QED
    BY <2>3, <2>4, <2>5 DEF Uno
<1>6. /\ Cardinality(Mandan(p)) \in Nat
      /\ Cardinality(Mandan(p)') = Cardinality(Mandan(p))
              + Uno(Manda(hilo'[c], p)) - Uno(Manda(hilo[c], p))
  <2> DEFINE A == {x \in CPUs : Manda(hilo[x], p)}
             B == {x \in CPUs : Manda(hilo'[x], p)}
  <2>1. A \in SUBSET CPUs /\ B \in SUBSET CPUs
    OBVIOUS
  <2>2. \A x \in CPUs \ {c} : x \in A <=> x \in B
    BY <1>1
  <2>3. Mandan(p) = A /\ Mandan(p)' = B
    BY DEF Mandan, Manda
  <2>4. (c \in A <=> Manda(hilo[c], p)) /\ (c \in B <=> Manda(hilo'[c], p))
    OBVIOUS
  <2> HIDE DEF A, B
  <2>5. /\ Cardinality(A) \in Nat
        /\ Cardinality(B) = Cardinality(A) + Uno(c \in B) - Uno(c \in A)
    BY <1>2, <2>1, <2>2, ConjuntoCambia
  <2> QED
    BY <2>3, <2>4, <2>5 DEF Uno
<1> QED
  BY <1>3, <1>4, <1>5, <1>6

\* The same of the devices, one of which changes.
LEMMA ManosCuentan ==
  ASSUME NEW d \in Dispositivos, NEW p,
         \A x \in Dispositivos \ {d} : dispositivo'[x] = dispositivo[x]
  PROVE  /\ Cardinality(EnManos(p)) \in Nat
         /\ Cardinality(EnManos(p)') = Cardinality(EnManos(p))
              + Uno(dispositivo'[d].prog = p) - Uno(dispositivo[d].prog = p)
<1> DEFINE A == {x \in Dispositivos : dispositivo[x].prog = p}
           B == {x \in Dispositivos : dispositivo'[x].prog = p}
<1>1. A \in SUBSET Dispositivos /\ B \in SUBSET Dispositivos /\ IsFiniteSet(Dispositivos)
  BY ParametrosPCP
<1>2. \A x \in Dispositivos \ {d} : x \in A <=> x \in B
  OBVIOUS
<1>3. EnManos(p) = A /\ EnManos(p)' = B
  BY DEF EnManos
<1>4. (d \in A <=> dispositivo[d].prog = p) /\ (d \in B <=> dispositivo'[d].prog = p)
  OBVIOUS
<1> HIDE DEF A, B
<1>5. /\ Cardinality(A) \in Nat
      /\ Cardinality(B) = Cardinality(A) + Uno(d \in B) - Uno(d \in A)
  BY <1>1, <1>2, ConjuntoCambia
<1> QED
  BY <1>3, <1>4, <1>5 DEF Uno

\* The devices that have a program can be counted.
LEMMA ManosTipo ==
  ASSUME NEW p
  PROVE  Cardinality(EnManos(p)) \in Nat
<1>1. IsFiniteSet(EnManos(p))
  BY ParametrosPCP, FS_Subset DEF EnManos
<1> QED
  BY <1>1, FS_CardinalityType

\* The queues hold finitely many programs.
LEMMA EncoladoTipo ==
  ASSUME ListasEnRegla, NEW p
  PROVE  IsFiniteSet(Encolado(p)) /\ Cardinality(Encolado(p)) \in Nat
<1> DEFINE R == Semaforos \cup Dispositivos
           T == 1..admitidos
           L(r) == {i \in 1..Len(progEncolados[r]) : progEncolados[r][i] = p}
           F == [r \in R |-> {r} \X L(r)]
           S == {F[r] : r \in R}
<1>1. progEncolados \in [R -> Seq(T)]
  BY DEF ListasEnRegla
<1>2. \A r \in R : DOMAIN progEncolados[r] = 1..Len(progEncolados[r])
  BY <1>1, LenProperties
<1>3. \A r \in R : IsFiniteSet(F[r])
  <2> SUFFICES ASSUME NEW r \in R PROVE IsFiniteSet(F[r])
    OBVIOUS
  <2>1. progEncolados[r] \in Seq(T)
    BY <1>1
  <2> HIDE DEF R, T
  <2>2. IsFiniteSet(L(r))
    BY <2>1, VecesTipo
  <2>3. IsFiniteSet({r})
    BY FS_Singleton
  <2>4. F[r] = {r} \X L(r)
    OBVIOUS
  <2> HIDE DEF F, L
  <2> QED
    BY <2>2, <2>3, <2>4, FS_Product
<1>4. IsFiniteSet(R)
  BY ParametrosPCP, FS_Union
<1>5. Encolado(p) = UNION S
  <2> DEFINE M == {{r} \X {i \in DOMAIN progEncolados[r] : progEncolados[r][i] = p} : r \in R}
  <2>1. \A r \in R : F[r] = {r} \X {i \in DOMAIN progEncolados[r] : progEncolados[r][i] = p}
    BY <1>2
  <2>2. S = M
    BY <2>1
  <2>3. DOMAIN progEncolados = R
    BY <1>1
  <2> QED
    BY <2>2, <2>3 DEF Encolado
<1>6. F \in Surjection(R, S)
  <2>1. F \in [R -> S] /\ \A t \in S : \E r \in R : F[r] = t
    OBVIOUS
  <2> HIDE DEF F, R, S
  <2> QED
    BY <2>1, Fun_IsSurj
<1>7. \A x \in S : IsFiniteSet(x)
  BY <1>3
<1> HIDE DEF F, R, S
<1>8. IsFiniteSet(S)
  BY <1>4, <1>6, FS_Surjection
<1>9. IsFiniteSet(UNION S)
  BY <1>7, <1>8, FS_UNION
<1> QED
  BY <1>5, <1>9, FS_CardinalityType

\* One queue that changes, from s to t.
LEMMA EncoladoCambia ==
  ASSUME ListasEnRegla, NEW r \in Semaforos \cup Dispositivos, NEW t \in Seq(1..admitidos),
         progEncolados' = [progEncolados EXCEPT ![r] = t], NEW p
  PROVE  /\ Cardinality(Encolado(p)) \in Nat
         /\ Cardinality(Encolado(p)') =
              Cardinality(Encolado(p)) + Veces(t, p) - Veces(progEncolados[r], p)
<1> DEFINE R == Semaforos \cup Dispositivos
           T == 1..admitidos
           s == progEncolados[r]
           I == {i \in 1..Len(s) : s[i] = p}
           J == {i \in 1..Len(t) : t[i] = p}
           L(q) == {i \in DOMAIN progEncolados[q] : progEncolados[q][i] = p}
           O == UNION {{q} \X L(q) : q \in R \ {r}}
           A == {r} \X I
           B == {r} \X J
<1>1. progEncolados \in [R -> Seq(T)] /\ progEncolados' \in [R -> Seq(T)]
      /\ progEncolados'[r] = t /\ \A q \in R \ {r} : progEncolados'[q] = progEncolados[q]
  BY DEF ListasEnRegla
<1>2. s \in Seq(T) /\ t \in Seq(T) /\ DOMAIN s = 1..Len(s) /\ DOMAIN t = 1..Len(t)
  BY <1>1, LenProperties
<1>3. Encolado(p) = A \cup O
  <2>1. DOMAIN progEncolados = R /\ L(r) = I
    BY <1>1, <1>2
  <2>2. Encolado(p) = UNION {{q} \X L(q) : q \in R}
    BY <2>1 DEF Encolado
  <2> QED
    BY <2>1, <2>2
<1>4. Encolado(p)' = B \cup O
  <2> DEFINE M(q) == {i \in DOMAIN progEncolados'[q] : progEncolados'[q][i] = p}
  <2>1. DOMAIN progEncolados' = R /\ M(r) = J /\ \A q \in R \ {r} : M(q) = L(q)
    BY <1>1, <1>2
  <2>2. Encolado(p)' = UNION {{q} \X M(q) : q \in R}
    BY <2>1 DEF Encolado
  <2> QED
    BY <2>1, <2>2
<1>5. A \cap O = {} /\ B \cap O = {}
  OBVIOUS
<1>6. /\ IsFiniteSet(I) /\ Cardinality(I) = Veces(s, p)
      /\ IsFiniteSet(J) /\ Cardinality(J) = Veces(t, p)
      /\ Veces(s, p) \in Nat /\ Veces(t, p) \in Nat
  <2> HIDE DEF T, s
  <2> QED
    BY <1>2, VecesTipo DEF Veces
<1>7. IsFiniteSet(A) /\ IsFiniteSet(B) /\ Cardinality(A) = Cardinality(I)
      /\ Cardinality(B) = Cardinality(J)
  <2> HIDE DEF I, J
  <2>1. IsFiniteSet({r}) /\ Cardinality({r}) = 1
    BY FS_Singleton
  <2>2. /\ IsFiniteSet(A) /\ Cardinality(A) = 1 * Cardinality(I)
        /\ IsFiniteSet(B) /\ Cardinality(B) = 1 * Cardinality(J)
    BY <1>6, <2>1, FS_Product
  <2> QED
    BY <1>6, <2>2
<1>8. IsFiniteSet(Encolado(p)) /\ Cardinality(Encolado(p)) \in Nat
  BY EncoladoTipo
<1> HIDE DEF A, B, O, I, J, s
<1>9. IsFiniteSet(O)
  BY <1>3, <1>8, FS_Subset
<1>10. /\ Cardinality(A \cup O) = Cardinality(A) + Cardinality(O)
       /\ Cardinality(B \cup O) = Cardinality(B) + Cardinality(O)
       /\ Cardinality(O) \in Nat
  <2>1. /\ Cardinality(A \cup O) = Cardinality(A) + Cardinality(O) - Cardinality(A \cap O)
        /\ Cardinality(B \cup O) = Cardinality(B) + Cardinality(O) - Cardinality(B \cap O)
    BY <1>7, <1>9, FS_Union
  <2>2. Cardinality(A \cap O) = 0 /\ Cardinality(B \cap O) = 0
    BY <1>5, FS_EmptySet
  <2>3. Cardinality(O) \in Nat /\ Cardinality(A) \in Nat /\ Cardinality(B) \in Nat
    BY <1>7, <1>9, FS_CardinalityType
  <2> QED
    BY <2>1, <2>2, <2>3
<1>11. Cardinality(Encolado(p)') = Cardinality(J) + Cardinality(O)
       /\ Cardinality(Encolado(p)) = Cardinality(I) + Cardinality(O)
  BY <1>3, <1>4, <1>7, <1>10
<1> QED
  BY <1>6, <1>8, <1>10, <1>11 DEF s

-----------------------------------------------------------------------------
(* The invariant: where the programs are. *)

Final(p) == Len(Codigo[p])

\* The program has ended, or its thread is ending it.
Acabado(p) ==
  \/ \E i \in 1..Len(exitProcesos) : exitProcesos[i] = p
  \/ \E c \in CPUs : hilo[c].paso = "exitSacar" /\ hilo[c].prog = p
  \/ \E c \in CPUs : hilo[c].paso = "exitAgregar" /\ hilo[c].otro = p

\* The PCB of a program is its own, and can be executed if the program goes on.
PcbsEnRegla == \A p \in Programas : pcb[p].pid = p /\ (pcb[p].pc < Final(p) \/ Acabado(p))

\* UnSoloLugar, and no thread answers for a program that is not in EXEC.
EnSuLugar(p) ==
  /\ Cardinality(Duenos(p)) <= Veces(listaExec, p)
  /\ Veces(listaReady, p) + Veces(listaExec, p) + Veces(exitProcesos, p)
       + Cardinality(Encolado(p)) + Cardinality(EnManos(p)) + Cardinality(Llevan(p))
     = 1 + Cardinality(EntreDosListas(p))
Lugares == \A p \in 1..admitidos : EnSuLugar(p)

\* A device has a post, made, taken or owed, for each program in its queue.
DispContado ==
  \A d \in Dispositivos :
    Len(progEncolados[d]) =
      semaforoDisp[d] + Uno(dispositivo[d].paso = "sacar") + Cardinality(Mandan(d))

Puestos == PcbsEnRegla /\ Lugares /\ DispContado

\* The same of the next state, place by place.
LEMMA LugarLuego ==
  ASSUME NEW p
  PROVE  EnSuLugar(p)' <=>
           /\ Cardinality(Duenos(p)') <= Veces(listaExec', p)
           /\ Veces(listaReady', p) + Veces(listaExec', p) + Veces(exitProcesos', p)
                + Cardinality(Encolado(p)') + Cardinality(EnManos(p)') + Cardinality(Llevan(p)')
              = 1 + Cardinality(EntreDosListas(p)')
BY DEF EnSuLugar, Veces

\* Where a thread answers for a program, and has not queued it, the program is in
\* EXEC and nowhere else, and no other such thread has it.
LEMMA Unico ==
  ASSUME ListasEnRegla, Lugares, NEW c \in CPUs, hilo[c].paso \in PasosDueno \ {"ioSacar"},
         hilo[c].prog \in 1..admitidos
  PROVE  LET p == hilo[c].prog
         IN  /\ Veces(listaReady, p) = 0 /\ Veces(exitProcesos, p) = 0
             /\ Cardinality(Encolado(p)) = 0 /\ Cardinality(Llevan(p)) = 0
             /\ Veces(listaExec, p) = 1 + Cardinality(EntreDosListas(p))
             /\ \A x \in CPUs : Dueno(hilo[x], p) /\ x # c => hilo[x].paso = "ioSacar"
<1> DEFINE p == hilo[c].prog
           I == EntreDosListas(p)
           O == Duenos(p)
<1>1. /\ IsFiniteSet(O) /\ I \subseteq O /\ c \in O /\ c \notin I
      /\ \A x \in O : x \in I <=> hilo[x].paso = "ioSacar"
      /\ \A x \in CPUs : Dueno(hilo[x], p) <=> x \in O
  <2>1. IsFiniteSet(O)
    BY ParametrosConexion, FS_Subset DEF Duenos
  <2>2. \A x : x \in O <=> x \in CPUs /\ hilo[x].paso \in PasosDueno /\ hilo[x].prog = p
    BY DEF Duenos, Dueno
  <2>3. \A x : x \in I <=> x \in CPUs /\ hilo[x].paso = "ioSacar" /\ hilo[x].prog = p
    BY DEF EntreDosListas, HilosEn
  <2>4. "ioSacar" \in PasosDueno
    BY DEF PasosDueno
  <2> QED
    BY <2>1, <2>2, <2>3, <2>4 DEF Dueno
<1>2. /\ Veces(listaReady, p) \in Nat /\ Veces(listaExec, p) \in Nat
      /\ Veces(exitProcesos, p) \in Nat
      /\ Cardinality(Encolado(p)) \in Nat /\ Cardinality(EnManos(p)) \in Nat
      /\ Cardinality(Llevan(p)) \in Nat
  <2>1. Cardinality(Llevan(p)) \in Nat
    <3>1. Llevan(p) \subseteq CPUs
      BY DEF Llevan, HilosEn
    <3> QED
      BY <3>1, ParametrosConexion, FS_Subset, FS_CardinalityType
  <2> QED
    BY <2>1, ListaTipo, EncoladoTipo, ManosTipo
<1>3. EnSuLugar(p)
  BY DEF Lugares
<1> HIDE DEF I, O
<1>4. IsFiniteSet(I) /\ Cardinality(I) \in Nat /\ Cardinality(O) \in Nat
  BY <1>1, FS_Subset, FS_CardinalityType
<1>5. Cardinality(I \cup {c}) = Cardinality(I) + 1 /\ IsFiniteSet(I \cup {c})
  BY <1>1, <1>4, FS_AddElement
<1>6. I \cup {c} \subseteq O /\ Cardinality(I \cup {c}) <= Cardinality(O)
      /\ (Cardinality(I \cup {c}) = Cardinality(O) => I \cup {c} = O)
  <2>1. I \cup {c} \subseteq O
    BY <1>1
  <2> QED
    BY <2>1, <1>1, FS_Subset
<1>7. /\ Cardinality(O) <= Veces(listaExec, p)
      /\ Veces(listaReady, p) + Veces(listaExec, p) + Veces(exitProcesos, p)
           + Cardinality(Encolado(p)) + Cardinality(EnManos(p)) + Cardinality(Llevan(p))
         = 1 + Cardinality(I)
  BY <1>3 DEF EnSuLugar, I, O
<1>8. /\ Veces(listaReady, p) = 0 /\ Veces(exitProcesos, p) = 0
      /\ Cardinality(Encolado(p)) = 0 /\ Cardinality(Llevan(p)) = 0
      /\ Veces(listaExec, p) = 1 + Cardinality(I)
      /\ Cardinality(O) = Cardinality(I) + 1
  BY <1>2, <1>4, <1>5, <1>6, <1>7
<1>9. I \cup {c} = O
  BY <1>5, <1>6, <1>8
<1>10. \A x \in CPUs : Dueno(hilo[x], p) /\ x # c => hilo[x].paso = "ioSacar"
  BY <1>1, <1>9
<1> QED
  BY <1>8, <1>10 DEF I

\* A program in EXEC is found there by its pid.
LEMMA EstaEnExec ==
  ASSUME ListasEnRegla, PcbsEnRegla, NEW p \in 1..admitidos
  PROVE  /\ \A i \in EnExec(p) : i \in 1..Len(listaExec) /\ listaExec[i] = p
         /\ EnExec(p) = {} => Veces(listaExec, p) = 0
<1> DEFINE T == 1..admitidos
<1>1. listaExec \in Seq(T) /\ T \subseteq Programas /\ Len(listaExec) \in Nat
  BY LenProperties, ParametrosConexion DEF ListasEnRegla, Pids, Programas, Nadie
<1>2. \A i \in 1..Len(listaExec) : listaExec[i] \in Programas
  BY <1>1, ElementOfSeq
<1>3. \A i \in 1..Len(listaExec) : pcb[listaExec[i]].pid = listaExec[i]
  BY <1>2 DEF PcbsEnRegla
<1>4. EnExec(p) = {i \in 1..Len(listaExec) :
                     listaExec[i] = p /\ \A j \in 1..(i - 1) : listaExec[j] # p}
  <2>1. ASSUME NEW i \in 1..Len(listaExec), NEW j \in 1..(i - 1)
        PROVE  pcb[listaExec[j]].pid = listaExec[j]
    BY <1>1, <1>3
  <2> QED
    BY <1>3, <2>1 DEF EnExec
<1>5. ASSUME Veces(listaExec, p) # 0 PROVE EnExec(p) # {}
  <2> DEFINE P == {i \in 1..Len(listaExec) : listaExec[i] = p}
  <2>1. PICK i \in 1..Len(listaExec) : listaExec[i] = p
    <3> HIDE DEF T
    <3> QED
      BY <1>1, <1>5, VecesTipo
  <2>2. P # {} /\ P \in SUBSET Nat
    BY <2>1
  <2>3. PICK k \in P : \A m \in P : k <= m
    <3> HIDE DEF P
    <3> QED
      BY <2>2, PrimerNatural
  <2>4. k \in EnExec(p)
    BY <2>3, <1>1, <1>4
  <2> QED
    BY <2>4
<1> QED
  BY <1>4, <1>5

-----------------------------------------------------------------------------
(* The protocol: what a CPU and its channels are at when its thread is at a  *)
(* step.                                                                     *)

\* The CPU has nothing more to say about the program it had.
Ociosa(c) ==
  \/ cpu[c].paso = "recibirPcb"
  \/ /\ cpu[c].paso = "ejecutar"
     /\ cpu[c].estadoRafaga \in {"entradaSalidaKernel", "waitPcbBloqueado", "exception"}

\* It executes the program of its thread, or waits for an answer to it.
Ejecuta(c) ==
  /\ cpu[c].paso = "ejecutar"
  /\ cpu[c].estadoRafaga \in {"notificarPorFinRafaga", "notificarPorFinPrograma"}
  /\ cpu[c].pid = hilo[c].prog
Pregunta(c) == cpu[c].paso = "respuesta" /\ cpu[c].pid = hilo[c].prog
EnWait(c) == cpu[c].paso = "respuesta" /\ LineaActual(c).op = "wait"

Pedido(c) ==
  LET l == LineaActual(c)
  IN  CASE l.op = "consulta" -> Mensaje("consulta", l.nombre, Nadie, 0)
        [] l.op = "wait" -> Mensaje("waitKernel", l.nombre, cpu[c].pid, cpu[c].pc)
        [] l.op = "signal" -> Mensaje("signalKernel", l.nombre, Nadie, 0)

\* m ends the burst of program p; if it can go on, m has the PCB it goes on with.
Devuelve(c, m, p) ==
  /\ m.op \in {"entradaSalidaKernel", "notificarPorFinRafaga",
               "notificarPorFinPrograma", "exception"}
  /\ m.op \in {"entradaSalidaKernel", "notificarPorFinRafaga"} =>
       m.pid = p /\ m.pc = cpu[c].pc /\ cpu[c].pid = p
  /\ \/ m.op = "notificarPorFinRafaga"
     \/ m.op = "entradaSalidaKernel" /\ m.nombre \in Dispositivos
     => m.pc < Final(p)

EsPcb(m, p) == m.op = "atendeProceso" /\ m.pid = p /\ m.pc < Final(p)
Rechazos == {Respuesta("bloquear"), Respuesta("terminar")}

\* The answer with which the thread went on to another program, not yet read.
TrasWait(c) == EnWait(c) /\ \E a \in Rechazos : haciaCpu[c] = <<a>>

PasosLibres == {"esperar", "sacar", "cargar", "enviar", "null"}
PasosPedido == PasosWait \cup PasosSignal \cup {"consulta", "waitInexistente", "signalInexistente"}
PasosFin == PasosIo \cup {"recargarSacar", "recargarReady", "recargarPost", "exitSacar", "exitAgregar"}

FaseLibre(c) ==
  hilo[c].paso \in PasosLibres =>
    /\ haciaKernel[c] = <<>>
    /\ \/ Ociosa(c) /\ haciaCpu[c] = <<>>
       \/ TrasWait(c)

FaseFin(c) ==
  hilo[c].paso \in PasosFin =>
    /\ Ociosa(c) /\ haciaCpu[c] = <<>> /\ haciaKernel[c] = <<>>
    /\ hilo[c].msg.op # "desconexion"
    /\ hilo[c].paso = "ioPcb" => hilo[c].msg.op = "entradaSalidaKernel"
    /\ hilo[c].paso = "recargarSacar" => hilo[c].msg.op = "notificarPorFinRafaga"
    /\ hilo[c].paso \in {"ioPcb", "recargarSacar"} => Devuelve(c, hilo[c].msg, hilo[c].prog)
    /\ hilo[c].paso \in {"ioEncolar", "ioSacar", "ioPost"} => hilo[c].msg.nombre \in Dispositivos

FasePedido(c) ==
  hilo[c].paso \in PasosPedido =>
    /\ Pregunta(c) /\ haciaCpu[c] = <<>> /\ haciaKernel[c] = <<>>
    /\ hilo[c].msg = Pedido(c)
    /\ hilo[c].paso = "consulta" => LineaActual(c).op = "consulta"
    /\ hilo[c].paso \in PasosWait => LineaActual(c).op = "wait" /\ LineaActual(c).nombre \in Semaforos
    /\ hilo[c].paso = "waitInexistente" => LineaActual(c).op = "wait"
    /\ hilo[c].paso \in PasosSignal => LineaActual(c).op = "signal" /\ LineaActual(c).nombre \in Semaforos
    /\ hilo[c].paso = "signalInexistente" => LineaActual(c).op = "signal"

\* While the thread is in recv:
Dada(c) == \* it has sent the PCB,
  /\ haciaKernel[c] = <<>>
  /\ \/ /\ Ociosa(c)
        /\ Len(haciaCpu[c]) = 1 /\ EsPcb(haciaCpu[c][1], hilo[c].prog)
     \/ /\ EnWait(c)
        /\ Len(haciaCpu[c]) = 2 /\ haciaCpu[c][1] \in Rechazos
        /\ EsPcb(haciaCpu[c][2], hilo[c].prog)
Perdida(c) == \* which two messages in one recv may have lost;
  Ociosa(c) /\ haciaCpu[c] = <<>> /\ haciaKernel[c] = <<>>
Corre(c) == \* the CPU executes,
  Ejecuta(c) /\ haciaCpu[c] = <<>> /\ haciaKernel[c] = <<>>
Pide(c) == \* has asked,
  Pregunta(c) /\ haciaCpu[c] = <<>> /\ haciaKernel[c] = <<Pedido(c)>>
Contestada(c) == \* has been answered
  /\ Pregunta(c) /\ haciaKernel[c] = <<>>
  /\ \E op \in {"continuar", "terminar"} :
       /\ haciaCpu[c] = <<Respuesta(op)>>
       /\ op = "continuar" => cpu[c].pc < Final(cpu[c].pid)
       /\ op = "terminar" => LineaActual(c).op # "wait"
Devuelta(c) == \* or has given the program back.
  /\ Ociosa(c) /\ haciaCpu[c] = <<>>
  /\ Len(haciaKernel[c]) = 1 /\ Devuelve(c, haciaKernel[c][1], hilo[c].prog)

FaseRecibir(c) ==
  hilo[c].paso = "recibir" =>
    Dada(c) \/ Perdida(c) \/ Corre(c) \/ Pide(c) \/ Contestada(c) \/ Devuelta(c)

FaseCpu(c) ==
  /\ conectada[c]
  /\ cpu[c].paso \in {"recibirPcb", "ejecutar", "respuesta"}
  /\ cpu[c].fallas = 0
  /\ cpu[c].paso # "recibirPcb" =>
       cpu[c].pid \in Programas /\ cpu[c].pc \in 0..Final(cpu[c].pid)
  /\ cpu[c].paso = "ejecutar" /\ cpu[c].estadoRafaga = "notificarPorFinRafaga" =>
       cpu[c].pc < Final(cpu[c].pid)
  /\ cpu[c].paso = "respuesta" =>
       /\ cpu[c].pc > 0 /\ cpu[c].i < Quantum
       /\ cpu[c].estadoRafaga = "notificarPorFinRafaga"
       /\ LineaActual(c).op \in {"consulta", "wait", "signal"}

Fase(c) ==
  /\ hilo[c].paso # "terminado"
  /\ FaseLibre(c) /\ FaseFin(c) /\ FasePedido(c) /\ FaseRecibir(c) /\ FaseCpu(c)
Protocolo == \A c \in CPUs : Fase(c)

-----------------------------------------------------------------------------
(* Lines of the programs. *)

\* A line that does not end its program is not the last.
LEMMA LineaEnRegla ==
  ASSUME ProgramasEnRegla, NEW p \in Programas, NEW n \in 1..Final(p)
  PROVE  /\ Final(p) \in Nat
         /\ Codigo[p][n].op \in Operaciones /\ Codigo[p][n].nombre \in Nombres
         /\ Codigo[p][n].fallas \in Nat
         /\ Codigo[p][n].op = "falla" => Codigo[p][n].fallas = 1
         /\ ~Ultima(Codigo[p][n]) => n < Final(p)
<1> DEFINE T == [op : Operaciones, nombre : Nombres, fallas : Nat]
           s == Codigo[p]
<1>1. /\ s \in Seq(T) /\ s # <<>> /\ Ultima(s[Len(s)])
      /\ \A i \in DOMAIN s : s[i].op = "falla" => s[i].fallas = 1
  BY DEF ProgramasEnRegla
<1>2. Len(s) \in Nat /\ DOMAIN s = 1..Len(s) /\ n \in 1..Len(s) /\ s[n] \in T
  <2>1. n \in 1..Len(s)
    BY DEF Final
  <2> HIDE DEF T, s
  <2> QED
    BY <1>1, <2>1, LenProperties, ElementOfSeq
<1>3. ~Ultima(s[n]) => n # Len(s)
  BY <1>1
<1> QED
  BY <1>1, <1>2, <1>3 DEF Final

\* Every program has a line.
LEMMA HayLinea ==
  ASSUME ProgramasEnRegla, NEW p \in Programas
  PROVE  Final(p) \in Nat \ {0}
<1> DEFINE T == [op : Operaciones, nombre : Nombres, fallas : Nat]
<1>1. Codigo[p] \in Seq(T) /\ Codigo[p] # <<>>
  BY DEF ProgramasEnRegla
<1> HIDE DEF T
<1> QED
  BY <1>1, EmptySeq, LenProperties DEF Final

-----------------------------------------------------------------------------
(* What a step leaves alone. *)

\* A CPU and a thread that do not step keep their part of the protocol.
LEMMA FaseIgual ==
  ASSUME NEW x \in CPUs, Fase(x), hilo'[x] = hilo[x], cpu'[x] = cpu[x],
         haciaCpu'[x] = haciaCpu[x], haciaKernel'[x] = haciaKernel[x],
         conectada'[x] = conectada[x]
  PROVE  Fase(x)'
<1>1. Pedido(x)' = Pedido(x) /\ LineaActual(x)' = LineaActual(x)
  BY DEF Pedido, LineaActual
<1>2. /\ Ociosa(x)' <=> Ociosa(x)
      /\ Ejecuta(x)' <=> Ejecuta(x)
      /\ Pregunta(x)' <=> Pregunta(x)
      /\ EnWait(x)' <=> EnWait(x)
  BY <1>1 DEF Ociosa, Ejecuta, Pregunta, EnWait
<1>3. /\ Dada(x)' <=> Dada(x)
      /\ Perdida(x)' <=> Perdida(x)
      /\ Corre(x)' <=> Corre(x)
      /\ Pide(x)' <=> Pide(x)
      /\ Contestada(x)' <=> Contestada(x)
      /\ Devuelta(x)' <=> Devuelta(x)
      /\ TrasWait(x)' <=> TrasWait(x)
  <2>1. Dada(x)' <=> Dada(x)
    BY <1>2 DEF Dada, EsPcb
  <2>2. Perdida(x)' <=> Perdida(x)
    BY <1>2 DEF Perdida
  <2>3. Corre(x)' <=> Corre(x)
    BY <1>2 DEF Corre
  <2>4. Pide(x)' <=> Pide(x)
    BY <1>1, <1>2 DEF Pide
  <2>5. Contestada(x)' <=> Contestada(x)
    BY <1>1, <1>2 DEF Contestada
  <2>6. Devuelta(x)' <=> Devuelta(x)
    BY <1>2 DEF Devuelta, Devuelve
  <2>7. TrasWait(x)' <=> TrasWait(x)
    BY <1>2 DEF TrasWait
  <2> QED
    BY <2>1, <2>2, <2>3, <2>4, <2>5, <2>6, <2>7
<1>4. FaseCpu(x)'
  BY <1>1 DEF Fase, FaseCpu
<1>5. FaseLibre(x)' /\ FaseRecibir(x)'
  BY <1>2, <1>3 DEF Fase, FaseLibre, FaseRecibir
<1>6. FaseFin(x)'
  BY <1>2 DEF Fase, FaseFin, Devuelve
<1>7. FasePedido(x)'
  BY <1>1, <1>2 DEF Fase, FasePedido
<1>8. hilo'[x].paso # "terminado"
  BY DEF Fase
<1> QED
  BY <1>4, <1>5, <1>6, <1>7, <1>8 DEF Fase

\* A thread at one of these steps has nothing in its hands, nor in two lists, and
\* is not ending a program.
PasosSueltos ==
  PasosHilo \ {"cargar", "waitEncolar", "signalReady", "recargarReady", "exitAgregar",
               "ioSacar", "ioPost", "exitSacar"}

\* A program that ended stays so, unless a thread that was ending it steps.
LEMMA AcabadoSigue ==
  ASSUME ListasEnRegla, NEW c \in CPUs, Otros(c), UNCHANGED exitProcesos,
         hilo[c].paso \notin {"exitSacar", "exitAgregar"}, NEW p, Acabado(p)
  PROVE  Acabado(p)'
<1>1. CASE \E i \in 1..Len(exitProcesos) : exitProcesos[i] = p
  BY <1>1 DEF Acabado
<1>2. ASSUME NEW x \in CPUs, hilo[x].paso \in {"exitSacar", "exitAgregar"} PROVE hilo'[x] = hilo[x]
  BY <1>2 DEF Otros
<1>3. CASE \E x \in CPUs : hilo[x].paso = "exitSacar" /\ hilo[x].prog = p
  BY <1>2, <1>3 DEF Acabado
<1>4. CASE \E x \in CPUs : hilo[x].paso = "exitAgregar" /\ hilo[x].otro = p
  BY <1>2, <1>4 DEF Acabado
<1> QED
  BY <1>1, <1>3, <1>4 DEF Acabado

\* A step of a thread that moves no program and changes no PCB.
LEMMA Sereno ==
  ASSUME ListasEnRegla, Puestos, NEW c \in CPUs, Otros(c),
         hilo'[c].prog = hilo[c].prog,
         hilo[c].paso \in PasosSueltos, hilo'[c].paso \in PasosSueltos \cup {"exitSacar"},
         hilo'[c].paso \in PasosDueno => hilo[c].paso \in PasosDueno,
         UNCHANGED <<admitidos, listaReady, listaExec, exitProcesos, pcb, progEncolados,
                     semaforoDisp, dispositivo>>
  PROVE  ListasEnRegla' /\ Puestos'
<1>1. ListasEnRegla'
  BY DEF ListasEnRegla
<1>2. PcbsEnRegla'
  <2>1. \A p : Acabado(p) => Acabado(p)'
    BY AcabadoSigue DEF PasosSueltos
  <2> QED
    BY <2>1 DEF Puestos, PcbsEnRegla
<1>3. ASSUME NEW p \in 1..admitidos PROVE EnSuLugar(p)'
  <2>1. /\ Lleva(hilo[c], p) = FALSE /\ Lleva(hilo'[c], p) = FALSE
        /\ Entre(hilo[c], p) = FALSE /\ Entre(hilo'[c], p) = FALSE
        /\ Dueno(hilo'[c], p) => Dueno(hilo[c], p)
    BY DEF PasosSueltos, Lleva, Entre, Dueno
  <2>2. /\ Cardinality(Llevan(p)') = Cardinality(Llevan(p))
        /\ Cardinality(EntreDosListas(p)') = Cardinality(EntreDosListas(p))
        /\ Cardinality(Duenos(p)') <= Cardinality(Duenos(p))
        /\ Cardinality(Duenos(p)) \in Nat /\ Cardinality(Duenos(p)') \in Int
    BY <2>1, HiloCuenta DEF Uno
  <2>3. /\ Encolado(p)' = Encolado(p) /\ EnManos(p)' = EnManos(p)
    BY DEF Encolado, EnManos
  <2>4. EnSuLugar(p)
    BY DEF Puestos, Lugares
  <2>5. Veces(listaExec, p) \in Nat
    BY ListaTipo
  <2>6. Cardinality(Duenos(p)') <= Veces(listaExec, p)
    BY <2>2, <2>4, <2>5 DEF EnSuLugar
  <2> QED
    BY <2>2, <2>3, <2>4, <2>6, LugarLuego DEF EnSuLugar
<1>4. Lugares'
  BY <1>3 DEF Lugares
<1>5. ASSUME NEW d \in Dispositivos PROVE Cardinality(Mandan(d)') = Cardinality(Mandan(d))
  <2>1. Manda(hilo[c], d) = FALSE /\ Manda(hilo'[c], d) = FALSE
    BY DEF PasosSueltos, Manda
  <2> QED
    BY <2>1, HiloCuenta DEF Uno
<1>6. DispContado'
  <2>1. \A d : Cardinality(Mandan(d))' = Cardinality(Mandan(d)')
    BY DEF Mandan
  <2>2. \A d \in Dispositivos :
          Len(progEncolados[d]) =
            semaforoDisp[d] + Uno(dispositivo[d].paso = "sacar") + Cardinality(Mandan(d))
    BY DEF Puestos, DispContado
  <2> QED
    BY <1>5, <2>2 DEF DispContado
<1> QED
  BY <1>1, <1>2, <1>4, <1>6 DEF Puestos

-----------------------------------------------------------------------------
(* The protocol: steps of the thread. *)

\* What is left of a channel of one message, or of two, after a recv.
LEMMA RestosDeUno ==
  ASSUME NEW T, NEW s \in Seq(T), Len(s) = 1
  PROVE  /\ s # <<>> /\ s[1] \in T /\ Head(s) = s[1]
         /\ \A r \in Restos(s) : r = <<>>
<1>1. s # <<>> /\ s[1] \in T /\ Head(s) = s[1]
  BY HeadTailProperties, ElementOfSeq
<1>2. ASSUME NEW r \in Restos(s) PROVE r = <<>>
  <2>1. PICK n \in 1..MaxFusion : n <= 1 /\ r = SubSeq(s, n + 1, Len(s))
    BY <1>2 DEF Restos
  <2>2. r = SubSeq(s, 2, 1)
    BY <2>1, ParametrosConexion
  <2> QED
    BY <2>2, SubSeqProperties, EmptySeq
<1> QED
  BY <1>1, <1>2

\* The same of two: the second is left, or lost.
LEMMA RestosDeDos ==
  ASSUME NEW T, NEW s \in Seq(T), Len(s) = 2
  PROVE  /\ s # <<>> /\ s[1] \in T /\ s[2] \in T /\ Head(s) = s[1]
         /\ \A r \in Restos(s) : r = <<>> \/ (r \in Seq(T) /\ Len(r) = 1 /\ r[1] = s[2])
<1>1. s # <<>> /\ s[1] \in T /\ s[2] \in T /\ Head(s) = s[1]
  BY HeadTailProperties, ElementOfSeq
<1>2. ASSUME NEW r \in Restos(s)
      PROVE  r = <<>> \/ (r \in Seq(T) /\ Len(r) = 1 /\ r[1] = s[2])
  <2>1. PICK n \in 1..MaxFusion : n <= 2 /\ r = SubSeq(s, n + 1, Len(s))
    BY <1>2 DEF Restos
  <2>2. r = SubSeq(s, 2, 2) \/ r = SubSeq(s, 3, 2)
    BY <2>1, ParametrosConexion
  <2>3. CASE r = SubSeq(s, 2, 2)
    <3>1. \A i \in 2..2 : s[i] \in T
      BY <1>1
    <3> QED
      BY <2>3, <3>1, SubSeqProperties
  <2>4. CASE r = SubSeq(s, 3, 2)
    BY <2>4, SubSeqProperties, EmptySeq
  <2> QED
    BY <2>2, <2>3, <2>4
<1> QED
  BY <1>1, <1>2

\* A CPU that is not disturbed is where it was, if its thread goes on with its
\* program.
LEMMA CpuQuieta ==
  ASSUME NEW c \in CPUs, UNCHANGED cpu
  PROVE  /\ LineaActual(c)' = LineaActual(c) /\ Pedido(c)' = Pedido(c)
         /\ Ociosa(c)' <=> Ociosa(c)
         /\ EnWait(c)' <=> EnWait(c)
         /\ hilo'[c].prog = hilo[c].prog => (Pregunta(c)' <=> Pregunta(c))
         /\ hilo'[c].prog = hilo[c].prog => (Ejecuta(c)' <=> Ejecuta(c))
         /\ UNCHANGED conectada /\ Fase(c) => FaseCpu(c)'
<1>1. LineaActual(c)' = LineaActual(c) /\ Pedido(c)' = Pedido(c)
  BY DEF LineaActual, Pedido
<1> QED
  BY <1>1 DEF Ociosa, EnWait, Pregunta, Ejecuta, Devuelve, Fase, FaseCpu

\* A thread that goes on to the dispatch, or within it.
LEMMA FaseDespacho ==
  ASSUME NEW c \in CPUs, Fase(c), UNCHANGED <<canales, cpu>>,
         hilo[c].paso \in PasosLibres \cup PasosFin, hilo'[c].paso \in PasosLibres
  PROVE  Fase(c)'
<1>1. (Ociosa(c)' <=> Ociosa(c)) /\ (EnWait(c)' <=> EnWait(c)) /\ FaseCpu(c)'
  BY CpuQuieta DEF canales
<1>2. TrasWait(c)' <=> TrasWait(c)
  BY <1>1 DEF TrasWait, canales
<1>3. FaseLibre(c)'
  BY <1>1, <1>2 DEF Fase, FaseLibre, FaseFin, canales
<1>4. /\ hilo'[c].paso \notin PasosFin /\ hilo'[c].paso \notin PasosPedido
      /\ hilo'[c].paso # "recibir" /\ hilo'[c].paso # "terminado"
  BY DEF PasosLibres, PasosFin, PasosPedido, PasosWait, PasosSignal, PasosIo
<1> QED
  BY <1>1, <1>3, <1>4 DEF Fase, FaseFin, FasePedido, FaseRecibir

\* A thread that goes on with a wait or a signal.
LEMMA FaseSemaforo ==
  ASSUME NEW c \in CPUs, Fase(c), UNCHANGED <<canales, cpu>>,
         hilo'[c].prog = hilo[c].prog, hilo'[c].msg = hilo[c].msg,
         \/ hilo[c].paso \in PasosWait /\ hilo'[c].paso \in PasosWait
         \/ hilo[c].paso \in PasosSignal /\ hilo'[c].paso \in PasosSignal
  PROVE  Fase(c)'
<1>1. /\ Pregunta(c)' <=> Pregunta(c)
      /\ Pedido(c)' = Pedido(c)
      /\ LineaActual(c)' = LineaActual(c) /\ FaseCpu(c)'
  BY CpuQuieta DEF canales
<1>2. /\ hilo'[c].paso \notin PasosFin /\ hilo'[c].paso \notin PasosLibres
      /\ hilo'[c].paso \notin {"recibir", "terminado", "consulta", "waitInexistente",
                               "signalInexistente"}
      /\ hilo[c].paso \in PasosPedido
      /\ hilo[c].paso \in PasosWait <=> hilo'[c].paso \in PasosWait
      /\ hilo[c].paso \in PasosSignal <=> hilo'[c].paso \in PasosSignal
  BY DEF PasosLibres, PasosFin, PasosPedido, PasosWait, PasosSignal, PasosIo
<1>3. FasePedido(c)'
  BY <1>1, <1>2 DEF Fase, FasePedido, canales
<1> QED
  BY <1>1, <1>2, <1>3 DEF Fase, FaseFin, FaseLibre, FaseRecibir

\* A thread that goes on with a program that was given back.
LEMMA FaseDevuelta ==
  ASSUME NEW c \in CPUs, Fase(c), UNCHANGED <<canales, cpu>>,
         hilo[c].paso \in PasosFin, hilo'[c].paso \in PasosFin \ {"ioPcb", "recargarSacar"},
         hilo'[c].msg = hilo[c].msg,
         hilo'[c].paso \in {"ioEncolar", "ioSacar", "ioPost"} =>
           hilo'[c].msg.nombre \in Dispositivos
  PROVE  Fase(c)'
<1>1. (Ociosa(c)' <=> Ociosa(c)) /\ FaseCpu(c)'
  BY CpuQuieta DEF canales
<1>2. /\ hilo'[c].paso \notin PasosPedido /\ hilo'[c].paso \notin PasosLibres
      /\ hilo'[c].paso # "recibir" /\ hilo'[c].paso # "terminado"
  BY DEF PasosLibres, PasosFin, PasosPedido, PasosWait, PasosSignal, PasosIo
<1>3. FaseFin(c)'
  BY <1>1 DEF Fase, FaseFin, canales
<1> QED
  BY <1>1, <1>2, <1>3 DEF Fase, FasePedido, FaseLibre, FaseRecibir

\* A thread that answers a request.
LEMMA FaseRespuesta ==
  ASSUME ProgramasEnRegla, CanalesEnRegla, CpusEnRegla, NEW c \in CPUs, Fase(c),
         UNCHANGED <<haciaKernel, conectada, cpu>>,
         hilo'[c].prog = hilo[c].prog, hilo[c].paso \in PasosPedido,
         NEW op, Responder(c, Respuesta(op)),
         \/ /\ hilo'[c].paso = "recibir" /\ op \in {"continuar", "terminar"}
            /\ op = "continuar" => hilo[c].paso \notin {"waitInexistente", "signalInexistente"}
            /\ op = "terminar" => hilo[c].paso \notin PasosWait \cup {"waitInexistente"}
         \/ /\ hilo'[c].paso = "esperar" /\ op \in {"bloquear", "terminar"}
            /\ hilo[c].paso \in PasosWait \cup {"waitInexistente"}
  PROVE  Fase(c)' /\ CanalesEnRegla'
<1> DEFINE a == Respuesta(op)
           l == LineaActual(c)
<1>1. /\ Pregunta(c)' <=> Pregunta(c)
      /\ EnWait(c)' <=> EnWait(c)
      /\ LineaActual(c)' = LineaActual(c) /\ FaseCpu(c)'
  BY CpuQuieta
<1>2. /\ FaseCpu(c) /\ Pregunta(c) /\ haciaCpu[c] = <<>> /\ haciaKernel[c] = <<>>
      /\ hilo[c].paso \in PasosWait => l.op = "wait" /\ l.nombre \in Semaforos
      /\ hilo[c].paso = "waitInexistente" => l.op = "wait"
      /\ hilo[c].paso \in PasosSignal => l.op = "signal" /\ l.nombre \in Semaforos
      /\ hilo[c].paso = "signalInexistente" => l.op = "signal"
      /\ hilo[c].paso = "consulta" => l.op = "consulta"
  BY DEF Fase, FasePedido
<1>3. a \in Mensajes
  BY DEF Respuesta, Mensaje, Mensajes, Pids, SinNombre, DeKernel
<1>4. haciaCpu' = [haciaCpu EXCEPT ![c] = <<a>>] /\ haciaCpu'[c] = <<a>>
  <2>1. haciaCpu' = [haciaCpu EXCEPT ![c] = Append(haciaCpu[c], a)]
    BY <1>2 DEF Responder, EnviarACpu, FaseCpu
  <2>2. Append(<<>>, a) = <<a>>
    OBVIOUS
  <2> QED
    BY <1>2, <2>1, <2>2 DEF CanalesEnRegla
<1>5. CanalesEnRegla'
  <2>1. <<a>> \in Seq(Mensajes)
    BY <1>3
  <2> QED
    BY <1>4, <2>1 DEF CanalesEnRegla
<1>6. CASE hilo'[c].paso = "recibir"
  <2>1. /\ hilo'[c].paso \notin PasosFin /\ hilo'[c].paso \notin PasosLibres
        /\ hilo'[c].paso \notin PasosPedido /\ hilo'[c].paso # "terminado"
    BY <1>6 DEF PasosLibres, PasosFin, PasosPedido, PasosWait, PasosSignal, PasosIo
  <2>2. op = "continuar" => cpu[c].pc < Final(cpu[c].pid)
    <3> SUFFICES ASSUME op = "continuar" PROVE cpu[c].pc < Final(cpu[c].pid)
      OBVIOUS
    <3>1. ~Ultima(l)
      <4>1. hilo[c].paso \in PasosWait \cup PasosSignal \cup {"consulta"}
        BY <1>6 DEF PasosPedido
      <4> QED
        BY <1>2, <4>1 DEF Ultima
    <3>2. cpu[c].pid \in Programas /\ cpu[c].pc \in 0..Final(cpu[c].pid) /\ cpu[c].pc > 0
      BY <1>2 DEF Pregunta, FaseCpu
    <3>3. Final(cpu[c].pid) \in Nat
      BY <3>2, HayLinea
    <3>4. cpu[c].pc \in 1..Final(cpu[c].pid)
      BY <3>2, <3>3
    <3> QED
      BY <3>1, <3>2, <3>4, LineaEnRegla DEF LineaActual
  <2>3. op = "terminar" => l.op # "wait"
    BY <1>2, <1>6 DEF PasosPedido
  <2>4. Contestada(c)'
    BY <1>1, <1>2, <1>4, <1>6, <2>2, <2>3 DEF Contestada
  <2> QED
    BY <1>1, <1>5, <2>1, <2>4 DEF Fase, FaseFin, FasePedido, FaseLibre, FaseRecibir
<1>7. CASE hilo'[c].paso = "esperar"
  <2>1. /\ hilo'[c].paso \notin PasosFin /\ hilo'[c].paso # "recibir"
        /\ hilo'[c].paso \notin PasosPedido /\ hilo'[c].paso # "terminado"
    BY <1>7 DEF PasosLibres, PasosFin, PasosPedido, PasosWait, PasosSignal, PasosIo
  <2>2. EnWait(c) /\ a \in Rechazos
    BY <1>2, <1>7 DEF EnWait, Pregunta, Rechazos
  <2>3. TrasWait(c)'
    BY <1>1, <1>4, <2>2 DEF TrasWait
  <2> QED
    BY <1>1, <1>2, <1>5, <2>1, <2>3 DEF Fase, FaseFin, FasePedido, FaseLibre, FaseRecibir
<1> QED
  BY <1>5, <1>6, <1>7

\* A sequence of one message.
LEMMA UnMensaje ==
  ASSUME NEW T, NEW m \in T
  PROVE  <<m>> \in Seq(T) /\ Len(<<m>>) = 1 /\ <<m>>[1] = m
OBVIOUS

\* The same of two.
LEMMA DosMensajes ==
  ASSUME NEW T, NEW a \in T, NEW m \in T
  PROVE  /\ Append(<<a>>, m) \in Seq(T) /\ Len(Append(<<a>>, m)) = 2
         /\ Append(<<a>>, m)[1] = a /\ Append(<<a>>, m)[2] = m
OBVIOUS

\* The dispatch ends with the PCB of a program that goes on.
LEMMA FaseDada ==
  ASSUME CanalesEnRegla, NEW c \in CPUs, Fase(c), UNCHANGED <<haciaKernel, conectada, cpu>>,
         hilo[c].paso = "enviar", hilo'[c].paso = "recibir", hilo'[c].prog = hilo[c].prog,
         NEW m \in Mensajes, EsPcb(m, hilo[c].prog), Responder(c, m)
  PROVE  Fase(c)' /\ CanalesEnRegla'
<1>1. /\ Ociosa(c)' <=> Ociosa(c)
      /\ EnWait(c)' <=> EnWait(c)
      /\ FaseCpu(c)'
  BY CpuQuieta
<1>2. /\ haciaKernel[c] = <<>> /\ conectada[c]
      /\ (Ociosa(c) /\ haciaCpu[c] = <<>>) \/ TrasWait(c)
  BY DEF Fase, FaseLibre, FaseCpu, PasosLibres
<1>3. EsPcb(m, hilo[c].prog)' = EsPcb(m, hilo[c].prog)
  BY DEF EsPcb
<1>4. /\ hilo'[c].paso \notin PasosFin /\ hilo'[c].paso \notin PasosLibres
      /\ hilo'[c].paso \notin PasosPedido /\ hilo'[c].paso # "terminado"
  BY DEF PasosLibres, PasosFin, PasosPedido, PasosWait, PasosSignal, PasosIo
<1>5. haciaCpu' = [haciaCpu EXCEPT ![c] = Append(haciaCpu[c], m)]
  BY <1>2 DEF Responder, EnviarACpu
<1>6. Append(haciaCpu[c], m) \in Seq(Mensajes) /\ haciaCpu'[c] = Append(haciaCpu[c], m)
  <2>1. haciaCpu[c] \in Seq(Mensajes)
    BY DEF CanalesEnRegla
  <2>2. Append(haciaCpu[c], m) \in Seq(Mensajes)
    BY <2>1, ColaConUltimo
  <2> QED
    BY <1>5, <2>2 DEF CanalesEnRegla
<1>7. CanalesEnRegla'
  BY <1>5, <1>6 DEF CanalesEnRegla
<1>8. Dada(c)'
  <2>1. CASE Ociosa(c) /\ haciaCpu[c] = <<>>
    <3>1. haciaCpu'[c] = <<m>>
      BY <1>6, <2>1
    <3>2. Len(haciaCpu'[c]) = 1 /\ haciaCpu'[c][1] = m
      BY <3>1
    <3> QED
      BY <1>1, <1>2, <2>1, <3>2 DEF Dada, EsPcb
  <2>2. CASE TrasWait(c)
    <3>1. PICK a \in Rechazos : haciaCpu[c] = <<a>>
      BY <2>2 DEF TrasWait
    <3>2. Len(haciaCpu'[c]) = 2 /\ haciaCpu'[c][1] = a /\ haciaCpu'[c][2] = m
      BY <1>6, <3>1, DosMensajes
    <3> QED
      BY <1>1, <1>2, <2>2, <3>1, <3>2 DEF Dada, EsPcb, TrasWait, Rechazos
  <2> QED
    BY <1>2, <2>1, <2>2
<1> QED
  BY <1>1, <1>4, <1>7, <1>8 DEF Fase, FaseFin, FasePedido, FaseLibre, FaseRecibir

\* What the thread finds in the channel while it is in recv: one message, which is
\* a request for the line the CPU is at, or ends its burst.
LEMMA LoQueLlega ==
  ASSUME CanalesEnRegla, NEW c \in CPUs, Fase(c), hilo[c].paso = "recibir",
         haciaKernel[c] # <<>>
  PROVE  LET m == Head(haciaKernel[c])
         IN  /\ m \in Mensajes
             /\ \A r \in Restos(haciaKernel[c]) : r = <<>>
             /\ haciaCpu[c] = <<>>
             /\ \/ Pregunta(c) /\ m = Pedido(c)
                \/ Ociosa(c) /\ Devuelve(c, m, hilo[c].prog)
<1> DEFINE s == haciaKernel[c]
<1>1. Pide(c) \/ Devuelta(c)
  BY DEF Fase, FaseRecibir, Dada, Perdida, Corre, Contestada
<1>2. s \in Seq(Mensajes)
  BY DEF CanalesEnRegla
<1>3. Len(s) = 1 /\ haciaCpu[c] = <<>>
  <2>1. CASE Pide(c)
    BY <2>1 DEF Pide
  <2>2. CASE Devuelta(c)
    BY <2>2 DEF Devuelta
  <2> QED
    BY <1>1, <2>1, <2>2
<1> HIDE DEF s
<1>4. s[1] \in Mensajes /\ Head(s) = s[1] /\ \A r \in Restos(s) : r = <<>>
  BY <1>2, <1>3, RestosDeUno
<1>5. \/ Pregunta(c) /\ s[1] = Pedido(c)
      \/ Ociosa(c) /\ Devuelve(c, s[1], hilo[c].prog)
  BY <1>1 DEF Pide, Devuelta, s
<1> QED
  BY <1>3, <1>4, <1>5 DEF s

\* The thread goes to the step of the message it has received.
LEMMA FaseAtiende ==
  ASSUME CanalesEnRegla, NEW c \in CPUs, Fase(c), UNCHANGED <<haciaCpu, conectada, cpu>>,
         hilo[c].paso = "recibir", haciaKernel[c] # <<>>,
         NEW r \in Restos(haciaKernel[c]), haciaKernel' = [haciaKernel EXCEPT ![c] = r],
         hilo'[c].prog = hilo[c].prog, hilo'[c].msg = Head(haciaKernel[c]),
         hilo'[c].paso = PasoPara(Head(haciaKernel[c]))
  PROVE  Fase(c)' /\ CanalesEnRegla'
<1> DEFINE m == Head(haciaKernel[c])
           l == LineaActual(c)
<1>1. /\ Ociosa(c)' <=> Ociosa(c)
      /\ Pregunta(c)' <=> Pregunta(c)
      /\ LineaActual(c)' = LineaActual(c)
      /\ Pedido(c)' = Pedido(c)
      /\ FaseCpu(c)'
  BY CpuQuieta
<1>2. /\ r = <<>> /\ haciaCpu[c] = <<>>
      /\ \/ Pregunta(c) /\ m = Pedido(c)
         \/ Ociosa(c) /\ Devuelve(c, m, hilo[c].prog)
  BY LoQueLlega
<1>3. haciaKernel'[c] = <<>> /\ CanalesEnRegla'
  <2>1. <<>> \in Seq(Mensajes)
    BY EmptySeq
  <2> QED
    BY <1>2, <2>1 DEF CanalesEnRegla
<1> HIDE DEF m
<1>4. CASE Pregunta(c) /\ m = Pedido(c)
  <2>1. l.op \in {"consulta", "wait", "signal"}
    BY <1>4 DEF Fase, FaseCpu, Pregunta
  <2>2. /\ l.op = "consulta" => hilo'[c].paso = "consulta"
        /\ l.op = "wait" => hilo'[c].paso = (IF l.nombre \in Semaforos THEN "waitLeer"
                                           ELSE "waitInexistente")
        /\ l.op = "signal" => hilo'[c].paso = (IF l.nombre \in Semaforos THEN "signalLeer"
                                             ELSE "signalInexistente")
    <3>1. CASE l.op = "consulta"
      BY <1>4, <3>1 DEF m, Pedido, PasoPara, Mensaje
    <3>2. CASE l.op = "wait"
      <4>1. m.op = "waitKernel" /\ m.nombre = l.nombre
        BY <1>4, <3>2 DEF Pedido, Mensaje
      <4> QED
        BY <3>2, <4>1 DEF m, PasoPara
    <3>3. CASE l.op = "signal"
      <4>1. m.op = "signalKernel" /\ m.nombre = l.nombre
        BY <1>4, <3>3 DEF Pedido, Mensaje
      <4> QED
        BY <3>3, <4>1 DEF m, PasoPara
    <3> QED
      BY <2>1, <3>1, <3>2, <3>3
  <2>3. /\ hilo'[c].paso \in {"consulta", "waitLeer", "waitInexistente", "signalLeer",
                              "signalInexistente"}
        /\ hilo'[c].paso = "consulta" => l.op = "consulta"
        /\ hilo'[c].paso = "waitLeer" => l.op = "wait" /\ l.nombre \in Semaforos
        /\ hilo'[c].paso = "waitInexistente" => l.op = "wait"
        /\ hilo'[c].paso = "signalLeer" => l.op = "signal" /\ l.nombre \in Semaforos
        /\ hilo'[c].paso = "signalInexistente" => l.op = "signal"
    BY <2>1, <2>2
  <2>4. /\ hilo'[c].paso \notin PasosFin /\ hilo'[c].paso \notin PasosLibres
        /\ hilo'[c].paso # "recibir" /\ hilo'[c].paso # "terminado"
        /\ hilo'[c].paso \in PasosWait => hilo'[c].paso = "waitLeer"
        /\ hilo'[c].paso \in PasosSignal => hilo'[c].paso = "signalLeer"
    BY <2>3 DEF PasosLibres, PasosFin, PasosWait, PasosSignal, PasosIo
  <2>5. FasePedido(c)'
    BY <1>1, <1>2, <1>3, <1>4, <2>3, <2>4 DEF FasePedido, m
  <2> QED
    BY <1>1, <1>3, <2>4, <2>5 DEF Fase, FaseFin, FaseLibre, FaseRecibir
<1>5. CASE Ociosa(c) /\ Devuelve(c, m, hilo[c].prog)
  <2>1. /\ m.op = "entradaSalidaKernel" => hilo'[c].paso = "ioPcb"
        /\ m.op = "notificarPorFinRafaga" => hilo'[c].paso = "recargarSacar"
        /\ m.op \in {"notificarPorFinPrograma", "exception"} => hilo'[c].paso = "exitSacar"
    BY DEF m, PasoPara
  <2>2. m.op \in {"entradaSalidaKernel", "notificarPorFinRafaga",
                  "notificarPorFinPrograma", "exception"}
    BY <1>5 DEF Devuelve
  <2>3. /\ hilo'[c].paso \in {"ioPcb", "recargarSacar", "exitSacar"}
        /\ hilo'[c].paso = "ioPcb" => m.op = "entradaSalidaKernel"
        /\ hilo'[c].paso = "recargarSacar" => m.op = "notificarPorFinRafaga"
    BY <2>1, <2>2
  <2>4. /\ hilo'[c].paso \notin PasosPedido /\ hilo'[c].paso \notin PasosLibres
        /\ hilo'[c].paso # "recibir" /\ hilo'[c].paso # "terminado"
    BY <2>3 DEF PasosLibres, PasosPedido, PasosWait, PasosSignal
  <2>5. FaseFin(c)'
    BY <1>1, <1>2, <1>3, <1>5, <2>3 DEF FaseFin, Devuelve, m
  <2> QED
    BY <1>1, <1>3, <2>4, <2>5 DEF Fase, FasePedido, FaseLibre, FaseRecibir
<1> QED
  BY <1>2, <1>4, <1>5

-----------------------------------------------------------------------------
(* The invariant. *)

InvPCP == Tipos /\ Protocolo /\ Puestos

Ajenos(c) ==
  \A x \in CPUs \ {c} : /\ haciaCpu'[x] = haciaCpu[x] /\ haciaKernel'[x] = haciaKernel[x]
                        /\ conectada'[x] = conectada[x] /\ cpu'[x] = cpu[x]

\* A step of one thread or one CPU leaves the protocol of the others alone.
LEMMA ProtocoloSigue ==
  ASSUME Protocolo, NEW c \in CPUs, Otros(c), Ajenos(c), Fase(c)'
  PROVE  Protocolo'
<1>1. ASSUME NEW x \in CPUs PROVE Fase(x)'
  <2>1. CASE x = c
    BY <2>1
  <2>2. CASE x # c
    BY <2>2, FaseIgual DEF Otros, Ajenos, Protocolo
  <2> QED
    BY <2>1, <2>2
<1> QED
  BY <1>1 DEF Protocolo

\* The parts of the invariant after a step of the thread of c.
LEMMA Junta ==
  ASSUME InvPCP, NEW c \in CPUs, Otros(c), Ajenos(c), UNCHANGED cpu,
         ListasEnRegla', ValoresEnRegla', HilosEnRegla', DispositivosEnRegla', CanalesEnRegla',
         Fase(c)', Puestos'
  PROVE  InvPCP'
<1>1. Protocolo'
  BY ProtocoloSigue DEF InvPCP
<1>2. CpusEnRegla'
  BY DEF InvPCP, Tipos, CpusEnRegla
<1> QED
  BY <1>1, <1>2 DEF InvPCP, Tipos

\* The same for a step that moves no program.
LEMMA JuntaSereno ==
  ASSUME InvPCP, NEW c \in CPUs, Otros(c), Ajenos(c), UNCHANGED cpu,
         hilo'[c].prog = hilo[c].prog,
         hilo[c].paso \in PasosSueltos, hilo'[c].paso \in PasosSueltos \cup {"exitSacar"},
         hilo'[c].paso \in PasosDueno => hilo[c].paso \in PasosDueno,
         UNCHANGED <<admitidos, listaReady, listaExec, exitProcesos, pcb, progEncolados,
                     semaforoDisp, dispositivo>>,
         ValoresEnRegla', HilosEnRegla', CanalesEnRegla', Fase(c)'
  PROVE  InvPCP'
<1>1. ListasEnRegla' /\ Puestos'
  BY Sereno DEF InvPCP, Tipos
<1>2. DispositivosEnRegla'
  BY DEF InvPCP, Tipos, DispositivosEnRegla
<1> QED
  BY <1>1, <1>2, Junta

\* What the invariant says of thread c.
LEMMA DeHilo ==
  ASSUME InvPCP, NEW c \in CPUs
  PROVE  /\ Fase(c) /\ hilo[c] \in TipoHilo /\ Acotado(hilo[c]) /\ admitidos \in Nat
         /\ ListasEnRegla /\ ValoresEnRegla /\ HilosEnRegla /\ DispositivosEnRegla
         /\ CanalesEnRegla /\ CpusEnRegla /\ PcbsEnRegla /\ Lugares /\ DispContado
         /\ admitidos <= MaxProgramas /\ MaxProgramas \in Nat
<1>1. admitidos \in Nat /\ admitidos <= MaxProgramas /\ MaxProgramas \in Nat
  BY ParametrosConexion DEF InvPCP, Tipos, ListasEnRegla, Pids, Programas, Nadie
<1> QED
  BY <1>1 DEF InvPCP, Tipos, Protocolo, Puestos, HilosEnRegla

-----------------------------------------------------------------------------
(* Every step of a thread keeps the invariant: those that move no program. *)

\* The thread receives a message.
LEMMA RecibirPuesto ==
  ASSUME InvPCP, NEW c \in CPUs, Recibir(c), UNCHANGED cpu
  PROVE  InvPCP'
<1> USE DeHilo
<1>1. CASE RecibirMensaje(c)
  <2> DEFINE m == Head(haciaKernel[c])
             b == PasoPara(m)
  <2>1. /\ hilo[c].paso = "recibir" /\ haciaKernel[c] # <<>>
        /\ hilo' = [hilo EXCEPT ![c].msg = m, ![c].paso = b]
        /\ UNCHANGED <<haciaCpu, conectada, plp, ready, listaExec, exitProcesos, pcb, colas,
                       dispositivo, vivo>>
    BY <1>1 DEF RecibirMensaje, Recibir
  <2>2. PICK r \in Restos(haciaKernel[c]) : haciaKernel' = [haciaKernel EXCEPT ![c] = r]
    BY <1>1 DEF RecibirMensaje
  <2>3. /\ m \in Mensajes
        /\ \/ Pregunta(c) /\ m = Pedido(c)
           \/ Ociosa(c) /\ Devuelve(c, m, hilo[c].prog)
    BY <2>1, LoQueLlega
  <2>4. b \in {"consulta", "waitLeer", "waitInexistente", "signalLeer", "signalInexistente",
               "ioPcb", "recargarSacar", "exitSacar"}
    <3>1. CASE Pregunta(c) /\ m = Pedido(c)
      <4>1. LineaActual(c).op \in {"consulta", "wait", "signal"}
        BY <3>1 DEF Fase, FaseCpu, Pregunta
      <4>2. m.op \in {"consulta", "waitKernel", "signalKernel"}
        BY <3>1, <4>1 DEF Pedido, Mensaje
      <4> QED
        BY <4>2 DEF PasoPara
    <3>2. CASE Devuelve(c, m, hilo[c].prog)
      BY <3>2 DEF Devuelve, PasoPara
    <3> QED
      BY <2>3, <3>1, <3>2
  <2> HIDE DEF b
  <2>5. /\ b \in PasosHilo /\ b \in PasosDueno /\ b \notin PasosConOtro
        /\ b \in PasosSueltos \cup {"exitSacar"}
        /\ hilo[c].paso \in PasosDueno /\ hilo[c].paso \in PasosConProg
        /\ hilo[c].paso \in PasosSueltos
    BY <2>1, <2>4 DEF PasosHilo, PasosDueno, PasosConOtro, PasosSueltos, PasosConProg,
       PasosWait, PasosSignal, PasosIo
  <2>6. UNCHANGED admitidos
    BY <2>1 DEF plp
  <2>7. HilosEnRegla' /\ Mueve(c, b, hilo[c].prog, m, hilo[c].otro)
    <3> HIDE DEF m
    <3> QED
      BY <2>1, <2>3, <2>5, <2>6, Atiende
  <2>8. Fase(c)' /\ CanalesEnRegla'
    BY <2>1, <2>2, <2>7, FaseAtiende DEF Mueve, b
  <2>9. ValoresEnRegla'
    BY <2>1 DEF ValoresEnRegla, plp, ready, colas
  <2>10. Ajenos(c)
    BY <2>1, <2>2 DEF Ajenos, CanalesEnRegla
  <2>11. UNCHANGED <<admitidos, listaReady, listaExec, exitProcesos, pcb, progEncolados,
                     semaforoDisp, dispositivo>>
    BY <2>1 DEF plp, ready, colas
  <2> QED
    BY <2>5, <2>7, <2>8, <2>9, <2>10, <2>11, JuntaSereno DEF Mueve
<1>2. CASE RecibirFin(c)
  BY <1>2 DEF RecibirFin, Fase, FaseCpu
<1> QED
  BY <1>1, <1>2 DEF Recibir

\* A thread at a wait or a signal serves a semaphore that is configured.
LEMMA SemaforoDelMensaje ==
  ASSUME InvPCP, NEW c \in CPUs, hilo[c].paso \in PasosWait \cup PasosSignal
  PROVE  hilo[c].msg.nombre \in Semaforos
<1>1. Fase(c) /\ hilo[c].paso \in PasosPedido
  BY DeHilo DEF PasosPedido
<1>2. /\ hilo[c].msg = Pedido(c)
      /\ LineaActual(c).op \in {"wait", "signal"} /\ LineaActual(c).nombre \in Semaforos
  BY <1>1 DEF Fase, FasePedido
<1> QED
  BY <1>2 DEF Pedido, Mensaje

\* The steps within the kernel that move no program.
LEMMA InternoPuesto ==
  ASSUME InvPCP, NEW c \in CPUs, UNCHANGED <<canales, cpu>>,
         \/ EsperarReady(c) \/ WaitLeer(c) \/ WaitEscribir(c) \/ SignalLeer(c)
         \/ SignalEscribir(c) \/ SignalProbar(c) \/ SignalPost(c) \/ RecargarPost(c)
  PROVE  InvPCP'
<1> USE DeHilo
<1>1. CASE EsperarReady(c)
  <2>1. /\ hilo[c].paso = "esperar" /\ Seguir(c, "sacar")
        /\ UNCHANGED <<admitidos, listaReady, listaExec, exitProcesos, pcb, progEncolados,
                     semaforoDisp, dispositivo>>
    BY <1>1 DEF EsperarReady, plp, ready, colas
  <2>2. /\ "sacar" \in PasosHilo /\ "sacar" \notin PasosConOtro /\ "sacar" \in PasosSueltos
        /\ "sacar" \in PasosConProg => hilo[c].paso \in PasosConProg
        /\ "sacar" \in PasosDueno => hilo[c].paso \in PasosDueno
        /\ hilo[c].paso \in PasosSueltos
    BY <2>1 DEF PasosHilo, PasosDueno, PasosConOtro, PasosSueltos, PasosConProg, PasosWait,
       PasosSignal, PasosIo
  <2>4. HilosEnRegla' /\ Mueve(c, "sacar", hilo[c].prog, hilo[c].msg, hilo[c].otro)
    BY <2>1, <2>2, Sigue
  <2>5. Fase(c)'
    BY <1>1, <2>1, <2>4, FaseDespacho DEF Mueve, PasosLibres, PasosFin
  <2>6. ValoresEnRegla' /\ CanalesEnRegla'
    BY <1>1, <2>1 DEF EsperarReady, ValoresEnRegla, plp, ready, colas, CanalesEnRegla, canales
  <2>7. Ajenos(c)
    BY <1>1 DEF Ajenos, canales
  <2> QED
    BY <2>1, <2>2, <2>4, <2>5, <2>6, <2>7, JuntaSereno DEF Mueve
<1>2. CASE WaitLeer(c)
  <2> DEFINE v == iSemaforo[hilo[c].msg.nombre]
  <2>1. /\ hilo[c].paso = "waitLeer" /\ hilo' = [hilo EXCEPT ![c].leido = v, ![c].paso = "waitEscribir"]
        /\ UNCHANGED <<admitidos, listaReady, listaExec, exitProcesos, pcb, progEncolados,
                     semaforoDisp, dispositivo>>
    BY <1>2 DEF WaitLeer, plp, ready, colas
  <2>2. /\ "waitEscribir" \in PasosHilo /\ "waitEscribir" \notin PasosConOtro /\ "waitEscribir" \in PasosSueltos
        /\ "waitEscribir" \in PasosConProg => hilo[c].paso \in PasosConProg
        /\ "waitEscribir" \in PasosDueno => hilo[c].paso \in PasosDueno
        /\ hilo[c].paso \in PasosSueltos
    BY <2>1 DEF PasosHilo, PasosDueno, PasosConOtro, PasosSueltos, PasosConProg, PasosWait,
       PasosSignal, PasosIo
  <2>3. v \in Int
    BY <2>1, SemaforoDelMensaje DEF ValoresEnRegla, PasosWait, PasosSignal
  <2>4. HilosEnRegla' /\ Mueve(c, "waitEscribir", hilo[c].prog, hilo[c].msg, hilo[c].otro)
    <3> HIDE DEF v
    <3> QED
      BY <2>1, <2>2, <2>3, Lee
  <2>5. Fase(c)'
    BY <1>2, <2>1, <2>4, FaseSemaforo DEF Mueve, PasosWait, PasosSignal
  <2>6. ValoresEnRegla' /\ CanalesEnRegla'
    BY <1>2, <2>1 DEF WaitLeer, ValoresEnRegla, plp, ready, colas, CanalesEnRegla, canales
  <2>7. Ajenos(c)
    BY <1>2 DEF Ajenos, canales
  <2> QED
    BY <2>1, <2>2, <2>4, <2>5, <2>6, <2>7, JuntaSereno DEF Mueve
<1>3. CASE WaitEscribir(c)
  <2>1. /\ hilo[c].paso = "waitEscribir" /\ Seguir(c, "waitProbar")
        /\ UNCHANGED <<admitidos, listaReady, listaExec, exitProcesos, pcb, progEncolados,
                     semaforoDisp, dispositivo>>
    BY <1>3 DEF WaitEscribir, plp, ready, colas
  <2>2. /\ "waitProbar" \in PasosHilo /\ "waitProbar" \notin PasosConOtro /\ "waitProbar" \in PasosSueltos
        /\ "waitProbar" \in PasosConProg => hilo[c].paso \in PasosConProg
        /\ "waitProbar" \in PasosDueno => hilo[c].paso \in PasosDueno
        /\ hilo[c].paso \in PasosSueltos
    BY <2>1 DEF PasosHilo, PasosDueno, PasosConOtro, PasosSueltos, PasosConProg, PasosWait,
       PasosSignal, PasosIo
  <2>4. HilosEnRegla' /\ Mueve(c, "waitProbar", hilo[c].prog, hilo[c].msg, hilo[c].otro)
    BY <2>1, <2>2, Sigue
  <2>5. Fase(c)'
    BY <1>3, <2>1, <2>4, FaseSemaforo DEF Mueve, PasosWait, PasosSignal
  <2>6. ValoresEnRegla' /\ CanalesEnRegla'
    BY <1>3, <2>1, SemaforoDelMensaje DEF WaitEscribir, ValoresEnRegla, plp, ready, colas,
       CanalesEnRegla, canales, TipoHilo, PasosWait, PasosSignal
  <2>7. Ajenos(c)
    BY <1>3 DEF Ajenos, canales
  <2> QED
    BY <2>1, <2>2, <2>4, <2>5, <2>6, <2>7, JuntaSereno DEF Mueve
<1>4. CASE SignalLeer(c)
  <2> DEFINE v == iSemaforo[hilo[c].msg.nombre]
  <2>1. /\ hilo[c].paso = "signalLeer" /\ hilo' = [hilo EXCEPT ![c].leido = v, ![c].paso = "signalEscribir"]
        /\ UNCHANGED <<admitidos, listaReady, listaExec, exitProcesos, pcb, progEncolados,
                     semaforoDisp, dispositivo>>
    BY <1>4 DEF SignalLeer, plp, ready, colas
  <2>2. /\ "signalEscribir" \in PasosHilo /\ "signalEscribir" \notin PasosConOtro /\ "signalEscribir" \in PasosSueltos
        /\ "signalEscribir" \in PasosConProg => hilo[c].paso \in PasosConProg
        /\ "signalEscribir" \in PasosDueno => hilo[c].paso \in PasosDueno
        /\ hilo[c].paso \in PasosSueltos
    BY <2>1 DEF PasosHilo, PasosDueno, PasosConOtro, PasosSueltos, PasosConProg, PasosWait,
       PasosSignal, PasosIo
  <2>3. v \in Int
    BY <2>1, SemaforoDelMensaje DEF ValoresEnRegla, PasosWait, PasosSignal
  <2>4. HilosEnRegla' /\ Mueve(c, "signalEscribir", hilo[c].prog, hilo[c].msg, hilo[c].otro)
    <3> HIDE DEF v
    <3> QED
      BY <2>1, <2>2, <2>3, Lee
  <2>5. Fase(c)'
    BY <1>4, <2>1, <2>4, FaseSemaforo DEF Mueve, PasosWait, PasosSignal
  <2>6. ValoresEnRegla' /\ CanalesEnRegla'
    BY <1>4, <2>1 DEF SignalLeer, ValoresEnRegla, plp, ready, colas, CanalesEnRegla, canales
  <2>7. Ajenos(c)
    BY <1>4 DEF Ajenos, canales
  <2> QED
    BY <2>1, <2>2, <2>4, <2>5, <2>6, <2>7, JuntaSereno DEF Mueve
<1>5. CASE SignalEscribir(c)
  <2>1. /\ hilo[c].paso = "signalEscribir" /\ Seguir(c, "signalProbar")
        /\ UNCHANGED <<admitidos, listaReady, listaExec, exitProcesos, pcb, progEncolados,
                     semaforoDisp, dispositivo>>
    BY <1>5 DEF SignalEscribir, plp, ready, colas
  <2>2. /\ "signalProbar" \in PasosHilo /\ "signalProbar" \notin PasosConOtro /\ "signalProbar" \in PasosSueltos
        /\ "signalProbar" \in PasosConProg => hilo[c].paso \in PasosConProg
        /\ "signalProbar" \in PasosDueno => hilo[c].paso \in PasosDueno
        /\ hilo[c].paso \in PasosSueltos
    BY <2>1 DEF PasosHilo, PasosDueno, PasosConOtro, PasosSueltos, PasosConProg, PasosWait,
       PasosSignal, PasosIo
  <2>4. HilosEnRegla' /\ Mueve(c, "signalProbar", hilo[c].prog, hilo[c].msg, hilo[c].otro)
    BY <2>1, <2>2, Sigue
  <2>5. Fase(c)'
    BY <1>5, <2>1, <2>4, FaseSemaforo DEF Mueve, PasosWait, PasosSignal
  <2>6. ValoresEnRegla' /\ CanalesEnRegla'
    BY <1>5, <2>1, SemaforoDelMensaje DEF SignalEscribir, ValoresEnRegla, plp, ready, colas,
       CanalesEnRegla, canales, TipoHilo, PasosWait, PasosSignal
  <2>7. Ajenos(c)
    BY <1>5 DEF Ajenos, canales
  <2> QED
    BY <2>1, <2>2, <2>4, <2>5, <2>6, <2>7, JuntaSereno DEF Mueve
<1>6. CASE SignalPost(c)
  <2>1. /\ hilo[c].paso = "signalPost" /\ Seguir(c, "signalResponder")
        /\ UNCHANGED <<admitidos, listaReady, listaExec, exitProcesos, pcb, progEncolados,
                     semaforoDisp, dispositivo>>
    BY <1>6 DEF SignalPost, plp, ready, colas
  <2>2. /\ "signalResponder" \in PasosHilo /\ "signalResponder" \notin PasosConOtro /\ "signalResponder" \in PasosSueltos
        /\ "signalResponder" \in PasosConProg => hilo[c].paso \in PasosConProg
        /\ "signalResponder" \in PasosDueno => hilo[c].paso \in PasosDueno
        /\ hilo[c].paso \in PasosSueltos
    BY <2>1 DEF PasosHilo, PasosDueno, PasosConOtro, PasosSueltos, PasosConProg, PasosWait,
       PasosSignal, PasosIo
  <2>4. HilosEnRegla' /\ Mueve(c, "signalResponder", hilo[c].prog, hilo[c].msg, hilo[c].otro)
    BY <2>1, <2>2, Sigue
  <2>5. Fase(c)'
    BY <1>6, <2>1, <2>4, FaseSemaforo DEF Mueve, PasosWait, PasosSignal
  <2>6. ValoresEnRegla' /\ CanalesEnRegla'
    BY <1>6, <2>1 DEF SignalPost, ValoresEnRegla, plp, ready, colas, CanalesEnRegla, canales
  <2>7. Ajenos(c)
    BY <1>6 DEF Ajenos, canales
  <2> QED
    BY <2>1, <2>2, <2>4, <2>5, <2>6, <2>7, JuntaSereno DEF Mueve
<1>7. CASE RecargarPost(c)
  <2>1. /\ hilo[c].paso = "recargarPost" /\ Volver(c, "esperar")
        /\ UNCHANGED <<admitidos, listaReady, listaExec, exitProcesos, pcb, progEncolados,
                     semaforoDisp, dispositivo>>
    BY <1>7 DEF RecargarPost, plp, ready, colas
  <2>2. /\ "esperar" \in PasosHilo /\ "esperar" \notin PasosConOtro /\ "esperar" \in PasosSueltos
        /\ "esperar" \in PasosConProg => hilo[c].paso \in PasosConProg
        /\ "esperar" \in PasosDueno => hilo[c].paso \in PasosDueno
        /\ hilo[c].paso \in PasosSueltos
    BY <2>1 DEF PasosHilo, PasosDueno, PasosConOtro, PasosSueltos, PasosConProg, PasosWait,
       PasosSignal, PasosIo
  <2>4. HilosEnRegla' /\ Mueve(c, "esperar", hilo[c].prog, Respuesta("ninguno"), Nadie)
    BY <2>1, <2>2, Vuelve
  <2>5. Fase(c)'
    BY <1>7, <2>1, <2>4, FaseDespacho DEF Mueve, PasosLibres, PasosFin
  <2>6. ValoresEnRegla' /\ CanalesEnRegla'
    BY <1>7, <2>1 DEF RecargarPost, ValoresEnRegla, plp, ready, colas, CanalesEnRegla, canales
  <2>7. Ajenos(c)
    BY <1>7 DEF Ajenos, canales
  <2> QED
    BY <2>1, <2>2, <2>4, <2>5, <2>6, <2>7, JuntaSereno DEF Mueve
<1>8. CASE SignalProbar(c)
  <2>1. PICK b \in {"signalSacar", "signalResponder"} : hilo[c].paso = "signalProbar" /\ Seguir(c, b)
    BY <1>8 DEF SignalProbar
  <2>2. /\ b \in PasosHilo /\ b \notin PasosConOtro /\ b \in PasosSueltos /\ b \in PasosSignal
        /\ hilo[c].paso \in PasosConProg /\ hilo[c].paso \in PasosDueno
        /\ hilo[c].paso \in PasosSueltos /\ hilo[c].paso \in PasosSignal
    BY <2>1 DEF PasosHilo, PasosDueno, PasosConOtro, PasosSueltos, PasosConProg, PasosWait,
       PasosSignal, PasosIo
  <2>3. UNCHANGED <<admitidos, listaReady, listaExec, exitProcesos, pcb, progEncolados,
                     semaforoDisp, dispositivo>>
    BY <1>8 DEF SignalProbar, plp, ready, colas
  <2>4. HilosEnRegla' /\ Mueve(c, b, hilo[c].prog, hilo[c].msg, hilo[c].otro)
    BY <2>1, <2>2, <2>3, Sigue
  <2>5. Fase(c)'
    BY <2>2, <2>4, FaseSemaforo DEF Mueve
  <2>6. ValoresEnRegla' /\ CanalesEnRegla'
    BY <1>8 DEF SignalProbar, ValoresEnRegla, plp, ready, colas, CanalesEnRegla, canales
  <2>7. Ajenos(c)
    BY DEF Ajenos, canales
  <2> QED
    BY <2>2, <2>3, <2>4, <2>5, <2>6, <2>7, JuntaSereno DEF Mueve
<1> QED
  BY <1>1, <1>2, <1>3, <1>4, <1>5, <1>6, <1>7, <1>8

\* A program whose thread answers for it, and is not at its end, can go on.
LEMMA NoAcabado ==
  ASSUME InvPCP, NEW c \in CPUs, hilo[c].paso \in PasosDueno \ {"ioSacar", "exitSacar"}
  PROVE  LET p == hilo[c].prog
         IN  /\ p \in 1..admitidos /\ p \in Programas
             /\ ~Acabado(p) /\ pcb[p].pid = p /\ pcb[p].pc < Final(p)
<1> DEFINE p == hilo[c].prog
<1> USE DeHilo
<1>1. p \in 1..admitidos /\ p \in Programas
  BY DEF Acotado, PasosConProg, Nadie, Programas
<1>2. /\ Veces(exitProcesos, p) = 0 /\ Cardinality(Llevan(p)) = 0
      /\ \A x \in CPUs : Dueno(hilo[x], p) /\ x # c => hilo[x].paso = "ioSacar"
  BY <1>1, Unico
<1>3. Llevan(p) = {}
  <2>1. Llevan(p) \subseteq CPUs
    BY DEF Llevan, HilosEn
  <2>2. IsFiniteSet(Llevan(p))
    BY <2>1, ParametrosConexion, FS_Subset
  <2> QED
    BY <1>2, <2>2, FS_EmptySet
<1>4. \A i \in 1..Len(exitProcesos) : exitProcesos[i] # p
  <2> DEFINE T == 1..admitidos
  <2>1. exitProcesos \in Seq(T)
    BY DEF ListasEnRegla
  <2> HIDE DEF T
  <2> QED
    BY <1>2, <2>1, VecesTipo
<1>5. ASSUME NEW x \in CPUs, hilo[x].paso = "exitSacar", hilo[x].prog = p PROVE FALSE
  <2>1. Dueno(hilo[x], p)
    BY <1>5 DEF Dueno, PasosDueno
  <2>2. x # c
    BY <1>5
  <2> QED
    BY <1>2, <1>5, <2>1, <2>2
<1>6. ASSUME NEW x \in CPUs, hilo[x].paso = "exitAgregar", hilo[x].otro = p PROVE FALSE
  <2>1. x \in Llevan(p)
    BY <1>6 DEF Llevan, HilosEn
  <2> QED
    BY <1>3, <2>1
<1>7. ~Acabado(p)
  BY <1>4, <1>5, <1>6 DEF Acabado
<1> QED
  BY <1>1, <1>7 DEF PcbsEnRegla

\* What is sent to a CPU is not sent to another.
LEMMA ResponderAjeno ==
  ASSUME CanalesEnRegla, NEW c \in CPUs, NEW m, Responder(c, m),
         UNCHANGED <<haciaKernel, conectada, cpu>>
  PROVE  Ajenos(c)
BY DEF Ajenos, Responder, EnviarACpu, CanalesEnRegla

\* The answers.
LEMMA EnviarPuesto ==
  ASSUME ProgramasEnRegla, InvPCP, NEW c \in CPUs, Enviar(c), UNCHANGED cpu
  PROVE  InvPCP'
<1> USE DeHilo
<1>1. CASE EnviarPcb(c)
  <2> DEFINE p == hilo[c].prog
             b == pcb[p]
             m == Mensaje("atendeProceso", SinNombre, b.pid, b.pc)
  <2>1. /\ hilo[c].paso = "enviar" /\ Seguir(c, "recibir") /\ Responder(c, m)
        /\ UNCHANGED <<haciaKernel, conectada>>
        /\ UNCHANGED <<admitidos, listaReady, listaExec, exitProcesos, pcb, progEncolados,
                     semaforoDisp, dispositivo>>
    BY <1>1 DEF EnviarPcb, Enviar, plp, ready, colas
  <2>2. /\ "recibir" \in PasosHilo /\ "recibir" \notin PasosConOtro
        /\ "recibir" \in PasosSueltos /\ hilo[c].paso \in PasosConProg
        /\ hilo[c].paso \in PasosDueno /\ hilo[c].paso \in PasosSueltos
    BY <2>1 DEF PasosHilo, PasosDueno, PasosConOtro, PasosSueltos, PasosConProg, PasosWait,
       PasosSignal, PasosIo
  <2>3. HilosEnRegla' /\ Mueve(c, "recibir", hilo[c].prog, hilo[c].msg, hilo[c].otro)
    BY <2>1, <2>2, Sigue
  <2>4. p \in Programas /\ pcb[p].pid = p /\ pcb[p].pc < Final(p)
    BY <2>1, NoAcabado DEF PasosDueno
  <2>5. m \in Mensajes /\ EsPcb(m, p)
    <3>1. b.pid \in Pids /\ b.pc \in Nat
      BY <2>4 DEF ListasEnRegla, Pids
    <3> QED
      BY <2>4, <3>1 DEF Mensaje, Mensajes, EsPcb, SinNombre, DeKernel
  <2> HIDE DEF m
  <2>6. Fase(c)' /\ CanalesEnRegla'
    BY <2>1, <2>3, <2>5, FaseDada DEF Mueve
  <2>7. ValoresEnRegla'
    BY <1>1 DEF EnviarPcb, ValoresEnRegla, plp, ready, colas
  <2>8. Ajenos(c)
    BY <2>1, ResponderAjeno
  <2> QED
    BY <2>1, <2>2, <2>3, <2>6, <2>7, <2>8, JuntaSereno DEF Mueve
<1>2. CASE Consulta(c)
  <2>1. PICK op \in {"continuar", "terminar"} :
          /\ hilo[c].paso = "consulta" /\ Volver(c, "recibir") /\ Responder(c, Respuesta(op))
          /\ UNCHANGED <<haciaKernel, conectada>>
          /\ UNCHANGED <<admitidos, listaReady, listaExec, exitProcesos, pcb, progEncolados,
                     semaforoDisp, dispositivo>>
    BY <1>2 DEF Consulta, Enviar, plp, ready, colas, RespuestasConsulta
  <2>2. /\ "recibir" \in PasosHilo /\ "recibir" \notin PasosConOtro /\ "recibir" \in PasosSueltos
        /\ hilo[c].paso \in PasosConProg /\ hilo[c].paso \in PasosSueltos
        /\ hilo[c].paso \in PasosDueno /\ "recibir" \in PasosDueno
    BY <2>1 DEF PasosHilo, PasosDueno, PasosConOtro, PasosSueltos, PasosConProg, PasosWait,
       PasosSignal, PasosIo
  <2>3. HilosEnRegla' /\ Mueve(c, "recibir", hilo[c].prog, Respuesta("ninguno"), Nadie)
    BY <2>1, <2>2, Vuelve
  <2>4. Fase(c)' /\ CanalesEnRegla'
    <3>1. /\ hilo[c].paso \in PasosPedido
          /\ op = "continuar" => hilo[c].paso \notin {"waitInexistente", "signalInexistente"}
          /\ op = "terminar" => hilo[c].paso \notin PasosWait \cup {"waitInexistente"}
      BY <2>1 DEF PasosPedido, PasosWait, PasosSignal
    <3>2. hilo'[c].paso = "recibir" /\ hilo'[c].prog = hilo[c].prog
      BY <2>3 DEF Mueve
    <3> QED
      BY <2>1, <3>1, <3>2, FaseRespuesta
  <2>5. ValoresEnRegla'
    BY <1>2 DEF Consulta, ValoresEnRegla, plp, ready, colas
  <2>6. Ajenos(c)
    BY <2>1, ResponderAjeno
  <2> QED
    BY <2>1, <2>2, <2>3, <2>4, <2>5, <2>6, JuntaSereno DEF Mueve
<1>3. CASE WaitInexistente(c)
  <2>1. PICK op \in {"terminar"} :
          /\ hilo[c].paso = "waitInexistente" /\ Volver(c, "esperar") /\ Responder(c, Respuesta(op))
          /\ UNCHANGED <<haciaKernel, conectada>>
          /\ UNCHANGED <<admitidos, listaReady, listaExec, exitProcesos, pcb, progEncolados,
                     semaforoDisp, dispositivo>>
    BY <1>3 DEF WaitInexistente, Enviar, plp, ready, colas, RespuestasConsulta
  <2>2. /\ "esperar" \in PasosHilo /\ "esperar" \notin PasosConOtro /\ "esperar" \in PasosSueltos
        /\ hilo[c].paso \in PasosConProg /\ hilo[c].paso \in PasosSueltos
        /\ hilo[c].paso \in PasosDueno
    BY <2>1 DEF PasosHilo, PasosDueno, PasosConOtro, PasosSueltos, PasosConProg, PasosWait,
       PasosSignal, PasosIo
  <2>3. HilosEnRegla' /\ Mueve(c, "esperar", hilo[c].prog, Respuesta("ninguno"), Nadie)
    BY <2>1, <2>2, Vuelve
  <2>4. Fase(c)' /\ CanalesEnRegla'
    <3>1. /\ hilo[c].paso \in PasosPedido
          /\ op \in {"bloquear", "terminar"}
          /\ hilo[c].paso \in PasosWait \cup {"waitInexistente"}
      BY <2>1 DEF PasosPedido, PasosWait, PasosSignal
    <3>2. hilo'[c].paso = "esperar" /\ hilo'[c].prog = hilo[c].prog
      BY <2>3 DEF Mueve
    <3> QED
      BY <2>1, <3>1, <3>2, FaseRespuesta
  <2>5. ValoresEnRegla'
    BY <1>3 DEF WaitInexistente, ValoresEnRegla, plp, ready, colas
  <2>6. Ajenos(c)
    BY <2>1, ResponderAjeno
  <2> QED
    BY <2>1, <2>2, <2>3, <2>4, <2>5, <2>6, JuntaSereno DEF Mueve
<1>4. CASE WaitBloquear(c)
  <2>1. PICK op \in {"bloquear"} :
          /\ hilo[c].paso = "waitBloquear" /\ Volver(c, "esperar") /\ Responder(c, Respuesta(op))
          /\ UNCHANGED <<haciaKernel, conectada>>
          /\ UNCHANGED <<admitidos, listaReady, listaExec, exitProcesos, pcb, progEncolados,
                     semaforoDisp, dispositivo>>
    BY <1>4 DEF WaitBloquear, Enviar, plp, ready, colas, RespuestasConsulta
  <2>2. /\ "esperar" \in PasosHilo /\ "esperar" \notin PasosConOtro /\ "esperar" \in PasosSueltos
        /\ hilo[c].paso \in PasosSueltos
        /\ "esperar" \notin PasosConProg /\ "esperar" \notin PasosDueno
    BY <2>1 DEF PasosHilo, PasosDueno, PasosConOtro, PasosSueltos, PasosConProg, PasosWait,
       PasosSignal, PasosIo
  <2>3. HilosEnRegla' /\ Mueve(c, "esperar", hilo[c].prog, Respuesta("ninguno"), Nadie)
    BY <2>1, <2>2, Vuelve
  <2>4. Fase(c)' /\ CanalesEnRegla'
    <3>1. /\ hilo[c].paso \in PasosPedido
          /\ op \in {"bloquear", "terminar"}
          /\ hilo[c].paso \in PasosWait \cup {"waitInexistente"}
      BY <2>1 DEF PasosPedido, PasosWait, PasosSignal
    <3>2. hilo'[c].paso = "esperar" /\ hilo'[c].prog = hilo[c].prog
      BY <2>3 DEF Mueve
    <3> QED
      BY <2>1, <3>1, <3>2, FaseRespuesta
  <2>5. ValoresEnRegla'
    BY <1>4 DEF WaitBloquear, ValoresEnRegla, plp, ready, colas
  <2>6. Ajenos(c)
    BY <2>1, ResponderAjeno
  <2> QED
    BY <2>1, <2>2, <2>3, <2>4, <2>5, <2>6, JuntaSereno DEF Mueve
<1>5. CASE SignalInexistente(c)
  <2>1. PICK op \in {"terminar"} :
          /\ hilo[c].paso = "signalInexistente" /\ Volver(c, "recibir") /\ Responder(c, Respuesta(op))
          /\ UNCHANGED <<haciaKernel, conectada>>
          /\ UNCHANGED <<admitidos, listaReady, listaExec, exitProcesos, pcb, progEncolados,
                     semaforoDisp, dispositivo>>
    BY <1>5 DEF SignalInexistente, Enviar, plp, ready, colas, RespuestasConsulta
  <2>2. /\ "recibir" \in PasosHilo /\ "recibir" \notin PasosConOtro /\ "recibir" \in PasosSueltos
        /\ hilo[c].paso \in PasosConProg /\ hilo[c].paso \in PasosSueltos
        /\ hilo[c].paso \in PasosDueno /\ "recibir" \in PasosDueno
    BY <2>1 DEF PasosHilo, PasosDueno, PasosConOtro, PasosSueltos, PasosConProg, PasosWait,
       PasosSignal, PasosIo
  <2>3. HilosEnRegla' /\ Mueve(c, "recibir", hilo[c].prog, Respuesta("ninguno"), Nadie)
    BY <2>1, <2>2, Vuelve
  <2>4. Fase(c)' /\ CanalesEnRegla'
    <3>1. /\ hilo[c].paso \in PasosPedido
          /\ op = "continuar" => hilo[c].paso \notin {"waitInexistente", "signalInexistente"}
          /\ op = "terminar" => hilo[c].paso \notin PasosWait \cup {"waitInexistente"}
      BY <2>1 DEF PasosPedido, PasosWait, PasosSignal
    <3>2. hilo'[c].paso = "recibir" /\ hilo'[c].prog = hilo[c].prog
      BY <2>3 DEF Mueve
    <3> QED
      BY <2>1, <3>1, <3>2, FaseRespuesta
  <2>5. ValoresEnRegla'
    BY <1>5 DEF SignalInexistente, ValoresEnRegla, plp, ready, colas
  <2>6. Ajenos(c)
    BY <2>1, ResponderAjeno
  <2> QED
    BY <2>1, <2>2, <2>3, <2>4, <2>5, <2>6, JuntaSereno DEF Mueve
<1>6. CASE SignalResponder(c)
  <2>1. PICK op \in {"continuar"} :
          /\ hilo[c].paso = "signalResponder" /\ Volver(c, "recibir") /\ Responder(c, Respuesta(op))
          /\ UNCHANGED <<haciaKernel, conectada>>
          /\ UNCHANGED <<admitidos, listaReady, listaExec, exitProcesos, pcb, progEncolados,
                     semaforoDisp, dispositivo>>
    BY <1>6 DEF SignalResponder, Enviar, plp, ready, colas, RespuestasConsulta
  <2>2. /\ "recibir" \in PasosHilo /\ "recibir" \notin PasosConOtro /\ "recibir" \in PasosSueltos
        /\ hilo[c].paso \in PasosConProg /\ hilo[c].paso \in PasosSueltos
        /\ hilo[c].paso \in PasosDueno /\ "recibir" \in PasosDueno
    BY <2>1 DEF PasosHilo, PasosDueno, PasosConOtro, PasosSueltos, PasosConProg, PasosWait,
       PasosSignal, PasosIo
  <2>3. HilosEnRegla' /\ Mueve(c, "recibir", hilo[c].prog, Respuesta("ninguno"), Nadie)
    BY <2>1, <2>2, Vuelve
  <2>4. Fase(c)' /\ CanalesEnRegla'
    <3>1. /\ hilo[c].paso \in PasosPedido
          /\ op = "continuar" => hilo[c].paso \notin {"waitInexistente", "signalInexistente"}
          /\ op = "terminar" => hilo[c].paso \notin PasosWait \cup {"waitInexistente"}
      BY <2>1 DEF PasosPedido, PasosWait, PasosSignal
    <3>2. hilo'[c].paso = "recibir" /\ hilo'[c].prog = hilo[c].prog
      BY <2>3 DEF Mueve
    <3> QED
      BY <2>1, <3>1, <3>2, FaseRespuesta
  <2>5. ValoresEnRegla'
    BY <1>6 DEF SignalResponder, ValoresEnRegla, plp, ready, colas
  <2>6. Ajenos(c)
    BY <2>1, ResponderAjeno
  <2> QED
    BY <2>1, <2>2, <2>3, <2>4, <2>5, <2>6, JuntaSereno DEF Mueve
<1>7. CASE WaitProbar(c)
  <2>1. CASE Seguir(c, "waitSacar") /\ UNCHANGED haciaCpu
    <3>1. /\ hilo[c].paso = "waitProbar" /\ UNCHANGED canales
          /\ UNCHANGED <<admitidos, listaReady, listaExec, exitProcesos, pcb, progEncolados,
                     semaforoDisp, dispositivo>>
      BY <1>7, <2>1 DEF WaitProbar, Enviar, plp, ready, colas, canales
    <3>2. /\ "waitSacar" \in PasosHilo /\ "waitSacar" \notin PasosConOtro
          /\ "waitSacar" \in PasosSueltos /\ hilo[c].paso \in PasosSueltos
          /\ hilo[c].paso \in PasosConProg /\ hilo[c].paso \in PasosDueno
      BY <3>1 DEF PasosHilo, PasosDueno, PasosConOtro, PasosSueltos, PasosConProg, PasosWait,
       PasosSignal, PasosIo
    <3>3. HilosEnRegla' /\ Mueve(c, "waitSacar", hilo[c].prog, hilo[c].msg, hilo[c].otro)
      BY <2>1, <3>1, <3>2, Sigue
    <3>4. Fase(c)'
      BY <3>1, <3>3, FaseSemaforo DEF Mueve, PasosWait
    <3>5. ValoresEnRegla' /\ CanalesEnRegla'
      BY <1>7, <3>1 DEF WaitProbar, ValoresEnRegla, plp, ready, colas, CanalesEnRegla, canales
    <3>6. Ajenos(c)
      BY <3>1 DEF Ajenos, canales
    <3> QED
      BY <3>1, <3>2, <3>3, <3>4, <3>5, <3>6, JuntaSereno DEF Mueve
  <2>2. CASE Volver(c, "recibir") /\ Responder(c, Respuesta("continuar"))
    <3>1. PICK op \in {"continuar"} :
            /\ hilo[c].paso = "waitProbar" /\ Volver(c, "recibir") /\ Responder(c, Respuesta(op))
            /\ UNCHANGED <<haciaKernel, conectada>>
            /\ UNCHANGED <<admitidos, listaReady, listaExec, exitProcesos, pcb, progEncolados,
                       semaforoDisp, dispositivo>>
      BY <1>7, <2>2 DEF WaitProbar, Enviar, plp, ready, colas, RespuestasConsulta
    <3>2. /\ "recibir" \in PasosHilo /\ "recibir" \notin PasosConOtro /\ "recibir" \in PasosSueltos
          /\ hilo[c].paso \in PasosConProg /\ hilo[c].paso \in PasosSueltos
          /\ hilo[c].paso \in PasosDueno /\ "recibir" \in PasosDueno
      BY <3>1 DEF PasosHilo, PasosDueno, PasosConOtro, PasosSueltos, PasosConProg, PasosWait,
         PasosSignal, PasosIo
    <3>3. HilosEnRegla' /\ Mueve(c, "recibir", hilo[c].prog, Respuesta("ninguno"), Nadie)
      BY <3>1, <3>2, Vuelve
    <3>4. Fase(c)' /\ CanalesEnRegla'
      <4>1. /\ hilo[c].paso \in PasosPedido
            /\ op = "continuar" => hilo[c].paso \notin {"waitInexistente", "signalInexistente"}
            /\ op = "terminar" => hilo[c].paso \notin PasosWait \cup {"waitInexistente"}
        BY <3>1 DEF PasosPedido, PasosWait, PasosSignal
      <4>2. hilo'[c].paso = "recibir" /\ hilo'[c].prog = hilo[c].prog
        BY <3>3 DEF Mueve
      <4> QED
        BY <3>1, <4>1, <4>2, FaseRespuesta
    <3>5. ValoresEnRegla'
      BY <1>7, <2>2 DEF WaitProbar, ValoresEnRegla, plp, ready, colas
    <3>6. Ajenos(c)
      BY <3>1, ResponderAjeno
    <3> QED
      BY <3>1, <3>2, <3>3, <3>4, <3>5, <3>6, JuntaSereno DEF Mueve
  <2> QED
    BY <1>7, <2>1, <2>2 DEF WaitProbar
<1> QED
  BY <1>1, <1>2, <1>3, <1>4, <1>5, <1>6, <1>7 DEF Enviar

-----------------------------------------------------------------------------
(* Steps of a thread that move a program. *)

\* What a step puts in a place it takes from another: no program is in more places
\* than it was, and the program a thread answers for is in EXEC.
Equilibrio(c, p) ==
  /\ Veces(listaReady', p) + Veces(listaExec', p) + Veces(exitProcesos', p)
       + Cardinality(Encolado(p)') + Uno(Lleva(hilo'[c], p)) - Uno(Entre(hilo'[c], p))
     = Veces(listaReady, p) + Veces(listaExec, p) + Veces(exitProcesos, p)
         + Cardinality(Encolado(p)) + Uno(Lleva(hilo[c], p)) - Uno(Entre(hilo[c], p))
  /\ Uno(Dueno(hilo'[c], p)) - Uno(Dueno(hilo[c], p)) <= Veces(listaExec', p) - Veces(listaExec, p)

\* All of those are numbers.
LEMMA SonCuentas ==
  ASSUME ListasEnRegla, NEW p
  PROVE  /\ Veces(listaReady, p) \in Nat /\ Veces(listaExec, p) \in Nat
         /\ Veces(exitProcesos, p) \in Nat /\ Cardinality(Encolado(p)) \in Nat
BY ListaTipo, EncoladoTipo

\* A step of one thread that keeps that balance keeps UnSoloLugar.
LEMMA LugaresSiguen ==
  ASSUME ListasEnRegla, ListasEnRegla', Lugares, UNCHANGED <<admitidos, dispositivo>>,
         NEW c \in CPUs, Otros(c), \A p \in 1..admitidos : Equilibrio(c, p)
  PROVE  Lugares'
<1>1. ASSUME NEW p \in 1..admitidos PROVE EnSuLugar(p)'
  <2>1. /\ Veces(listaReady, p) \in Nat /\ Veces(listaExec, p) \in Nat
        /\ Veces(exitProcesos, p) \in Nat /\ Cardinality(Encolado(p)) \in Nat
    BY ListaTipo, EncoladoTipo
  <2>2. /\ Veces(listaReady', p) \in Nat /\ Veces(listaExec', p) \in Nat
        /\ Veces(exitProcesos', p) \in Nat /\ Cardinality(Encolado(p)') \in Nat
    <3> DEFINE T == 0..admitidos
               U == 1..admitidos
    <3>1. listaReady' \in Seq(T) /\ listaExec' \in Seq(U) /\ exitProcesos' \in Seq(U)
      BY DEF ListasEnRegla
    <3>2. (ListasEnRegla => Cardinality(Encolado(p)) \in Nat)'
      <4>1. ListasEnRegla => Cardinality(Encolado(p)) \in Nat
        BY EncoladoTipo
      <4> QED
        BY EncoladoTipo, PTL
    <3> HIDE DEF T, U
    <3>3. Veces(listaReady', p) \in Nat /\ Veces(listaExec', p) \in Nat
          /\ Veces(exitProcesos', p) \in Nat
      BY <3>1, VecesTipo
    <3> QED
      BY <3>2, <3>3
  <2>3. Cardinality(EnManos(p)) \in Nat /\ EnManos(p)' = EnManos(p)
    BY ManosTipo DEF EnManos
  <2>4. EnSuLugar(p) /\ Equilibrio(c, p)
    BY DEF Lugares
  <2>5. /\ Cardinality(Duenos(p)) \in Nat /\ Cardinality(Llevan(p)) \in Nat
        /\ Cardinality(EntreDosListas(p)) \in Nat
        /\ Cardinality(Duenos(p)') = Cardinality(Duenos(p))
              + Uno(Dueno(hilo'[c], p)) - Uno(Dueno(hilo[c], p))
        /\ Cardinality(Llevan(p)') = Cardinality(Llevan(p))
              + Uno(Lleva(hilo'[c], p)) - Uno(Lleva(hilo[c], p))
        /\ Cardinality(EntreDosListas(p)') = Cardinality(EntreDosListas(p))
              + Uno(Entre(hilo'[c], p)) - Uno(Entre(hilo[c], p))
    BY HiloCuenta
  <2>6. \A b : Uno(b) \in Nat
    BY DEF Uno
  <2>7. Cardinality(Duenos(p)') <= Veces(listaExec', p)
    BY <2>1, <2>2, <2>4, <2>5, <2>6 DEF EnSuLugar, Equilibrio
  <2>8. Veces(listaReady', p) + Veces(listaExec', p) + Veces(exitProcesos', p)
          + Cardinality(Encolado(p)') + Cardinality(EnManos(p)') + Cardinality(Llevan(p)')
        = 1 + Cardinality(EntreDosListas(p)')
    <3>1. /\ Uno(Dueno(hilo'[c], p)) \in Nat /\ Uno(Dueno(hilo[c], p)) \in Nat
          /\ Uno(Lleva(hilo'[c], p)) \in Nat /\ Uno(Lleva(hilo[c], p)) \in Nat
          /\ Uno(Entre(hilo'[c], p)) \in Nat /\ Uno(Entre(hilo[c], p)) \in Nat
      BY <2>6
    <3> DEFINE A  == Veces(listaReady, p) + Veces(listaExec, p) + Veces(exitProcesos, p)
                       + Cardinality(Encolado(p))
               A1 == Veces(listaReady', p) + Veces(listaExec', p) + Veces(exitProcesos', p)
                       + Cardinality(Encolado(p)')
    <3>2. A \in Nat /\ A1 \in Nat
      BY <2>1, <2>2
    <3>3. A1 + Uno(Lleva(hilo'[c], p)) - Uno(Entre(hilo'[c], p))
          = A + Uno(Lleva(hilo[c], p)) - Uno(Entre(hilo[c], p))
      BY <2>4 DEF Equilibrio
    <3>4. A + Cardinality(EnManos(p)) + Cardinality(Llevan(p))
          = 1 + Cardinality(EntreDosListas(p))
      BY <2>4 DEF EnSuLugar
    <3> HIDE DEF A, A1
    <3>5. Cardinality(EnManos(p)') = Cardinality(EnManos(p))
      BY <2>3
    <3>6. A1 + Cardinality(EnManos(p)') + Cardinality(Llevan(p)')
          = 1 + Cardinality(EntreDosListas(p)')
      BY <2>3, <2>5, <3>1, <3>2, <3>3, <3>4, <3>5
    <3> QED
      BY <3>6 DEF A1
  <2> QED
    BY <2>7, <2>8, LugarLuego
<1> QED
  BY <1>1 DEF Lugares

\* PCBs: one that changes is of a program that can go on, or has ended.
LEMMA PcbsSiguen ==
  ASSUME ListasEnRegla, PcbsEnRegla, NEW c \in CPUs, Otros(c), UNCHANGED exitProcesos,
         hilo[c].paso \notin {"exitSacar", "exitAgregar"}, NEW q \in Programas, NEW b,
         pcb' = pcb \/ pcb' = [pcb EXCEPT ![q] = b],
         b.pid = q, b.pc < Final(q) \/ Acabado(q)'
  PROVE  PcbsEnRegla'
<1>1. ASSUME NEW p \in Programas
      PROVE  pcb'[p].pid = p /\ (pcb'[p].pc < Final(p) \/ Acabado(p)')
  <2>1. pcb[p].pid = p /\ (pcb[p].pc < Final(p) \/ Acabado(p))
    BY DEF PcbsEnRegla
  <2>2. Acabado(p) => Acabado(p)'
    BY AcabadoSigue
  <2>3. pcb'[p] = pcb[p] \/ (p = q /\ pcb'[p] = b)
    BY DEF ListasEnRegla
  <2>4. CASE p = q /\ pcb'[p] = b
    BY <2>4
  <2>5. CASE pcb'[p] = pcb[p]
    BY <2>1, <2>2, <2>5
  <2> QED
    BY <2>3, <2>4, <2>5
<1>2. \A p : Final(p)' = Final(p)
  BY DEF Final
<1> QED
  BY <1>1, <1>2 DEF PcbsEnRegla

\* The same where no PCB changes.
LEMMA PcbsQuietos ==
  ASSUME ListasEnRegla, PcbsEnRegla, NEW c \in CPUs, Otros(c), UNCHANGED <<exitProcesos, pcb>>,
         hilo[c].paso \notin {"exitSacar", "exitAgregar"}
  PROVE  PcbsEnRegla'
<1>1. \A p : Acabado(p) => Acabado(p)'
  BY AcabadoSigue
<1> QED
  BY <1>1 DEF PcbsEnRegla

\* The queue of a device and its posts.
LEMMA DispSiguen ==
  ASSUME ListasEnRegla, ListasEnRegla', DispContado, UNCHANGED dispositivo,
         NEW c \in CPUs, Otros(c),
         \A d \in Dispositivos :
           Len(progEncolados'[d]) - semaforoDisp'[d] - Uno(Manda(hilo'[c], d))
             = Len(progEncolados[d]) - semaforoDisp[d] - Uno(Manda(hilo[c], d))
  PROVE  DispContado'
<1>1. ASSUME NEW d \in Dispositivos
      PROVE  Len(progEncolados'[d]) =
               semaforoDisp'[d] + Uno(dispositivo'[d].paso = "sacar") + Cardinality(Mandan(d)')
  <2> DEFINE a == Uno(Manda(hilo[c], d))
             b == Uno(Manda(hilo'[c], d))
             k == Uno(dispositivo[d].paso = "sacar")
             m == Cardinality(Mandan(d))
             n == Cardinality(Mandan(d)')
             l == Len(progEncolados[d])
             t == Len(progEncolados'[d])
             s == semaforoDisp[d]
             u == semaforoDisp'[d]
  <2>1. m \in Nat /\ n = m + b - a
    BY HiloCuenta
  <2>2. l = s + k + m
    BY DEF DispContado
  <2>3. s \in Nat /\ u \in Nat /\ l \in Nat /\ t \in Nat
    <3>1. progEncolados[d] \in Seq(1..admitidos) /\ progEncolados'[d] \in Seq(1..admitidos')
      BY DEF ListasEnRegla
    <3> QED
      BY <3>1, LenProperties DEF ListasEnRegla
  <2>4. a \in Nat /\ b \in Nat /\ k \in Nat /\ Uno(dispositivo'[d].paso = "sacar") = k
    BY DEF Uno
  <2>5. t - u - b = l - s - a
    OBVIOUS
  <2> HIDE DEF a, b, k, m, n, l, t, s, u
  <2>6. t = u + k + n
    BY <2>1, <2>2, <2>3, <2>4, <2>5
  <2> QED
    BY <2>4, <2>6 DEF n, t, u
<1>2. \A d : Cardinality(Mandan(d))' = Cardinality(Mandan(d)')
  BY DEF Mandan
<1> QED
  BY <1>1 DEF DispContado

\* The invariant after a step of a thread within the kernel.
LEMMA JuntaMovida ==
  ASSUME InvPCP, NEW c \in CPUs, Otros(c), UNCHANGED <<canales, cpu, admitidos, dispositivo>>,
         ListasEnRegla', ValoresEnRegla', HilosEnRegla', Fase(c)',
         PcbsEnRegla', DispContado', \A p \in 1..admitidos : Equilibrio(c, p)
  PROVE  InvPCP'
<1> USE DeHilo
<1>1. Puestos'
  BY LugaresSiguen DEF Puestos
<1>2. DispositivosEnRegla' /\ CanalesEnRegla'
  BY DEF DispositivosEnRegla, CanalesEnRegla, canales
<1>3. Ajenos(c)
  BY DEF Ajenos, canales
<1> QED
  BY <1>1, <1>2, <1>3, Junta

\* A thread that sends nothing to a device, and queues nothing in one.
LEMMA DispQuietos ==
  ASSUME ListasEnRegla, ListasEnRegla', DispContado, UNCHANGED <<dispositivo, semaforoDisp>>,
         NEW c \in CPUs, Otros(c), \A d \in Dispositivos : progEncolados'[d] = progEncolados[d],
         hilo[c].paso \notin {"ioSacar", "ioPost"}, hilo'[c].paso \notin {"ioSacar", "ioPost"}
  PROVE  DispContado'
<1>1. \A d : Manda(hilo[c], d) = FALSE /\ Manda(hilo'[c], d) = FALSE
  BY DEF Manda
<1> QED
  BY <1>1, DispSiguen

\* A program goes from READY to EXEC; a NULL in READY stops the thread.
LEMMA DespachoPuesto ==
  ASSUME InvPCP, NEW c \in CPUs, UNCHANGED <<canales, cpu>>, SacarReady(c) \/ CargarExec(c)
  PROVE  InvPCP'
<1> USE DeHilo
<1> DEFINE T == 0..admitidos
           U == 1..admitidos
<1>1. listaReady \in Seq(T) /\ listaExec \in Seq(U)
  BY DEF ListasEnRegla
<1>2. CASE SacarReady(c)
  <2>1. /\ hilo[c].paso = "sacar"
        /\ UNCHANGED <<admitidos, debePost, productorConsumidor, iSemaforo, progEncolados,
                       semaforoDisp, listaExec, exitProcesos, pcb, dispositivo>>
    BY <1>2 DEF SacarReady, plp, colas
  <2>2. /\ hilo[c].paso \notin PasosDueno /\ hilo[c].paso \in PasosLibres
        /\ "null" \in PasosHilo /\ "null" \notin PasosDueno /\ "null" \notin PasosConProg
        /\ "null" \notin PasosConOtro /\ "null" \in PasosLibres
        /\ "cargar" \in PasosHilo /\ "cargar" \notin PasosDueno /\ "cargar" \in PasosConProg
        /\ "cargar" \notin PasosConOtro /\ "cargar" \in PasosLibres
    BY <2>1 DEF PasosHilo, PasosDueno, PasosConProg, PasosConOtro, PasosLibres
  <2>3. \A p : /\ Lleva(hilo[c], p) = FALSE /\ Entre(hilo[c], p) = FALSE
               /\ Dueno(hilo[c], p) = FALSE
    BY <2>1, <2>2 DEF Lleva, Entre, Dueno
  <2>4. CASE listaReady = <<>> \/ Head(listaReady) = Nadie
    <3>1. /\ Seguir(c, "null") /\ vivo' = FALSE
          /\ \/ UNCHANGED listaReady
             \/ listaReady # <<>> /\ Head(listaReady) = Nadie /\ listaReady' = Tail(listaReady)
      BY <1>2, <2>4 DEF SacarReady, NullEn
    <3>2. HilosEnRegla' /\ Mueve(c, "null", hilo[c].prog, hilo[c].msg, hilo[c].otro)
      BY <2>1, <2>2, <3>1, Sigue
    <3>3. listaReady' \in Seq(T) /\ \A p \in U : Veces(listaReady', p) = Veces(listaReady, p)
      <4>1. CASE UNCHANGED listaReady
        BY <1>1, <4>1 DEF Veces
      <4>2. CASE listaReady # <<>> /\ Head(listaReady) = Nadie /\ listaReady' = Tail(listaReady)
        <5>1. Tail(listaReady) \in Seq(T)
          <6> HIDE DEF T
          <6> QED
            BY <1>1, <4>2, ColaSinCabeza
        <5>2. ASSUME NEW p \in U PROVE Veces(listaReady', p) = Veces(listaReady, p)
          <6>1. p # Nadie
            BY DEF Nadie
          <6> HIDE DEF T, U
          <6>2. /\ Veces(Tail(listaReady), p)
                     = Veces(listaReady, p) - Uno(Head(listaReady) = p)
                /\ Veces(listaReady, p) \in Nat
            BY <1>1, <4>2, VecesSinCabeza, VecesTipo
          <6> QED
            BY <4>2, <6>1, <6>2 DEF Uno
        <5> QED
          BY <4>2, <5>1, <5>2
      <4> QED
        BY <3>1, <4>1, <4>2
    <3>4. ListasEnRegla' /\ ValoresEnRegla'
      BY <2>1, <3>1, <3>3 DEF ListasEnRegla, ValoresEnRegla
    <3>5. Fase(c)'
      BY <2>2, <3>2, FaseDespacho DEF Mueve
    <3>6. ASSUME NEW p \in 1..admitidos PROVE Equilibrio(c, p)
      <4>1. /\ Lleva(hilo'[c], p) = FALSE /\ Entre(hilo'[c], p) = FALSE
            /\ Dueno(hilo'[c], p) = FALSE
        BY <2>2, <3>2 DEF Lleva, Entre, Dueno, Mueve
      <4>2. /\ Encolado(p)' = Encolado(p) /\ Veces(listaExec', p) = Veces(listaExec, p)
            /\ Veces(exitProcesos', p) = Veces(exitProcesos, p)
        BY <2>1 DEF Encolado, Veces
      <4>3. Veces(listaReady', p) = Veces(listaReady, p)
        BY <3>3
      <4> QED
        BY <2>3, <4>1, <4>2, <4>3, SonCuentas DEF Equilibrio, Uno
    <3>7. PcbsEnRegla' /\ DispContado'
      BY <2>1, <3>2, <3>4, PcbsQuietos, DispQuietos DEF Mueve
    <3> QED
      BY <2>1, <3>2, <3>4, <3>5, <3>6, <3>7, JuntaMovida DEF Mueve
  <2>5. CASE listaReady # <<>> /\ Head(listaReady) # Nadie
    <3> DEFINE q == Head(listaReady)
               h == Hilo("cargar", q)
    <3>1. /\ hilo' = [hilo EXCEPT ![c] = h] /\ listaReady' = Tail(listaReady) /\ UNCHANGED vivo
      BY <1>2, <2>5 DEF SacarReady
    <3>2. q \in T /\ listaReady' \in Seq(T)
          /\ \A p \in U : Veces(listaReady', p) = Veces(listaReady, p) - Uno(q = p)
      <4> HIDE DEF T, U
      <4>1. \A p : Veces(Tail(listaReady), p) = Veces(listaReady, p) - Uno(q = p)
        BY <1>1, <2>5, VecesSinCabeza
      <4> QED
        BY <1>1, <2>5, <3>1, <4>1, ColaSinCabeza
    <3>3. q \in Pids /\ q # Nadie
      BY <2>5, <3>2 DEF Pids, Programas, Nadie
    <3> HIDE DEF q
    <3>4. /\ h \in TipoHilo /\ h.paso = "cargar" /\ h.prog = q /\ h.otro = Nadie
      <4>1. Respuesta("ninguno") \in Mensajes
        BY DEF Respuesta, Mensaje, Mensajes, Pids, SinNombre
      <4>2. Nadie \in Pids
        BY DEF Pids
      <4> QED
        BY <2>2, <3>3, <4>1, <4>2 DEF TipoHilo, Hilo
    <3> HIDE DEF h
    <3>5. Acotado(h)
      BY <2>2, <3>2, <3>3, <3>4 DEF Acotado, Nadie
    <3>6. HilosEnRegla' /\ hilo'[c] = h /\ Otros(c)
      BY <2>1, <3>1, <3>4, <3>5, HiloNuevo
    <3>7. ListasEnRegla' /\ ValoresEnRegla'
      BY <2>1, <3>1, <3>2 DEF ListasEnRegla, ValoresEnRegla
    <3>8. Fase(c)'
      BY <2>2, <3>4, <3>6, FaseDespacho
    <3>9. ASSUME NEW p \in 1..admitidos PROVE Equilibrio(c, p)
      <4>1. /\ Lleva(hilo'[c], p) <=> q = p
            /\ Entre(hilo'[c], p) = FALSE
            /\ Dueno(hilo'[c], p) = FALSE
        BY <2>2, <3>4, <3>6 DEF Lleva, Entre, Dueno
      <4>2. /\ Encolado(p)' = Encolado(p) /\ Veces(listaExec', p) = Veces(listaExec, p)
            /\ Veces(exitProcesos', p) = Veces(exitProcesos, p)
        BY <2>1 DEF Encolado, Veces
      <4>3. Veces(listaReady', p) = Veces(listaReady, p) - Uno(q = p)
        BY <3>2
      <4> QED
        BY <2>3, <4>1, <4>2, <4>3, SonCuentas DEF Equilibrio, Uno
    <3>10. PcbsEnRegla' /\ DispContado'
      BY <2>1, <3>4, <3>6, <3>7, PcbsQuietos, DispQuietos
    <3> QED
      BY <2>1, <3>6, <3>7, <3>8, <3>9, <3>10, JuntaMovida
  <2> QED
    BY <2>4, <2>5
<1>3. CASE CargarExec(c)
  <2> DEFINE q == hilo[c].prog
  <2>1. /\ hilo[c].paso = "cargar" /\ Seguir(c, "enviar") /\ listaExec' = Append(listaExec, q)
        /\ UNCHANGED <<admitidos, debePost, vivo, listaReady, productorConsumidor, iSemaforo,
                       progEncolados, semaforoDisp, exitProcesos, pcb, dispositivo>>
    BY <1>3 DEF CargarExec, plp, ready, colas
  <2>2. /\ hilo[c].paso \notin PasosDueno /\ hilo[c].paso \in PasosLibres
        /\ hilo[c].paso \in PasosConProg
        /\ "enviar" \in PasosHilo /\ "enviar" \in PasosDueno /\ "enviar" \in PasosConProg
        /\ "enviar" \notin PasosConOtro /\ "enviar" \in PasosLibres
    BY <2>1 DEF PasosHilo, PasosDueno, PasosConProg, PasosConOtro, PasosLibres
  <2>3. HilosEnRegla' /\ Mueve(c, "enviar", q, hilo[c].msg, hilo[c].otro)
    BY <2>1, <2>2, Sigue
  <2>4. q \in U
    BY <2>2 DEF Acotado, Nadie
  <2>5. listaExec' \in Seq(U)
        /\ \A p \in U : Veces(listaExec', p) = Veces(listaExec, p) + Uno(q = p)
    <3> HIDE DEF T, U, q
    <3>1. \A p : Veces(Append(listaExec, q), p) = Veces(listaExec, p) + Uno(q = p)
      BY <1>1, <2>4, VecesConUltimo
    <3> QED
      BY <1>1, <2>1, <2>4, <3>1, ColaConUltimo
  <2>6. ListasEnRegla' /\ ValoresEnRegla'
    BY <2>1, <2>5 DEF ListasEnRegla, ValoresEnRegla
  <2>7. Fase(c)'
    BY <2>2, <2>3, FaseDespacho DEF Mueve
  <2>8. ASSUME NEW p \in 1..admitidos PROVE Equilibrio(c, p)
    <3>1. /\ Lleva(hilo[c], p) <=> q = p
          /\ Dueno(hilo[c], p) = FALSE /\ Entre(hilo[c], p) = FALSE
          /\ Lleva(hilo'[c], p) = FALSE
          /\ Entre(hilo'[c], p) = FALSE
          /\ Dueno(hilo'[c], p) <=> q = p
      BY <2>1, <2>2, <2>3 DEF Lleva, Entre, Dueno, Mueve
    <3>2. /\ Encolado(p)' = Encolado(p) /\ Veces(listaReady', p) = Veces(listaReady, p)
          /\ Veces(exitProcesos', p) = Veces(exitProcesos, p)
      BY <2>1 DEF Encolado, Veces
    <3>3. Veces(listaExec', p) = Veces(listaExec, p) + Uno(q = p)
      BY <2>5
    <3> QED
      BY <3>1, <3>2, <3>3, SonCuentas DEF Equilibrio, Uno
  <2>9. PcbsEnRegla' /\ DispContado'
    BY <2>1, <2>3, <2>6, PcbsQuietos, DispQuietos DEF Mueve
  <2> QED
    BY <2>1, <2>3, <2>6, <2>7, <2>8, <2>9, JuntaMovida DEF Mueve
<1> QED
  BY <1>2, <1>3

\* A program that a thread answers for is in EXEC, and found there by the pid of its
\* PCB.
LEMMA HayEnExec ==
  ASSUME InvPCP, NEW c \in CPUs, hilo[c].paso \in PasosDueno
  PROVE  LET q == hilo[c].prog
         IN  /\ q \in 1..admitidos /\ q \in Programas /\ pcb[q].pid = q
             /\ EnExec(q) # {}
<1> USE DeHilo
<1> DEFINE q == hilo[c].prog
<1>1. q \in 1..admitidos /\ q \in Programas
  BY DEF Acotado, PasosConProg, Nadie, Programas
<1>2. pcb[q].pid = q
  BY <1>1 DEF PcbsEnRegla
<1>3. Veces(listaExec, q) # 0
  <2>1. Duenos(q) \subseteq CPUs /\ c \in Duenos(q)
    BY DEF Duenos, Dueno
  <2>2. IsFiniteSet(Duenos(q)) /\ Cardinality(Duenos(q)) \in Nat
    BY <2>1, ParametrosConexion, FS_Subset, FS_CardinalityType
  <2>3. Cardinality(Duenos(q)) # 0
    BY <2>1, <2>2, FS_EmptySet
  <2>4. Cardinality(Duenos(q)) <= Veces(listaExec, q)
    BY <1>1 DEF Lugares, EnSuLugar
  <2> QED
    BY <2>2, <2>3, <2>4, ListaTipo
<1> QED
  BY <1>1, <1>2, <1>3, EstaEnExec

\* EXEC without that program.
LEMMA SacarDeExec ==
  ASSUME ListasEnRegla, PcbsEnRegla, NEW q \in 1..admitidos, NEW i \in EnExec(q),
         listaExec' = Sin(listaExec, i)
  PROVE  /\ listaExec[i] = q /\ listaExec' \in Seq(1..admitidos)
         /\ \A p : Veces(listaExec', p) = Veces(listaExec, p) - Uno(q = p)
<1> DEFINE U == 1..admitidos
<1>1. i \in 1..Len(listaExec) /\ listaExec[i] = q /\ listaExec \in Seq(U)
  BY EstaEnExec DEF ListasEnRegla
<1> HIDE DEF U
<1>2. listaExec' \in Seq(U)
  BY <1>1, ColaSinUno
<1>3. \A p : Veces(listaExec', p) = Veces(listaExec, p) - Uno(listaExec[i] = p)
  BY <1>1, VecesSinUno
<1> QED
  BY <1>1, <1>2, <1>3 DEF U

\* A program leaves EXEC to be blocked, or once a device has it.
LEMMA SacarPuesto ==
  ASSUME InvPCP, NEW c \in CPUs, UNCHANGED <<canales, cpu>>, WaitSacar(c) \/ IoSacar(c)
  PROVE  InvPCP'
<1> USE DeHilo
<1> DEFINE q == hilo[c].prog
<1>1. PICK a \in {"waitSacar", "ioSacar"} : hilo[c].paso = a
  BY DEF WaitSacar, IoSacar
<1> DEFINE b == IF a = "waitSacar" THEN "waitEncolar" ELSE "ioPost"
<1>2. /\ SacarSiEsta(pcb[q].pid) /\ Seguir(c, b)
      /\ UNCHANGED <<admitidos, debePost, vivo, listaReady, productorConsumidor, iSemaforo,
                     progEncolados, semaforoDisp, exitProcesos, pcb, dispositivo>>
  BY <1>1 DEF WaitSacar, IoSacar, plp, ready, colas
<1>3. /\ a \in PasosDueno /\ a \in PasosConProg /\ a \notin {"exitSacar", "exitAgregar"}
      /\ b \in PasosHilo /\ b \notin PasosDueno /\ b \notin PasosConOtro
      /\ a = "waitSacar" => a \in PasosWait /\ b \in PasosWait
      /\ a = "ioSacar" => a \in PasosFin /\ b \in PasosFin \ {"ioPcb", "recargarSacar"}
      /\ a = "waitSacar" => b = "waitEncolar"
      /\ a = "ioSacar" => b = "ioPost"
  BY <1>1 DEF PasosHilo, PasosDueno, PasosConProg, PasosConOtro, PasosWait, PasosIo, PasosFin
<1> HIDE DEF b
<1>4. HilosEnRegla' /\ Mueve(c, b, q, hilo[c].msg, hilo[c].otro)
  BY <1>1, <1>2, <1>3, Sigue
<1>5. q \in 1..admitidos /\ q \in Programas /\ pcb[q].pid = q /\ EnExec(q) # {}
  BY <1>1, <1>3, HayEnExec
<1>6. PICK i \in EnExec(q) : listaExec' = Sin(listaExec, i)
  BY <1>2, <1>5 DEF SacarSiEsta
<1> HIDE DEF q
<1>7. /\ listaExec' \in Seq(1..admitidos)
      /\ \A p : Veces(listaExec', p) = Veces(listaExec, p) - Uno(q = p)
  BY <1>5, <1>6, SacarDeExec
<1>8. ListasEnRegla' /\ ValoresEnRegla'
  BY <1>2, <1>7 DEF ListasEnRegla, ValoresEnRegla
<1>9. Fase(c)'
  <2>1. CASE a = "waitSacar"
    BY <1>1, <1>3, <1>4, <2>1, FaseSemaforo DEF Mueve, q
  <2>2. CASE a = "ioSacar"
    <3>1. hilo[c].msg.nombre \in Dispositivos
      BY <1>1, <1>3, <2>2 DEF Fase, FaseFin
    <3> QED
      BY <1>1, <1>3, <1>4, <2>2, <3>1, FaseDevuelta DEF Mueve
  <2> QED
    BY <2>1, <2>2
<1>10. ASSUME NEW p \in 1..admitidos PROVE Equilibrio(c, p)
  <2>1. /\ Dueno(hilo[c], p) <=> q = p
        /\ Dueno(hilo'[c], p) = FALSE
        /\ Lleva(hilo[c], p) = FALSE
        /\ Lleva(hilo'[c], p) <=> (a = "waitSacar" /\ q = p)
        /\ Entre(hilo[c], p) <=> (a = "ioSacar" /\ q = p)
        /\ Entre(hilo'[c], p) = FALSE
    BY <1>1, <1>3, <1>4 DEF Lleva, Entre, Dueno, Mueve, q
  <2>2. /\ Encolado(p)' = Encolado(p) /\ Veces(listaReady', p) = Veces(listaReady, p)
        /\ Veces(exitProcesos', p) = Veces(exitProcesos, p)
    BY <1>2 DEF Encolado, Veces
  <2>3. Veces(listaExec', p) = Veces(listaExec, p) - Uno(q = p)
    BY <1>7
  <2> QED
    BY <2>1, <2>2, <2>3, SonCuentas DEF Equilibrio, Uno
<1>11. PcbsEnRegla'
  BY <1>1, <1>2, <1>3, <1>4, PcbsQuietos DEF Mueve
<1>12. DispContado'
  <2>1. \A d : Manda(hilo'[c], d) <=> Manda(hilo[c], d)
    BY <1>1, <1>3, <1>4 DEF Manda, Mueve
  <2>2. \A d : Uno(Manda(hilo'[c], d)) = Uno(Manda(hilo[c], d))
    BY <2>1 DEF Uno
  <2> QED
    BY <1>2, <1>4, <1>8, <2>2, DispSiguen DEF Mueve
<1> QED
  BY <1>2, <1>4, <1>8, <1>9, <1>10, <1>11, <1>12, JuntaMovida DEF Mueve

\* A program more in one queue.
LEMMA Encola ==
  ASSUME ListasEnRegla, NEW r \in Semaforos \cup Dispositivos, NEW q \in 1..admitidos,
         Encolar(r, q)
  PROVE  /\ progEncolados' \in [Semaforos \cup Dispositivos -> Seq(1..admitidos)]
         /\ Len(progEncolados'[r]) = Len(progEncolados[r]) + 1
         /\ \A s \in (Semaforos \cup Dispositivos) \ {r} : progEncolados'[s] = progEncolados[s]
         /\ \A p : Cardinality(Encolado(p)') = Cardinality(Encolado(p)) + Uno(q = p)
<1> DEFINE T == 1..admitidos
           s == progEncolados[r]
           t == Append(s, q)
<1>1. s \in Seq(T) /\ q \in T
  BY DEF ListasEnRegla
<1>2. progEncolados' = [progEncolados EXCEPT ![r] = t]
  BY DEF Encolar
<1>3. t \in Seq(T) /\ Len(t) = Len(s) + 1
  <2> HIDE DEF T, s
  <2> QED
    BY <1>1, ColaConUltimo
<1>4. ASSUME NEW p
      PROVE  Cardinality(Encolado(p)') = Cardinality(Encolado(p)) + Uno(q = p)
  <2>1. Veces(t, p) = Veces(s, p) + Uno(q = p) /\ Veces(s, p) \in Nat
    <3> HIDE DEF T, s
    <3>1. Veces(s, p) \in Nat
      BY <1>1, VecesTipo
    <3> QED
      BY <1>1, <3>1, VecesConUltimo
  <2> HIDE DEF t
  <2>2. /\ Cardinality(Encolado(p)) \in Nat
        /\ Cardinality(Encolado(p)') = Cardinality(Encolado(p)) + Veces(t, p) - Veces(s, p)
    BY <1>2, <1>3, EncoladoCambia
  <2> QED
    BY <2>1, <2>2 DEF Uno
<1> HIDE DEF t
<1> QED
  BY <1>2, <1>3, <1>4 DEF ListasEnRegla

\* The first program out of one queue.
LEMMA Desencola ==
  ASSUME ListasEnRegla, NEW r \in Semaforos \cup Dispositivos, progEncolados[r] # <<>>,
         progEncolados' = [progEncolados EXCEPT ![r] = Tail(progEncolados[r])]
  PROVE  /\ Head(progEncolados[r]) \in 1..admitidos
         /\ progEncolados' \in [Semaforos \cup Dispositivos -> Seq(1..admitidos)]
         /\ Len(progEncolados'[r]) = Len(progEncolados[r]) - 1
         /\ \A s \in (Semaforos \cup Dispositivos) \ {r} : progEncolados'[s] = progEncolados[s]
         /\ \A p : Cardinality(Encolado(p)') =
                     Cardinality(Encolado(p)) - Uno(Head(progEncolados[r]) = p)
<1> DEFINE T == 1..admitidos
           s == progEncolados[r]
           q == Head(s)
           t == Tail(s)
<1>1. s \in Seq(T)
  BY DEF ListasEnRegla
<1>2. progEncolados' = [progEncolados EXCEPT ![r] = t]
  OBVIOUS
<1>3. q \in T /\ t \in Seq(T) /\ Len(t) = Len(s) - 1
  <2> HIDE DEF T, s
  <2> QED
    BY <1>1, ColaSinCabeza DEF s
<1>4. ASSUME NEW p
      PROVE  Cardinality(Encolado(p)') = Cardinality(Encolado(p)) - Uno(q = p)
  <2>1. Veces(t, p) = Veces(s, p) - Uno(q = p) /\ Veces(s, p) \in Nat
    <3>1. s # <<>>
      OBVIOUS
    <3> HIDE DEF T, s
    <3> QED
      BY <1>1, <3>1, VecesSinCabeza, VecesTipo
  <2> HIDE DEF t, q
  <2>2. /\ Cardinality(Encolado(p)) \in Nat
        /\ Cardinality(Encolado(p)') = Cardinality(Encolado(p)) + Veces(t, p) - Veces(s, p)
    BY <1>2, <1>3, EncoladoCambia
  <2> QED
    BY <2>1, <2>2 DEF Uno
<1> HIDE DEF t
<1> QED
  BY <1>2, <1>3, <1>4 DEF ListasEnRegla

\* A program that waits for a semaphore is queued with the PCB it goes on with.
LEMMA WaitEncolarPuesto ==
  ASSUME ProgramasEnRegla, InvPCP, NEW c \in CPUs, UNCHANGED <<canales, cpu>>, WaitEncolar(c)
  PROVE  InvPCP'
<1> USE DeHilo
<1> DEFINE q == hilo[c].prog
           m == hilo[c].msg
           b == PcbDe(m)
<1>1. /\ hilo[c].paso = "waitEncolar" /\ Seguir(c, "waitBloquear")
      /\ pcb' = [pcb EXCEPT ![q] = b] /\ Encolar(m.nombre, q)
      /\ UNCHANGED <<admitidos, debePost, vivo, listaReady, productorConsumidor, iSemaforo,
                     semaforoDisp, listaExec, exitProcesos, dispositivo>>
  BY DEF WaitEncolar, plp, ready
<1>2. /\ hilo[c].paso \in PasosWait /\ "waitBloquear" \in PasosWait
      /\ hilo[c].paso \in PasosConProg /\ hilo[c].paso \notin PasosDueno
      /\ "waitBloquear" \in PasosHilo /\ "waitBloquear" \notin PasosDueno
      /\ "waitBloquear" \notin PasosConOtro
  BY <1>1 DEF PasosHilo, PasosDueno, PasosConProg, PasosConOtro, PasosWait
<1>3. HilosEnRegla' /\ Mueve(c, "waitBloquear", q, m, hilo[c].otro)
  BY <1>1, <1>2, Sigue
<1>4. m.nombre \in Semaforos
  BY <1>2, SemaforoDelMensaje
<1>5. q \in 1..admitidos /\ q \in Programas
  BY <1>2 DEF Acotado, Nadie, Programas
<1>6. b.pid = q /\ b.pc < Final(q) /\ b \in [pid : Programas, pc : Nat]
  <2>1. /\ Pregunta(c) /\ m = Pedido(c) /\ LineaActual(c).op = "wait"
        /\ LineaActual(c).nombre \in Semaforos /\ FaseCpu(c)
    BY <1>2 DEF Fase, FasePedido, PasosPedido
  <2>2. m.pid = cpu[c].pid /\ m.pc = cpu[c].pc
    BY <2>1 DEF Pedido, Mensaje
  <2>3. cpu[c].pid = q /\ cpu[c].pc \in 0..Final(q) /\ cpu[c].pc > 0
    BY <2>1 DEF Pregunta, FaseCpu
  <2>4. cpu[c].pc \in 1..Final(q) /\ Final(q) \in Nat
    BY <1>5, <2>3, HayLinea
  <2>5. ~Ultima(LineaActual(c))
    BY <2>1 DEF Ultima
  <2>6. cpu[c].pc < Final(q)
    BY <1>5, <2>3, <2>4, <2>5, LineaEnRegla DEF LineaActual
  <2>7. b.pid = m.pid /\ b.pc = m.pc
    BY DEF PcbDe
  <2> QED
    BY <1>5, <2>2, <2>3, <2>4, <2>6, <2>7 DEF PcbDe
<1> HIDE DEF b, q
<1>7. /\ progEncolados' \in [Semaforos \cup Dispositivos -> Seq(1..admitidos)]
      /\ \A d \in Dispositivos : progEncolados'[d] = progEncolados[d]
      /\ \A p : Cardinality(Encolado(p)') = Cardinality(Encolado(p)) + Uno(q = p)
  <2>1. Encolar(m.nombre, q) /\ \A d \in Dispositivos : d # m.nombre
    BY <1>1, <1>4, ParametrosPCP
  <2> HIDE DEF m
  <2>2. /\ progEncolados' \in [Semaforos \cup Dispositivos -> Seq(1..admitidos)]
        /\ \A s \in (Semaforos \cup Dispositivos) \ {m.nombre} :
             progEncolados'[s] = progEncolados[s]
        /\ \A p : Cardinality(Encolado(p)') = Cardinality(Encolado(p)) + Uno(q = p)
    BY <1>4, <1>5, <2>1, Encola
  <2> QED
    BY <2>1, <2>2
<1>8. ListasEnRegla' /\ ValoresEnRegla'
  BY <1>1, <1>6, <1>7 DEF ListasEnRegla, ValoresEnRegla
<1>9. Fase(c)'
  BY <1>2, <1>3, FaseSemaforo DEF Mueve, q
<1>10. ASSUME NEW p \in 1..admitidos PROVE Equilibrio(c, p)
  <2>1. /\ Dueno(hilo[c], p) = FALSE /\ Dueno(hilo'[c], p) = FALSE
        /\ Lleva(hilo[c], p) <=> q = p
        /\ Lleva(hilo'[c], p) = FALSE
        /\ Entre(hilo[c], p) = FALSE
        /\ Entre(hilo'[c], p) = FALSE
    BY <1>1, <1>2, <1>3 DEF Lleva, Entre, Dueno, Mueve, q
  <2>2. /\ Veces(listaExec', p) = Veces(listaExec, p)
        /\ Veces(listaReady', p) = Veces(listaReady, p)
        /\ Veces(exitProcesos', p) = Veces(exitProcesos, p)
    BY <1>1 DEF Veces
  <2>3. Cardinality(Encolado(p)') = Cardinality(Encolado(p)) + Uno(q = p)
    BY <1>7
  <2> QED
    BY <2>1, <2>2, <2>3, SonCuentas DEF Equilibrio, Uno
<1>11. PcbsEnRegla'
  BY <1>1, <1>3, <1>5, <1>6, PcbsSiguen DEF Mueve
<1>12. DispContado'
  BY <1>1, <1>3, <1>7, <1>8, DispQuietos DEF Mueve
<1> QED
  BY <1>1, <1>3, <1>8, <1>9, <1>10, <1>11, <1>12, JuntaMovida DEF Mueve

\* A program that asks for a device, or for one that does not exist.
LEMMA IoPcbPuesto ==
  ASSUME InvPCP, NEW c \in CPUs, UNCHANGED <<canales, cpu>>, IoPcb(c)
  PROVE  InvPCP'
<1> USE DeHilo
<1>0. PICK q \in Programas : q = hilo[c].prog /\ q \in 1..admitidos
  <2>1. hilo[c].paso \in PasosConProg
    BY DEF IoPcb, PasosConProg, PasosDueno
  <2> QED
    BY <2>1 DEF Acotado, Nadie, Programas
<1> DEFINE m == hilo[c].msg
           b == PcbDe(m)
<1>1. PICK a \in {"ioEncolar", "exitSacar"} :
        /\ Seguir(c, a) /\ (m.nombre \in Dispositivos <=> a = "ioEncolar")
  <2>1. CASE m.nombre \in Dispositivos
    BY <2>1 DEF IoPcb
  <2>2. CASE m.nombre \notin Dispositivos
    BY <2>2 DEF IoPcb
  <2> QED
    BY <2>1, <2>2
<1>2. /\ hilo[c].paso = "ioPcb" /\ pcb' = [pcb EXCEPT ![q] = b]
      /\ UNCHANGED <<admitidos, debePost, vivo, listaReady, productorConsumidor, iSemaforo,
                     progEncolados, semaforoDisp, listaExec, exitProcesos, dispositivo>>
  BY <1>0 DEF IoPcb, plp, ready, colas
<1>3. /\ hilo[c].paso \in PasosFin /\ a \in PasosFin \ {"ioPcb", "recargarSacar"}
      /\ hilo[c].paso \in PasosConProg /\ hilo[c].paso \in PasosDueno
      /\ a \in PasosHilo /\ a \in PasosDueno /\ a \notin PasosConOtro
  BY <1>2 DEF PasosHilo, PasosDueno, PasosConProg, PasosConOtro, PasosFin, PasosIo
<1>4. HilosEnRegla' /\ Mueve(c, a, q, m, hilo[c].otro)
  BY <1>0, <1>1, <1>2, <1>3, Sigue
<1>6. /\ b.pid = q /\ b \in [pid : Programas, pc : Nat]
      /\ m.nombre \in Dispositivos => b.pc < Final(q)
  <2>1. m.op = "entradaSalidaKernel" /\ Devuelve(c, m, q) /\ m \in Mensajes
    BY <1>0, <1>2, <1>3 DEF Fase, FaseFin, TipoHilo
  <2>2. m.pid = q /\ m.pc \in Nat /\ (m.nombre \in Dispositivos => m.pc < Final(q))
    BY <2>1 DEF Devuelve, Mensajes
  <2> QED
    BY <2>2 DEF PcbDe
<1> HIDE DEF b
<1>7. ListasEnRegla' /\ ValoresEnRegla'
  BY <1>2, <1>6 DEF ListasEnRegla, ValoresEnRegla
<1>8. Fase(c)'
  BY <1>1, <1>2, <1>3, <1>4, FaseDevuelta DEF Mueve
<1>9. ASSUME NEW p \in 1..admitidos PROVE Equilibrio(c, p)
  <2>1. /\ Dueno(hilo'[c], p) <=> Dueno(hilo[c], p)
        /\ Lleva(hilo[c], p) = FALSE
        /\ Lleva(hilo'[c], p) = FALSE
        /\ Entre(hilo[c], p) = FALSE
        /\ Entre(hilo'[c], p) = FALSE
    BY <1>0, <1>1, <1>2, <1>3, <1>4 DEF Lleva, Entre, Dueno, Mueve
  <2>2. /\ Veces(listaExec', p) = Veces(listaExec, p)
        /\ Veces(listaReady', p) = Veces(listaReady, p)
        /\ Veces(exitProcesos', p) = Veces(exitProcesos, p)
        /\ Encolado(p)' = Encolado(p)
    BY <1>2 DEF Veces, Encolado
  <2> QED
    BY <2>1, <2>2, SonCuentas DEF Equilibrio, Uno
<1>10. PcbsEnRegla'
  <2>1. a = "exitSacar" => Acabado(q)'
    BY <1>4 DEF Acabado, Mueve
  <2> QED
    BY <1>1, <1>2, <1>4, <1>6, <2>1, PcbsSiguen DEF Mueve
<1>11. DispContado'
  BY <1>1, <1>2, <1>4, <1>7, DispQuietos DEF Mueve
<1> QED
  BY <1>2, <1>4, <1>7, <1>8, <1>9, <1>10, <1>11, JuntaMovida DEF Mueve

\* A program is queued in a device before it leaves EXEC, and the device is posted
\* after that.
LEMMA IoPuesto ==
  ASSUME InvPCP, NEW c \in CPUs, UNCHANGED <<canales, cpu>>, IoEncolar(c) \/ IoPost(c)
  PROVE  InvPCP'
<1> USE DeHilo
<1> DEFINE q == hilo[c].prog
           r == hilo[c].msg.nombre
<1>1. CASE IoEncolar(c)
  <2>1. /\ hilo[c].paso = "ioEncolar" /\ Seguir(c, "ioSacar") /\ Encolar(r, q)
        /\ UNCHANGED <<admitidos, debePost, vivo, listaReady, productorConsumidor, iSemaforo,
                       semaforoDisp, listaExec, exitProcesos, pcb, dispositivo>>
    BY <1>1 DEF IoEncolar, plp, ready
  <2>2. /\ hilo[c].paso \in PasosFin /\ "ioSacar" \in PasosFin \ {"ioPcb", "recargarSacar"}
        /\ hilo[c].paso \in PasosConProg /\ hilo[c].paso \in PasosDueno
        /\ "ioSacar" \in PasosHilo /\ "ioSacar" \in PasosDueno /\ "ioSacar" \notin PasosConOtro
    BY <2>1 DEF PasosHilo, PasosDueno, PasosConProg, PasosConOtro, PasosFin, PasosIo
  <2>3. HilosEnRegla' /\ Mueve(c, "ioSacar", q, hilo[c].msg, hilo[c].otro)
    BY <2>1, <2>2, Sigue
  <2>4. q \in 1..admitidos /\ r \in Dispositivos
    BY <2>1, <2>2 DEF Acotado, Nadie, Fase, FaseFin
  <2>5. Fase(c)'
    BY <2>1, <2>2, <2>3, <2>4, FaseDevuelta DEF Mueve
  <2>6. /\ progEncolados' \in [Semaforos \cup Dispositivos -> Seq(1..admitidos)]
        /\ Len(progEncolados'[r]) = Len(progEncolados[r]) + 1
        /\ \A d \in Dispositivos \ {r} : progEncolados'[d] = progEncolados[d]
        /\ \A p : Cardinality(Encolado(p)') = Cardinality(Encolado(p)) + Uno(q = p)
    <3> HIDE DEF q, r
    <3>1. /\ progEncolados' \in [Semaforos \cup Dispositivos -> Seq(1..admitidos)]
          /\ Len(progEncolados'[r]) = Len(progEncolados[r]) + 1
          /\ \A s \in (Semaforos \cup Dispositivos) \ {r} : progEncolados'[s] = progEncolados[s]
          /\ \A p : Cardinality(Encolado(p)') = Cardinality(Encolado(p)) + Uno(q = p)
      BY <2>1, <2>4, Encola
    <3> QED
      BY <3>1
  <2>7. ListasEnRegla' /\ ValoresEnRegla'
    BY <2>1, <2>6 DEF ListasEnRegla, ValoresEnRegla
  <2>8. ASSUME NEW p \in 1..admitidos PROVE Equilibrio(c, p)
    <3>1. /\ Dueno(hilo'[c], p) <=> Dueno(hilo[c], p)
          /\ Lleva(hilo[c], p) = FALSE
          /\ Lleva(hilo'[c], p) = FALSE
          /\ Entre(hilo[c], p) = FALSE
          /\ Entre(hilo'[c], p) <=> q = p
      BY <2>1, <2>2, <2>3 DEF Lleva, Entre, Dueno, Mueve
    <3>2. /\ Veces(listaExec', p) = Veces(listaExec, p)
          /\ Veces(listaReady', p) = Veces(listaReady, p)
          /\ Veces(exitProcesos', p) = Veces(exitProcesos, p)
      BY <2>1 DEF Veces
    <3>3. Cardinality(Encolado(p)') = Cardinality(Encolado(p)) + Uno(q = p)
      BY <2>6
    <3> HIDE DEF q
    <3> QED
      BY <3>1, <3>2, <3>3, SonCuentas DEF Equilibrio, Uno
  <2>9. PcbsEnRegla'
    BY <2>1, <2>3, PcbsQuietos DEF Mueve
  <2>10. DispContado'
    <3>1. ASSUME NEW d \in Dispositivos
          PROVE  Len(progEncolados'[d]) - semaforoDisp'[d] - Uno(Manda(hilo'[c], d))
                   = Len(progEncolados[d]) - semaforoDisp[d] - Uno(Manda(hilo[c], d))
      <4>1. Manda(hilo[c], d) = FALSE /\ (Manda(hilo'[c], d) <=> r = d)
        BY <2>1, <2>3 DEF Manda, Mueve
      <4>2. Uno(Manda(hilo[c], d)) = 0 /\ Uno(Manda(hilo'[c], d)) = IF r = d THEN 1 ELSE 0
        BY <4>1 DEF Uno
      <4>3. semaforoDisp'[d] = semaforoDisp[d] /\ semaforoDisp[d] \in Nat
        BY <2>1 DEF ListasEnRegla
      <4>4. Len(progEncolados[d]) \in Nat
        <5>1. progEncolados[d] \in Seq(1..admitidos)
          BY DEF ListasEnRegla
        <5> QED
          BY <5>1, LenProperties
      <4>5. CASE r = d
        <5>1. Len(progEncolados'[d]) = Len(progEncolados[d]) + 1
          BY <2>6, <4>5
        <5> QED
          BY <4>2, <4>3, <4>4, <4>5, <5>1
      <4>6. CASE r # d
        <5>1. progEncolados'[d] = progEncolados[d]
          BY <2>6, <4>6
        <5> QED
          BY <4>2, <4>3, <4>4, <4>6, <5>1
      <4> QED
        BY <4>5, <4>6
    <3> QED
      BY <2>1, <2>3, <2>7, <3>1, DispSiguen DEF Mueve
  <2> QED
    BY <2>1, <2>3, <2>5, <2>7, <2>8, <2>9, <2>10, JuntaMovida DEF Mueve
<1>2. CASE IoPost(c)
  <2>1. /\ hilo[c].paso = "ioPost" /\ Volver(c, "esperar")
        /\ semaforoDisp' = [semaforoDisp EXCEPT ![r] = @ + 1]
        /\ UNCHANGED <<admitidos, debePost, vivo, listaReady, productorConsumidor, iSemaforo,
                       progEncolados, listaExec, exitProcesos, pcb, dispositivo>>
    BY <1>2 DEF IoPost, plp, ready
  <2>2. /\ hilo[c].paso \in PasosFin /\ "esperar" \in PasosLibres
        /\ hilo[c].paso \notin PasosDueno /\ "esperar" \notin PasosConProg
        /\ "esperar" \in PasosHilo /\ "esperar" \notin PasosDueno /\ "esperar" \notin PasosConOtro
    BY <2>1 DEF PasosHilo, PasosDueno, PasosConProg, PasosConOtro, PasosFin, PasosIo, PasosLibres
  <2>3. HilosEnRegla' /\ Mueve(c, "esperar", q, Respuesta("ninguno"), Nadie)
    BY <2>1, <2>2, Vuelve
  <2>4. r \in Dispositivos
    BY <2>1, <2>2 DEF Fase, FaseFin
  <2>5. Fase(c)'
    BY <2>2, <2>3, FaseDespacho DEF Mueve
  <2>6. ListasEnRegla' /\ ValoresEnRegla'
    <3>1. semaforoDisp' \in [Dispositivos -> Nat]
      BY <2>1, <2>4 DEF ListasEnRegla
    <3> QED
      BY <2>1, <3>1 DEF ListasEnRegla, ValoresEnRegla
  <2>7. ASSUME NEW p \in 1..admitidos PROVE Equilibrio(c, p)
    <3>1. /\ Dueno(hilo[c], p) = FALSE /\ Dueno(hilo'[c], p) = FALSE
          /\ Lleva(hilo[c], p) = FALSE /\ Lleva(hilo'[c], p) = FALSE
          /\ Entre(hilo[c], p) = FALSE /\ Entre(hilo'[c], p) = FALSE
      BY <2>1, <2>2, <2>3 DEF Lleva, Entre, Dueno, Mueve
    <3>2. /\ Veces(listaExec', p) = Veces(listaExec, p)
          /\ Veces(listaReady', p) = Veces(listaReady, p)
          /\ Veces(exitProcesos', p) = Veces(exitProcesos, p)
          /\ Encolado(p)' = Encolado(p)
      BY <2>1 DEF Veces, Encolado
    <3> QED
      BY <3>1, <3>2, SonCuentas DEF Equilibrio, Uno
  <2>8. PcbsEnRegla'
    BY <2>1, <2>3, PcbsQuietos DEF Mueve
  <2>9. DispContado'
    <3>1. ASSUME NEW d \in Dispositivos
          PROVE  Len(progEncolados'[d]) - semaforoDisp'[d] - Uno(Manda(hilo'[c], d))
                   = Len(progEncolados[d]) - semaforoDisp[d] - Uno(Manda(hilo[c], d))
      <4>1. Manda(hilo'[c], d) = FALSE /\ (Manda(hilo[c], d) <=> r = d)
        BY <2>1, <2>3 DEF Manda, Mueve
      <4>2. Uno(Manda(hilo'[c], d)) = 0 /\ Uno(Manda(hilo[c], d)) = IF r = d THEN 1 ELSE 0
        BY <4>1 DEF Uno
      <4>3. /\ semaforoDisp[d] \in Nat
            /\ semaforoDisp'[d] = semaforoDisp[d] + IF r = d THEN 1 ELSE 0
        BY <2>1 DEF ListasEnRegla
      <4>4. Len(progEncolados[d]) \in Nat /\ progEncolados'[d] = progEncolados[d]
        <5>1. progEncolados[d] \in Seq(1..admitidos)
          BY DEF ListasEnRegla
        <5> QED
          BY <2>1, <5>1, LenProperties
      <4> QED
        BY <4>2, <4>3, <4>4
    <3> QED
      BY <2>1, <2>3, <2>6, <3>1, DispSiguen DEF Mueve
  <2> QED
    BY <2>1, <2>3, <2>5, <2>6, <2>7, <2>8, <2>9, JuntaMovida DEF Mueve
<1> QED
  BY <1>1, <1>2

\* A program, or the NULL of an empty queue, more in READY.
LEMMA ReadyCrece ==
  ASSUME ListasEnRegla, NEW o \in 0..admitidos, listaReady' = Append(listaReady, o)
  PROVE  /\ listaReady' \in Seq(0..admitidos)
         /\ \A p : Veces(listaReady', p) = Veces(listaReady, p) + Uno(o = p)
<1> DEFINE T == 0..admitidos
<1>1. listaReady \in Seq(T) /\ o \in T
  BY DEF ListasEnRegla
<1> HIDE DEF T
<1>2. listaReady' \in Seq(T)
  BY <1>1, ColaConUltimo
<1>3. \A p : Veces(Append(listaReady, o), p) = Veces(listaReady, p) + Uno(o = p)
  BY <1>1, VecesConUltimo
<1> QED
  BY <1>2, <1>3 DEF T

\* A signal takes a program out of the queue of its semaphore, if there is one.
LEMMA SignalSacarPuesto ==
  ASSUME InvPCP, NEW c \in CPUs, UNCHANGED <<canales, cpu>>, SignalSacar(c)
  PROVE  InvPCP'
<1> USE DeHilo
<1> DEFINE s == hilo[c].msg.nombre
           L == progEncolados[s]
<1>1. /\ hilo[c].paso = "signalSacar"
      /\ UNCHANGED <<admitidos, debePost, vivo, listaReady, productorConsumidor, iSemaforo,
                     semaforoDisp, listaExec, exitProcesos, pcb, dispositivo>>
  BY DEF SignalSacar, plp, ready
<1>2. /\ hilo[c].paso \in PasosSignal /\ "signalReady" \in PasosSignal
      /\ hilo[c].paso \in PasosConProg /\ hilo[c].paso \in PasosDueno
      /\ "signalReady" \in PasosHilo /\ "signalReady" \in PasosDueno
      /\ "signalReady" \notin PasosConOtro
  BY <1>1 DEF PasosHilo, PasosDueno, PasosConProg, PasosConOtro, PasosSignal
<1>3. s \in Semaforos
  BY <1>2, SemaforoDelMensaje
<1>4. PICK o \in 0..admitidos :
        /\ hilo' = [hilo EXCEPT ![c].otro = o, ![c].paso = "signalReady"]
        /\ progEncolados' \in [Semaforos \cup Dispositivos -> Seq(1..admitidos)]
        /\ \A d \in Dispositivos : progEncolados'[d] = progEncolados[d]
        /\ \A p \in 1..admitidos :
             Cardinality(Encolado(p)') = Cardinality(Encolado(p)) - Uno(o = p)
  <2>1. CASE L = <<>>
    <3>1. /\ hilo' = [hilo EXCEPT ![c].otro = Nadie, ![c].paso = "signalReady"]
          /\ UNCHANGED progEncolados
      BY <2>1 DEF SignalSacar
    <3>2. Nadie \in 0..admitidos /\ \A p \in 1..admitidos : Nadie # p
      BY DEF Nadie
    <3>3. ASSUME NEW p \in 1..admitidos
          PROVE  Cardinality(Encolado(p)') = Cardinality(Encolado(p)) - Uno(Nadie = p)
      <4>1. Encolado(p)' = Encolado(p)
        BY <3>1 DEF Encolado
      <4> QED
        BY <3>2, <4>1, EncoladoTipo DEF Uno
    <3>4. progEncolados' \in [Semaforos \cup Dispositivos -> Seq(1..admitidos)]
          /\ \A d \in Dispositivos : progEncolados'[d] = progEncolados[d]
      BY <3>1 DEF ListasEnRegla
    <3> QED
      BY <3>1, <3>2, <3>3, <3>4
  <2>2. CASE L # <<>>
    <3>1. /\ hilo' = [hilo EXCEPT ![c].otro = Head(L), ![c].paso = "signalReady"]
          /\ progEncolados' = [progEncolados EXCEPT ![s] = Tail(progEncolados[s])]
      BY <2>2 DEF SignalSacar
    <3>2. /\ Head(L) \in 1..admitidos
          /\ progEncolados' \in [Semaforos \cup Dispositivos -> Seq(1..admitidos)]
          /\ \A r \in (Semaforos \cup Dispositivos) \ {s} : progEncolados'[r] = progEncolados[r]
          /\ \A p : Cardinality(Encolado(p)') = Cardinality(Encolado(p)) - Uno(Head(L) = p)
      <4>1. s \in Semaforos \cup Dispositivos
        BY <1>3
      <4> HIDE DEF s
      <4> QED
        BY <2>2, <3>1, <4>1, Desencola
    <3>3. \A d \in Dispositivos : d \in (Semaforos \cup Dispositivos) \ {s}
      BY <1>3, ParametrosPCP
    <3>4. \A d \in Dispositivos : progEncolados'[d] = progEncolados[d]
      BY <3>2, <3>3
    <3>5. Head(L) \in 0..admitidos
      BY <3>2
    <3> QED
      BY <3>1, <3>2, <3>4, <3>5
  <2> QED
    BY <2>1, <2>2
<1>5. o \in Pids
  BY DEF Pids, Programas, Nadie
<1>6. HilosEnRegla' /\ Mueve(c, "signalReady", hilo[c].prog, hilo[c].msg, o)
  BY <1>1, <1>2, <1>4, <1>5, Tiene
<1>7. ListasEnRegla' /\ ValoresEnRegla'
  BY <1>1, <1>4 DEF ListasEnRegla, ValoresEnRegla
<1>8. Fase(c)'
  BY <1>2, <1>6, FaseSemaforo DEF Mueve
<1>9. ASSUME NEW p \in 1..admitidos PROVE Equilibrio(c, p)
  <2>1. /\ Dueno(hilo'[c], p) <=> Dueno(hilo[c], p)
        /\ Lleva(hilo[c], p) = FALSE
        /\ Lleva(hilo'[c], p) <=> o = p
        /\ Entre(hilo[c], p) = FALSE
        /\ Entre(hilo'[c], p) = FALSE
    BY <1>1, <1>2, <1>6 DEF Lleva, Entre, Dueno, Mueve
  <2>2. /\ Veces(listaExec', p) = Veces(listaExec, p)
        /\ Veces(listaReady', p) = Veces(listaReady, p)
        /\ Veces(exitProcesos', p) = Veces(exitProcesos, p)
    BY <1>1 DEF Veces
  <2>3. Cardinality(Encolado(p)') = Cardinality(Encolado(p)) - Uno(o = p)
    BY <1>4
  <2> QED
    BY <2>1, <2>2, <2>3, SonCuentas DEF Equilibrio, Uno
<1>10. PcbsEnRegla'
  BY <1>1, <1>6, PcbsQuietos DEF Mueve
<1>11. DispContado'
  BY <1>1, <1>4, <1>6, <1>7, DispQuietos DEF Mueve
<1> QED
  BY <1>1, <1>6, <1>7, <1>8, <1>9, <1>10, <1>11, JuntaMovida DEF Mueve

\* A program goes back to READY, awakened or at the end of its quantum.
LEMMA ReadyPuesto ==
  ASSUME InvPCP, NEW c \in CPUs, UNCHANGED <<canales, cpu>>, SignalReady(c) \/ RecargarReady(c)
  PROVE  InvPCP'
<1> USE DeHilo
<1>1. PICK o \in 0..admitidos : o = hilo[c].otro
  BY DEF Acotado
<1>2. PICK a \in {"signalReady", "recargarReady"} : hilo[c].paso = a
  BY DEF SignalReady, RecargarReady
<1> DEFINE b == IF a = "signalReady" THEN "signalPost" ELSE "recargarPost"
<1>3. /\ listaReady' = Append(listaReady, o)
      /\ UNCHANGED <<admitidos, debePost, vivo, productorConsumidor, iSemaforo, progEncolados,
                     semaforoDisp, listaExec, exitProcesos, pcb, dispositivo>>
      /\ a = "signalReady" => hilo' = [hilo EXCEPT ![c].otro = Nadie, ![c].paso = "signalPost"]
      /\ a = "recargarReady" => Seguir(c, "recargarPost")
  BY <1>1, <1>2 DEF SignalReady, RecargarReady, plp, colas
<1>4. /\ a \in {"signalReady"} <=> b = "signalPost"
      /\ a \in {"recargarReady"} <=> b = "recargarPost"
      /\ a = "signalReady" => a \in PasosSignal /\ b \in PasosSignal
      /\ a = "recargarReady" => a \in PasosFin /\ b \in PasosFin \ {"ioPcb", "recargarSacar"}
      /\ a = "signalReady" <=> a \in PasosDueno
      /\ a = "signalReady" <=> b \in PasosDueno
      /\ a = "signalReady" => a \in PasosConProg
      /\ a = "recargarReady" => b \notin PasosConProg
      /\ b \in PasosHilo /\ b \notin PasosConOtro
  BY DEF PasosHilo, PasosDueno, PasosConProg, PasosConOtro, PasosSignal, PasosFin
<1> HIDE DEF b
<1>5. HilosEnRegla' /\ hilo'[c].paso = b /\ hilo'[c].prog = hilo[c].prog
      /\ hilo'[c].msg = hilo[c].msg /\ Otros(c)
  <2>1. CASE a = "signalReady"
    <3>1. Nadie \in 0..admitidos /\ Nadie \in Pids
      BY DEF Nadie, Pids
    <3>2. HilosEnRegla' /\ Mueve(c, b, hilo[c].prog, hilo[c].msg, Nadie)
      BY <1>2, <1>3, <1>4, <2>1, <3>1, Tiene
    <3> QED
      BY <3>2 DEF Mueve
  <2>2. CASE a = "recargarReady"
    <3>1. HilosEnRegla' /\ Mueve(c, b, hilo[c].prog, hilo[c].msg, hilo[c].otro)
      BY <1>2, <1>3, <1>4, <2>2, Sigue
    <3> QED
      BY <3>1 DEF Mueve
  <2> QED
    BY <2>1, <2>2
<1>6. /\ listaReady' \in Seq(0..admitidos)
      /\ \A p : Veces(listaReady', p) = Veces(listaReady, p) + Uno(o = p)
  BY <1>3, ReadyCrece
<1>7. ListasEnRegla' /\ ValoresEnRegla'
  BY <1>3, <1>6 DEF ListasEnRegla, ValoresEnRegla
<1>8. Fase(c)'
  <2>1. CASE a = "signalReady"
    BY <1>2, <1>4, <1>5, <2>1, FaseSemaforo
  <2>2. CASE a = "recargarReady"
    BY <1>2, <1>4, <1>5, <2>2, FaseDevuelta
  <2> QED
    BY <2>1, <2>2
<1>9. ASSUME NEW p \in 1..admitidos PROVE Equilibrio(c, p)
  <2>1. /\ Dueno(hilo'[c], p) <=> Dueno(hilo[c], p)
        /\ Lleva(hilo[c], p) <=> o = p
        /\ Lleva(hilo'[c], p) = FALSE
        /\ Entre(hilo[c], p) = FALSE
        /\ Entre(hilo'[c], p) = FALSE
    BY <1>1, <1>2, <1>4, <1>5 DEF Lleva, Entre, Dueno
  <2>2. /\ Veces(listaExec', p) = Veces(listaExec, p)
        /\ Encolado(p)' = Encolado(p)
        /\ Veces(exitProcesos', p) = Veces(exitProcesos, p)
    BY <1>3 DEF Veces, Encolado
  <2>3. Veces(listaReady', p) = Veces(listaReady, p) + Uno(o = p)
    BY <1>6
  <2> QED
    BY <2>1, <2>2, <2>3, SonCuentas DEF Equilibrio, Uno
<1>10. PcbsEnRegla'
  BY <1>2, <1>3, <1>5, PcbsQuietos
<1>11. DispContado'
  BY <1>2, <1>3, <1>4, <1>5, <1>7, DispQuietos
<1> QED
  BY <1>3, <1>5, <1>7, <1>8, <1>9, <1>10, <1>11, JuntaMovida

\* A program whose quantum ended leaves EXEC with the PCB its CPU gave back.
LEMMA RecargarSacarPuesto ==
  ASSUME InvPCP, NEW c \in CPUs, UNCHANGED <<canales, cpu>>, RecargarSacar(c)
  PROVE  InvPCP'
<1> USE DeHilo
<1> DEFINE m == hilo[c].msg
           b == PcbDe(m)
<1>1. /\ hilo[c].paso = "recargarSacar"
      /\ UNCHANGED <<admitidos, debePost, listaReady, productorConsumidor, iSemaforo,
                     progEncolados, semaforoDisp, exitProcesos, dispositivo>>
  BY DEF RecargarSacar, plp, ready, colas
<1>2. /\ hilo[c].paso \in PasosFin /\ "recargarReady" \in PasosFin \ {"ioPcb", "recargarSacar"}
      /\ hilo[c].paso \in PasosConProg /\ hilo[c].paso \in PasosDueno
      /\ "recargarReady" \in PasosHilo /\ "recargarReady" \notin PasosDueno
      /\ "recargarReady" \notin PasosConProg
  BY <1>1 DEF PasosHilo, PasosDueno, PasosConProg, PasosFin
<1>3. PICK q \in 1..admitidos :
        q = hilo[c].prog /\ q \in Programas /\ pcb[q].pid = q /\ EnExec(q) # {}
  BY <1>2, HayEnExec
<1>4. b.pid = q /\ b.pc < Final(q) /\ b \in [pid : Programas, pc : Nat] /\ m.pid = q
  <2>1. m.op = "notificarPorFinRafaga" /\ Devuelve(c, m, q) /\ m \in Mensajes
    BY <1>1, <1>2, <1>3 DEF Fase, FaseFin, TipoHilo
  <2>2. m.pid = q /\ m.pc \in Nat /\ m.pc < Final(q)
    BY <2>1 DEF Devuelve, Mensajes
  <2> QED
    BY <1>3, <2>2 DEF PcbDe
<1>5. PICK i \in EnExec(q) :
        /\ hilo' = [hilo EXCEPT ![c].otro = listaExec[i], ![c].paso = "recargarReady"]
        /\ listaExec' = Sin(listaExec, i) /\ pcb' = [pcb EXCEPT ![listaExec[i]] = b]
        /\ UNCHANGED vivo
  BY <1>3, <1>4 DEF RecargarSacar
<1>6. /\ listaExec[i] = q /\ listaExec' \in Seq(1..admitidos)
      /\ \A p : Veces(listaExec', p) = Veces(listaExec, p) - Uno(q = p)
  BY <1>5, SacarDeExec
<1>7. HilosEnRegla' /\ Mueve(c, "recargarReady", q, m, q)
  <2>1. q \in 0..admitidos /\ q \in Pids /\ q # Nadie
    BY DEF Pids, Programas, Nadie
  <2> QED
    BY <1>1, <1>2, <1>3, <1>5, <1>6, <2>1, Tiene
<1> HIDE DEF b
<1>8. ListasEnRegla' /\ ValoresEnRegla'
  BY <1>1, <1>3, <1>4, <1>5, <1>6 DEF ListasEnRegla, ValoresEnRegla
<1>9. Fase(c)'
  BY <1>1, <1>2, <1>7, FaseDevuelta DEF Mueve
<1>10. ASSUME NEW p \in 1..admitidos PROVE Equilibrio(c, p)
  <2>1. /\ Dueno(hilo[c], p) <=> q = p
        /\ Dueno(hilo'[c], p) = FALSE
        /\ Lleva(hilo[c], p) = FALSE
        /\ Lleva(hilo'[c], p) <=> q = p
        /\ Entre(hilo[c], p) = FALSE
        /\ Entre(hilo'[c], p) = FALSE
    BY <1>1, <1>2, <1>3, <1>7 DEF Lleva, Entre, Dueno, Mueve
  <2>2. /\ Encolado(p)' = Encolado(p) /\ Veces(listaReady', p) = Veces(listaReady, p)
        /\ Veces(exitProcesos', p) = Veces(exitProcesos, p)
    BY <1>1 DEF Encolado, Veces
  <2>3. Veces(listaExec', p) = Veces(listaExec, p) - Uno(q = p)
    BY <1>6
  <2> QED
    BY <2>1, <2>2, <2>3, SonCuentas DEF Equilibrio, Uno
<1>11. PcbsEnRegla'
  BY <1>1, <1>3, <1>4, <1>5, <1>6, <1>7, PcbsSiguen DEF Mueve
<1>12. DispContado'
  BY <1>1, <1>7, <1>8, DispQuietos DEF Mueve
<1> QED
  BY <1>1, <1>7, <1>8, <1>9, <1>10, <1>11, <1>12, JuntaMovida DEF Mueve

\* A program on its way to EXIT has ended at each step of it.
LEMMA AcabadoSale ==
  ASSUME ListasEnRegla, NEW c \in CPUs, Otros(c), NEW q \in 1..admitidos,
         \/ /\ hilo[c].paso = "exitSacar" /\ hilo[c].prog = q
            /\ hilo'[c].paso = "exitAgregar" /\ hilo'[c].otro = q
            /\ UNCHANGED exitProcesos
         \/ /\ hilo[c].paso = "exitAgregar" /\ hilo[c].otro = q
            /\ exitProcesos' = Append(exitProcesos, q),
         NEW p, Acabado(p)
  PROVE  Acabado(p)'
<1> DEFINE U == 1..admitidos
<1>1. exitProcesos \in Seq(U) /\ q \in U
  BY DEF ListasEnRegla
<1>2. /\ \A i \in 1..Len(exitProcesos) :
           i \in 1..Len(exitProcesos') /\ exitProcesos'[i] = exitProcesos[i]
      /\ hilo[c].paso = "exitAgregar" =>
           \E i \in 1..Len(exitProcesos') : exitProcesos'[i] = q
  <2>1. CASE UNCHANGED exitProcesos /\ hilo[c].paso = "exitSacar"
    BY <2>1
  <2>2. CASE exitProcesos' = Append(exitProcesos, q)
    <3> HIDE DEF U
    <3>1. /\ Len(exitProcesos) \in Nat /\ Len(exitProcesos') = Len(exitProcesos) + 1
          /\ \A i \in 1..Len(exitProcesos) : exitProcesos'[i] = exitProcesos[i]
          /\ exitProcesos'[Len(exitProcesos) + 1] = q
      BY <1>1, <2>2, ColaConUltimo
    <3>2. Len(exitProcesos) + 1 \in 1..Len(exitProcesos')
      BY <3>1
    <3> QED
      BY <3>1, <3>2
  <2> QED
    BY <2>1, <2>2
<1>3. CASE \E i \in 1..Len(exitProcesos) : exitProcesos[i] = p
  BY <1>2, <1>3 DEF Acabado
<1>4. \A x \in CPUs : x # c => hilo'[x] = hilo[x]
  BY DEF Otros
<1>5. ASSUME NEW x \in CPUs, x # c,
             \/ hilo[x].paso = "exitSacar" /\ hilo[x].prog = p
             \/ hilo[x].paso = "exitAgregar" /\ hilo[x].otro = p
      PROVE  Acabado(p)'
  BY <1>4, <1>5 DEF Acabado
<1>6. CASE hilo[c].paso = "exitSacar" /\ hilo[c].prog = p
  BY <1>6 DEF Acabado
<1>7. CASE hilo[c].paso = "exitAgregar" /\ hilo[c].otro = p
  BY <1>2, <1>7 DEF Acabado
<1> QED
  BY <1>3, <1>5, <1>6, <1>7 DEF Acabado

\* A program that has ended leaves EXEC, and goes to EXIT.
LEMMA ExitPuesto ==
  ASSUME InvPCP, NEW c \in CPUs, UNCHANGED <<canales, cpu>>, ExitSacar(c) \/ ExitAgregar(c)
  PROVE  InvPCP'
<1> USE DeHilo
<1>1. CASE ExitSacar(c)
  <2>1. /\ hilo[c].paso = "exitSacar"
        /\ UNCHANGED <<admitidos, debePost, listaReady, productorConsumidor, iSemaforo, pcb,
                       progEncolados, semaforoDisp, exitProcesos, dispositivo>>
    BY <1>1 DEF ExitSacar, plp, ready, colas
  <2>2. /\ hilo[c].paso \in PasosFin /\ "exitAgregar" \in PasosFin \ {"ioPcb", "recargarSacar"}
        /\ hilo[c].paso \in PasosConProg /\ hilo[c].paso \in PasosDueno
        /\ "exitAgregar" \in PasosHilo /\ "exitAgregar" \notin PasosDueno
        /\ "exitAgregar" \notin PasosConProg
    BY <2>1 DEF PasosHilo, PasosDueno, PasosConProg, PasosFin
  <2>3. PICK q \in 1..admitidos : q = hilo[c].prog /\ pcb[q].pid = q /\ EnExec(q) # {}
    BY <2>2, HayEnExec
  <2>4. PICK i \in EnExec(q) :
          /\ hilo' = [hilo EXCEPT ![c].otro = listaExec[i], ![c].paso = "exitAgregar"]
          /\ listaExec' = Sin(listaExec, i)
          /\ UNCHANGED vivo
    BY <1>1, <2>3 DEF ExitSacar
  <2>5. /\ listaExec[i] = q /\ listaExec' \in Seq(1..admitidos)
        /\ \A p : Veces(listaExec', p) = Veces(listaExec, p) - Uno(q = p)
    BY <2>4, SacarDeExec
  <2>6. HilosEnRegla' /\ Mueve(c, "exitAgregar", q, hilo[c].msg, q)
    <3>1. q \in 0..admitidos /\ q \in Pids /\ q # Nadie
      BY DEF Pids, Programas, Nadie
    <3> QED
      BY <2>1, <2>2, <2>3, <2>4, <2>5, <3>1, Tiene
  <2>7. ListasEnRegla' /\ ValoresEnRegla'
    BY <2>1, <2>4, <2>5 DEF ListasEnRegla, ValoresEnRegla
  <2>8. Fase(c)'
    BY <2>1, <2>2, <2>6, FaseDevuelta DEF Mueve
  <2>9. ASSUME NEW p \in 1..admitidos PROVE Equilibrio(c, p)
    <3>1. /\ Dueno(hilo[c], p) <=> q = p
          /\ Dueno(hilo'[c], p) = FALSE
          /\ Lleva(hilo[c], p) = FALSE
          /\ Lleva(hilo'[c], p) <=> q = p
          /\ Entre(hilo[c], p) = FALSE
          /\ Entre(hilo'[c], p) = FALSE
      BY <2>1, <2>2, <2>3, <2>6 DEF Lleva, Entre, Dueno, Mueve
    <3>2. /\ Encolado(p)' = Encolado(p) /\ Veces(listaReady', p) = Veces(listaReady, p)
          /\ Veces(exitProcesos', p) = Veces(exitProcesos, p)
      BY <2>1 DEF Encolado, Veces
    <3>3. Veces(listaExec', p) = Veces(listaExec, p) - Uno(q = p)
      BY <2>5
    <3> QED
      BY <3>1, <3>2, <3>3, SonCuentas DEF Equilibrio, Uno
  <2>10. PcbsEnRegla'
    <3>1. \A p : Acabado(p) => Acabado(p)'
      BY <2>1, <2>3, <2>6, AcabadoSale DEF Mueve
    <3> QED
      BY <2>1, <3>1 DEF PcbsEnRegla
  <2>11. DispContado'
    BY <2>1, <2>6, <2>7, DispQuietos DEF Mueve
  <2> QED
    BY <2>1, <2>6, <2>7, <2>8, <2>9, <2>10, <2>11, JuntaMovida DEF Mueve
<1>2. CASE ExitAgregar(c)
  <2>1. /\ hilo[c].paso = "exitAgregar" /\ exitProcesos' = Append(exitProcesos, hilo[c].otro)
        /\ UNCHANGED <<admitidos, debePost, vivo, listaReady, productorConsumidor, iSemaforo, pcb,
                       listaExec, progEncolados, semaforoDisp, dispositivo>>
    BY <1>2 DEF ExitAgregar, plp, ready, colas
  <2>2. /\ hilo[c].paso \in PasosFin /\ hilo[c].paso \in PasosConOtro
        /\ hilo[c].paso \notin PasosDueno /\ "esperar" \in PasosLibres
        /\ "esperar" \in PasosHilo /\ "esperar" \notin PasosDueno
        /\ "esperar" \notin PasosConProg /\ "esperar" \notin PasosConOtro
    BY <2>1 DEF PasosHilo, PasosDueno, PasosConProg, PasosConOtro, PasosFin, PasosLibres
  <2>3. PICK q \in 1..admitidos : q = hilo[c].otro
    BY <2>2 DEF Acotado, Nadie
  <2>4. Volver(c, "esperar")
    BY <1>2, <2>2 DEF ExitAgregar, Fase, FaseFin
  <2>5. HilosEnRegla' /\ Mueve(c, "esperar", hilo[c].prog, Respuesta("ninguno"), Nadie)
    BY <2>1, <2>2, <2>4, Vuelve
  <2>6. /\ exitProcesos' \in Seq(1..admitidos)
        /\ \A p : Veces(exitProcesos', p) = Veces(exitProcesos, p) + Uno(q = p)
    <3> DEFINE U == 1..admitidos
    <3>1. exitProcesos \in Seq(U) /\ q \in U /\ exitProcesos' = Append(exitProcesos, q)
      BY <2>1, <2>3 DEF ListasEnRegla
    <3> HIDE DEF U
    <3>2. exitProcesos' \in Seq(U)
      BY <3>1, ColaConUltimo
    <3>3. \A p : Veces(Append(exitProcesos, q), p) = Veces(exitProcesos, p) + Uno(q = p)
      BY <3>1, VecesConUltimo
    <3> QED
      BY <3>1, <3>2, <3>3 DEF U
  <2>7. ListasEnRegla' /\ ValoresEnRegla'
    BY <2>1, <2>6 DEF ListasEnRegla, ValoresEnRegla
  <2>8. Fase(c)'
    BY <2>2, <2>5, FaseDespacho DEF Mueve
  <2>9. ASSUME NEW p \in 1..admitidos PROVE Equilibrio(c, p)
    <3>1. /\ Dueno(hilo[c], p) = FALSE /\ Dueno(hilo'[c], p) = FALSE
          /\ Lleva(hilo[c], p) <=> q = p
          /\ Lleva(hilo'[c], p) = FALSE
          /\ Entre(hilo[c], p) = FALSE
          /\ Entre(hilo'[c], p) = FALSE
      BY <2>1, <2>2, <2>3, <2>5 DEF Lleva, Entre, Dueno, Mueve
    <3>2. /\ Encolado(p)' = Encolado(p) /\ Veces(listaReady', p) = Veces(listaReady, p)
          /\ Veces(listaExec', p) = Veces(listaExec, p)
      BY <2>1 DEF Encolado, Veces
    <3>3. Veces(exitProcesos', p) = Veces(exitProcesos, p) + Uno(q = p)
      BY <2>6
    <3> QED
      BY <3>1, <3>2, <3>3, SonCuentas DEF Equilibrio, Uno
  <2>10. PcbsEnRegla'
    <3>1. \A p : Acabado(p) => Acabado(p)'
      BY <2>1, <2>3, <2>5, AcabadoSale DEF Mueve
    <3> QED
      BY <2>1, <3>1 DEF PcbsEnRegla
  <2>11. DispContado'
    BY <2>1, <2>5, <2>7, DispQuietos DEF Mueve
  <2> QED
    BY <2>1, <2>5, <2>7, <2>8, <2>9, <2>10, <2>11, JuntaMovida DEF Mueve
<1> QED
  BY <1>1, <1>2

-----------------------------------------------------------------------------
(* Steps of the devices and of the PLP. *)

\* What no thread of a connection changes.
LEMMA HilosQuietos ==
  ASSUME UNCHANGED hilo, NEW p
  PROVE  /\ Duenos(p)' = Duenos(p) /\ Llevan(p)' = Llevan(p)
         /\ EntreDosListas(p)' = EntreDosListas(p) /\ Mandan(p)' = Mandan(p)
         /\ Cardinality(Duenos(p)) \in Nat /\ Cardinality(Llevan(p)) \in Nat
         /\ Cardinality(EntreDosListas(p)) \in Nat /\ Cardinality(Mandan(p)) \in Nat
<1>1. /\ Duenos(p)' = Duenos(p) /\ Llevan(p)' = Llevan(p)
      /\ EntreDosListas(p)' = EntreDosListas(p) /\ Mandan(p)' = Mandan(p)
  BY DEF Duenos, Dueno, Llevan, HilosEn, EntreDosListas, Mandan, Manda
<1>2. /\ Duenos(p) \subseteq CPUs /\ Llevan(p) \subseteq CPUs
      /\ EntreDosListas(p) \subseteq CPUs /\ Mandan(p) \subseteq CPUs
  BY DEF Duenos, Llevan, HilosEn, EntreDosListas, Mandan
<1>3. \A S \in SUBSET CPUs : Cardinality(S) \in Nat
  BY ParametrosConexion, FS_Subset, FS_CardinalityType
<1> QED
  BY <1>1, <1>2, <1>3

\* A step of another thread that keeps the balance keeps UnSoloLugar.
LEMMA LugaresDeOtros ==
  ASSUME Lugares, UNCHANGED <<admitidos, hilo, listaExec>>,
         \A p \in 1..admitidos :
           Veces(listaReady', p) + Veces(listaExec, p) + Veces(exitProcesos', p)
             + Cardinality(Encolado(p)') + Cardinality(EnManos(p)')
           = Veces(listaReady, p) + Veces(listaExec, p) + Veces(exitProcesos, p)
               + Cardinality(Encolado(p)) + Cardinality(EnManos(p))
  PROVE  Lugares'
<1>1. ASSUME NEW p \in 1..admitidos PROVE EnSuLugar(p)'
  <2> DEFINE a == Veces(listaReady, p) + Veces(listaExec, p) + Veces(exitProcesos, p)
                    + Cardinality(Encolado(p)) + Cardinality(EnManos(p))
             b == Veces(listaReady', p) + Veces(listaExec, p) + Veces(exitProcesos', p)
                    + Cardinality(Encolado(p)') + Cardinality(EnManos(p)')
  <2>1. a = b
    OBVIOUS
  <2>2. /\ Cardinality(Duenos(p)) <= Veces(listaExec, p)
        /\ a + Cardinality(Llevan(p)) = 1 + Cardinality(EntreDosListas(p))
    BY DEF Lugares, EnSuLugar
  <2>3. /\ Cardinality(Duenos(p)') <= Veces(listaExec', p)
        /\ b + Cardinality(Llevan(p)') = 1 + Cardinality(EntreDosListas(p)')
    <3> HIDE DEF a, b
    <3>1. Veces(listaExec', p) = Veces(listaExec, p)
      BY DEF Veces
    <3> QED
      BY <2>1, <2>2, <3>1, HilosQuietos
  <2>4. Veces(listaExec', p) = Veces(listaExec, p)
    BY DEF Veces
  <2> QED
    BY <2>3, <2>4, LugarLuego
<1> QED
  BY <1>1 DEF Lugares

\* The invariant after such a step.
LEMMA JuntaDeOtros ==
  ASSUME InvPCP, UNCHANGED <<hilo, canales, cpu, admitidos, exitProcesos, pcb>>,
         ListasEnRegla', ValoresEnRegla', DispositivosEnRegla', Lugares', DispContado'
  PROVE  InvPCP'
<1>1. Protocolo'
  <2>1. ASSUME NEW x \in CPUs PROVE Fase(x)'
    BY FaseIgual DEF InvPCP, Protocolo, canales
  <2> QED
    BY <2>1 DEF Protocolo
<1>2. PcbsEnRegla'
  <2>1. \A p : Acabado(p)' <=> Acabado(p)
    BY DEF Acabado
  <2> QED
    BY <2>1 DEF InvPCP, Puestos, PcbsEnRegla
<1>3. HilosEnRegla' /\ CanalesEnRegla' /\ CpusEnRegla'
  BY DEF InvPCP, Tipos, HilosEnRegla, CanalesEnRegla, CpusEnRegla, canales, Acotado
<1> QED
  BY <1>1, <1>2, <1>3 DEF InvPCP, Tipos, Puestos

\* What the invariant says of everything but the threads.
LEMMA DeTodos ==
  ASSUME InvPCP
  PROVE  /\ admitidos \in Nat /\ admitidos <= MaxProgramas /\ MaxProgramas \in Nat
         /\ ListasEnRegla /\ ValoresEnRegla /\ HilosEnRegla /\ DispositivosEnRegla
         /\ CanalesEnRegla /\ CpusEnRegla /\ PcbsEnRegla /\ Lugares /\ DispContado
         /\ Protocolo
BY ParametrosConexion DEF InvPCP, Tipos, Puestos, ListasEnRegla, Pids, Programas, Nadie

\* A device and its queue: what it takes, has and gives.
LEMMA DispositivoPuesto ==
  ASSUME InvPCP, NEW d \in Dispositivos, UNCHANGED <<canales, cpu>>,
         DispEsperar(d) \/ DispSacar(d) \/ DispReady(d) \/ DispPost(d)
  PROVE  InvPCP'
<1> USE DeTodos
<1>1. CASE DispEsperar(d)
  <2>1. /\ dispositivo[d].paso = "esperar" /\ semaforoDisp[d] > 0
        /\ semaforoDisp' = [semaforoDisp EXCEPT ![d] = @ - 1]
        /\ dispositivo' = [dispositivo EXCEPT ![d].paso = "sacar"]
        /\ UNCHANGED <<admitidos, debePost, vivo, listaReady, productorConsumidor, iSemaforo, pcb,
                       listaExec, exitProcesos, progEncolados, hilo>>
    BY <1>1 DEF DispEsperar, plp, ready
  <2>2. /\ dispositivo' \in [Dispositivos -> [paso : PasosDisp, prog : Pids]]
        /\ dispositivo'[d].paso = "sacar"
        /\ \A x \in Dispositivos : dispositivo'[x].prog = dispositivo[x].prog
        /\ \A x \in Dispositivos \ {d} : dispositivo'[x] = dispositivo[x]
    BY <2>1 DEF DispositivosEnRegla, PasosDisp
  <2>3. DispositivosEnRegla'
    BY <2>1, <2>2 DEF DispositivosEnRegla
  <2>4. semaforoDisp' \in [Dispositivos -> Nat]
        /\ semaforoDisp'[d] = semaforoDisp[d] - 1 /\ semaforoDisp[d] \in Nat
        /\ \A x \in Dispositivos \ {d} : semaforoDisp'[x] = semaforoDisp[x]
    BY <2>1 DEF ListasEnRegla
  <2>5. ListasEnRegla' /\ ValoresEnRegla'
    BY <2>1, <2>4 DEF ListasEnRegla, ValoresEnRegla
  <2>6. Lugares'
    <3>1. \A p : /\ EnManos(p)' = EnManos(p) /\ Encolado(p)' = Encolado(p)
                 /\ Veces(listaReady', p) = Veces(listaReady, p)
                 /\ Veces(exitProcesos', p) = Veces(exitProcesos, p)
      BY <2>1, <2>2 DEF EnManos, Encolado, Veces
    <3> QED
      BY <2>1, <3>1, LugaresDeOtros
  <2>7. DispContado'
    <3>1. ASSUME NEW x \in Dispositivos
          PROVE  Len(progEncolados'[x]) = semaforoDisp'[x] + Uno(dispositivo'[x].paso = "sacar")
                                            + Cardinality(Mandan(x)')
      <4>1. /\ Len(progEncolados[x]) = semaforoDisp[x] + Uno(dispositivo[x].paso = "sacar")
                                        + Cardinality(Mandan(x))
            /\ Mandan(x)' = Mandan(x) /\ Cardinality(Mandan(x)) \in Nat
        BY <2>1, HilosQuietos DEF DispContado
      <4>2. CASE x = d
        BY <2>1, <2>2, <2>4, <4>1, <4>2 DEF Uno
      <4>3. CASE x # d
        BY <2>1, <2>2, <2>4, <4>1, <4>3
      <4> QED
        BY <4>2, <4>3
    <3>2. \A x : Cardinality(Mandan(x))' = Cardinality(Mandan(x)')
      BY DEF Mandan
    <3> QED
      BY <3>1 DEF DispContado
  <2> QED
    BY <2>1, <2>3, <2>5, <2>6, <2>7, JuntaDeOtros
<1>2. CASE DispSacar(d)
  <2>1. progEncolados[d] # <<>> /\ dispositivo[d].paso = "sacar"
        /\ Len(progEncolados[d]) \in Nat
    <3>1. dispositivo[d].paso = "sacar"
      BY <1>2 DEF DispSacar
    <3>2. Len(progEncolados[d]) = semaforoDisp[d] + 1 + Cardinality(Mandan(d))
      BY <3>1 DEF DispContado, Uno
    <3>3. Cardinality(Mandan(d)) \in Nat
      <4>1. Mandan(d) \subseteq CPUs
        BY DEF Mandan
      <4> QED
        BY <4>1, ParametrosConexion, FS_Subset, FS_CardinalityType
    <3>4. semaforoDisp[d] \in Nat
      BY DEF ListasEnRegla
    <3>5. Len(<<>>) = 0
      OBVIOUS
    <3> QED
      BY <3>1, <3>2, <3>3, <3>4, <3>5
  <2> DEFINE q == Head(progEncolados[d])
  <2>2. /\ dispositivo' = [dispositivo EXCEPT ![d] = [paso |-> "usar", prog |-> q]]
        /\ progEncolados' = [progEncolados EXCEPT ![d] = Tail(progEncolados[d])]
        /\ UNCHANGED <<admitidos, debePost, vivo, listaReady, productorConsumidor, iSemaforo, pcb,
                       listaExec, exitProcesos, semaforoDisp, hilo>>
    BY <1>2, <2>1 DEF DispSacar, plp, ready
  <2>3. /\ q \in 1..admitidos
        /\ progEncolados' \in [Semaforos \cup Dispositivos -> Seq(1..admitidos)]
        /\ Len(progEncolados'[d]) = Len(progEncolados[d]) - 1
        /\ \A x \in Dispositivos \ {d} : progEncolados'[x] = progEncolados[x]
        /\ \A p : Cardinality(Encolado(p)') = Cardinality(Encolado(p)) - Uno(q = p)
    BY <2>1, <2>2, Desencola
  <2>4. q \in Pids /\ q # Nadie /\ q \in 0..admitidos
    BY <2>3 DEF Pids, Programas, Nadie
  <2> HIDE DEF q
  <2>5. /\ dispositivo' \in [Dispositivos -> [paso : PasosDisp, prog : Pids]]
        /\ dispositivo'[d] = [paso |-> "usar", prog |-> q]
        /\ \A x \in Dispositivos \ {d} : dispositivo'[x] = dispositivo[x]
    BY <2>2, <2>4 DEF DispositivosEnRegla, PasosDisp
  <2>6. DispositivosEnRegla'
    BY <2>2, <2>4, <2>5 DEF DispositivosEnRegla
  <2>7. ListasEnRegla' /\ ValoresEnRegla'
    BY <2>2, <2>3 DEF ListasEnRegla, ValoresEnRegla
  <2>8. Lugares'
    <3>1. ASSUME NEW p \in 1..admitidos
          PROVE  Veces(listaReady', p) + Veces(listaExec, p) + Veces(exitProcesos', p)
                   + Cardinality(Encolado(p)') + Cardinality(EnManos(p)')
                 = Veces(listaReady, p) + Veces(listaExec, p) + Veces(exitProcesos, p)
                     + Cardinality(Encolado(p)) + Cardinality(EnManos(p))
      <4>1. /\ Cardinality(EnManos(p)) \in Nat
            /\ Cardinality(EnManos(p)') = Cardinality(EnManos(p))
                 + Uno(dispositivo'[d].prog = p) - Uno(dispositivo[d].prog = p)
        BY <2>5, ManosCuentan
      <4>2. dispositivo[d].prog # p /\ (dispositivo'[d].prog = p <=> q = p)
        BY <2>1, <2>5 DEF DispositivosEnRegla, Nadie
      <4>3. /\ Veces(listaReady', p) = Veces(listaReady, p)
            /\ Veces(exitProcesos', p) = Veces(exitProcesos, p)
        BY <2>2 DEF Veces
      <4>4. Cardinality(Encolado(p)') = Cardinality(Encolado(p)) - Uno(q = p)
        BY <2>3
      <4> QED
        BY <4>1, <4>2, <4>3, <4>4, SonCuentas DEF Uno
    <3> QED
      BY <2>2, <3>1, LugaresDeOtros
  <2>9. DispContado'
    <3>1. ASSUME NEW x \in Dispositivos
          PROVE  Len(progEncolados'[x]) = semaforoDisp'[x] + Uno(dispositivo'[x].paso = "sacar")
                                            + Cardinality(Mandan(x)')
      <4>1. /\ Len(progEncolados[x]) = semaforoDisp[x] + Uno(dispositivo[x].paso = "sacar")
                                        + Cardinality(Mandan(x))
            /\ Mandan(x)' = Mandan(x) /\ Cardinality(Mandan(x)) \in Nat
        BY <2>2, HilosQuietos DEF DispContado
      <4>2. CASE x = d
        <5>1. semaforoDisp[d] \in Nat
          BY DEF ListasEnRegla
        <5>2. Uno(dispositivo'[d].paso = "sacar") = 0 /\ Uno(dispositivo[d].paso = "sacar") = 1
          BY <2>1, <2>5 DEF Uno
        <5>3. semaforoDisp'[d] = semaforoDisp[d] /\ Mandan(d)' = Mandan(d)
          BY <2>2, <4>1, <4>2
        <5>4. Len(progEncolados[d]) = semaforoDisp[d] + 1 + Cardinality(Mandan(d))
          BY <4>1, <4>2, <5>2
        <5>5. Len(progEncolados'[d]) = semaforoDisp[d] + Cardinality(Mandan(d))
          BY <2>1, <2>3, <4>1, <4>2, <5>1, <5>4
        <5> QED
          BY <4>1, <4>2, <5>1, <5>2, <5>3, <5>5
      <4>3. CASE x # d
        BY <2>2, <2>3, <2>5, <4>1, <4>3
      <4> QED
        BY <4>2, <4>3
    <3>2. \A x : Cardinality(Mandan(x))' = Cardinality(Mandan(x)')
      BY DEF Mandan
    <3> QED
      BY <3>1 DEF DispContado
  <2> QED
    BY <2>2, <2>6, <2>7, <2>8, <2>9, JuntaDeOtros
<1>3. CASE DispReady(d) \/ DispPost(d)
  <2>1. PICK q \in 0..admitidos : q = dispositivo[d].prog
    BY DEF DispositivosEnRegla
  <2>2. PICK a \in {"post", "esperar"} :
          /\ dispositivo[d].paso = "usar" => a = "post"
          /\ dispositivo[d].paso # "sacar"
          /\ dispositivo' \in [Dispositivos -> [paso : PasosDisp, prog : Pids]]
          /\ dispositivo'[d] = [paso |-> a, prog |-> Nadie]
          /\ \A x \in Dispositivos \ {d} : dispositivo'[x] = dispositivo[x]
          /\ \/ listaReady' = Append(listaReady, q)
             \/ UNCHANGED listaReady /\ q = Nadie
          /\ debePost' = debePost /\ vivo' = vivo /\ productorConsumidor' \in Nat
          /\ UNCHANGED <<admitidos, iSemaforo, pcb, listaExec, exitProcesos, semaforoDisp, hilo,
                         progEncolados>>
    <3>1. CASE DispReady(d)
      <4>1. /\ dispositivo[d].paso = "usar" /\ listaReady' = Append(listaReady, q)
            /\ dispositivo' = [dispositivo EXCEPT ![d] = [paso |-> "post", prog |-> Nadie]]
            /\ UNCHANGED <<admitidos, debePost, vivo, productorConsumidor, iSemaforo, pcb,
                           listaExec, exitProcesos, semaforoDisp, hilo, progEncolados>>
        BY <2>1, <3>1 DEF DispReady, plp, colas
      <4>2. Nadie \in Pids
        BY DEF Pids
      <4> QED
        BY <4>1, <4>2 DEF DispositivosEnRegla, PasosDisp, ValoresEnRegla
    <3>2. CASE DispPost(d)
      <4>1. /\ dispositivo[d].paso = "post" /\ productorConsumidor' = productorConsumidor + 1
            /\ dispositivo' = [dispositivo EXCEPT ![d].paso = "esperar"]
            /\ UNCHANGED <<admitidos, debePost, vivo, listaReady, iSemaforo, pcb,
                           listaExec, exitProcesos, semaforoDisp, hilo, progEncolados>>
        BY <3>2 DEF DispPost, plp, colas
      <4>2. q = Nadie
        BY <2>1, <4>1 DEF DispositivosEnRegla
      <4>3. /\ dispositivo' \in [Dispositivos -> [paso : PasosDisp, prog : Pids]]
            /\ dispositivo'[d] = [paso |-> "esperar", prog |-> Nadie]
            /\ \A x \in Dispositivos \ {d} : dispositivo'[x] = dispositivo[x]
        BY <2>1, <4>1, <4>2 DEF DispositivosEnRegla, PasosDisp
      <4> QED
        BY <4>1, <4>2, <4>3 DEF ValoresEnRegla
    <3> QED
      BY <1>3, <3>1, <3>2
  <2>3. DispositivosEnRegla'
    BY <2>2 DEF DispositivosEnRegla, Nadie
  <2>4. /\ listaReady' \in Seq(0..admitidos)
        /\ \A p \in 1..admitidos : Veces(listaReady', p) = Veces(listaReady, p) + Uno(q = p)
    <3>1. CASE listaReady' = Append(listaReady, q)
      BY <3>1, ReadyCrece
    <3>2. CASE UNCHANGED listaReady /\ q = Nadie
      <4>1. \A p \in 1..admitidos : Nadie # p
        BY DEF Nadie
      <4>2. \A p : Veces(listaReady', p) = Veces(listaReady, p)
        BY <3>2 DEF Veces
      <4>3. \A p : Veces(listaReady, p) \in Nat
        BY SonCuentas
      <4> QED
        BY <3>2, <4>1, <4>2, <4>3 DEF Uno, ListasEnRegla
    <3> QED
      BY <2>2, <3>1, <3>2
  <2>5. ListasEnRegla' /\ ValoresEnRegla'
    BY <2>2, <2>4 DEF ListasEnRegla, ValoresEnRegla
  <2>6. Lugares'
    <3>1. ASSUME NEW p \in 1..admitidos
          PROVE  Veces(listaReady', p) + Veces(listaExec, p) + Veces(exitProcesos', p)
                   + Cardinality(Encolado(p)') + Cardinality(EnManos(p)')
                 = Veces(listaReady, p) + Veces(listaExec, p) + Veces(exitProcesos, p)
                     + Cardinality(Encolado(p)) + Cardinality(EnManos(p))
      <4>1. /\ Cardinality(EnManos(p)) \in Nat
            /\ Cardinality(EnManos(p)') = Cardinality(EnManos(p))
                 + Uno(dispositivo'[d].prog = p) - Uno(dispositivo[d].prog = p)
        BY <2>2, ManosCuentan
      <4>2. dispositivo'[d].prog # p /\ (dispositivo[d].prog = p <=> q = p)
        BY <2>1, <2>2 DEF Nadie
      <4>3. /\ Encolado(p)' = Encolado(p)
            /\ Veces(exitProcesos', p) = Veces(exitProcesos, p)
        BY <2>2 DEF Veces, Encolado
      <4>4. Veces(listaReady', p) = Veces(listaReady, p) + Uno(q = p)
        BY <2>4
      <4> QED
        BY <4>1, <4>2, <4>3, <4>4, SonCuentas DEF Uno
    <3> QED
      BY <2>2, <3>1, LugaresDeOtros
  <2>7. DispContado'
    <3>1. ASSUME NEW x \in Dispositivos
          PROVE  Len(progEncolados'[x]) = semaforoDisp'[x] + Uno(dispositivo'[x].paso = "sacar")
                                            + Cardinality(Mandan(x)')
      <4>1. /\ Len(progEncolados[x]) = semaforoDisp[x] + Uno(dispositivo[x].paso = "sacar")
                                        + Cardinality(Mandan(x))
            /\ Mandan(x)' = Mandan(x)
        BY <2>2, HilosQuietos DEF DispContado
      <4>2. Uno(dispositivo'[x].paso = "sacar") = Uno(dispositivo[x].paso = "sacar")
        <5>1. CASE x = d
          BY <2>2, <5>1 DEF Uno
        <5>2. CASE x # d
          BY <2>2, <5>2
        <5> QED
          BY <5>1, <5>2
      <4> QED
        BY <2>2, <4>1, <4>2
    <3>2. \A x : Cardinality(Mandan(x))' = Cardinality(Mandan(x)')
      BY DEF Mandan
    <3> QED
      BY <3>1 DEF DispContado
  <2> QED
    BY <2>2, <2>3, <2>5, <2>6, <2>7, JuntaDeOtros
<1> QED
  BY <1>1, <1>2, <1>3

\* A program that has not been admitted is nowhere.
LEMMA NoAdmitido ==
  ASSUME InvPCP, NEW n \in Nat, n > admitidos
  PROVE  /\ Veces(listaReady, n) = 0 /\ Veces(listaExec, n) = 0 /\ Veces(exitProcesos, n) = 0
         /\ Encolado(n) = {} /\ EnManos(n) = {} /\ Llevan(n) = {} /\ EntreDosListas(n) = {}
         /\ Duenos(n) = {}
<1> USE DeTodos
<1> DEFINE T == 0..admitidos
           U == 1..admitidos
           R == Semaforos \cup Dispositivos
<1>1. n \notin T /\ n \notin U
  OBVIOUS
<1>2. /\ listaReady \in Seq(T) /\ listaExec \in Seq(U) /\ exitProcesos \in Seq(U)
      /\ progEncolados \in [R -> Seq(U)]
  BY DEF ListasEnRegla
<1>3. Veces(listaReady, n) = 0 /\ Veces(listaExec, n) = 0 /\ Veces(exitProcesos, n) = 0
  <2> HIDE DEF T, U, R
  <2>1. /\ \A i \in 1..Len(listaReady) : listaReady[i] # n
        /\ \A i \in 1..Len(listaExec) : listaExec[i] # n
        /\ \A i \in 1..Len(exitProcesos) : exitProcesos[i] # n
    BY <1>1, <1>2, ElementOfSeq
  <2> QED
    BY <1>2, <2>1, VecesTipo
<1>4. Encolado(n) = {}
  <2>1. ASSUME NEW r \in R, NEW i \in DOMAIN progEncolados[r] PROVE progEncolados[r][i] # n
    <3>1. progEncolados[r] \in Seq(U)
      BY <1>2
    <3> HIDE DEF R, U
    <3>2. i \in 1..Len(progEncolados[r])
      BY <2>1, <3>1, LenProperties
    <3>3. progEncolados[r][i] \in U
      BY <3>1, <3>2, ElementOfSeq
    <3> QED
      BY <1>1, <3>3
  <2>2. DOMAIN progEncolados = R
    BY <1>2
  <2> QED
    BY <2>1, <2>2 DEF Encolado
<1>5. EnManos(n) = {}
  BY DEF EnManos, DispositivosEnRegla
<1>6. \A c \in CPUs : hilo[c].prog # n /\ hilo[c].otro # n
  BY DEF HilosEnRegla, Acotado
<1>7. Llevan(n) = {} /\ EntreDosListas(n) = {} /\ Duenos(n) = {}
  BY <1>6 DEF Llevan, HilosEn, EntreDosListas, Duenos, Dueno
<1> QED
  BY <1>3, <1>4, <1>5, <1>7

\* The PLP puts a program in READY, and posts productorConsumidor.
LEMMA AdmisionPuesta ==
  ASSUME InvPCP, UNCHANGED <<canales, cpu>>, PonerEnReady \/ PostProductor
  PROVE  InvPCP'
<1> USE DeTodos
<1>1. CASE PonerEnReady
  <2> DEFINE n == admitidos + 1
             T == 0..admitidos
             U == 1..admitidos
             T1 == 0..n
             U1 == 1..n
  <2>1. /\ n \in Programas /\ admitidos' = n /\ debePost' = TRUE
        /\ listaReady' = Append(listaReady, n)
        /\ UNCHANGED <<vivo, productorConsumidor, iSemaforo, pcb, listaExec, exitProcesos,
                       semaforoDisp, hilo, progEncolados, dispositivo>>
    BY <1>1 DEF PonerEnReady, colas
  <2>2. T \subseteq T1 /\ U \subseteq U1 /\ n \in T1 /\ n \in Nat /\ n > admitidos
    OBVIOUS
  <2>3. listaReady \in Seq(T1) /\ listaReady' \in Seq(T1)
        /\ \A p : Veces(listaReady', p) = Veces(listaReady, p) + Uno(n = p)
    <3>1. listaReady \in Seq(T)
      BY DEF ListasEnRegla
    <3> HIDE DEF T, T1, n
    <3>2. listaReady \in Seq(T1)
      BY <2>2, <3>1, ColaCrece
    <3>3. \A p : Veces(Append(listaReady, n), p) = Veces(listaReady, p) + Uno(n = p)
      BY <2>2, <3>2, VecesConUltimo
    <3> QED
      BY <2>1, <2>2, <3>2, <3>3, ColaConUltimo
  <2>4. listaExec \in Seq(U1) /\ exitProcesos \in Seq(U1)
        /\ progEncolados \in [Semaforos \cup Dispositivos -> Seq(U1)]
    <3>1. listaExec \in Seq(U) /\ exitProcesos \in Seq(U)
          /\ progEncolados \in [Semaforos \cup Dispositivos -> Seq(U)]
      BY DEF ListasEnRegla
    <3> HIDE DEF U, U1
    <3>2. \A s \in Seq(U) : s \in Seq(U1)
      BY <2>2, ColaCrece
    <3> QED
      BY <3>1, <3>2
  <2>5. ListasEnRegla' /\ ValoresEnRegla'
    <3>1. n \in Pids
      BY <2>1 DEF Pids
    <3> QED
      BY <2>1, <2>3, <2>4, <3>1 DEF ListasEnRegla, ValoresEnRegla
  <2>6. HilosEnRegla' /\ DispositivosEnRegla' /\ CanalesEnRegla' /\ CpusEnRegla'
    <3>1. HilosEnRegla'
      BY <2>1 DEF HilosEnRegla, Acotado
    <3>2. DispositivosEnRegla'
      BY <2>1 DEF DispositivosEnRegla
    <3> QED
      BY <3>1, <3>2 DEF CanalesEnRegla, CpusEnRegla, canales
  <2>7. Protocolo'
    <3>1. ASSUME NEW x \in CPUs PROVE Fase(x)'
      BY <2>1, FaseIgual DEF Protocolo, canales
    <3> QED
      BY <3>1 DEF Protocolo
  <2>8. PcbsEnRegla'
    <3>1. \A p : Acabado(p)' <=> Acabado(p)
      BY <2>1 DEF Acabado
    <3> QED
      BY <2>1, <3>1 DEF PcbsEnRegla
  <2>9. DispContado'
    <3>1. \A d : Mandan(d)' = Mandan(d)
      BY <2>1, HilosQuietos
    <3>2. \A d : Cardinality(Mandan(d))' = Cardinality(Mandan(d))
      BY <3>1
    <3> QED
      BY <2>1, <3>2 DEF DispContado
  <2>10. Lugares'
    <3>1. ASSUME NEW p \in U1 PROVE EnSuLugar(p)'
      <4>1. /\ Duenos(p)' = Duenos(p) /\ Llevan(p)' = Llevan(p)
            /\ EntreDosListas(p)' = EntreDosListas(p) /\ EnManos(p)' = EnManos(p)
            /\ Encolado(p)' = Encolado(p)
        BY <2>1, HilosQuietos DEF EnManos, Encolado
      <4>2. /\ Veces(listaExec', p) = Veces(listaExec, p)
            /\ Veces(exitProcesos', p) = Veces(exitProcesos, p)
        BY <2>1 DEF Veces
      <4>3. CASE p \in U
        <5>1. EnSuLugar(p)
          BY <4>3 DEF Lugares
        <5>2. Veces(listaReady', p) = Veces(listaReady, p)
          <6>1. n # p
            BY <4>3
          <6> HIDE DEF n
          <6>2. Veces(listaReady, p) \in Nat
            BY SonCuentas
          <6> QED
            BY <2>3, <6>1, <6>2 DEF Uno
        <5> QED
          BY <4>1, <4>2, <5>1, <5>2, LugarLuego DEF EnSuLugar
      <4>4. CASE p = n
        <5>1. /\ Veces(listaReady, n) = 0 /\ Veces(listaExec, n) = 0
              /\ Veces(exitProcesos, n) = 0
              /\ Encolado(n) = {} /\ EnManos(n) = {} /\ Llevan(n) = {}
              /\ EntreDosListas(n) = {} /\ Duenos(n) = {}
          BY <2>2, NoAdmitido
        <5>2. Veces(listaReady', p) = 1
          BY <2>3, <4>4, <5>1 DEF Uno
        <5>3. Cardinality({}) = 0
          BY FS_EmptySet
        <5> HIDE DEF n
        <5>4. /\ Cardinality(Duenos(p)') = 0 /\ Cardinality(Llevan(p)') = 0
              /\ Cardinality(EntreDosListas(p)') = 0 /\ Cardinality(EnManos(p)') = 0
              /\ Cardinality(Encolado(p)') = 0
          BY <4>1, <4>4, <5>1, <5>3
        <5>5. Veces(listaExec', p) = 0 /\ Veces(exitProcesos', p) = 0
          BY <4>2, <4>4, <5>1
        <5> QED
          BY <5>2, <5>4, <5>5, LugarLuego
      <4> QED
        BY <4>3, <4>4
    <3> QED
      BY <2>1, <3>1 DEF Lugares
  <2> QED
    BY <2>5, <2>6, <2>7, <2>8, <2>9, <2>10 DEF InvPCP, Tipos, Puestos
<1>2. CASE PostProductor
  <2>1. /\ productorConsumidor' = productorConsumidor + 1 /\ debePost' = FALSE
        /\ UNCHANGED <<admitidos, vivo, listaReady, iSemaforo, pcb, listaExec, exitProcesos,
                       semaforoDisp, hilo, progEncolados, dispositivo>>
    BY <1>2 DEF PostProductor, colas
  <2>2. ListasEnRegla' /\ ValoresEnRegla' /\ DispositivosEnRegla'
    <3>1. ListasEnRegla'
      BY <2>1 DEF ListasEnRegla
    <3>2. ValoresEnRegla'
      <4>1. ValoresEnRegla
        OBVIOUS
      <4>2. productorConsumidor' \in Nat /\ debePost' \in BOOLEAN
        <5>1. productorConsumidor \in Nat /\ productorConsumidor' = productorConsumidor + 1
          BY <2>1, <4>1 DEF ValoresEnRegla
        <5>2. debePost' = FALSE
          BY <2>1
        <5>3. productorConsumidor' \in Nat
          BY <5>1
        <5>4. debePost' \in BOOLEAN
          BY <5>2
        <5> QED
          BY <5>3, <5>4
      <4>3. vivo' \in BOOLEAN /\ iSemaforo' \in [Semaforos -> Int]
        BY <2>1, <4>1 DEF ValoresEnRegla
      <4> QED
        BY <4>2, <4>3 DEF ValoresEnRegla
    <3>3. DispositivosEnRegla'
      BY <2>1 DEF DispositivosEnRegla
    <3> QED
      BY <3>1, <3>2, <3>3
  <2>3. Lugares'
    <3>1. \A p : /\ EnManos(p)' = EnManos(p) /\ Encolado(p)' = Encolado(p)
                 /\ Veces(listaReady', p) = Veces(listaReady, p)
                 /\ Veces(exitProcesos', p) = Veces(exitProcesos, p)
      BY <2>1 DEF EnManos, Encolado, Veces
    <3> QED
      BY <2>1, <3>1, LugaresDeOtros
  <2>4. DispContado'
    <3>1. \A d : Mandan(d)' = Mandan(d)
      BY <2>1, HilosQuietos
    <3>2. \A d : Cardinality(Mandan(d))' = Cardinality(Mandan(d))
      BY <3>1
    <3> QED
      BY <2>1, <3>2 DEF DispContado
  <2> QED
    BY <2>1, <2>2, <2>3, <2>4, JuntaDeOtros
<1> QED
  BY <1>1, <1>2

-----------------------------------------------------------------------------
(* Steps of the CPUs. *)

\* The invariant after a step of the CPU of c, which touches nothing of the kernel.
LEMMA JuntaCpu ==
  ASSUME InvPCP, NEW c \in CPUs, UNCHANGED varsPCP, Ajenos(c), CanalesEnRegla', CpusEnRegla',
         Fase(c)'
  PROVE  InvPCP'
<1> USE DeTodos
<1>1. UNCHANGED <<admitidos, debePost, vivo, listaReady, productorConsumidor, iSemaforo, pcb,
                  listaExec, exitProcesos, progEncolados, semaforoDisp, dispositivo, hilo>>
  BY DEF varsPCP, plp, ready, colas
<1>2. Protocolo'
  BY <1>1, ProtocoloSigue DEF Otros
<1>3. ListasEnRegla'
  BY <1>1 DEF ListasEnRegla
<1>4. ValoresEnRegla'
  BY <1>1 DEF ValoresEnRegla
<1>5. DispositivosEnRegla'
  BY <1>1 DEF DispositivosEnRegla
<1>6. HilosEnRegla'
  BY <1>1 DEF HilosEnRegla, Acotado
<1>7. PcbsEnRegla'
  <2>1. \A p : Acabado(p)' <=> Acabado(p)
    BY <1>1 DEF Acabado
  <2> QED
    BY <1>1, <2>1 DEF PcbsEnRegla
<1>8. Lugares'
  <2>1. \A p : /\ EnManos(p)' = EnManos(p) /\ Encolado(p)' = Encolado(p)
               /\ Veces(listaReady', p) = Veces(listaReady, p)
               /\ Veces(exitProcesos', p) = Veces(exitProcesos, p)
    BY <1>1 DEF EnManos, Encolado, Veces
  <2> QED
    BY <1>1, <2>1, LugaresDeOtros
<1>9. DispContado'
  <2>1. \A d : Mandan(d)' = Mandan(d)
    BY <1>1, HilosQuietos
  <2>2. \A d : Cardinality(Mandan(d))' = Cardinality(Mandan(d))
    BY <2>1
  <2> QED
    BY <1>1, <2>2 DEF DispContado
<1> QED
  BY <1>2, <1>3, <1>4, <1>5, <1>6, <1>7, <1>8, <1>9 DEF InvPCP, Tipos, Puestos

\* The steps of a thread, by what its CPU may be doing meanwhile.
LEMMA PasosPorFase ==
  /\ PasosHilo = PasosLibres \cup PasosPedido \cup PasosFin \cup {"recibir", "terminado"}
  /\ "recibir" \notin PasosLibres \cup PasosPedido \cup PasosFin
BY DEF PasosHilo, PasosLibres, PasosPedido, PasosFin, PasosWait, PasosSignal, PasosIo

\* What the invariant says of CPU c: while it executes, or may get a PCB, its thread
\* is in recv; an answer may also come from one that has gone on to another program.
LEMMA DeCpuEnRegla ==
  ASSUME InvPCP, NEW c \in CPUs
  PROVE  /\ FaseCpu(c) /\ cpu[c] \in TipoCpu
         /\ haciaCpu[c] \in Seq(Mensajes) /\ haciaKernel[c] \in Seq(Mensajes)
         /\ cpu[c].paso = "ejecutar" /\ ~Ociosa(c) /\ cpu[c].estadoRafaga \in
              {"notificarPorFinRafaga", "notificarPorFinPrograma"} =>
              hilo[c].paso = "recibir" /\ Corre(c)
         /\ cpu[c].paso = "recibirPcb" /\ haciaCpu[c] # <<>> =>
              hilo[c].paso = "recibir" /\ Dada(c) /\ Ociosa(c)
         /\ cpu[c].paso = "respuesta" /\ haciaCpu[c] # <<>> =>
              \/ hilo[c].paso \in PasosLibres /\ TrasWait(c) /\ haciaKernel[c] = <<>>
              \/ hilo[c].paso = "recibir" /\ Dada(c) /\ EnWait(c)
              \/ hilo[c].paso = "recibir" /\ Contestada(c)
         /\ hilo[c].paso = "recibir" => hilo[c].prog \in Programas
<1>1. Fase(c) /\ hilo[c] \in TipoHilo /\ Acotado(hilo[c]) /\ CanalesEnRegla /\ CpusEnRegla
  BY DeHilo DEF InvPCP, Tipos
<1>2. hilo[c].paso \in PasosLibres \cup PasosPedido \cup PasosFin \cup {"recibir"}
  <2>1. hilo[c].paso \in PasosHilo /\ hilo[c].paso # "terminado"
    BY <1>1 DEF TipoHilo, Fase
  <2> QED
    BY <2>1, PasosPorFase
<1>3. cpu[c] \in TipoCpu /\ haciaCpu[c] \in Seq(Mensajes) /\ haciaKernel[c] \in Seq(Mensajes)
  BY <1>1 DEF CpusEnRegla, CanalesEnRegla
<1>4. hilo[c].paso = "recibir" => hilo[c].prog \in Programas
  BY <1>1, DeTodos DEF Acotado, PasosConProg, PasosDueno, Nadie, Programas
<1>5. CASE hilo[c].paso \in PasosLibres
  <2>1. haciaKernel[c] = <<>> /\ ((Ociosa(c) /\ haciaCpu[c] = <<>>) \/ TrasWait(c))
    BY <1>1, <1>5 DEF Fase, FaseLibre
  <2> QED
    BY <1>1, <1>3, <1>4, <1>5, <2>1 DEF Fase, TrasWait, EnWait, Ociosa
<1>6. CASE hilo[c].paso \in PasosPedido
  <2>1. Pregunta(c) /\ haciaCpu[c] = <<>>
    BY <1>1, <1>6 DEF Fase, FasePedido
  <2> QED
    BY <1>1, <1>3, <1>4, <2>1 DEF Fase, Pregunta
<1>7. CASE hilo[c].paso \in PasosFin
  <2>1. Ociosa(c) /\ haciaCpu[c] = <<>>
    BY <1>1, <1>7 DEF Fase, FaseFin
  <2> QED
    BY <1>1, <1>3, <1>4, <2>1 DEF Fase, Ociosa
<1>8. CASE hilo[c].paso = "recibir"
  <2>1. Dada(c) \/ Perdida(c) \/ Corre(c) \/ Pide(c) \/ Contestada(c) \/ Devuelta(c)
    BY <1>1, <1>8 DEF Fase, FaseRecibir
  <2>2. CASE Dada(c)
    BY <1>1, <1>3, <1>4, <1>8, <2>2 DEF Fase, Dada, Ociosa, EnWait
  <2>3. CASE Perdida(c) \/ Devuelta(c)
    BY <1>1, <1>3, <1>4, <1>8, <2>3 DEF Fase, Perdida, Devuelta, Ociosa
  <2>4. CASE Corre(c)
    BY <1>1, <1>3, <1>4, <1>8, <2>4 DEF Fase, Corre, Ejecuta
  <2>5. CASE Pide(c)
    BY <1>1, <1>3, <1>4, <1>8, <2>5 DEF Fase, Pide, Pregunta
  <2>6. CASE Contestada(c)
    BY <1>1, <1>3, <1>4, <1>8, <2>6 DEF Fase, Contestada, Pregunta
  <2> QED
    BY <2>1, <2>2, <2>3, <2>4, <2>5, <2>6
<1> QED
  BY <1>2, <1>5, <1>6, <1>7, <1>8

\* The protocol while the thread stays in recv.
LEMMA FaseEnRecv ==
  ASSUME NEW c \in CPUs, UNCHANGED hilo, hilo[c].paso = "recibir", FaseCpu(c)',
         \/ Dada(c)' \/ Perdida(c)' \/ Corre(c)' \/ Pide(c)' \/ Contestada(c)' \/ Devuelta(c)'
  PROVE  Fase(c)'
<1>1. hilo'[c].paso \notin PasosLibres \cup PasosPedido \cup PasosFin
  BY PasosPorFase
<1>2. FaseLibre(c)' /\ FasePedido(c)' /\ FaseFin(c)'
  BY <1>1 DEF FaseLibre, FasePedido, FaseFin
<1> QED
  BY <1>2 DEF Fase, FaseRecibir

\* The channels and the CPUs after a CPU has stepped.
LEMMA CpuEnRegla ==
  ASSUME InvPCP, NEW c \in CPUs, UNCHANGED conectada,
         NEW k \in TipoCpu, cpu' = [cpu EXCEPT ![c] = k],
         \/ UNCHANGED haciaCpu
         \/ \E r \in Seq(Mensajes) : haciaCpu' = [haciaCpu EXCEPT ![c] = r],
         \/ UNCHANGED haciaKernel
         \/ \E m \in Mensajes : EnviarAKernel(c, m)
  PROVE  CanalesEnRegla' /\ CpusEnRegla' /\ Ajenos(c) /\ cpu'[c] = k
<1> USE DeTodos
<1>1. CpusEnRegla' /\ cpu'[c] = k /\ \A x \in CPUs \ {c} : cpu'[x] = cpu[x]
  BY DEF CpusEnRegla
<1>2. haciaCpu' \in [CPUs -> Seq(Mensajes)] /\ \A x \in CPUs \ {c} : haciaCpu'[x] = haciaCpu[x]
  BY DEF CanalesEnRegla
<1>3. haciaKernel' \in [CPUs -> Seq(Mensajes)]
      /\ \A x \in CPUs \ {c} : haciaKernel'[x] = haciaKernel[x]
  <2>1. CASE UNCHANGED haciaKernel
    BY <2>1 DEF CanalesEnRegla
  <2>2. ASSUME NEW m \in Mensajes, EnviarAKernel(c, m)
        PROVE  haciaKernel' \in [CPUs -> Seq(Mensajes)]
               /\ \A x \in CPUs \ {c} : haciaKernel'[x] = haciaKernel[x]
    <3>1. haciaKernel[c] \in Seq(Mensajes)
      BY DEF CanalesEnRegla
    <3>2. Append(haciaKernel[c], m) \in Seq(Mensajes)
      BY <3>1, ColaConUltimo
    <3> QED
      BY <2>2, <3>2 DEF EnviarAKernel, CanalesEnRegla
  <2> QED
    BY <2>1, <2>2
<1> QED
  BY <1>1, <1>2, <1>3 DEF Ajenos, CanalesEnRegla

\* A CPU gets the PCB its thread has sent.
LEMMA RecibirPcbPuesto ==
  ASSUME ProgramasEnRegla, InvPCP, NEW c \in CPUs, RecibirPcb(c), UNCHANGED varsPCP
  PROVE  InvPCP'
<1> DEFINE m == Head(haciaCpu[c])
           k == [paso |-> "ejecutar", pid |-> m.pid, pc |-> m.pc, i |-> 0,
                 estadoRafaga |-> "notificarPorFinRafaga", fallas |-> 0,
                 manejador |-> cpu[c].manejador]
<1>1. cpu[c].paso = "recibirPcb" /\ haciaCpu[c] # <<>> /\ UNCHANGED <<haciaKernel, hilo>>
  BY DEF RecibirPcb, varsPCP
<1>2. PICK r \in Restos(haciaCpu[c]) : haciaCpu' = [haciaCpu EXCEPT ![c] = r]
  BY DEF RecibirPcb
<1>3. /\ FaseCpu(c) /\ cpu[c] \in TipoCpu /\ haciaCpu[c] \in Seq(Mensajes)
      /\ hilo[c].paso = "recibir" /\ Dada(c) /\ Ociosa(c) /\ hilo[c].prog \in Programas
  BY <1>1, DeCpuEnRegla
<1>4. /\ Len(haciaCpu[c]) = 1 /\ EsPcb(haciaCpu[c][1], hilo[c].prog) /\ haciaKernel[c] = <<>>
  BY <1>1, <1>3 DEF Dada, EnWait
<1>5. m \in Mensajes /\ EsPcb(m, hilo[c].prog) /\ r = <<>>
  BY <1>3, <1>4, RestosDeUno
<1>6. /\ m.op = "atendeProceso" /\ m.pid = hilo[c].prog /\ m.pc < Final(hilo[c].prog)
      /\ m.pc \in Nat /\ m.pid \in Pids
  BY <1>5 DEF EsPcb, Mensajes
<1>7. cpu' = [cpu EXCEPT ![c] = k] /\ UNCHANGED conectada
  BY <1>6 DEF RecibirPcb
<1>8. k \in TipoCpu
  BY <1>3, <1>6, ParametrosCpu DEF TipoCpu, DeCpu
<1> HIDE DEF m
<1>9. CanalesEnRegla' /\ CpusEnRegla' /\ Ajenos(c) /\ cpu'[c] = k
  <2>1. r \in Seq(Mensajes)
    BY <1>5, EmptySeq
  <2> HIDE DEF k
  <2> QED
    BY <1>1, <1>2, <1>7, <1>8, <2>1, CpuEnRegla
<1>10. haciaCpu'[c] = <<>> /\ haciaKernel'[c] = <<>>
  BY <1>1, <1>2, <1>4, <1>5, DeTodos DEF CanalesEnRegla
<1>11. Final(hilo[c].prog) \in Nat
  BY <1>3, HayLinea
<1>12. FaseCpu(c)'
  BY <1>3, <1>6, <1>7, <1>9, <1>11 DEF FaseCpu
<1>13. Corre(c)'
  BY <1>1, <1>6, <1>9, <1>10 DEF Corre, Ejecuta
<1>14. Fase(c)'
  BY <1>1, <1>3, <1>12, <1>13, FaseEnRecv
<1> QED
  BY <1>9, <1>14, JuntaCpu

\* A line that waits for nobody.
LEMMA EjecutarLineaPuesta ==
  ASSUME ProgramasEnRegla, InvPCP, NEW c \in CPUs, EjecutarLinea(c), UNCHANGED varsPCP
  PROVE  InvPCP'
<1> DEFINE l == ProximaLinea(c)
           s == [cpu[c] EXCEPT !.pc = @ + 1, !.i = @ + 1]
           p == hilo[c].prog
<1>1. cpu[c].paso = "ejecutar" /\ cpu[c].i < Quantum /\ UNCHANGED <<haciaCpu, conectada, hilo>>
      /\ cpu[c].estadoRafaga = "notificarPorFinRafaga"
  BY DEF EjecutarLinea, puedeSeguirEjecutando, varsPCP
<1>2. ~Ociosa(c)
  BY <1>1 DEF Ociosa
<1>3. /\ FaseCpu(c) /\ cpu[c] \in TipoCpu
      /\ hilo[c].paso = "recibir" /\ Corre(c) /\ p \in Programas
  BY <1>1, <1>2, DeCpuEnRegla
<1>4. /\ cpu[c].pid = p /\ haciaCpu[c] = <<>> /\ haciaKernel[c] = <<>> /\ cpu[c].pc < Final(p)
      /\ cpu[c].fallas = 0 /\ conectada[c]
  BY <1>1, <1>3 DEF Corre, Ejecuta, FaseCpu
<1>5. cpu[c].pc + 1 \in 1..Final(p) /\ cpu[c].pc \in Nat /\ Final(p) \in Nat
  BY <1>3, <1>4, HayLinea DEF TipoCpu
<1>6. l = Codigo[p][cpu[c].pc + 1] /\ l.nombre \in Nombres
      /\ (~Ultima(l) => cpu[c].pc + 1 < Final(p))
  BY <1>3, <1>4, <1>5, LineaEnRegla DEF ProximaLinea
<1>7. /\ s \in TipoCpu /\ s.pc = cpu[c].pc + 1 /\ s.pid = p /\ s.paso = "ejecutar"
      /\ s.fallas = 0 /\ s.estadoRafaga = "notificarPorFinRafaga"
  <2>1. cpu[c].i + 1 \in 0..Quantum /\ cpu[c].pc + 1 \in Nat
    BY <1>1, <1>3, ParametrosCpu DEF TipoCpu
  <2>2. s \in TipoCpu
    BY <1>3, <2>1 DEF TipoCpu
  <2>3. /\ s.pc = cpu[c].pc + 1 /\ s.pid = cpu[c].pid /\ s.paso = cpu[c].paso
        /\ s.fallas = cpu[c].fallas /\ s.estadoRafaga = cpu[c].estadoRafaga
    BY <1>3 DEF TipoCpu
  <2> HIDE DEF s
  <2> QED
    BY <1>1, <1>4, <2>2, <2>3
<1> HIDE DEF s, l
<1>8. CASE l.op = "calculo"
  <2>1. cpu' = [cpu EXCEPT ![c] = s] /\ UNCHANGED haciaKernel
    BY <1>8 DEF EjecutarLinea, l, s
  <2>2. CanalesEnRegla' /\ CpusEnRegla' /\ Ajenos(c) /\ cpu'[c] = s
    BY <1>1, <1>7, <2>1, CpuEnRegla
  <2>3. cpu[c].pc + 1 < Final(p)
    BY <1>6, <1>8 DEF Ultima
  <2>4. FaseCpu(c)'
    BY <1>1, <1>3, <1>4, <1>5, <1>7, <2>2, <2>3 DEF FaseCpu
  <2>5. Corre(c)'
    BY <1>1, <1>4, <1>7, <2>1, <2>2 DEF Corre, Ejecuta
  <2>6. Fase(c)'
    BY <1>1, <1>3, <2>4, <2>5, FaseEnRecv
  <2> QED
    BY <2>2, <2>6, JuntaCpu
<1>9. CASE l.op = "fin"
  <2> DEFINE k == [s EXCEPT !.estadoRafaga = "notificarPorFinPrograma"]
  <2>1. cpu' = [cpu EXCEPT ![c] = k] /\ UNCHANGED haciaKernel
    BY <1>9 DEF EjecutarLinea, l, s
  <2>2. /\ k \in TipoCpu /\ k.pc = cpu[c].pc + 1 /\ k.pid = p /\ k.paso = "ejecutar"
        /\ k.fallas = 0 /\ k.estadoRafaga = "notificarPorFinPrograma"
    BY <1>7 DEF TipoCpu, DeCpu
  <2> HIDE DEF k
  <2>3. CanalesEnRegla' /\ CpusEnRegla' /\ Ajenos(c) /\ cpu'[c] = k
    BY <1>1, <2>1, <2>2, CpuEnRegla
  <2>4. FaseCpu(c)'
    BY <1>1, <1>3, <1>4, <1>5, <2>2, <2>3 DEF FaseCpu
  <2>5. Corre(c)'
    BY <1>1, <1>4, <2>1, <2>2, <2>3 DEF Corre, Ejecuta
  <2>6. Fase(c)'
    BY <1>1, <1>3, <2>4, <2>5, FaseEnRecv
  <2> QED
    BY <2>3, <2>6, JuntaCpu
<1>10. CASE l.op = "io"
  <2> DEFINE k == [s EXCEPT !.estadoRafaga = "entradaSalidaKernel"]
             m == Mensaje("entradaSalidaKernel", l.nombre, p, cpu[c].pc + 1)
  <2>1. cpu' = [cpu EXCEPT ![c] = k] /\ EnviarAKernel(c, m)
    <3>1. cpu' = [cpu EXCEPT ![c] = k] /\
          EnviarAKernel(c, Mensaje("entradaSalidaKernel", l.nombre, s.pid, s.pc))
      BY <1>10 DEF EjecutarLinea, l, s
    <3> QED
      BY <3>1, <1>7
  <2>2. /\ k \in TipoCpu /\ k.pc = cpu[c].pc + 1 /\ k.pid = p /\ k.paso = "ejecutar"
        /\ k.fallas = 0 /\ k.estadoRafaga = "entradaSalidaKernel"
    BY <1>7 DEF TipoCpu, DeCpu
  <2>3. /\ m \in Mensajes /\ m.op = "entradaSalidaKernel" /\ m.nombre = l.nombre
        /\ m.pid = p /\ m.pc = cpu[c].pc + 1
    BY <1>3, <1>5, <1>6 DEF Mensaje, Mensajes, DeCpu, Pids
  <2>4. l.nombre \in Dispositivos => cpu[c].pc + 1 < Final(p)
    BY <1>6, <1>10 DEF Ultima
  <2> HIDE DEF k, m
  <2>5. CanalesEnRegla' /\ CpusEnRegla' /\ Ajenos(c) /\ cpu'[c] = k
    BY <1>1, <2>1, <2>2, <2>3, CpuEnRegla
  <2>6. FaseCpu(c)'
    BY <1>1, <1>3, <1>4, <1>5, <2>2, <2>5 DEF FaseCpu
  <2>7. haciaKernel'[c] = <<m>>
    <3>1. Append(<<>>, m) = <<m>>
      OBVIOUS
    <3> QED
      BY <1>4, <2>1, <3>1, DeTodos DEF EnviarAKernel, CanalesEnRegla
  <2>8. Len(haciaKernel'[c]) = 1 /\ haciaKernel'[c][1] = m
    BY <2>3, <2>7, UnMensaje
  <2>9. Devuelta(c)'
    <3>1. Ociosa(c)' /\ haciaCpu'[c] = <<>>
      BY <1>1, <1>4, <2>2, <2>5 DEF Ociosa
    <3>2. Devuelve(c, haciaKernel[c][1], hilo[c].prog)'
      BY <1>1, <2>2, <2>3, <2>4, <2>5, <2>8 DEF Devuelve
    <3> QED
      BY <2>8, <3>1, <3>2 DEF Devuelta
  <2>10. Fase(c)'
    BY <1>1, <1>3, <2>6, <2>9, FaseEnRecv
  <2> QED
    BY <2>5, <2>10, JuntaCpu
<1> QED
  BY <1>8, <1>9, <1>10 DEF EjecutarLinea, l

\* A line that asks the kernel for something.
LEMMA PedirPuesto ==
  ASSUME ProgramasEnRegla, InvPCP, NEW c \in CPUs, Pedir(c), UNCHANGED varsPCP
  PROVE  InvPCP'
<1> DEFINE l == ProximaLinea(c)
           n == cpu[c].pc + 1
           p == hilo[c].prog
           k == [cpu[c] EXCEPT !.paso = "respuesta", !.pc = n]
           m == CASE l.op = "consulta" -> Mensaje("consulta", l.nombre, Nadie, 0)
                  [] l.op = "wait" -> Mensaje("waitKernel", l.nombre, p, n)
                  [] l.op = "signal" -> Mensaje("signalKernel", l.nombre, Nadie, 0)
<1>1. cpu[c].paso = "ejecutar" /\ cpu[c].i < Quantum /\ UNCHANGED <<haciaCpu, conectada, hilo>>
      /\ cpu[c].estadoRafaga = "notificarPorFinRafaga"
  BY DEF Pedir, puedeSeguirEjecutando, varsPCP
<1>2. ~Ociosa(c)
  BY <1>1 DEF Ociosa
<1>3. /\ FaseCpu(c) /\ cpu[c] \in TipoCpu
      /\ hilo[c].paso = "recibir" /\ Corre(c) /\ p \in Programas
  BY <1>1, <1>2, DeCpuEnRegla
<1>4. /\ cpu[c].pid = p /\ haciaCpu[c] = <<>> /\ haciaKernel[c] = <<>> /\ cpu[c].pc < Final(p)
      /\ cpu[c].fallas = 0 /\ conectada[c]
  BY <1>1, <1>3 DEF Corre, Ejecuta, FaseCpu
<1>5. n \in 1..Final(p) /\ cpu[c].pc \in Nat /\ Final(p) \in Nat /\ n \in Nat
  BY <1>3, <1>4, HayLinea DEF TipoCpu
<1>6. l = Codigo[p][n] /\ l.nombre \in Nombres
  BY <1>3, <1>4, <1>5, LineaEnRegla DEF ProximaLinea
<1>7. l.op \in {"consulta", "wait", "signal"}
  BY DEF Pedir
<1>8. /\ k \in TipoCpu /\ k.pc = n /\ k.pid = p /\ k.paso = "respuesta"
      /\ k.fallas = 0 /\ k.estadoRafaga = "notificarPorFinRafaga" /\ k.i = cpu[c].i
  <2> HIDE DEF n
  <2>1. k \in TipoCpu
    BY <1>3, <1>5 DEF TipoCpu
  <2>2. /\ k.pc = n /\ k.pid = cpu[c].pid /\ k.paso = "respuesta" /\ k.i = cpu[c].i
        /\ k.fallas = cpu[c].fallas /\ k.estadoRafaga = cpu[c].estadoRafaga
    BY <1>3 DEF TipoCpu
  <2> HIDE DEF k
  <2> QED
    BY <1>1, <1>4, <2>1, <2>2
<1>9. cpu' = [cpu EXCEPT ![c] = k] /\ EnviarAKernel(c, m)
  <2>1. cpu' = [cpu EXCEPT ![c].paso = "respuesta", ![c].pc = n]
    BY DEF Pedir
  <2>2. cpu' = [cpu EXCEPT ![c] = k]
    BY <2>1, DeTodos DEF CpusEnRegla
  <2>3. EnviarAKernel(c, m)
    BY <1>4, <1>7 DEF Pedir
  <2> QED
    BY <2>2, <2>3
<1>10. m \in Mensajes
  <2> HIDE DEF n
  <2>1. p \in Pids /\ Nadie \in Pids /\ 0 \in Nat
    BY <1>3 DEF Pids
  <2>2. CASE l.op = "consulta"
    BY <1>6, <2>1, <2>2 DEF Mensaje, Mensajes, DeCpu
  <2>3. CASE l.op = "wait"
    BY <1>5, <1>6, <2>1, <2>3 DEF Mensaje, Mensajes, DeCpu
  <2>4. CASE l.op = "signal"
    BY <1>6, <2>1, <2>4 DEF Mensaje, Mensajes, DeCpu
  <2> QED
    BY <1>7, <2>2, <2>3, <2>4
<1> HIDE DEF k
<1>11. CanalesEnRegla' /\ CpusEnRegla' /\ Ajenos(c) /\ cpu'[c] = k
  <2> HIDE DEF m
  <2> QED
    BY <1>1, <1>8, <1>9, <1>10, CpuEnRegla
<1>12. LineaActual(c)' = l
  BY <1>6, <1>8, <1>11 DEF LineaActual
<1>13. Pedido(c)' = m
  BY <1>8, <1>11, <1>12 DEF Pedido
<1> HIDE DEF m, l
<1>14. FaseCpu(c)'
  <2>1. conectada'[c] /\ p \in Programas /\ n \in 0..Final(p) /\ n > 0
    BY <1>1, <1>3, <1>4, <1>5
  <2> HIDE DEF n, p
  <2> QED
    BY <1>1, <1>7, <1>8, <1>11, <1>12, <2>1 DEF FaseCpu
<1>15. haciaKernel'[c] = <<m>>
  <2>1. Append(<<>>, m) = <<m>>
    OBVIOUS
  <2> QED
    BY <1>4, <1>9, <2>1, DeTodos DEF EnviarAKernel, CanalesEnRegla
<1>16. Pide(c)'
  BY <1>1, <1>4, <1>8, <1>11, <1>13, <1>15 DEF Pide, Pregunta
<1>17. Fase(c)'
  BY <1>1, <1>3, <1>14, <1>16, FaseEnRecv
<1> QED
  BY <1>11, <1>17, JuntaCpu

\* A line that fails, once.
LEMMA FallarPuesto ==
  ASSUME ProgramasEnRegla, InvPCP, NEW c \in CPUs, Fallar(c), UNCHANGED varsPCP
  PROVE  InvPCP'
<1> DEFINE l == ProximaLinea(c)
           n == cpu[c].pc + 1
           p == hilo[c].prog
           k == [cpu[c] EXCEPT !.pc = n, !.i = @ + 1, !.estadoRafaga = "exception",
                               !.fallas = l.fallas - 1]
           m == Mensaje("exception", SinNombre, Nadie, 0)
<1>1. FaseCpu(c) /\ cpu[c] \in TipoCpu
  BY DeCpuEnRegla
<1>2. /\ cpu[c].paso = "ejecutar" /\ cpu[c].i < Quantum
      /\ cpu[c].estadoRafaga = "notificarPorFinRafaga" /\ l.op = "falla"
      /\ cpu' = [cpu EXCEPT ![c] = k] /\ EnviarAKernel(c, m)
      /\ UNCHANGED <<haciaCpu, conectada, hilo>>
  <2>1. ~(cpu[c].fallas > 0)
    BY <1>1 DEF FaseCpu
  <2>2. puedeSeguirEjecutando(c) /\ l.op = "falla" /\ cpu' = [cpu EXCEPT ![c] = k]
    <3> HIDE DEF l
    <3>1. puedeSeguirEjecutando(c) /\ l.op = "falla"
      BY <2>1 DEF Fallar, l
    <3> DEFINE j == [cpu[c] EXCEPT !.pc = @ + 1, !.i = @ + 1, !.estadoRafaga = "exception",
                                   !.fallas = l.fallas - 1]
    <3>2. cpu' = [cpu EXCEPT ![c] = j]
      BY <2>1 DEF Fallar, l
    <3>3. j = k
      BY <1>1 DEF TipoCpu
    <3> HIDE DEF k, j
    <3> QED
      BY <3>1, <3>2, <3>3
  <2>3. EnviarAKernel(c, m) /\ UNCHANGED <<haciaCpu, conectada>> /\ cpu[c].paso = "ejecutar"
    BY DEF Fallar
  <2> HIDE DEF k, m, l
  <2> QED
    BY <2>2, <2>3 DEF puedeSeguirEjecutando, varsPCP
<1>3. ~Ociosa(c)
  BY <1>2 DEF Ociosa
<1>4. hilo[c].paso = "recibir" /\ Corre(c) /\ p \in Programas
  BY <1>2, <1>3, DeCpuEnRegla
<1>5. /\ cpu[c].pid = p /\ haciaCpu[c] = <<>> /\ haciaKernel[c] = <<>> /\ cpu[c].pc < Final(p)
      /\ conectada[c]
  BY <1>1, <1>2, <1>4 DEF Corre, Ejecuta, FaseCpu
<1>6. n \in 1..Final(p) /\ Final(p) \in Nat /\ n \in Nat
  BY <1>1, <1>4, <1>5, HayLinea DEF TipoCpu
<1>7. l.fallas = 1
  BY <1>2, <1>4, <1>5, <1>6, LineaEnRegla DEF ProximaLinea
<1>8. /\ k \in TipoCpu /\ k.pc = n /\ k.pid = p /\ k.paso = "ejecutar"
      /\ k.fallas = 0 /\ k.estadoRafaga = "exception"
  <2>1. cpu[c].i + 1 \in 0..Quantum /\ l.fallas - 1 = 0 /\ 0 \in Nat
    BY <1>1, <1>2, <1>7, ParametrosCpu DEF TipoCpu
  <2> HIDE DEF n, l
  <2>2. k \in TipoCpu
    BY <1>1, <1>6, <2>1 DEF TipoCpu, DeCpu
  <2>3. /\ k.pc = n /\ k.pid = cpu[c].pid /\ k.paso = cpu[c].paso
        /\ k.fallas = l.fallas - 1 /\ k.estadoRafaga = "exception"
    BY <1>1 DEF TipoCpu
  <2> HIDE DEF k
  <2> QED
    BY <1>2, <1>5, <2>1, <2>2, <2>3
<1>9. m \in Mensajes /\ m.op = "exception"
  BY DEF Mensaje, Mensajes, DeCpu, Pids
<1> HIDE DEF k, m, l
<1>10. CanalesEnRegla' /\ CpusEnRegla' /\ Ajenos(c) /\ cpu'[c] = k
  BY <1>2, <1>8, <1>9, CpuEnRegla
<1>11. FaseCpu(c)'
  BY <1>2, <1>4, <1>5, <1>6, <1>8, <1>10 DEF FaseCpu
<1>12. haciaKernel'[c] = <<m>>
  <2>1. Append(<<>>, m) = <<m>>
    OBVIOUS
  <2> QED
    BY <1>2, <1>5, <2>1, DeTodos DEF EnviarAKernel, CanalesEnRegla
<1>13. Len(haciaKernel'[c]) = 1 /\ haciaKernel'[c][1] = m
  BY <1>9, <1>12, UnMensaje
<1>14. Devuelta(c)'
  <2>1. Ociosa(c)' /\ haciaCpu'[c] = <<>>
    BY <1>2, <1>5, <1>8, <1>10 DEF Ociosa
  <2>2. Devuelve(c, haciaKernel[c][1], hilo[c].prog)'
    BY <1>2, <1>9, <1>13 DEF Devuelve
  <2> QED
    BY <1>13, <2>1, <2>2 DEF Devuelta
<1>15. Fase(c)'
  BY <1>2, <1>4, <1>11, <1>14, FaseEnRecv
<1> QED
  BY <1>10, <1>15, JuntaCpu

\* The end of a burst.
LEMMA TerminarRafagaPuesta ==
  ASSUME ProgramasEnRegla, InvPCP, NEW c \in CPUs, TerminarRafaga(c), UNCHANGED varsPCP
  PROVE  InvPCP'
<1> DEFINE e == cpu[c].estadoRafaga
           k == [cpu[c] EXCEPT !.paso = "recibirPcb", !.manejador = TRUE]
           m == Mensaje(e, SinNombre, cpu[c].pid, cpu[c].pc)
<1>1. FaseCpu(c) /\ cpu[c] \in TipoCpu /\ Fase(c)
  BY DeCpuEnRegla, DeHilo
<1>2. /\ cpu[c].paso = "ejecutar" /\ UNCHANGED <<haciaCpu, conectada, hilo>>
      /\ cpu' = [cpu EXCEPT ![c] = k]
  <2>1. cpu' = [cpu EXCEPT ![c].paso = "recibirPcb", ![c].manejador = TRUE]
    BY DEF TerminarRafaga
  <2>2. cpu' = [cpu EXCEPT ![c] = k]
    BY <2>1, DeTodos DEF CpusEnRegla
  <2> HIDE DEF k
  <2> QED
    BY <2>2 DEF TerminarRafaga, varsPCP
<1>3. /\ k \in TipoCpu /\ k.paso = "recibirPcb" /\ k.pid = cpu[c].pid /\ k.pc = cpu[c].pc
      /\ k.fallas = cpu[c].fallas
  BY <1>1 DEF TipoCpu
<1> HIDE DEF k
<1>4. ASSUME CanalesEnRegla', CpusEnRegla', Ajenos(c), cpu'[c] = k
      PROVE  FaseCpu(c)' /\ Ociosa(c)'
  BY <1>1, <1>2, <1>3, <1>4 DEF FaseCpu, Ociosa
<1>5. CASE e \in {"entradaSalidaKernel", "waitPcbBloqueado", "exception"}
  <2>1. UNCHANGED haciaKernel
    BY <1>5 DEF TerminarRafaga
  <2>2. CanalesEnRegla' /\ CpusEnRegla' /\ Ajenos(c) /\ cpu'[c] = k
    BY <1>2, <1>3, <2>1, CpuEnRegla
  <2>3. FaseCpu(c)' /\ Ociosa(c)' /\ Ociosa(c)
    BY <1>2, <1>4, <1>5, <2>2 DEF Ociosa
  <2>4. FaseLibre(c)' /\ FaseFin(c)'
    <3>1. FaseLibre(c)'
      BY <1>1, <1>2, <2>1, <2>3 DEF Fase, FaseLibre, TrasWait, EnWait
    <3>2. FaseFin(c)'
      BY <1>1, <1>2, <1>3, <2>1, <2>2, <2>3 DEF Fase, FaseFin, Devuelve
    <3> QED
      BY <3>1, <3>2
  <2>5. FasePedido(c)'
    BY <1>1, <1>2 DEF Fase, FasePedido, Pregunta
  <2>6. FaseRecibir(c)'
    <3> SUFFICES ASSUME hilo[c].paso = "recibir" PROVE FaseRecibir(c)'
      BY <1>2 DEF FaseRecibir
    <3>1. (Dada(c) /\ Ociosa(c)) \/ Perdida(c) \/ Devuelta(c)
      BY <1>1, <1>2, <2>3 DEF Fase, FaseRecibir, Dada, Corre, Pide, Contestada, Ejecuta, Pregunta,
         EnWait, Ociosa
    <3>2. CASE Dada(c)
      BY <1>2, <2>1, <2>3, <3>2 DEF FaseRecibir, Dada, EsPcb, EnWait
    <3>3. CASE Perdida(c)
      BY <1>2, <2>1, <2>3, <3>3 DEF FaseRecibir, Perdida
    <3>4. CASE Devuelta(c)
      BY <1>2, <1>3, <2>1, <2>2, <2>3, <3>4 DEF FaseRecibir, Devuelta, Devuelve
    <3> QED
      BY <3>1, <3>2, <3>3, <3>4
  <2>7. Fase(c)'
    BY <1>1, <1>2, <2>3, <2>4, <2>5, <2>6 DEF Fase
  <2> QED
    BY <2>2, <2>7, JuntaCpu
<1>6. CASE e \in {"notificarPorFinRafaga", "notificarPorFinPrograma"}
  <2>1. EnviarAKernel(c, m)
    BY <1>6 DEF TerminarRafaga
  <2>2. ~Ociosa(c)
    BY <1>2, <1>6 DEF Ociosa
  <2>3. hilo[c].paso = "recibir" /\ Corre(c) /\ hilo[c].prog \in Programas
    BY <1>2, <1>6, <2>2, DeCpuEnRegla
  <2>4. haciaCpu[c] = <<>> /\ haciaKernel[c] = <<>> /\ cpu[c].pid = hilo[c].prog
    BY <2>3 DEF Corre, Ejecuta
  <2>5. e = "notificarPorFinRafaga" => cpu[c].pc < Final(hilo[c].prog)
    BY <1>1, <1>2, <2>4 DEF FaseCpu
  <2>6. m \in Mensajes /\ m.op = e /\ m.pid = hilo[c].prog /\ m.pc = cpu[c].pc
    BY <1>1, <1>6, <2>4 DEF Mensaje, Mensajes, TipoCpu, DeCpu
  <2> HIDE DEF m, e
  <2>7. CanalesEnRegla' /\ CpusEnRegla' /\ Ajenos(c) /\ cpu'[c] = k
    BY <1>2, <1>3, <2>1, <2>6, CpuEnRegla
  <2>8. FaseCpu(c)' /\ Ociosa(c)'
    BY <1>4, <2>7
  <2>9. haciaKernel'[c] = <<m>>
    <3>1. Append(<<>>, m) = <<m>>
      OBVIOUS
    <3> QED
      BY <2>1, <2>4, <3>1, DeTodos DEF EnviarAKernel, CanalesEnRegla
  <2>10. Len(haciaKernel'[c]) = 1 /\ haciaKernel'[c][1] = m
    BY <2>6, <2>9, UnMensaje
  <2>11. Devuelve(c, haciaKernel[c][1], hilo[c].prog)'
    BY <1>2, <1>3, <1>6, <2>4, <2>5, <2>6, <2>7, <2>10 DEF Devuelve
  <2>12. Devuelta(c)'
    BY <1>2, <2>4, <2>8, <2>10, <2>11 DEF Devuelta
  <2>13. Fase(c)'
    BY <1>2, <2>3, <2>8, <2>12, FaseEnRecv
  <2> QED
    BY <2>7, <2>13, JuntaCpu
<1> QED
  BY <1>5, <1>6 DEF TerminarRafaga

\* The answer to a request, or to a wait after which the thread went on.
LEMMA RecibirRespuestaPuesta ==
  ASSUME ProgramasEnRegla, InvPCP, NEW c \in CPUs, RecibirRespuesta(c), UNCHANGED varsPCP
  PROVE  InvPCP'
<1> DEFINE l == LineaActual(c)
           m == Head(haciaCpu[c])
           e == EstadoTras(l.op, m.op)
           k == [cpu[c] EXCEPT !.paso = "ejecutar", !.i = @ + 1, !.estadoRafaga = e]
<1>1. FaseCpu(c) /\ cpu[c] \in TipoCpu /\ Fase(c) /\ haciaCpu[c] \in Seq(Mensajes)
  BY DeCpuEnRegla, DeHilo
<1>2. /\ cpu[c].paso = "respuesta" /\ haciaCpu[c] # <<>>
      /\ UNCHANGED <<haciaKernel, conectada, hilo>>
      /\ cpu' = [cpu EXCEPT ![c] = k]
  <2>1. cpu' = [cpu EXCEPT ![c].paso = "ejecutar", ![c].i = @ + 1, ![c].estadoRafaga = e]
    BY DEF RecibirRespuesta
  <2> HIDE DEF e
  <2>2. cpu' = [cpu EXCEPT ![c] = k]
    BY <2>1, DeTodos DEF CpusEnRegla
  <2> HIDE DEF k
  <2> QED
    BY <2>2 DEF RecibirRespuesta, varsPCP
<1>3. PICK r \in Restos(haciaCpu[c]) : haciaCpu' = [haciaCpu EXCEPT ![c] = r]
  BY DEF RecibirRespuesta
<1>4. /\ l.op \in {"consulta", "wait", "signal"} /\ cpu[c].i + 1 \in 0..Quantum
      /\ cpu[c].fallas = 0 /\ conectada[c]
      /\ cpu[c].pid \in Programas /\ cpu[c].pc \in 0..Final(cpu[c].pid)
  BY <1>1, <1>2, ParametrosCpu DEF FaseCpu, TipoCpu
<1>5. /\ e \in {"notificarPorFinRafaga", "notificarPorFinPrograma", "waitPcbBloqueado"}
      /\ l.op = "wait" /\ m.op # "continuar" => e = "waitPcbBloqueado"
      /\ m.op = "continuar" => e = "notificarPorFinRafaga"
      /\ m.op = "terminar" /\ l.op # "wait" => e = "notificarPorFinPrograma"
  BY <1>4 DEF EstadoTras
<1>6. /\ k \in TipoCpu /\ k.paso = "ejecutar" /\ k.pid = cpu[c].pid /\ k.pc = cpu[c].pc
      /\ k.fallas = cpu[c].fallas /\ k.estadoRafaga = e
  <2> HIDE DEF e
  <2>1. e \in DeCpu \cup {"waitPcbBloqueado"}
    BY <1>5 DEF DeCpu
  <2> QED
    BY <1>1, <1>4, <2>1 DEF TipoCpu
<1> HIDE DEF k, e
<1>7. ASSUME e = "notificarPorFinRafaga" => cpu[c].pc < Final(cpu[c].pid), cpu'[c] = k
      PROVE  FaseCpu(c)'
  BY <1>2, <1>4, <1>6, <1>7 DEF FaseCpu
<1>8. CASE TrasWait(c) /\ haciaKernel[c] = <<>> /\ hilo[c].paso \in PasosLibres
  <2>1. PICK a \in Rechazos : haciaCpu[c] = <<a>>
    BY <1>8 DEF TrasWait
  <2>2. r = <<>> /\ m = a
    <3>1. Len(haciaCpu[c]) = 1 /\ haciaCpu[c][1] = a
      BY <2>1
    <3> QED
      BY <1>1, <3>1, RestosDeUno
  <2>3. e = "waitPcbBloqueado"
    BY <1>5, <1>8, <2>2 DEF TrasWait, EnWait, Rechazos, Respuesta, Mensaje
  <2>4. CanalesEnRegla' /\ CpusEnRegla' /\ Ajenos(c) /\ cpu'[c] = k
    <3>1. r \in Seq(Mensajes)
      BY <2>2, EmptySeq
    <3> QED
      BY <1>2, <1>3, <1>6, <3>1, CpuEnRegla
  <2>5. FaseCpu(c)' /\ Ociosa(c)' /\ haciaCpu'[c] = <<>>
    <3>1. FaseCpu(c)'
      BY <1>7, <2>3, <2>4
    <3>2. haciaCpu'[c] = <<>>
      BY <1>3, <2>2, DeTodos DEF CanalesEnRegla
    <3> QED
      BY <1>6, <2>3, <2>4, <3>1, <3>2 DEF Ociosa
  <2>6. FaseLibre(c)'
    BY <1>2, <1>8, <2>5 DEF FaseLibre
  <2>7. /\ hilo'[c].paso \notin PasosFin /\ hilo'[c].paso \notin PasosPedido
        /\ hilo'[c].paso # "recibir" /\ hilo'[c].paso # "terminado"
    BY <1>2, <1>8 DEF PasosLibres, PasosFin, PasosPedido, PasosWait, PasosSignal, PasosIo
  <2>8. Fase(c)'
    BY <2>5, <2>6, <2>7 DEF Fase, FaseFin, FasePedido, FaseRecibir
  <2> QED
    BY <2>4, <2>8, JuntaCpu
<1>9. CASE hilo[c].paso = "recibir" /\ Dada(c) /\ EnWait(c)
  <2>1. /\ Len(haciaCpu[c]) = 2 /\ haciaCpu[c][1] \in Rechazos /\ haciaKernel[c] = <<>>
        /\ EsPcb(haciaCpu[c][2], hilo[c].prog)
    BY <1>9 DEF Dada, EnWait, Ociosa
  <2>2. m \in Rechazos /\ (r = <<>> \/ (r \in Seq(Mensajes) /\ Len(r) = 1 /\ r[1] = haciaCpu[c][2]))
    BY <1>1, <2>1, RestosDeDos
  <2>3. e = "waitPcbBloqueado"
    BY <1>5, <1>9, <2>2 DEF EnWait, Rechazos, Respuesta, Mensaje
  <2>4. CanalesEnRegla' /\ CpusEnRegla' /\ Ajenos(c) /\ cpu'[c] = k
    <3>1. r \in Seq(Mensajes)
      BY <2>2, EmptySeq
    <3> QED
      BY <1>2, <1>3, <1>6, <3>1, CpuEnRegla
  <2>5. FaseCpu(c)' /\ Ociosa(c)' /\ haciaCpu'[c] = r /\ haciaKernel'[c] = <<>>
    <3>1. FaseCpu(c)'
      BY <1>7, <2>3, <2>4
    <3>2. haciaCpu'[c] = r
      BY <1>3, DeTodos DEF CanalesEnRegla
    <3> QED
      BY <1>2, <1>6, <2>1, <2>3, <2>4, <3>1, <3>2 DEF Ociosa
  <2>6. Dada(c)' \/ Perdida(c)'
    <3>1. CASE r = <<>>
      BY <2>5, <3>1 DEF Perdida
    <3>2. CASE Len(r) = 1 /\ r[1] = haciaCpu[c][2]
      BY <1>2, <2>1, <2>5, <3>2 DEF Dada, EsPcb
    <3> QED
      BY <2>2, <3>1, <3>2
  <2>7. Fase(c)'
    BY <1>2, <1>9, <2>5, <2>6, FaseEnRecv
  <2> QED
    BY <2>4, <2>7, JuntaCpu
<1>10. CASE hilo[c].paso = "recibir" /\ Contestada(c)
  <2>1. PICK op \in {"continuar", "terminar"} :
          /\ haciaCpu[c] = <<Respuesta(op)>>
          /\ op = "continuar" => cpu[c].pc < Final(cpu[c].pid)
          /\ op = "terminar" => l.op # "wait"
    BY <1>10 DEF Contestada
  <2>2. r = <<>> /\ m = Respuesta(op) /\ m.op = op
    <3>1. Len(haciaCpu[c]) = 1 /\ haciaCpu[c][1] = Respuesta(op)
      BY <2>1
    <3>2. r = <<>> /\ m = Respuesta(op)
      BY <1>1, <3>1, RestosDeUno
    <3> QED
      BY <3>2 DEF Respuesta, Mensaje
  <2>3. /\ op = "continuar" => e = "notificarPorFinRafaga"
        /\ op = "terminar" => e = "notificarPorFinPrograma"
    BY <1>5, <2>1, <2>2
  <2>4. CanalesEnRegla' /\ CpusEnRegla' /\ Ajenos(c) /\ cpu'[c] = k
    <3>1. r \in Seq(Mensajes)
      BY <2>2, EmptySeq
    <3> QED
      BY <1>2, <1>3, <1>6, <3>1, CpuEnRegla
  <2>5. FaseCpu(c)' /\ haciaCpu'[c] = <<>>
    <3>1. FaseCpu(c)'
      BY <1>7, <2>1, <2>3, <2>4
    <3> QED
      BY <1>3, <2>2, <3>1, DeTodos DEF CanalesEnRegla
  <2>6. haciaKernel'[c] = <<>> /\ cpu[c].pid = hilo[c].prog
    BY <1>2, <1>10 DEF Contestada, Pregunta
  <2>7. Corre(c)'
    BY <1>2, <1>6, <2>1, <2>3, <2>4, <2>5, <2>6 DEF Corre, Ejecuta
  <2>8. Fase(c)'
    BY <1>2, <1>10, <2>5, <2>7, FaseEnRecv
  <2> QED
    BY <2>4, <2>8, JuntaCpu
<1> QED
  BY <1>2, <1>8, <1>9, <1>10, DeCpuEnRegla

-----------------------------------------------------------------------------
(* The theorems. *)

\* The kernel starts with every list empty and every CPU waiting for a PCB.
LEMMA InvInicial ==
  ASSUME ProgramasEnRegla, Init
  PROVE  InvPCP
<1>1. /\ admitidos = 0 /\ debePost = FALSE /\ listaReady = <<>> /\ productorConsumidor = 0
      /\ listaExec = <<>> /\ exitProcesos = <<>>
      /\ pcb = [p \in Programas |-> [pid |-> p, pc |-> 0]]
      /\ iSemaforo = ValorInicial
      /\ progEncolados = [r \in Semaforos \cup Dispositivos |-> <<>>]
      /\ semaforoDisp = [d \in Dispositivos |-> 0]
      /\ dispositivo = [d \in Dispositivos |-> [paso |-> "esperar", prog |-> Nadie]]
      /\ hilo = [c \in CPUs |-> Hilo("esperar", Nadie)]
      /\ vivo = TRUE
  BY DEF Init, InitPCP
<1>2. /\ haciaCpu = [c \in CPUs |-> <<>>] /\ haciaKernel = [c \in CPUs |-> <<>>]
      /\ conectada = [c \in CPUs |-> TRUE]
  BY DEF Init, InitConexion
<1>3. cpu = [c \in CPUs |->
               [paso |-> "recibirPcb", pid |-> Nadie, pc |-> 0, i |-> 0,
                estadoRafaga |-> "notificarPorFinRafaga", fallas |-> 0,
                manejador |-> FALSE]]
  BY DEF Init, InitCpu
<1>4. \A T : <<>> \in Seq(T)
  BY EmptySeq
<1>5. Nadie \in Pids /\ Nadie \in 0..0 /\ 0 \in Nat /\ 0 \in Int
  BY DEF Pids, Nadie
<1>6. ListasEnRegla
  <2>1. pcb \in [Programas -> [pid : Programas, pc : Nat]]
    BY <1>1, <1>5
  <2>2. /\ progEncolados \in [Semaforos \cup Dispositivos -> Seq(1..admitidos)]
        /\ semaforoDisp \in [Dispositivos -> Nat]
    BY <1>1, <1>4, <1>5
  <2>3. admitidos \in Pids
    BY <1>1, <1>5 DEF Nadie
  <2>4. /\ listaReady \in Seq(0..admitidos) /\ listaExec \in Seq(1..admitidos)
        /\ exitProcesos \in Seq(1..admitidos)
    BY <1>1, <1>4
  <2> QED
    BY <2>1, <2>2, <2>3, <2>4 DEF ListasEnRegla
<1>7. ValoresEnRegla
  <2>1. debePost \in BOOLEAN /\ vivo \in BOOLEAN
    BY <1>1
  <2>2. productorConsumidor \in Nat /\ iSemaforo \in [Semaforos -> Int]
    BY <1>1, ParametrosPCP
  <2> QED
    BY <2>1, <2>2 DEF ValoresEnRegla
<1>8. HilosEnRegla
  <2> DEFINE h == Hilo("esperar", Nadie)
  <2>1. Respuesta("ninguno") \in Mensajes
    BY <1>5 DEF Respuesta, Mensaje, Mensajes, SinNombre
  <2>2. h \in TipoHilo
    BY <1>5, <2>1 DEF Hilo, TipoHilo, PasosHilo
  <2>3. Acotado(h)
    BY <1>1, <1>5 DEF Hilo, Acotado, PasosConProg, PasosConOtro, PasosDueno
  <2> HIDE DEF h
  <2> QED
    BY <1>1, <2>2, <2>3 DEF HilosEnRegla, h
<1>9. DispositivosEnRegla
  <2>1. dispositivo \in [Dispositivos -> [paso : PasosDisp, prog : Pids]]
    BY <1>1, <1>5 DEF PasosDisp
  <2>2. \A d \in Dispositivos : dispositivo[d].prog = Nadie /\ dispositivo[d].paso # "usar"
    BY <1>1
  <2> QED
    BY <1>1, <1>5, <2>1, <2>2 DEF DispositivosEnRegla
<1>10. CanalesEnRegla
  BY <1>2, <1>4 DEF CanalesEnRegla
<1>11. CpusEnRegla
  <2>1. 0 \in 0..Quantum
    BY ParametrosCpu
  <2> QED
    BY <1>3, <1>5, <2>1 DEF CpusEnRegla, TipoCpu, DeCpu
<1>12. Protocolo
  <2>1. ASSUME NEW c \in CPUs PROVE Fase(c)
    <3>1. hilo[c].paso = "esperar" /\ haciaCpu[c] = <<>> /\ haciaKernel[c] = <<>> /\ conectada[c]
      BY <1>1, <1>2 DEF Hilo
    <3>2. cpu[c].paso = "recibirPcb" /\ cpu[c].fallas = 0
      BY <1>3
    <3>3. FaseLibre(c) /\ FaseCpu(c)
      BY <3>1, <3>2 DEF FaseLibre, FaseCpu, Ociosa
    <3>4. hilo[c].paso \notin PasosFin /\ hilo[c].paso \notin PasosPedido
      BY <3>1 DEF PasosFin, PasosPedido, PasosWait, PasosSignal, PasosIo
    <3> QED
      BY <3>1, <3>3, <3>4 DEF Fase, FaseFin, FasePedido, FaseRecibir
  <2> QED
    BY <2>1 DEF Protocolo
<1>13. PcbsEnRegla
  <2>1. ASSUME NEW p \in Programas PROVE pcb[p].pid = p /\ pcb[p].pc < Final(p)
    <3>1. Final(p) \in Nat \ {0}
      BY HayLinea
    <3> QED
      BY <1>1, <3>1
  <2> QED
    BY <2>1 DEF PcbsEnRegla
<1>14. Lugares
  BY <1>1 DEF Lugares
<1>15. DispContado
  <2>1. ASSUME NEW d \in Dispositivos
        PROVE  Len(progEncolados[d]) =
                 semaforoDisp[d] + Uno(dispositivo[d].paso = "sacar") + Cardinality(Mandan(d))
    <3>1. progEncolados[d] = <<>> /\ semaforoDisp[d] = 0 /\ dispositivo[d].paso = "esperar"
      BY <1>1
    <3>2. Mandan(d) = {}
      BY <1>1 DEF Mandan, Manda, Hilo
    <3>3. Cardinality(Mandan(d)) = 0 /\ Len(progEncolados[d]) = 0
      BY <3>1, <3>2, FS_EmptySet
    <3>4. Uno(dispositivo[d].paso = "sacar") = 0
      BY <3>1 DEF Uno
    <3> QED
      BY <3>1, <3>3, <3>4
  <2> QED
    BY <2>1 DEF DispContado
<1> QED
  BY <1>6, <1>7, <1>8, <1>9, <1>10, <1>11, <1>12, <1>13, <1>14, <1>15 DEF InvPCP, Tipos, Puestos

\* A step of the kernel, by the part of it that steps.
LEMMA KernelPuesto ==
  ASSUME ProgramasEnRegla, InvPCP, NextPCP, UNCHANGED cpu
  PROVE  InvPCP'
<1>1. CASE Admision
  BY <1>1, AdmisionPuesta DEF Admision
<1>2. ASSUME NEW c \in CPUs, pfnControladorConexion(c) PROVE InvPCP'
  <2>1. CASE Recibir(c)
    BY <2>1, RecibirPuesto
  <2>2. CASE Enviar(c)
    BY <2>2, EnviarPuesto
  <2>3. CASE Interno(c)
    <3>1. UNCHANGED <<canales, cpu>>
      BY <2>3 DEF Interno
    <3>2. CASE EsperarReady(c) \/ WaitLeer(c) \/ WaitEscribir(c) \/ SignalLeer(c)
                 \/ SignalEscribir(c) \/ SignalProbar(c) \/ SignalPost(c) \/ RecargarPost(c)
      BY <3>1, <3>2, InternoPuesto
    <3>3. CASE SacarReady(c) \/ CargarExec(c)
      BY <3>1, <3>3, DespachoPuesto
    <3>4. CASE WaitSacar(c) \/ IoSacar(c)
      BY <3>1, <3>4, SacarPuesto
    <3>5. CASE WaitEncolar(c)
      BY <3>1, <3>5, WaitEncolarPuesto
    <3>6. CASE IoPcb(c)
      BY <3>1, <3>6, IoPcbPuesto
    <3>7. CASE IoEncolar(c) \/ IoPost(c)
      BY <3>1, <3>7, IoPuesto
    <3>8. CASE SignalSacar(c)
      BY <3>1, <3>8, SignalSacarPuesto
    <3>9. CASE SignalReady(c) \/ RecargarReady(c)
      BY <3>1, <3>9, ReadyPuesto
    <3>10. CASE RecargarSacar(c)
      BY <3>1, <3>10, RecargarSacarPuesto
    <3>11. CASE ExitSacar(c) \/ ExitAgregar(c)
      BY <3>1, <3>11, ExitPuesto
    <3> QED
      BY <2>3, <3>2, <3>3, <3>4, <3>5, <3>6, <3>7, <3>8, <3>9, <3>10, <3>11 DEF Interno
  <2> QED
    BY <1>2, <2>1, <2>2, <2>3 DEF pfnControladorConexion
<1>3. ASSUME NEW d \in Dispositivos, fnDispositivos(d) PROVE InvPCP'
  BY <1>3, DispositivoPuesto DEF fnDispositivos
<1> QED
  BY <1>1, <1>2, <1>3 DEF NextPCP

\* A step of a CPU.
LEMMA CpuPuesta ==
  ASSUME ProgramasEnRegla, InvPCP, NextCpu, UNCHANGED varsPCP
  PROVE  InvPCP'
<1>1. PICK c \in CPUs : EjecutarRafaga(c) \/ signal_handler(c)
  BY DEF NextCpu
<1>2. ~signal_handler(c)
  BY DEF signal_handler, ProgramasEnRegla
<1>3. \/ RecibirPcb(c) \/ EjecutarLinea(c) \/ Pedir(c) \/ RecibirRespuesta(c) \/ Fallar(c)
      \/ TerminarRafaga(c)
  BY <1>1, <1>2 DEF EjecutarRafaga
<1> QED
  BY <1>3, RecibirPcbPuesto, EjecutarLineaPuesta, PedirPuesto, RecibirRespuestaPuesta,
     FallarPuesto, TerminarRafagaPuesta

\* A step in which nothing moves.
LEMMA QuietoPuesto ==
  ASSUME InvPCP, UNCHANGED vars
  PROVE  InvPCP'
<1> USE DeTodos
<1>1. /\ UNCHANGED <<canales, cpu, haciaCpu, haciaKernel, conectada>>
      /\ UNCHANGED <<admitidos, debePost, vivo, listaReady, productorConsumidor, iSemaforo, pcb,
                     listaExec, exitProcesos, progEncolados, semaforoDisp, dispositivo, hilo>>
  BY DEF vars, varsPCP, plp, ready, colas, canales
<1>2. ListasEnRegla'
  BY <1>1 DEF ListasEnRegla
<1>3. ValoresEnRegla'
  BY <1>1 DEF ValoresEnRegla
<1>4. DispositivosEnRegla'
  BY <1>1 DEF DispositivosEnRegla
<1>5. Lugares'
  <2>1. \A p : /\ EnManos(p)' = EnManos(p) /\ Encolado(p)' = Encolado(p)
               /\ Veces(listaReady', p) = Veces(listaReady, p)
               /\ Veces(exitProcesos', p) = Veces(exitProcesos, p)
    BY <1>1 DEF EnManos, Encolado, Veces
  <2> QED
    BY <1>1, <2>1, LugaresDeOtros
<1>6. DispContado'
  <2>1. \A d : Mandan(d)' = Mandan(d)
    BY <1>1, HilosQuietos
  <2>2. \A d : Cardinality(Mandan(d))' = Cardinality(Mandan(d))
    BY <2>1
  <2> QED
    BY <1>1, <2>2 DEF DispContado
<1> QED
  BY <1>1, <1>2, <1>3, <1>4, <1>5, <1>6, JuntaDeOtros

\* The invariant of the short-term scheduler and its CPUs.
THEOREM InvariantePCP == ProgramasEnRegla /\ Spec => []InvPCP
<1>1. ProgramasEnRegla /\ Init => InvPCP
  BY InvInicial
<1>2. ProgramasEnRegla /\ InvPCP /\ [Next]_vars => InvPCP'
  BY KernelPuesto, CpuPuesta, QuietoPuesto DEF Next
<1>3. SUFFICES ASSUME ProgramasEnRegla PROVE Spec => []InvPCP
  OBVIOUS
<1>4. Init => InvPCP
  BY <1>1, <1>3
<1>5. InvPCP /\ [Next]_vars => InvPCP'
  BY <1>2, <1>3
<1> QED
  BY <1>4, <1>5, PTL DEF Spec

\* Every variable keeps the type its C declaration says.
THEOREM TiposSiempre == ProgramasEnRegla /\ Spec => []TypeOK
<1>1. InvPCP => TypeOK
  BY TiposBastan DEF InvPCP
<1> QED
  BY <1>1, InvariantePCP, PTL

\* No interleaving loses a program or lets two CPUs have it.
THEOREM SiempreUnSoloLugar == ProgramasEnRegla /\ Spec => []UnSoloLugar
<1>1. InvPCP => UnSoloLugar
  BY DEF InvPCP, Puestos, Lugares, EnSuLugar, UnSoloLugar, EnManos
<1> QED
  BY <1>1, InvariantePCP, PTL

\* Where a thread removes from READY on the word of productorConsumidor, READY is
\* not empty.
LEMMA HayEnReady ==
  ASSUME InvPCP, ReadyContado, NEW c \in CPUs, hilo[c].paso = "sacar"
  PROVE  listaReady # <<>>
<1> USE DeTodos
<1> DEFINE S == HilosEn({"sacar"})
           P == HilosEn({"signalPost", "recargarPost"})
           D == {d \in Dispositivos : dispositivo[d].paso = "post"}
           u == Uno(debePost)
<1>1. IsFiniteSet(S) /\ Cardinality(S) \in Nat /\ Cardinality(P) \in Nat
      /\ Cardinality(D) \in Nat
  <2>1. S \subseteq CPUs /\ P \subseteq CPUs /\ D \subseteq Dispositivos
    BY DEF HilosEn
  <2> HIDE DEF S, P, D
  <2> QED
    BY <2>1, ParametrosConexion, ParametrosPCP, FS_Subset, FS_CardinalityType
<1>2. c \in S
  BY DEF HilosEn
<1>3. Cardinality(S) # 0
  <2> HIDE DEF S
  <2> QED
    BY <1>1, <1>2, FS_EmptySet
<1>4. u \in Nat /\ productorConsumidor \in Nat
  BY DEF Uno, ValoresEnRegla
<1>5. productorConsumidor + u + Cardinality(S) + Cardinality(P) + Cardinality(D) = Len(listaReady)
  BY DEF ReadyContado
<1> HIDE DEF S, P, D, u
<1>6. Len(listaReady) # 0
  BY <1>1, <1>3, <1>4, <1>5
<1> QED
  BY <1>6

\* A device that has taken a post has a program to serve.
LEMMA HayEnDispositivo ==
  ASSUME InvPCP, NEW d \in Dispositivos, dispositivo[d].paso = "sacar"
  PROVE  progEncolados[d] # <<>>
<1> USE DeTodos
<1> DEFINE q == progEncolados[d]
           n == semaforoDisp[d]
           k == Cardinality(Mandan(d))
<1>1. Len(q) = n + 1 + k
  <2>1. Uno(dispositivo[d].paso = "sacar") = 1
    BY DEF Uno
  <2>2. Len(q) = n + Uno(dispositivo[d].paso = "sacar") + k
    BY DEF DispContado
  <2> HIDE DEF q, n, k
  <2> QED
    BY <2>1, <2>2
<1>2. n \in Nat /\ k \in Nat
  <2>1. Mandan(d) \subseteq CPUs
    BY DEF Mandan
  <2>2. k \in Nat
    BY <2>1, ParametrosConexion, FS_Subset, FS_CardinalityType
  <2> QED
    BY <2>2 DEF ListasEnRegla
<1> HIDE DEF q, n, k
<1>3. Len(q) # 0
  BY <1>1, <1>2
<1>4. q # <<>>
  BY <1>3
<1> QED
  BY <1>4 DEF q

\* The kernel only dies of a NULL that is in READY: lists that a semaphore
\* announces are not empty, and the program a thread ends or reloads is in EXEC.
LEMMA MuereDeNull ==
  ASSUME InvPCP, ReadyContado, [Next]_vars, vivo, ~vivo'
  PROVE  listaReady # <<>> /\ Head(listaReady) = Nadie
<1> DEFINE NullEnReady == listaReady # <<>> /\ Head(listaReady) = Nadie
<1> SUFFICES NullEnReady
  OBVIOUS
<1> HIDE DEF NullEnReady
<1>1. ~UNCHANGED vivo
  OBVIOUS
<1>2. NextPCP
  BY <1>1 DEF Next, vars, varsPCP
<1>3. CASE Admision
  BY <1>1, <1>3 DEF Admision, PonerEnReady, PostProductor
<1>4. ASSUME NEW c \in CPUs, pfnControladorConexion(c) PROVE NullEnReady
  <2>1. CASE Recibir(c)
    BY <1>1, <2>1 DEF Recibir, RecibirMensaje, RecibirFin
  <2>2. CASE Enviar(c)
    BY <1>1, <2>2 DEF Enviar, EnviarPcb, Consulta, WaitInexistente, WaitProbar, WaitBloquear,
       SignalInexistente, SignalResponder
  <2>3. CASE SacarReady(c)
    <3>1. listaReady # <<>>
      BY <2>3, HayEnReady DEF SacarReady
    <3> QED
      BY <1>1, <2>3, <3>1 DEF SacarReady, NullEnReady
  <2>4. CASE RecargarSacar(c)
    <3>1. hilo[c].paso = "recargarSacar" /\ EnExec(hilo[c].msg.pid) = {}
      BY <1>1, <2>4 DEF RecargarSacar
    <3>2. hilo[c].paso \in PasosDueno /\ hilo[c].paso \in PasosFin
      BY <3>1 DEF PasosDueno, PasosFin
    <3>3. Devuelve(c, hilo[c].msg, hilo[c].prog) /\ hilo[c].msg.op = "notificarPorFinRafaga"
      BY <3>1, <3>2, DeHilo DEF Fase, FaseFin
    <3>4. hilo[c].msg.pid = hilo[c].prog
      BY <3>3 DEF Devuelve
    <3> QED
      BY <3>1, <3>2, <3>4, HayEnExec
  <2>5. CASE ExitSacar(c)
    <3>1. hilo[c].paso = "exitSacar" /\ EnExec(pcb[hilo[c].prog].pid) = {}
      BY <1>1, <2>5 DEF ExitSacar
    <3>2. hilo[c].paso \in PasosDueno
      BY <3>1 DEF PasosDueno
    <3> QED
      BY <3>1, <3>2, HayEnExec
  <2>6. CASE \/ EsperarReady(c) \/ CargarExec(c) \/ WaitLeer(c) \/ WaitEscribir(c)
             \/ WaitSacar(c) \/ WaitEncolar(c) \/ SignalLeer(c) \/ SignalEscribir(c)
             \/ SignalProbar(c) \/ SignalSacar(c) \/ SignalReady(c) \/ SignalPost(c)
             \/ IoPcb(c) \/ IoEncolar(c) \/ IoSacar(c) \/ IoPost(c)
             \/ RecargarReady(c) \/ RecargarPost(c) \/ ExitAgregar(c)
    BY <1>1, <2>6 DEF EsperarReady, CargarExec, WaitLeer, WaitEscribir, WaitSacar, WaitEncolar,
       SignalLeer, SignalEscribir, SignalProbar, SignalSacar, SignalReady, SignalPost, IoPcb,
       IoEncolar, IoSacar, IoPost, RecargarReady, RecargarPost, ExitAgregar
  <2> QED
    BY <1>4, <2>1, <2>2, <2>3, <2>4, <2>5, <2>6 DEF pfnControladorConexion, Interno
<1>5. ASSUME NEW d \in Dispositivos, fnDispositivos(d) PROVE NullEnReady
  <2>1. CASE DispSacar(d)
    <3>1. progEncolados[d] # <<>>
      BY <2>1, HayEnDispositivo DEF DispSacar
    <3> QED
      BY <1>1, <2>1, <3>1 DEF DispSacar
  <2>2. CASE DispEsperar(d) \/ DispReady(d) \/ DispPost(d)
    BY <1>1, <2>2 DEF DispEsperar, DispReady, DispPost
  <2> QED
    BY <1>5, <2>1, <2>2 DEF fnDispositivos
<1> QED
  BY <1>2, <1>3, <1>4, <1>5 DEF NextPCP

\* SoloNullDeReady, whatever the threads and the CPUs do.
THEOREM SoloMuereDeNull == ProgramasEnRegla /\ Spec => SoloNullDeReady
<1>1. InvPCP /\ ReadyContado /\ [Next]_vars =>
        [vivo /\ ~vivo' => listaReady # <<>> /\ Head(listaReady) = Nadie]_vars
  BY MuereDeNull
<1> QED
  BY <1>1, InvariantePCP, ReadySiempreContado, PTL DEF Spec, SoloNullDeReady

-----------------------------------------------------------------------------
(* The semaphores, where no two CPUs race for one. *)

\* Thread c is in fnLock or fnUnlock of s.
EnFn(c, s) == hilo[c].paso \in PasosWait \cup PasosSignal /\ hilo[c].msg.nombre = s

\* No two threads are in fnLock or fnUnlock of the same semaphore, as if its mutex were
\* held from the first line to the last.
SinCarreras == \A s \in Semaforos : \A c, d \in CPUs : EnFn(c, s) /\ EnFn(d, s) => c = d

UnaCpu == \A c, d \in CPUs : c = d

\* The configuration gives no semaphore a negative value, which nobody would be
\* queued for.
InicialesNoNegativos == \A s \in Semaforos : ValorInicial[s] >= 0

\* The programs that a semaphore of value v has queued.
Debidos(v) == IF v < 0 THEN -v ELSE 0

\* What thread h, in fnLock or fnUnlock of a semaphore of value v with n programs
\* queued, knows of them: the queue agrees with the value, or with the one before the
\* change while it has not been acted upon.
Visto(h, v) ==
  IF h.paso \in {"waitProbar", "waitSacar", "waitEncolar"} THEN v + 1
  ELSE IF h.paso \in {"signalProbar", "signalSacar"} THEN v - 1 ELSE v
SabeDe(h, v, n) ==
  /\ n = Debidos(Visto(h, v))
  /\ h.paso \in {"waitEscribir", "signalEscribir"} => h.leido = v
  /\ h.paso \in {"waitSacar", "waitEncolar"} => v < 0
  /\ h.paso = "signalSacar" => v <= 0

SemEnRegla(s) ==
  /\ (\A c \in CPUs : ~EnFn(c, s)) => Len(progEncolados[s]) = Debidos(iSemaforo[s])
  /\ \A c \in CPUs : EnFn(c, s) => SabeDe(hilo[c], iSemaforo[s], Len(progEncolados[s]))
InvSem == \A s \in Semaforos : SemEnRegla(s)

\* The semaphore is as it was and thread c is elsewhere.
LEMMA SemAjeno ==
  ASSUME NEW s, SemEnRegla(s), NEW c \in CPUs, Otros(c), ~EnFn(c, s), ~EnFn(c, s)',
         iSemaforo'[s] = iSemaforo[s], progEncolados'[s] = progEncolados[s]
  PROVE  SemEnRegla(s)'
<1>1. \A d \in CPUs \ {c} : (EnFn(d, s)' <=> EnFn(d, s)) /\ hilo'[d] = hilo[d]
  BY DEF Otros, EnFn
<1>2. (\A d \in CPUs : ~EnFn(d, s)') <=> (\A d \in CPUs : ~EnFn(d, s))
  BY <1>1
<1>3. ASSUME NEW d \in CPUs, EnFn(d, s)'
      PROVE  SabeDe(hilo'[d], iSemaforo'[s], Len(progEncolados'[s]))
  <2>1. d # c /\ EnFn(d, s) /\ hilo'[d] = hilo[d]
    BY <1>1, <1>3
  <2> QED
    BY <2>1 DEF SemEnRegla
<1> QED
  BY <1>2, <1>3 DEF SemEnRegla, SabeDe, Visto

\* Thread c, the only one there, enters the function,
LEMMA SemEntra ==
  ASSUME NEW s \in Semaforos, SemEnRegla(s), SinCarreras', NEW c \in CPUs, Otros(c),
         ~EnFn(c, s), EnFn(c, s)', hilo'[c].paso \in {"waitLeer", "signalLeer"},
         iSemaforo'[s] = iSemaforo[s], progEncolados'[s] = progEncolados[s]
  PROVE  SemEnRegla(s)'
<1>1. \A d \in CPUs : EnFn(d, s)' => d = c
  BY DEF SinCarreras
<1>2. \A d \in CPUs \ {c} : EnFn(d, s)' <=> EnFn(d, s)
  BY DEF Otros, EnFn
<1>3. Len(progEncolados[s]) = Debidos(iSemaforo[s])
  BY <1>1, <1>2 DEF SemEnRegla
<1>4. SabeDe(hilo'[c], iSemaforo'[s], Len(progEncolados'[s]))
  BY <1>3 DEF SabeDe, Visto
<1> QED
  BY <1>1, <1>4 DEF SemEnRegla, SabeDe, Visto

\* goes on in it,
LEMMA SemSigue ==
  ASSUME NEW s \in Semaforos, SinCarreras', NEW c \in CPUs, EnFn(c, s)',
         SabeDe(hilo'[c], iSemaforo'[s], Len(progEncolados'[s]))
  PROVE  SemEnRegla(s)'
<1>1. \A d \in CPUs : EnFn(d, s)' => d = c
  BY DEF SinCarreras
<1> QED
  BY <1>1 DEF SemEnRegla, SabeDe, Visto

\* and leaves it.
LEMMA SemSale ==
  ASSUME NEW s \in Semaforos, SinCarreras, NEW c \in CPUs, Otros(c), EnFn(c, s), ~EnFn(c, s)',
         Len(progEncolados'[s]) = Debidos(iSemaforo'[s])
  PROVE  SemEnRegla(s)'
<1>1. \A d \in CPUs : EnFn(d, s) => d = c
  BY DEF SinCarreras
<1>2. \A d \in CPUs \ {c} : EnFn(d, s)' <=> EnFn(d, s)
  BY DEF Otros, EnFn
<1> QED
  BY <1>1, <1>2 DEF SemEnRegla, Debidos

\* A thread that is in no such function before and after, and touches no semaphore.
LEMMA SemFuera ==
  ASSUME InvSem, NEW c \in CPUs, Otros(c),
         hilo[c].paso \notin PasosWait \cup PasosSignal,
         hilo'[c].paso \notin PasosWait \cup PasosSignal,
         \A s \in Semaforos : iSemaforo'[s] = iSemaforo[s] /\ progEncolados'[s] = progEncolados[s]
  PROVE  InvSem'
BY SemAjeno DEF InvSem, EnFn

\* A thread in the function of its semaphore leaves the other semaphores alone.
LEMMA SemDentro ==
  ASSUME InvSem, NEW c \in CPUs, Otros(c), NEW s \in Semaforos, hilo[c].msg.nombre = s,
         hilo'[c].paso \in PasosWait \cup PasosSignal => hilo'[c].msg.nombre = s,
         \A r \in Semaforos \ {s} :
           iSemaforo'[r] = iSemaforo[r] /\ progEncolados'[r] = progEncolados[r],
         SemEnRegla(s)'
  PROVE  InvSem'
<1>1. ASSUME NEW r \in Semaforos, r # s PROVE SemEnRegla(r)'
  <2>1. ~EnFn(c, r) /\ ~EnFn(c, r)'
    BY <1>1 DEF EnFn
  <2>2. SemEnRegla(r)
    BY DEF InvSem
  <2> QED
    BY <1>1, <2>1, <2>2, SemAjeno
<1> QED
  BY <1>1 DEF InvSem

\* What a step of thread c does to it.
LEMMA SemHilo ==
  ASSUME HilosEnRegla, NEW c \in CPUs, NEW b, NEW v,
         \/ Seguir(c, b)
         \/ Volver(c, b)
         \/ hilo' = [hilo EXCEPT ![c].otro = v, ![c].paso = b]
         \/ hilo' = [hilo EXCEPT ![c].leido = v, ![c].paso = b]
         \/ hilo' = [hilo EXCEPT ![c].msg = v, ![c].paso = b]
         \/ hilo' = [hilo EXCEPT ![c] = Hilo(b, v)]
  PROVE  Otros(c) /\ hilo'[c].paso = b
BY DEF HilosEnRegla, TipoHilo, Seguir, Volver, Hilo, Otros

\* A step inside the function keeps the message; what was loaded is kept too, or is
\* the value that is loaded now.
LEMMA SemHiloMsg ==
  ASSUME HilosEnRegla, NEW c \in CPUs, NEW b, NEW v
  PROVE  /\ Seguir(c, b) => hilo'[c].msg = hilo[c].msg /\ hilo'[c].leido = hilo[c].leido
         /\ hilo' = [hilo EXCEPT ![c].otro = v, ![c].paso = b] =>
              hilo'[c].msg = hilo[c].msg /\ hilo'[c].leido = hilo[c].leido
         /\ hilo' = [hilo EXCEPT ![c].leido = v, ![c].paso = b] =>
              hilo'[c].msg = hilo[c].msg /\ hilo'[c].leido = v
         /\ hilo' = [hilo EXCEPT ![c].msg = v, ![c].paso = b] => hilo'[c].msg = v
BY DEF HilosEnRegla, TipoHilo, Seguir

\* The steps outside of both functions.
LEMMA SemOtroPaso ==
  ASSUME InvPCP, InvSem, NEW c \in CPUs,
         \/ RecibirFin(c) \/ EnviarPcb(c) \/ Consulta(c) \/ WaitInexistente(c)
         \/ SignalInexistente(c) \/ EsperarReady(c) \/ SacarReady(c) \/ CargarExec(c)
         \/ IoPcb(c) \/ IoEncolar(c) \/ IoSacar(c) \/ IoPost(c)
         \/ RecargarSacar(c) \/ RecargarReady(c) \/ RecargarPost(c)
         \/ ExitSacar(c) \/ ExitAgregar(c)
  PROVE  InvSem'
<1> USE DeHilo
<1> DEFINE B == {"enviar", "recibir", "esperar", "sacar", "cargar", "null", "exitSacar",
                 "exitAgregar", "ioEncolar", "ioSacar", "ioPost", "recargarReady",
                 "recargarPost", "terminado"}
           A == B \cup {"consulta", "waitInexistente", "signalInexistente", "ioPcb",
                        "recargarSacar"}
<1>1. /\ hilo[c].paso \in A
      /\ \E b \in B : \E v :
           \/ Seguir(c, b)
           \/ Volver(c, b)
           \/ hilo' = [hilo EXCEPT ![c].otro = v, ![c].paso = b]
           \/ hilo' = [hilo EXCEPT ![c].msg = v, ![c].paso = b]
           \/ hilo' = [hilo EXCEPT ![c] = Hilo(b, v)]
  <2>1. CASE \/ EnviarPcb(c) \/ Consulta(c) \/ WaitInexistente(c)
             \/ SignalInexistente(c) \/ EsperarReady(c) \/ CargarExec(c)
    BY <2>1 DEF EnviarPcb, Consulta, WaitInexistente, SignalInexistente, EsperarReady, CargarExec
  <2>2. CASE IoPcb(c) \/ IoEncolar(c) \/ IoSacar(c) \/ IoPost(c) \/ RecargarReady(c)
             \/ RecargarPost(c) \/ ExitAgregar(c)
    BY <2>2 DEF IoPcb, IoEncolar, IoSacar, IoPost, RecargarReady, RecargarPost, ExitAgregar
  <2>3. CASE RecibirFin(c) \/ SacarReady(c)
    BY <2>3 DEF RecibirFin, SacarReady, NullEn
  <2>4. CASE RecargarSacar(c) \/ ExitSacar(c)
    BY <2>4 DEF RecargarSacar, ExitSacar, NullEn
  <2> QED
    BY <2>1, <2>2, <2>3, <2>4
<1>2. Otros(c) /\ hilo'[c].paso \in B
  <2> HIDE DEF B, A
  <2> QED
    BY <1>1, SemHilo
<1>3. /\ hilo[c].paso \notin PasosWait \cup PasosSignal
      /\ hilo'[c].paso \notin PasosWait \cup PasosSignal
  BY <1>1, <1>2 DEF PasosWait, PasosSignal
<1>4. \A s \in Semaforos : iSemaforo'[s] = iSemaforo[s] /\ progEncolados'[s] = progEncolados[s]
  <2>1. CASE IoEncolar(c)
    <3>1. hilo[c].msg.nombre \in Dispositivos
      BY <2>1 DEF IoEncolar, Fase, FaseFin, PasosFin, PasosIo
    <3>2. hilo[c].msg.nombre \notin Semaforos
      BY <3>1, ParametrosPCP
    <3> QED
      BY <2>1, <3>2 DEF IoEncolar, Encolar, ListasEnRegla
  <2>2. CASE IoPost(c)
    BY <2>2 DEF IoPost
  <2>3. CASE ~IoEncolar(c) /\ ~IoPost(c)
    <3>1. UNCHANGED colas
      BY <2>3 DEF RecibirFin, EnviarPcb, Consulta, WaitInexistente, SignalInexistente,
         EsperarReady, SacarReady, CargarExec, IoPcb, IoSacar, RecargarSacar, RecargarReady,
         RecargarPost, ExitSacar, ExitAgregar
    <3> QED
      BY <3>1 DEF colas
  <2> QED
    BY <2>1, <2>2, <2>3
<1> QED
  BY <1>2, <1>3, <1>4, SemFuera

\* The thread receives a message: it may be a wait or a signal.
LEMMA SemRecibe ==
  ASSUME InvPCP, InvSem, SinCarreras', NEW c \in CPUs, RecibirMensaje(c)
  PROVE  InvSem'
<1> USE DeHilo
<1> DEFINE m == Head(haciaKernel[c])
<1>1. /\ hilo[c].paso = "recibir"
      /\ hilo' = [hilo EXCEPT ![c].msg = m, ![c].paso = PasoPara(m)]
      /\ UNCHANGED colas
  BY DEF RecibirMensaje
<1>2. m.op \in {"consulta", "waitKernel", "signalKernel", "entradaSalidaKernel",
                "notificarPorFinRafaga", "notificarPorFinPrograma", "exception"}
  <2>1. \/ Pregunta(c) /\ m = Pedido(c)
        \/ Ociosa(c) /\ Devuelve(c, m, hilo[c].prog)
    BY <1>1, LoQueLlega DEF RecibirMensaje
  <2>2. CASE Pregunta(c) /\ m = Pedido(c)
    <3>1. LineaActual(c).op \in {"consulta", "wait", "signal"}
      BY <2>2 DEF Fase, FaseCpu, Pregunta
    <3> QED
      BY <2>2, <3>1 DEF Pedido, Mensaje
  <2> QED
    BY <2>1, <2>2 DEF Devuelve
<1>3. PasoPara(m) \in {"waitLeer", "signalLeer"} \/ PasoPara(m) \notin PasosWait \cup PasosSignal
  BY <1>2 DEF PasoPara, PasosWait, PasosSignal
<1> HIDE DEF m
<1>4. Otros(c) /\ hilo'[c].paso = PasoPara(m)
  BY <1>1, SemHilo
<1>5. hilo[c].paso \notin PasosWait \cup PasosSignal
  BY <1>1 DEF PasosWait, PasosSignal
<1>6. iSemaforo' = iSemaforo /\ progEncolados' = progEncolados
  BY <1>1 DEF colas
<1>7. ASSUME NEW s \in Semaforos PROVE SemEnRegla(s)'
  <2>1. SemEnRegla(s) /\ ~EnFn(c, s)
    BY <1>5 DEF InvSem, EnFn
  <2>2. CASE EnFn(c, s)'
    <3>1. hilo'[c].paso \in {"waitLeer", "signalLeer"}
      BY <1>3, <1>4, <2>2 DEF EnFn
    <3> QED
      BY <1>4, <1>6, <2>1, <2>2, <3>1, SemEntra
  <2>3. CASE ~EnFn(c, s)'
    BY <1>4, <1>6, <2>1, <2>3, SemAjeno
  <2> QED
    BY <2>2, <2>3
<1> QED
  BY <1>7 DEF InvSem

\* fnLock, line by line.
LEMMA SemWait ==
  ASSUME InvPCP, InvSem, SinCarreras, SinCarreras', NEW c \in CPUs,
         \/ WaitLeer(c) \/ WaitEscribir(c) \/ WaitProbar(c) \/ WaitSacar(c) \/ WaitEncolar(c)
         \/ WaitBloquear(c)
  PROVE  InvSem'
<1> USE DeHilo
<1>1. hilo[c].paso \in PasosWait
  BY DEF WaitLeer, WaitEscribir, WaitProbar, WaitSacar, WaitEncolar, WaitBloquear, PasosWait
<1>2. PICK s \in Semaforos : hilo[c].msg.nombre = s
  BY <1>1, SemaforoDelMensaje
<1>0. EnFn(c, s)
  BY <1>1, <1>2 DEF EnFn
<1> DEFINE v == iSemaforo[s]
           q == progEncolados[s]
<1>3. v \in Int /\ q \in Seq(1..admitidos) /\ SabeDe(hilo[c], v, Len(q))
  BY <1>0 DEF ValoresEnRegla, ListasEnRegla, InvSem, SemEnRegla
<1>4. Len(q) \in Nat
  BY <1>3, LenProperties
<1>5. /\ iSemaforo \in [Semaforos -> Int]
      /\ progEncolados \in [Semaforos \cup Dispositivos -> Seq(1..admitidos)]
  BY DEF ValoresEnRegla, ListasEnRegla
<1> HIDE DEF v, q
<1>12. ASSUME SemEnRegla(s)', Otros(c),
             hilo'[c].paso \in PasosWait \cup PasosSignal => hilo'[c].msg = hilo[c].msg,
             \A r \in Semaforos \ {s} : iSemaforo'[r] = iSemaforo[r]
                                        /\ progEncolados'[r] = progEncolados[r]
      PROVE  InvSem'
  BY <1>12, <1>2, SemDentro
<1>13. ASSUME hilo'[c].paso \in PasosWait \cup PasosSignal, hilo'[c].msg = hilo[c].msg,
             SabeDe(hilo'[c], iSemaforo'[s], Len(progEncolados'[s]))
      PROVE  SemEnRegla(s)'
  <2>1. EnFn(c, s)'
    BY <1>2, <1>13 DEF EnFn
  <2> QED
    BY <1>2, <1>13, <2>1, SemSigue
<1>6. CASE WaitLeer(c)
  <2>1. /\ hilo[c].paso = "waitLeer"
        /\ hilo' = [hilo EXCEPT ![c].leido = v, ![c].paso = "waitEscribir"]
        /\ iSemaforo' = iSemaforo /\ progEncolados' = progEncolados
    BY <1>2, <1>6 DEF WaitLeer, colas, v
  <2>2. /\ Otros(c) /\ hilo'[c].paso = "waitEscribir"
        /\ hilo'[c].msg = hilo[c].msg /\ hilo'[c].leido = v
    BY <2>1, SemHilo, SemHiloMsg
  <2>3. SabeDe(hilo'[c], iSemaforo'[s], Len(progEncolados'[s]))
    BY <1>3, <2>1, <2>2 DEF SabeDe, Visto, v, q
  <2> QED
    BY <1>12, <1>13, <2>1, <2>2, <2>3 DEF PasosWait
<1>7. CASE WaitEscribir(c)
  <2>1. /\ hilo[c].paso = "waitEscribir"
        /\ iSemaforo' = [iSemaforo EXCEPT ![s] = hilo[c].leido - 1]
        /\ Seguir(c, "waitProbar") /\ progEncolados' = progEncolados
    BY <1>2, <1>7 DEF WaitEscribir
  <2>2. /\ Otros(c) /\ hilo'[c].paso = "waitProbar" /\ hilo'[c].msg = hilo[c].msg
    BY <2>1, SemHilo, SemHiloMsg
  <2>3. iSemaforo'[s] = v - 1 /\ \A r \in Semaforos \ {s} : iSemaforo'[r] = iSemaforo[r]
    BY <1>2, <1>3, <1>5, <2>1 DEF SabeDe
  <2>4. Len(q) = Debidos(v)
    BY <1>3, <2>1 DEF SabeDe, Visto
  <2>5. Visto(hilo'[c], v - 1) = v
    BY <1>3, <2>2 DEF Visto
  <2>6. SabeDe(hilo'[c], iSemaforo'[s], Len(progEncolados'[s]))
    BY <2>1, <2>2, <2>3, <2>4, <2>5 DEF SabeDe, q
  <2> QED
    BY <1>12, <1>13, <2>1, <2>2, <2>3, <2>6 DEF PasosWait
<1>8. CASE WaitProbar(c)
  <2>1. /\ hilo[c].paso = "waitProbar"
        /\ iSemaforo' = iSemaforo /\ progEncolados' = progEncolados
        /\ \/ v < 0 /\ Seguir(c, "waitSacar")
           \/ ~(v < 0 /\ listaExec # <<>>) /\ Volver(c, "recibir")
    BY <1>2, <1>8 DEF WaitProbar, colas, v
  <2>2. CASE v < 0 /\ Seguir(c, "waitSacar")
    <3>1. /\ Otros(c) /\ hilo'[c].paso = "waitSacar" /\ hilo'[c].msg = hilo[c].msg
      BY <2>2, SemHilo, SemHiloMsg
    <3>2. SabeDe(hilo'[c], iSemaforo'[s], Len(progEncolados'[s]))
      BY <1>3, <2>1, <2>2, <3>1 DEF SabeDe, Visto, v, q
    <3> QED
      BY <1>12, <1>13, <2>1, <3>1, <3>2 DEF PasosWait
  <2>3. CASE ~(v < 0 /\ listaExec # <<>>) /\ Volver(c, "recibir")
    <3>1. Otros(c) /\ hilo'[c].paso = "recibir"
      BY <2>3, SemHilo
    <3>2. hilo'[c].paso \notin PasosWait \cup PasosSignal
      BY <3>1 DEF PasosWait, PasosSignal
    <3>3. listaExec # <<>>
      <4>1. hilo[c].paso \in PasosDueno
        BY <2>1 DEF PasosDueno
      <4>2. EnExec(hilo[c].prog) # {}
        BY <4>1, HayEnExec
      <4> QED
        BY <4>2, EmptySeq DEF EnExec
    <3>4. Len(q) = Debidos(v)
      BY <1>3, <2>1, <2>3, <3>3 DEF SabeDe, Visto, Debidos
    <3>5. ~EnFn(c, s)'
      BY <3>2 DEF EnFn
    <3>6. Len(progEncolados'[s]) = Debidos(iSemaforo'[s])
      BY <2>1, <3>4 DEF q, v
    <3>7. SemEnRegla(s)'
      BY <1>0, <3>1, <3>5, <3>6, SemSale
    <3> QED
      BY <1>12, <2>1, <3>1, <3>2, <3>7
  <2> QED
    BY <2>1, <2>2, <2>3
<1>9. CASE WaitSacar(c)
  <2>1. /\ hilo[c].paso = "waitSacar" /\ Seguir(c, "waitEncolar")
        /\ iSemaforo' = iSemaforo /\ progEncolados' = progEncolados
    BY <1>9 DEF WaitSacar, colas
  <2>2. /\ Otros(c) /\ hilo'[c].paso = "waitEncolar" /\ hilo'[c].msg = hilo[c].msg
    BY <2>1, SemHilo, SemHiloMsg
  <2>3. SabeDe(hilo'[c], iSemaforo'[s], Len(progEncolados'[s]))
    BY <1>3, <2>1, <2>2 DEF SabeDe, Visto, v, q
  <2> QED
    BY <1>12, <1>13, <2>1, <2>2, <2>3 DEF PasosWait
<1>10. CASE WaitEncolar(c)
  <2>1. /\ hilo[c].paso = "waitEncolar" /\ Seguir(c, "waitBloquear")
        /\ iSemaforo' = iSemaforo
        /\ progEncolados' = [progEncolados EXCEPT ![s] = Append(@, hilo[c].prog)]
    BY <1>2, <1>10 DEF WaitEncolar, Encolar
  <2>2. /\ Otros(c) /\ hilo'[c].paso = "waitBloquear" /\ hilo'[c].msg = hilo[c].msg
    BY <2>1, SemHilo, SemHiloMsg
  <2>3. progEncolados'[s] = Append(q, hilo[c].prog)
        /\ \A r \in Semaforos \ {s} : progEncolados'[r] = progEncolados[r]
    BY <1>2, <1>5, <2>1 DEF q
  <2>4. Len(progEncolados'[s]) = Len(q) + 1
    <3>1. hilo[c].prog \in 1..admitidos
      <4>1. hilo[c].prog \in 0..admitidos /\ hilo[c].prog # 0
        BY <2>1 DEF Acotado, PasosConProg, Nadie
      <4> QED
        BY <4>1
    <3> DEFINE U == 1..admitidos
    <3>2. q \in Seq(U) /\ hilo[c].prog \in U
      BY <1>3, <3>1
    <3> HIDE DEF U
    <3> QED
      BY <2>3, <3>2, AppendProperties
  <2>5. SabeDe(hilo'[c], iSemaforo'[s], Len(progEncolados'[s]))
    BY <1>3, <1>4, <2>1, <2>2, <2>4 DEF SabeDe, Visto, Debidos, v
  <2> QED
    BY <1>12, <1>13, <2>1, <2>2, <2>3, <2>5 DEF PasosWait
<1>11. CASE WaitBloquear(c)
  <2>1. /\ hilo[c].paso = "waitBloquear" /\ Volver(c, "esperar")
        /\ iSemaforo' = iSemaforo /\ progEncolados' = progEncolados
    BY <1>11 DEF WaitBloquear, colas
  <2>2. Otros(c) /\ hilo'[c].paso = "esperar"
    BY <2>1, SemHilo
  <2>3. hilo'[c].paso \notin PasosWait \cup PasosSignal
    BY <2>2 DEF PasosWait, PasosSignal
  <2>4. Len(progEncolados'[s]) = Debidos(iSemaforo'[s])
    BY <1>3, <2>1 DEF SabeDe, Visto, q, v
  <2>5. ~EnFn(c, s)'
    BY <2>3 DEF EnFn
  <2>6. SemEnRegla(s)'
    BY <1>0, <2>2, <2>4, <2>5, SemSale
  <2> QED
    BY <1>12, <2>1, <2>2, <2>3, <2>6
<1> QED
  BY <1>6, <1>7, <1>8, <1>9, <1>10, <1>11

\* fnUnlock, line by line.
LEMMA SemSignal ==
  ASSUME InvPCP, InvSem, SinCarreras, SinCarreras', NEW c \in CPUs,
         \/ SignalLeer(c) \/ SignalEscribir(c) \/ SignalProbar(c) \/ SignalSacar(c)
         \/ SignalReady(c) \/ SignalPost(c) \/ SignalResponder(c)
  PROVE  InvSem'
<1> USE DeHilo
<1>1. hilo[c].paso \in PasosSignal
  BY DEF SignalLeer, SignalEscribir, SignalProbar, SignalSacar, SignalReady, SignalPost,
     SignalResponder, PasosSignal
<1>2. PICK s \in Semaforos : hilo[c].msg.nombre = s
  BY <1>1, SemaforoDelMensaje
<1>0. EnFn(c, s)
  BY <1>1, <1>2 DEF EnFn
<1> DEFINE v == iSemaforo[s]
           q == progEncolados[s]
<1>3. v \in Int /\ q \in Seq(1..admitidos) /\ SabeDe(hilo[c], v, Len(q))
  BY <1>0 DEF ValoresEnRegla, ListasEnRegla, InvSem, SemEnRegla
<1>4. Len(q) \in Nat /\ (Len(q) = 0 <=> q = <<>>)
  <2> DEFINE U == 1..admitidos
  <2>1. q \in Seq(U)
    BY <1>3
  <2> HIDE DEF U, q
  <2> QED
    BY <2>1, LenProperties, EmptySeq
<1>5. /\ iSemaforo \in [Semaforos -> Int]
      /\ progEncolados \in [Semaforos \cup Dispositivos -> Seq(1..admitidos)]
  BY DEF ValoresEnRegla, ListasEnRegla
<1> HIDE DEF v, q
<1>12. ASSUME SemEnRegla(s)', Otros(c),
             hilo'[c].paso \in PasosWait \cup PasosSignal => hilo'[c].msg = hilo[c].msg,
             \A r \in Semaforos \ {s} : iSemaforo'[r] = iSemaforo[r]
                                        /\ progEncolados'[r] = progEncolados[r]
      PROVE  InvSem'
  BY <1>12, <1>2, SemDentro
<1>13. ASSUME hilo'[c].paso \in PasosWait \cup PasosSignal, hilo'[c].msg = hilo[c].msg,
             SabeDe(hilo'[c], iSemaforo'[s], Len(progEncolados'[s]))
      PROVE  SemEnRegla(s)'
  <2>1. EnFn(c, s)'
    BY <1>2, <1>13 DEF EnFn
  <2> QED
    BY <1>2, <1>13, <2>1, SemSigue
<1>6. CASE SignalLeer(c)
  <2>1. /\ hilo[c].paso = "signalLeer"
        /\ hilo' = [hilo EXCEPT ![c].leido = v, ![c].paso = "signalEscribir"]
        /\ iSemaforo' = iSemaforo /\ progEncolados' = progEncolados
    BY <1>2, <1>6 DEF SignalLeer, colas, v
  <2>2. /\ Otros(c) /\ hilo'[c].paso = "signalEscribir"
        /\ hilo'[c].msg = hilo[c].msg /\ hilo'[c].leido = v
    BY <2>1, SemHilo, SemHiloMsg
  <2>3. SabeDe(hilo'[c], iSemaforo'[s], Len(progEncolados'[s]))
    BY <1>3, <2>1, <2>2 DEF SabeDe, Visto, v, q
  <2> QED
    BY <1>12, <1>13, <2>1, <2>2, <2>3 DEF PasosSignal
<1>7. CASE SignalEscribir(c)
  <2>1. /\ hilo[c].paso = "signalEscribir"
        /\ iSemaforo' = [iSemaforo EXCEPT ![s] = hilo[c].leido + 1]
        /\ Seguir(c, "signalProbar") /\ progEncolados' = progEncolados
    BY <1>2, <1>7 DEF SignalEscribir
  <2>2. /\ Otros(c) /\ hilo'[c].paso = "signalProbar" /\ hilo'[c].msg = hilo[c].msg
    BY <2>1, SemHilo, SemHiloMsg
  <2>3. iSemaforo'[s] = v + 1 /\ \A r \in Semaforos \ {s} : iSemaforo'[r] = iSemaforo[r]
    BY <1>2, <1>3, <1>5, <2>1 DEF SabeDe
  <2>4. SabeDe(hilo'[c], iSemaforo'[s], Len(progEncolados'[s]))
    BY <1>3, <2>1, <2>2, <2>3 DEF SabeDe, Visto, q
  <2> QED
    BY <1>12, <1>13, <2>1, <2>2, <2>3, <2>4 DEF PasosSignal
<1>8. CASE SignalProbar(c)
  <2>1. /\ hilo[c].paso = "signalProbar"
        /\ iSemaforo' = iSemaforo /\ progEncolados' = progEncolados
        /\ \/ v <= 0 /\ Seguir(c, "signalSacar")
           \/ ~(v <= 0 /\ q # <<>>) /\ Seguir(c, "signalResponder")
    BY <1>2, <1>8 DEF SignalProbar, colas, v, q
  <2>2. CASE v <= 0 /\ Seguir(c, "signalSacar")
    <3>1. /\ Otros(c) /\ hilo'[c].paso = "signalSacar" /\ hilo'[c].msg = hilo[c].msg
      BY <2>2, SemHilo, SemHiloMsg
    <3>2. SabeDe(hilo'[c], iSemaforo'[s], Len(progEncolados'[s]))
      BY <1>3, <2>1, <2>2, <3>1 DEF SabeDe, Visto, v, q
    <3> QED
      BY <1>12, <1>13, <2>1, <3>1, <3>2 DEF PasosSignal
  <2>3. CASE ~(v <= 0 /\ q # <<>>) /\ Seguir(c, "signalResponder")
    <3>1. /\ Otros(c) /\ hilo'[c].paso = "signalResponder" /\ hilo'[c].msg = hilo[c].msg
      BY <2>3, SemHilo, SemHiloMsg
    <3>2. Len(q) = Debidos(v)
      BY <1>3, <1>4, <2>1, <2>3 DEF SabeDe, Visto, Debidos
    <3>3. SabeDe(hilo'[c], iSemaforo'[s], Len(progEncolados'[s]))
      BY <2>1, <3>1, <3>2 DEF SabeDe, Visto, v, q
    <3> QED
      BY <1>12, <1>13, <2>1, <3>1, <3>3 DEF PasosSignal
  <2> QED
    BY <2>1, <2>2, <2>3
<1>9. CASE SignalSacar(c)
  <2>1. hilo[c].paso = "signalSacar" /\ v <= 0 /\ Len(q) = 1 - v
    BY <1>3, <1>9 DEF SignalSacar, SabeDe, Visto, Debidos
  <2>2. q # <<>>
    BY <1>3, <1>4, <2>1
  <2>3. /\ hilo' = [hilo EXCEPT ![c].otro = Head(q), ![c].paso = "signalReady"]
        /\ iSemaforo' = iSemaforo
        /\ progEncolados' = [progEncolados EXCEPT ![s] = Tail(@)]
    BY <1>2, <1>9, <2>2 DEF SignalSacar, q
  <2>4. /\ Otros(c) /\ hilo'[c].paso = "signalReady" /\ hilo'[c].msg = hilo[c].msg
    BY <2>3, SemHilo, SemHiloMsg
  <2>5. progEncolados'[s] = Tail(q)
        /\ \A r \in Semaforos \ {s} : progEncolados'[r] = progEncolados[r]
    BY <1>2, <1>5, <2>3 DEF q
  <2>6. Len(progEncolados'[s]) = Len(q) - 1
    <3> DEFINE U == 1..admitidos
    <3>1. q \in Seq(U)
      BY <1>3
    <3> HIDE DEF U
    <3> QED
      BY <2>2, <2>5, <3>1, HeadTailProperties
  <2>7. SabeDe(hilo'[c], iSemaforo'[s], Len(progEncolados'[s]))
    <3>1. Len(q) - 1 = Debidos(v)
      BY <1>3, <1>4, <2>1 DEF Debidos
    <3> QED
      BY <2>3, <2>4, <2>6, <3>1 DEF SabeDe, Visto, v
  <2> QED
    BY <1>12, <1>13, <2>3, <2>4, <2>5, <2>7 DEF PasosSignal
<1>10. CASE SignalReady(c) \/ SignalPost(c)
  <2>1. /\ hilo[c].paso \in {"signalReady", "signalPost"}
        /\ iSemaforo' = iSemaforo /\ progEncolados' = progEncolados
        /\ \/ hilo' = [hilo EXCEPT ![c].otro = Nadie, ![c].paso = "signalPost"]
           \/ Seguir(c, "signalResponder")
    BY <1>10 DEF SignalReady, SignalPost, colas
  <2>2. /\ Otros(c) /\ hilo'[c].paso \in {"signalPost", "signalResponder"}
        /\ hilo'[c].msg = hilo[c].msg
    <3>1. CASE hilo' = [hilo EXCEPT ![c].otro = Nadie, ![c].paso = "signalPost"]
      BY <3>1, SemHilo, SemHiloMsg
    <3>2. CASE Seguir(c, "signalResponder")
      BY <3>2, SemHilo, SemHiloMsg
    <3> QED
      BY <2>1, <3>1, <3>2
  <2>3. SabeDe(hilo'[c], iSemaforo'[s], Len(progEncolados'[s]))
    BY <1>3, <2>1, <2>2 DEF SabeDe, Visto, v, q
  <2> QED
    BY <1>12, <1>13, <2>1, <2>2, <2>3 DEF PasosSignal
<1>11. CASE SignalResponder(c)
  <2>1. /\ hilo[c].paso = "signalResponder" /\ Volver(c, "recibir")
        /\ iSemaforo' = iSemaforo /\ progEncolados' = progEncolados
    BY <1>11 DEF SignalResponder, colas
  <2>2. Otros(c) /\ hilo'[c].paso = "recibir"
    BY <2>1, SemHilo
  <2>3. hilo'[c].paso \notin PasosWait \cup PasosSignal
    BY <2>2 DEF PasosWait, PasosSignal
  <2>4. Len(progEncolados'[s]) = Debidos(iSemaforo'[s])
    BY <1>3, <2>1 DEF SabeDe, Visto, q, v
  <2>5. ~EnFn(c, s)'
    BY <2>3 DEF EnFn
  <2>6. SemEnRegla(s)'
    BY <1>0, <2>2, <2>4, <2>5, SemSale
  <2> QED
    BY <1>12, <2>1, <2>2, <2>3, <2>6
<1> QED
  BY <1>6, <1>7, <1>8, <1>9, <1>10, <1>11

\* The threads and the semaphores as they were.
LEMMA SemQuieto ==
  ASSUME InvSem, UNCHANGED hilo,
         \A s \in Semaforos : iSemaforo'[s] = iSemaforo[s] /\ progEncolados'[s] = progEncolados[s]
  PROVE  InvSem'
BY DEF InvSem, SemEnRegla, EnFn, SabeDe, Visto

\* A device takes from its own queue only.
LEMMA SemDisp ==
  ASSUME InvPCP, NEW d \in Dispositivos, fnDispositivos(d)
  PROVE  /\ UNCHANGED hilo
         /\ \A s \in Semaforos :
              iSemaforo'[s] = iSemaforo[s] /\ progEncolados'[s] = progEncolados[s]
<1> USE DeTodos
<1>1. CASE DispSacar(d)
  <2>1. d \notin Semaforos
    BY ParametrosPCP
  <2> QED
    BY <1>1, <2>1 DEF DispSacar, ListasEnRegla
<1>2. CASE DispEsperar(d) \/ DispReady(d) \/ DispPost(d)
  BY <1>2 DEF DispEsperar, DispReady, DispPost, colas
<1> QED
  BY <1>1, <1>2 DEF fnDispositivos

\* While no two threads are at the same semaphore, every step keeps it.
LEMMA SemSiguen ==
  ASSUME InvPCP, InvSem, SinCarreras, SinCarreras', [Next]_vars
  PROVE  InvSem'
<1>1. CASE UNCHANGED <<hilo, iSemaforo, progEncolados>>
  BY <1>1, SemQuieto
<1>2. CASE NextPCP
  <2>1. CASE Admision
    BY <1>1, <2>1 DEF Admision, PonerEnReady, PostProductor, colas
  <2>2. ASSUME NEW c \in CPUs, pfnControladorConexion(c) PROVE InvSem'
    BY <2>2, SemOtroPaso, SemRecibe, SemWait, SemSignal
       DEF pfnControladorConexion, Recibir, Enviar, Interno
  <2>3. ASSUME NEW d \in Dispositivos, fnDispositivos(d) PROVE InvSem'
    BY <2>3, SemDisp, SemQuieto
  <2> QED
    BY <1>2, <2>1, <2>2, <2>3 DEF NextPCP
<1> QED
  BY <1>1, <1>2 DEF Next, vars, varsPCP, colas

\* At the start the queues are empty.
LEMMA SemInicial ==
  ASSUME InicialesNoNegativos, Init
  PROVE  InvSem
<1> SUFFICES ASSUME NEW s \in Semaforos PROVE SemEnRegla(s)
  BY DEF InvSem
<1>1. \A c \in CPUs : ~EnFn(c, s)
  BY DEF Init, InitPCP, Hilo, EnFn, PasosWait, PasosSignal
<1>2. iSemaforo[s] = ValorInicial[s] /\ progEncolados[s] = <<>>
  BY DEF Init, InitPCP
<1>3. ValorInicial[s] \in Int /\ ValorInicial[s] >= 0
  BY ParametrosPCP DEF InicialesNoNegativos
<1> QED
  BY <1>1, <1>2, <1>3 DEF SemEnRegla, Debidos

\* A semaphore agrees with its queue, for any number of CPUs, in every behaviour in
\* which no two of them are in fnLock or fnUnlock of the same semaphore at once.
THEOREM CoherenteSinCarreras ==
  ProgramasEnRegla /\ InicialesNoNegativos /\ Spec /\ []SinCarreras => []SemaforoCoherente
<1> SUFFICES ASSUME ProgramasEnRegla, InicialesNoNegativos
             PROVE  Spec /\ []SinCarreras => []SemaforoCoherente
  OBVIOUS
<1>1. Init => InvSem
  BY SemInicial
<1>2. InvPCP /\ InvSem /\ SinCarreras /\ SinCarreras' /\ [Next]_vars => InvSem'
  BY SemSiguen
<1>3. InvSem => SemaforoCoherente
  BY DEF InvSem, SemEnRegla, EnFn, Debidos, SemaforoCoherente, HilosEn
<1>4. Spec => []InvPCP
  BY InvariantePCP
<1> QED
  BY <1>1, <1>2, <1>3, <1>4, PTL DEF Spec

\* With one CPU there is nobody else.
LEMMA UnaSinCarreras ==
  ASSUME UnaCpu
  PROVE  SinCarreras
BY DEF UnaCpu, SinCarreras

\* With one CPU, then, the semaphores are right.
THEOREM CoherenteConUnaCpu ==
  ProgramasEnRegla /\ InicialesNoNegativos /\ UnaCpu /\ Spec => []SemaforoCoherente
<1> SUFFICES ASSUME ProgramasEnRegla, InicialesNoNegativos, UnaCpu
             PROVE  Spec => []SemaforoCoherente
  OBVIOUS
<1>1. SinCarreras
  BY UnaSinCarreras
<1>2. Spec /\ []SinCarreras => []SemaforoCoherente
  BY CoherenteSinCarreras
<1> QED
  BY <1>1, <1>2, PTL

\* A thread changes no other thread, and the queue of no semaphore but its own.
LEMMA ColaAjena ==
  ASSUME InvPCP, NEW c \in CPUs, pfnControladorConexion(c)
  PROVE  /\ Otros(c)
         /\ \A s \in Semaforos : ~EnFn(c, s) => progEncolados'[s] = progEncolados[s]
<1> USE DeHilo
<1>1. Otros(c)
  <2>1. \/ \E b : Seguir(c, b)
        \/ \E b : Volver(c, b)
        \/ \E b, v : hilo' = [hilo EXCEPT ![c].otro = v, ![c].paso = b]
        \/ \E b, v : hilo' = [hilo EXCEPT ![c].leido = v, ![c].paso = b]
        \/ \E b, v : hilo' = [hilo EXCEPT ![c].msg = v, ![c].paso = b]
        \/ \E b, v : hilo' = [hilo EXCEPT ![c] = Hilo(b, v)]
    <3>1. CASE Recibir(c)
      BY <3>1 DEF Recibir, RecibirMensaje, RecibirFin
    <3>2. CASE Enviar(c)
      BY <3>2 DEF Enviar, EnviarPcb, Consulta, WaitInexistente, WaitProbar, WaitBloquear,
         SignalInexistente, SignalResponder
    <3>3. CASE \/ EsperarReady(c) \/ CargarExec(c) \/ WaitLeer(c) \/ WaitEscribir(c)
               \/ WaitSacar(c) \/ WaitEncolar(c) \/ SignalLeer(c) \/ SignalEscribir(c)
               \/ SignalProbar(c) \/ SignalReady(c) \/ SignalPost(c)
      BY <3>3 DEF EsperarReady, CargarExec, WaitLeer, WaitEscribir, WaitSacar, WaitEncolar,
         SignalLeer, SignalEscribir, SignalProbar, SignalReady, SignalPost
    <3>4. CASE \/ IoPcb(c) \/ IoEncolar(c) \/ IoSacar(c) \/ IoPost(c) \/ RecargarReady(c)
               \/ RecargarPost(c) \/ ExitAgregar(c)
      BY <3>4 DEF IoPcb, IoEncolar, IoSacar, IoPost, RecargarReady, RecargarPost, ExitAgregar
    <3>5. CASE SacarReady(c) \/ SignalSacar(c)
      BY <3>5 DEF SacarReady, SignalSacar, NullEn
    <3>6. CASE RecargarSacar(c) \/ ExitSacar(c)
      BY <3>6 DEF RecargarSacar, ExitSacar, NullEn
    <3> QED
      BY <3>1, <3>2, <3>3, <3>4, <3>5, <3>6 DEF pfnControladorConexion, Interno
  <2> QED
    BY <2>1, SemHilo
<1>2. ASSUME NEW s \in Semaforos, ~EnFn(c, s) PROVE progEncolados'[s] = progEncolados[s]
  <2>1. CASE IoEncolar(c)
    <3>1. hilo[c].msg.nombre \in Dispositivos
      BY <2>1 DEF IoEncolar, Fase, FaseFin, PasosFin, PasosIo
    <3>2. hilo[c].msg.nombre \notin Semaforos
      BY <3>1, ParametrosPCP
    <3> QED
      BY <2>1, <3>2 DEF IoEncolar, Encolar, ListasEnRegla
  <2>2. CASE WaitEncolar(c) \/ SignalSacar(c)
    <3>1. hilo[c].msg.nombre # s
      BY <1>2, <2>2 DEF WaitEncolar, SignalSacar, EnFn, PasosWait, PasosSignal
    <3> QED
      BY <2>2, <3>1 DEF WaitEncolar, SignalSacar, Encolar, ListasEnRegla
  <2>3. CASE Recibir(c)
    BY <2>3 DEF Recibir, RecibirMensaje, RecibirFin, colas
  <2>4. CASE Enviar(c)
    BY <2>4 DEF Enviar, EnviarPcb, Consulta, WaitInexistente, WaitProbar, WaitBloquear,
       SignalInexistente, SignalResponder, colas
  <2>5. CASE Interno(c) /\ ~IoEncolar(c) /\ ~WaitEncolar(c) /\ ~SignalSacar(c)
    BY <2>5 DEF Interno, EsperarReady, CargarExec, WaitLeer, WaitEscribir, WaitSacar,
       SignalLeer, SignalEscribir, SignalProbar, SignalReady, SignalPost, SacarReady,
       IoPcb, IoSacar, IoPost, RecargarSacar, RecargarReady, RecargarPost, ExitSacar,
       ExitAgregar, colas
  <2> QED
    BY <2>1, <2>2, <2>3, <2>4, <2>5 DEF pfnControladorConexion
<1> QED
  BY <1>1, <1>2

-----------------------------------------------------------------------------
(* NULL in READY. *)

\* No NULL gets into READY while nobody takes from the queue of a semaphore between
\* the test of a signal and its removal (SenalesSinNull).
ReadySinNull == listaReady \in Seq(Programas)

\* Whatever is put in READY is a program.
LEMMA ReadySigueSinNull ==
  ASSUME InvPCP, ReadySinNull, SenalesSinNull, [Next]_vars
  PROVE  ReadySinNull'
<1> USE DeTodos
<1>1. ASSUME NEW e \in Programas, listaReady' = Append(listaReady, e) PROVE ReadySinNull'
  BY <1>1, ColaConUltimo DEF ReadySinNull
<1>2. ASSUME listaReady # <<>>, listaReady' = Tail(listaReady) PROVE ReadySinNull'
  BY <1>2, ColaSinCabeza DEF ReadySinNull
<1>3. CASE UNCHANGED listaReady
  BY <1>3 DEF ReadySinNull
<1>4. CASE NextPCP
  <2>1. CASE Admision
    BY <1>1, <1>3, <2>1 DEF Admision, PonerEnReady, PostProductor
  <2>2. ASSUME NEW c \in CPUs, pfnControladorConexion(c) PROVE ReadySinNull'
    <3>1. hilo[c].otro \in 0..admitidos /\ (hilo[c].otro # Nadie => hilo[c].otro \in Programas)
      BY DeHilo DEF Acotado, Nadie, Programas
    <3>2. CASE Recibir(c)
      BY <1>3, <3>2 DEF Recibir, RecibirMensaje, RecibirFin, ready
    <3>3. CASE Enviar(c)
      BY <1>3, <3>3 DEF Enviar, EnviarPcb, Consulta, WaitInexistente, WaitProbar, WaitBloquear,
         SignalInexistente, SignalResponder, ready
    <3>4. CASE SacarReady(c)
      BY <1>2, <1>3, <3>4 DEF SacarReady
    <3>5. CASE SignalReady(c)
      BY <1>1, <3>1, <3>5 DEF SignalReady, SenalesSinNull
    <3>6. CASE RecargarReady(c)
      <4>1. hilo[c].otro # Nadie
        BY <3>6, DeHilo DEF RecargarReady, Acotado, PasosConOtro
      <4> QED
        BY <1>1, <3>1, <3>6, <4>1 DEF RecargarReady
    <3>7. CASE \/ EsperarReady(c) \/ CargarExec(c) \/ WaitLeer(c) \/ WaitEscribir(c)
               \/ WaitSacar(c) \/ WaitEncolar(c) \/ SignalLeer(c) \/ SignalEscribir(c)
               \/ SignalProbar(c) \/ SignalSacar(c) \/ SignalPost(c)
               \/ IoPcb(c) \/ IoEncolar(c) \/ IoSacar(c) \/ IoPost(c)
               \/ RecargarSacar(c) \/ RecargarPost(c) \/ ExitSacar(c) \/ ExitAgregar(c)
      BY <1>3, <3>7 DEF EsperarReady, CargarExec, WaitLeer, WaitEscribir, WaitSacar, WaitEncolar,
         SignalLeer, SignalEscribir, SignalProbar, SignalSacar, SignalPost, IoPcb, IoEncolar,
         IoSacar, IoPost, RecargarSacar, RecargarPost, ExitSacar, ExitAgregar, ready
    <3> QED
      BY <2>2, <3>2, <3>3, <3>4, <3>5, <3>6, <3>7 DEF pfnControladorConexion, Interno
  <2>3. ASSUME NEW d \in Dispositivos, fnDispositivos(d) PROVE ReadySinNull'
    <3>1. CASE DispReady(d)
      <4>1. dispositivo[d].prog \in Programas
        BY <3>1 DEF DispReady, DispositivosEnRegla, Nadie, Programas
      <4> QED
        BY <1>1, <3>1, <4>1 DEF DispReady
    <3>2. CASE DispEsperar(d) \/ DispSacar(d) \/ DispPost(d)
      BY <1>3, <3>2 DEF DispEsperar, DispSacar, DispPost, ready
    <3> QED
      BY <2>3, <3>1, <3>2 DEF fnDispositivos
  <2> QED
    BY <1>4, <2>1, <2>2, <2>3 DEF NextPCP
<1> QED
  BY <1>3, <1>4 DEF Next, vars, varsPCP, ready

\* A thread gets to the removal of a signal only by its test, and to what follows
\* only by the removal.
LEMMA PasosDeSignal ==
  ASSUME InvPCP, NEW c \in CPUs, pfnControladorConexion(c), ~SignalProbar(c), ~SignalSacar(c)
  PROVE  hilo'[c].paso \notin {"signalSacar", "signalReady"}
<1> USE DeHilo
<1>1. hilo \in [CPUs -> TipoHilo]
  BY DEF HilosEnRegla
<1>2. ASSUME NEW b, Seguir(c, b) \/ Volver(c, b) PROVE hilo'[c].paso = b
  BY <1>1, <1>2 DEF Seguir, Volver, Hilo, TipoHilo
<1>3. ASSUME NEW b, NEW v, \/ hilo' = [hilo EXCEPT ![c].leido = v, ![c].paso = b]
                           \/ hilo' = [hilo EXCEPT ![c].otro = v, ![c].paso = b]
                           \/ hilo' = [hilo EXCEPT ![c].msg = v, ![c].paso = b]
                           \/ hilo' = [hilo EXCEPT ![c] = Hilo(b, v)]
      PROVE  hilo'[c].paso = b
  BY <1>1, <1>3 DEF TipoHilo, Hilo
<1>4. CASE RecibirMensaje(c)
  <2> DEFINE m == Head(haciaKernel[c])
  <2>1. hilo[c].paso = "recibir" /\ haciaKernel[c] # <<>>
        /\ hilo' = [hilo EXCEPT ![c].msg = m, ![c].paso = PasoPara(m)]
    BY <1>4 DEF RecibirMensaje
  <2>2. \/ Pregunta(c) /\ m = Pedido(c)
        \/ Ociosa(c) /\ Devuelve(c, m, hilo[c].prog)
    BY <2>1, LoQueLlega
  <2>3. m.op \in {"consulta", "waitKernel", "signalKernel", "entradaSalidaKernel",
                  "notificarPorFinRafaga", "notificarPorFinPrograma", "exception"}
    <3>1. CASE Pregunta(c) /\ m = Pedido(c)
      <4>1. LineaActual(c).op \in {"consulta", "wait", "signal"}
        BY <3>1 DEF Fase, FaseCpu, Pregunta
      <4> QED
        BY <3>1, <4>1 DEF Pedido, Mensaje
    <3> QED
      BY <2>2, <3>1 DEF Devuelve
  <2>4. PasoPara(m) \notin {"signalSacar", "signalReady"}
    BY <2>3 DEF PasoPara
  <2> HIDE DEF m
  <2>5. hilo'[c].paso = PasoPara(m)
    BY <2>1, <1>3
  <2> QED
    BY <2>4, <2>5
<1>5. CASE RecibirFin(c)
  BY <1>3, <1>5 DEF RecibirFin
<1>6. CASE Enviar(c)
  <2>1. \E b \in {"recibir", "esperar", "waitSacar"} : Seguir(c, b) \/ Volver(c, b)
    BY <1>6 DEF Enviar, EnviarPcb, Consulta, WaitInexistente, WaitProbar, WaitBloquear,
       SignalInexistente, SignalResponder
  <2> QED
    BY <1>2, <2>1
<1>7. CASE \/ EsperarReady(c) \/ CargarExec(c) \/ WaitEscribir(c) \/ WaitSacar(c)
           \/ WaitEncolar(c) \/ SignalEscribir(c) \/ SignalPost(c) \/ IoPcb(c) \/ IoEncolar(c)
           \/ IoSacar(c) \/ IoPost(c) \/ RecargarReady(c) \/ RecargarPost(c) \/ ExitAgregar(c)
  <2>1. \E b \in {"sacar", "enviar", "waitProbar", "waitEncolar", "waitBloquear", "signalProbar",
                  "signalResponder", "ioEncolar", "exitSacar", "ioSacar", "ioPost", "esperar",
                  "recargarPost", "terminado"} : Seguir(c, b) \/ Volver(c, b)
    BY <1>7 DEF EsperarReady, CargarExec, WaitEscribir, WaitSacar, WaitEncolar, SignalEscribir,
       SignalPost, IoPcb, IoEncolar, IoSacar, IoPost, RecargarReady, RecargarPost, ExitAgregar
  <2> QED
    BY <1>2, <2>1
<1>8. CASE WaitLeer(c) \/ SignalLeer(c) \/ SignalReady(c)
  <2>1. \E b \in {"waitEscribir", "signalEscribir", "signalPost"} : \E v :
          \/ hilo' = [hilo EXCEPT ![c].leido = v, ![c].paso = b]
          \/ hilo' = [hilo EXCEPT ![c].otro = v, ![c].paso = b]
    BY <1>8 DEF WaitLeer, SignalLeer, SignalReady
  <2> QED
    BY <1>3, <2>1
<1>9. CASE SacarReady(c)
  BY <1>2, <1>3, <1>9 DEF SacarReady, NullEn
<1>10. CASE RecargarSacar(c)
  BY <1>2, <1>3, <1>10 DEF RecargarSacar, NullEn
<1>11. CASE ExitSacar(c)
  BY <1>2, <1>3, <1>11 DEF ExitSacar, NullEn
<1> QED
  BY <1>4, <1>5, <1>6, <1>7, <1>8, <1>9, <1>10, <1>11 DEF pfnControladorConexion, Recibir, Interno

\* What a signal has found queued is there until it takes it.
LEMMA SenalesSiguenSinNull ==
  ASSUME InvPCP, SinCarreras, SenalesSinNull, [Next]_vars
  PROVE  SenalesSinNull'
<1> USE DeTodos
<1>1. CASE UNCHANGED <<hilo, progEncolados>>
  BY <1>1 DEF SenalesSinNull
<1>2. CASE NextPCP
  <2>1. CASE Admision
    BY <1>1, <2>1 DEF Admision, PonerEnReady, PostProductor, colas
  <2>2. ASSUME NEW c \in CPUs, pfnControladorConexion(c) PROVE SenalesSinNull'
    <3> SUFFICES /\ hilo'[c].paso = "signalSacar" => progEncolados'[hilo'[c].msg.nombre] # <<>>
                 /\ hilo'[c].paso = "signalReady" => hilo'[c].otro # Nadie
      <4>1. ASSUME NEW d \in CPUs, d # c
            PROVE  /\ hilo'[d].paso = "signalSacar" =>
                        progEncolados'[hilo'[d].msg.nombre] # <<>>
                   /\ hilo'[d].paso = "signalReady" => hilo'[d].otro # Nadie
        <5>1. hilo'[d] = hilo[d]
          BY <2>2, <4>1, ColaAjena DEF Otros
        <5>2. ASSUME hilo[d].paso = "signalSacar"
              PROVE  progEncolados'[hilo[d].msg.nombre] = progEncolados[hilo[d].msg.nombre]
          <6>1. PICK s \in Semaforos : hilo[d].msg.nombre = s
            BY <5>2, SemaforoDelMensaje DEF PasosSignal
          <6>2. EnFn(d, s)
            BY <5>2, <6>1 DEF EnFn, PasosSignal
          <6>3. ~EnFn(c, s)
            BY <4>1, <6>2 DEF SinCarreras
          <6> QED
            BY <2>2, <6>1, <6>3, ColaAjena
        <5> QED
          BY <5>1, <5>2 DEF SenalesSinNull
      <4> QED
        BY <4>1 DEF SenalesSinNull
    <3>1. hilo \in [CPUs -> TipoHilo]
      BY DEF HilosEnRegla
    <3>2. CASE SignalProbar(c)
      <4>1. /\ hilo[c].paso = "signalProbar"
            /\ Seguir(c, IF iSemaforo[hilo[c].msg.nombre] <= 0
                            /\ progEncolados[hilo[c].msg.nombre] # <<>>
                         THEN "signalSacar" ELSE "signalResponder")
            /\ UNCHANGED progEncolados
        BY <3>2 DEF SignalProbar, colas
      <4>2. hilo'[c].msg = hilo[c].msg /\ hilo'[c].paso =
              (IF iSemaforo[hilo[c].msg.nombre] <= 0
                  /\ progEncolados[hilo[c].msg.nombre] # <<>>
               THEN "signalSacar" ELSE "signalResponder")
        BY <3>1, <4>1 DEF Seguir, TipoHilo
      <4> QED
        BY <4>1, <4>2
    <3>3. CASE SignalSacar(c)
      <4> DEFINE s == hilo[c].msg.nombre
      <4>1. hilo[c].paso = "signalSacar" /\ progEncolados[s] # <<>>
        BY <3>3 DEF SignalSacar, SenalesSinNull
      <4>2. hilo' = [hilo EXCEPT ![c].otro = Head(progEncolados[s]), ![c].paso = "signalReady"]
        BY <3>3, <4>1 DEF SignalSacar
      <4>3. s \in Semaforos
        BY <4>1, SemaforoDelMensaje DEF PasosSignal
      <4>4. progEncolados[s] \in Seq(1..admitidos)
        BY <4>3 DEF ListasEnRegla
      <4>5. Head(progEncolados[s]) # Nadie
        <5>1. Head(progEncolados[s]) \in 1..admitidos
          BY <4>1, <4>4, HeadTailProperties
        <5> QED
          BY <5>1 DEF Nadie
      <4> HIDE DEF s
      <4>6. hilo'[c].paso = "signalReady" /\ hilo'[c].otro = Head(progEncolados[s])
        BY <3>1, <4>2 DEF TipoHilo
      <4> QED
        BY <4>5, <4>6
    <3> QED
      BY <2>2, <3>2, <3>3, PasosDeSignal
  <2>3. ASSUME NEW d \in Dispositivos, fnDispositivos(d) PROVE SenalesSinNull'
    <3>1. UNCHANGED hilo /\ \A s \in Semaforos : progEncolados'[s] = progEncolados[s]
      BY <2>3, SemDisp
    <3>2. ASSUME NEW c \in CPUs, hilo[c].paso = "signalSacar"
          PROVE  hilo[c].msg.nombre \in Semaforos
      BY <3>2, SemaforoDelMensaje DEF PasosSignal
    <3> QED
      BY <3>1, <3>2 DEF SenalesSinNull
  <2> QED
    BY <1>2, <2>1, <2>2, <2>3 DEF NextPCP
<1> QED
  BY <1>1, <1>2 DEF Next, vars, varsPCP, colas

\* So no signal takes NULL while no two threads are at the same semaphore, which
\* is what the next theorem needs of the hypothesis,
LEMMA SenalesSinCarreras ==
  ProgramasEnRegla /\ Spec /\ []SinCarreras => []SenalesSinNull
<1> SUFFICES ASSUME ProgramasEnRegla PROVE Spec /\ []SinCarreras => []SenalesSinNull
  OBVIOUS
<1>1. Init => SenalesSinNull
  BY DEF Init, InitPCP, Hilo, SenalesSinNull
<1>2. InvPCP /\ SinCarreras /\ SenalesSinNull /\ [Next]_vars => SenalesSinNull'
  BY SenalesSiguenSinNull
<1>3. Spec => []InvPCP
  BY InvariantePCP
<1> QED
  BY <1>1, <1>2, <1>3, PTL DEF Spec

\* and no thread dereferences one.
THEOREM VivoSinCarreras == ProgramasEnRegla /\ Spec /\ []SinCarreras => []KernelVivo
<1> SUFFICES ASSUME ProgramasEnRegla PROVE Spec /\ []SinCarreras => []KernelVivo
  OBVIOUS
<1> DEFINE Inv == ReadySinNull /\ vivo
<1>1. Init => Inv
  <2> SUFFICES ASSUME Init PROVE Inv
    OBVIOUS
  <2>1. listaReady = <<>> /\ vivo = TRUE
    BY DEF Init, InitPCP
  <2>2. ReadySinNull
    BY <2>1, EmptySeq DEF ReadySinNull
  <2> QED
    BY <2>1, <2>2
<1>2. ASSUME InvPCP, ReadyContado, SenalesSinNull, Inv, [Next]_vars PROVE Inv'
  <2>1. ReadySinNull'
    BY <1>2, ReadySigueSinNull
  <2>2. listaReady # <<>> => Head(listaReady) # Nadie
    <3> SUFFICES ASSUME listaReady # <<>> PROVE Head(listaReady) # Nadie
      OBVIOUS
    <3>1. Head(listaReady) \in Programas
      BY <1>2, HeadTailProperties DEF ReadySinNull
    <3> QED
      BY <3>1 DEF Programas, Nadie
  <2>3. vivo'
    BY <1>2, <2>2, MuereDeNull
  <2> QED
    BY <2>1, <2>3
<1>3. InvPCP /\ ReadyContado /\ SenalesSinNull /\ Inv /\ [Next]_vars => Inv'
  BY <1>2
<1>4. Inv => KernelVivo
  BY DEF KernelVivo
<1>5. Spec => []InvPCP
  BY InvariantePCP
<1>6. Spec /\ []SinCarreras => []SenalesSinNull
  BY SenalesSinCarreras
<1> HIDE DEF Inv
<1> QED
  BY <1>1, <1>3, <1>4, <1>5, <1>6, ReadySiempreContado, PTL DEF Spec

\* The kernel that serves one CPU never dereferences NULL.
THEOREM VivoConUnaCpu == ProgramasEnRegla /\ UnaCpu /\ Spec => []KernelVivo
<1> SUFFICES ASSUME ProgramasEnRegla, UnaCpu PROVE Spec => []KernelVivo
  OBVIOUS
<1>1. SinCarreras
  BY UnaSinCarreras
<1>2. Spec /\ []SinCarreras => []KernelVivo
  BY VivoSinCarreras
<1> QED
  BY <1>1, <1>2, PTL

=============================================================================
