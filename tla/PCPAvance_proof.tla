---------------------------- MODULE PCPAvance_proof ----------------------------
(***************************************************************************)
(* SinRetroceso: a CPU executes the line that follows the last one any CPU *)
(* executed of that program. The counter of a program is in its PCB, in    *)
(* the message that carries it and in every CPU that ever had it; the      *)
(* invariant says which of those copies is the newest.                     *)
(***************************************************************************)
EXTENDS PCPLugar_proof

-----------------------------------------------------------------------------
(* Where the newest counter of a program is. *)

\* The steps at which the PCB of the thread's program is older than the CPU's.
PasosCurso == (PasosPedido \ {"waitBloquear"}) \cup {"ioPcb", "recargarSacar"}

\* The CPU has the program of its thread and the newest counter of it.
EnCurso(c) ==
  /\ cpu[c].pid = hilo[c].prog
  /\ \/ hilo[c].paso \in PasosCurso
     \/ /\ hilo[c].paso = "recibir"
        /\ Corre(c) \/ Pide(c) \/ Contestada(c) \/ Devuelta(c)

\* Thread c has p, which will be executed from its PCB.
Aguarda(c, p) ==
  \/ hilo[c].paso \in {"cargar", "enviar", "ioEncolar"} /\ hilo[c].prog = p
  \/ hilo[c].paso \in {"signalReady", "recargarReady"} /\ hilo[c].otro = p
  \/ hilo[c].paso = "recibir" /\ Dada(c) /\ hilo[c].prog = p

\* p is not admitted yet, in READY, in a queue or in a device.
Listado(p) ==
  \/ p > admitidos
  \/ Veces(listaReady, p) > 0
  \/ Cardinality(Encolado(p)) > 0
  \/ Cardinality(EnManos(p)) > 0

\* p will be executed from its PCB, which has the newest counter.
EnEspera(p) == Listado(p) \/ \E c \in CPUs : Aguarda(c, p)

\* No CPU is beyond line n of p.
Hasta(p, n) == \A d \in CPUs : cpu[d].pid = p => cpu[d].pc <= n

CpusAlDia ==
  \A c \in CPUs :
    EnCurso(c) => pcb[hilo[c].prog].pc <= cpu[c].pc /\ Hasta(hilo[c].prog, cpu[c].pc)
PcbsAlDia == \A p \in Programas : EnEspera(p) => Hasta(p, pcb[p].pc)
MensajesAlDia ==
  \A c \in CPUs :
    hilo[c].paso = "recibir" /\ Dada(c) =>
      haciaCpu[c][Len(haciaCpu[c])].pc = pcb[hilo[c].prog].pc
InvAvance == CpusAlDia /\ PcbsAlDia /\ MensajesAlDia

-----------------------------------------------------------------------------
(* Nobody else has the program of a CPU that has the newest counter. *)

\* The same of the next state, list by list.
LEMMA ListadoLuego ==
  ASSUME NEW p
  PROVE  Listado(p)' <=>
           \/ p > admitidos'
           \/ Veces(listaReady', p) > 0
           \/ Cardinality(Encolado(p)') > 0
           \/ Cardinality(EnManos(p)') > 0
BY DEF Listado, Veces

\* A step that leaves the lists and devices alone leaves every program listed or not.
LEMMA ListadoQuieto ==
  ASSUME UNCHANGED <<admitidos, listaReady, progEncolados, dispositivo>>, NEW p
  PROVE  Listado(p)' <=> Listado(p)
BY DEF Listado, Veces, Encolado, EnManos

\* A thread that is about to queue its program has it in its hands and nowhere else.
LEMMA UnicoAlEncolar ==
  ASSUME InvPCP, NEW c \in CPUs, hilo[c].paso = "waitEncolar"
  PROVE  LET p == hilo[c].prog
         IN  /\ p \in 1..admitidos
             /\ Veces(listaReady, p) = 0 /\ Cardinality(Encolado(p)) = 0
             /\ Cardinality(EnManos(p)) = 0
             /\ \A x \in CPUs : Lleva(hilo[x], p) => x = c
             /\ \A x \in CPUs : Dueno(hilo[x], p) => hilo[x].paso = "ioSacar"
<1> DEFINE p == hilo[c].prog
           I == EntreDosListas(p)
           O == Duenos(p)
           L == Llevan(p)
<1>1. p \in 1..admitidos /\ admitidos \in Nat /\ ListasEnRegla /\ Lugares
  BY DeHilo DEF Acotado, PasosConProg, Nadie
<1>2. /\ IsFiniteSet(O) /\ I \subseteq O
      /\ \A x \in O : x \in I <=> hilo[x].paso = "ioSacar"
      /\ \A x \in CPUs : Dueno(hilo[x], p) <=> x \in O
  <2>1. IsFiniteSet(O)
    BY ParametrosConexion, FS_Subset DEF Duenos
  <2>2. \A x : x \in O <=> x \in CPUs /\ hilo[x].paso \in PasosDueno /\ hilo[x].prog = p
    BY DEF Duenos, Dueno
  <2>3. \A x : x \in I <=> x \in CPUs /\ hilo[x].paso = "ioSacar" /\ hilo[x].prog = p
    BY DEF EntreDosListas, HilosEn
  <2>4. "ioSacar" \in PasosDueno
    BY DEF PasosDueno
  <2> QED
    BY <2>1, <2>2, <2>3, <2>4 DEF Dueno
<1>3. /\ IsFiniteSet(L) /\ c \in L
      /\ \A x \in CPUs : Lleva(hilo[x], p) <=> x \in L
  <2>1. \A x : x \in L <=> x \in CPUs /\ Lleva(hilo[x], p)
    BY DEF Llevan, HilosEn, Lleva
  <2>2. L \subseteq CPUs
    BY <2>1
  <2>3. Lleva(hilo[c], p)
    BY DEF Lleva
  <2> HIDE DEF L, p
  <2> QED
    BY <2>1, <2>2, <2>3, ParametrosConexion, FS_Subset
<1>4. /\ Veces(listaReady, p) \in Nat /\ Veces(listaExec, p) \in Nat
      /\ Veces(exitProcesos, p) \in Nat
      /\ Cardinality(Encolado(p)) \in Nat /\ Cardinality(EnManos(p)) \in Nat
  BY <1>1, ListaTipo, EncoladoTipo, ManosTipo
<1>5. /\ Cardinality(O) <= Veces(listaExec, p)
      /\ Veces(listaReady, p) + Veces(listaExec, p) + Veces(exitProcesos, p)
           + Cardinality(Encolado(p)) + Cardinality(EnManos(p)) + Cardinality(L)
         = 1 + Cardinality(I)
  BY <1>1 DEF Lugares, EnSuLugar
<1> HIDE DEF I, O, L
<1>6. /\ IsFiniteSet(I) /\ Cardinality(I) \in Nat /\ Cardinality(O) \in Nat
      /\ Cardinality(I) <= Cardinality(O) /\ (Cardinality(I) = Cardinality(O) => I = O)
  BY <1>2, FS_Subset, FS_CardinalityType
<1>7. /\ Cardinality({c}) = 1 /\ Cardinality(L) \in Nat /\ Cardinality({c}) <= Cardinality(L)
      /\ (Cardinality({c}) = Cardinality(L) => {c} = L)
  <2>1. {c} \subseteq L /\ Cardinality({c}) = 1
    BY <1>3, FS_Singleton
  <2> QED
    BY <2>1, <1>3, FS_Subset, FS_CardinalityType
<1>8. /\ Veces(listaReady, p) = 0 /\ Cardinality(Encolado(p)) = 0
      /\ Cardinality(EnManos(p)) = 0
      /\ Cardinality(I) = Cardinality(O) /\ Cardinality({c}) = Cardinality(L)
  BY <1>4, <1>5, <1>6, <1>7
<1>9. I = O /\ L = {c}
  BY <1>6, <1>7, <1>8
<1> QED
  BY <1>1, <1>2, <1>3, <1>8, <1>9

\* Neither has a thread that answers for it.
LEMMA UnicoDueno ==
  ASSUME InvPCP, NEW c \in CPUs, hilo[c].paso \in PasosDueno \ {"ioSacar"}
  PROVE  LET p == hilo[c].prog
         IN  /\ p \in 1..admitidos
             /\ Veces(listaReady, p) = 0 /\ Cardinality(Encolado(p)) = 0
             /\ Cardinality(EnManos(p)) = 0
             /\ \A x \in CPUs : ~Lleva(hilo[x], p)
             /\ \A x \in CPUs : Dueno(hilo[x], p) /\ x # c => hilo[x].paso = "ioSacar"
<1> DEFINE p == hilo[c].prog
<1>1. p \in 1..admitidos /\ admitidos \in Nat /\ ListasEnRegla /\ Lugares
  BY DeHilo DEF Acotado, PasosConProg, Nadie
<1>2. /\ Veces(listaReady, p) = 0 /\ Veces(exitProcesos, p) = 0
      /\ Cardinality(Encolado(p)) = 0 /\ Cardinality(Llevan(p)) = 0
      /\ Veces(listaExec, p) = 1 + Cardinality(EntreDosListas(p))
      /\ \A x \in CPUs : Dueno(hilo[x], p) /\ x # c => hilo[x].paso = "ioSacar"
  BY <1>1, Unico
<1>3. Cardinality(EnManos(p)) = 0
  <2>1. Veces(listaReady, p) + Veces(listaExec, p) + Veces(exitProcesos, p)
          + Cardinality(Encolado(p)) + Cardinality(EnManos(p)) + Cardinality(Llevan(p))
        = 1 + Cardinality(EntreDosListas(p))
    BY <1>1 DEF Lugares, EnSuLugar
  <2>2. Cardinality(EnManos(p)) \in Nat /\ Cardinality(EntreDosListas(p)) \in Nat
    <3>1. EntreDosListas(p) \subseteq CPUs
      BY DEF EntreDosListas, HilosEn
    <3> QED
      BY <3>1, ManosTipo, ParametrosConexion, FS_Subset, FS_CardinalityType
  <2> HIDE DEF p
  <2> QED
    BY <1>2, <2>1, <2>2
<1>4. \A x \in CPUs : ~Lleva(hilo[x], p)
  <2>1. \A x : x \in Llevan(p) <=> x \in CPUs /\ Lleva(hilo[x], p)
    BY DEF Llevan, HilosEn, Lleva
  <2>2. Llevan(p) \subseteq CPUs
    BY <2>1
  <2>3. IsFiniteSet(Llevan(p))
    BY <2>2, ParametrosConexion, FS_Subset
  <2>4. Llevan(p) = {}
    BY <2>3, <1>2, FS_EmptySet
  <2> QED
    BY <2>1, <2>4
<1> QED
  BY <1>1, <1>2, <1>3, <1>4

\* A PCB on its way to a CPU and a CPU that executes exclude each other.
LEMMA DadaSola ==
  ASSUME NEW c \in CPUs, Dada(c), haciaCpu[c] \in Seq(Mensajes)
  PROVE  ~Corre(c) /\ ~Pide(c) /\ ~Contestada(c) /\ ~Devuelta(c)
<1>1. haciaCpu[c] # <<>> /\ Len(haciaCpu[c]) \in {1, 2}
  BY DEF Dada
<1>2. ~Corre(c) /\ ~Pide(c) /\ ~Devuelta(c)
  BY <1>1 DEF Corre, Pide, Devuelta
<1>3. ASSUME Contestada(c) PROVE FALSE
  <2>1. PICK op \in {"continuar", "terminar"} : haciaCpu[c] = <<Respuesta(op)>>
    BY <1>3 DEF Contestada
  <2>2. Len(haciaCpu[c]) = 1 /\ haciaCpu[c][1].op = op
    BY <2>1 DEF Respuesta, Mensaje
  <2>3. haciaCpu[c][1].op = "atendeProceso"
    BY <2>2 DEF Dada, EsPcb
  <2> QED
    BY <2>1, <2>2, <2>3
<1> QED
  BY <1>2, <1>3

\* The program of a CPU that has the newest counter is with that CPU only.
LEMMA EnCursoUnico ==
  ASSUME InvPCP, NEW c \in CPUs, EnCurso(c)
  PROVE  LET p == hilo[c].prog
         IN  /\ p \in Programas
             /\ ~EnEspera(p)
             /\ \A x \in CPUs : EnCurso(x) /\ hilo[x].prog = p => x = c
<1> DEFINE p == hilo[c].prog
           A == (PasosDueno \ {"ioSacar"}) \cup {"waitEncolar"}
<1>1. \A x \in CPUs : EnCurso(x) => hilo[x].paso \in A
  BY DEF EnCurso, PasosCurso, PasosPedido, PasosWait, PasosSignal, PasosDueno
<1>2. hilo[c].paso \in A
  BY <1>1
<1>3. /\ p \in 1..admitidos
      /\ Veces(listaReady, p) = 0 /\ Cardinality(Encolado(p)) = 0
      /\ Cardinality(EnManos(p)) = 0
      /\ \A x \in CPUs : x # c => ~Lleva(hilo[x], p)
      /\ Lleva(hilo[c], p) => hilo[c].paso = "waitEncolar"
      /\ \A x \in CPUs : Dueno(hilo[x], p) /\ x # c => hilo[x].paso = "ioSacar"
  <2>1. CASE hilo[c].paso = "waitEncolar"
    BY <2>1, UnicoAlEncolar
  <2>2. CASE hilo[c].paso \in PasosDueno \ {"ioSacar"}
    BY <2>2, UnicoDueno
  <2> QED
    BY <1>2, <2>1, <2>2
<1>4. p \in Programas /\ admitidos \in Nat
  BY <1>3, DeTodos DEF Programas
<1>5. \A x \in CPUs : EnCurso(x) /\ hilo[x].prog = p => x = c
  <2> SUFFICES ASSUME NEW x \in CPUs, EnCurso(x), hilo[x].prog = p, x # c PROVE FALSE
    OBVIOUS
  <2>1. hilo[x].paso \in A
    BY <1>1
  <2>2. hilo[x].paso = "waitEncolar" => Lleva(hilo[x], p)
    BY DEF Lleva
  <2>3. hilo[x].paso \in PasosDueno => Dueno(hilo[x], p)
    BY DEF Dueno
  <2> QED
    BY <1>3, <2>1, <2>2, <2>3
<1>6. ASSUME NEW x \in CPUs, Aguarda(x, p) PROVE FALSE
  <2>1. CASE x = c
    <3>1. \/ hilo[c].paso = "recibir" /\ Dada(c)
          \/ Lleva(hilo[c], p) /\ hilo[c].paso # "waitEncolar"
      BY <1>2, <1>6, <2>1 DEF Aguarda, Lleva, EnCurso, PasosCurso, PasosPedido, PasosWait,
         PasosSignal
    <3>2. hilo[c].paso = "recibir" /\ Dada(c)
      BY <1>3, <3>1
    <3>3. haciaCpu[c] \in Seq(Mensajes)
      BY DeCpuEnRegla
    <3>4. hilo[c].paso \notin PasosCurso
      BY <3>2 DEF PasosCurso, PasosPedido, PasosWait, PasosSignal
    <3> QED
      BY <3>2, <3>3, <3>4, DadaSola DEF EnCurso
  <2>2. CASE x # c
    <3>1. Lleva(hilo[x], p) \/ (Dueno(hilo[x], p) /\ hilo[x].paso # "ioSacar")
      BY <1>6 DEF Aguarda, Lleva, Dueno, PasosDueno
    <3> QED
      BY <1>3, <2>2, <3>1
  <2> QED
    BY <2>1, <2>2
<1>7. ~Listado(p)
  BY <1>3, <1>4 DEF Listado
<1> QED
  BY <1>4, <1>5, <1>6, <1>7 DEF EnEspera

-----------------------------------------------------------------------------
(* What keeps the invariant. *)

\* A thread and a CPU that do not step keep what they know of a program.
LEMMA FrenteIgual ==
  ASSUME NEW x \in CPUs, hilo'[x] = hilo[x], cpu'[x] = cpu[x],
         haciaCpu'[x] = haciaCpu[x], haciaKernel'[x] = haciaKernel[x]
  PROVE  /\ EnCurso(x)' <=> EnCurso(x)
         /\ Dada(x)' <=> Dada(x)
         /\ \A p : Aguarda(x, p)' <=> Aguarda(x, p)
<1>1. Pedido(x)' = Pedido(x) /\ LineaActual(x)' = LineaActual(x)
  BY DEF Pedido, LineaActual
<1>2. /\ Ociosa(x)' <=> Ociosa(x)
      /\ Ejecuta(x)' <=> Ejecuta(x)
      /\ Pregunta(x)' <=> Pregunta(x)
      /\ EnWait(x)' <=> EnWait(x)
  BY <1>1 DEF Ociosa, Ejecuta, Pregunta, EnWait
<1>3. Dada(x)' <=> Dada(x)
  BY <1>2 DEF Dada, EsPcb
<1>4. Corre(x)' <=> Corre(x)
  BY <1>2 DEF Corre
<1>5. Pide(x)' <=> Pide(x)
  BY <1>1, <1>2 DEF Pide
<1>6. Contestada(x)' <=> Contestada(x)
  BY <1>1, <1>2 DEF Contestada
<1>7. Devuelta(x)' <=> Devuelta(x)
  BY <1>2 DEF Devuelta, Devuelve
<1> QED
  BY <1>3, <1>4, <1>5, <1>6, <1>7 DEF EnCurso, Aguarda

\* The lists after a step of thread c or of its CPU have only programs that were
\* waiting.
Conocidos(c) ==
  \A p \in Programas : Listado(p)' \/ Aguarda(c, p)' => EnEspera(p)

\* The message that carries a PCB carries the newest.
MensajeAlDia(c) ==
  hilo[c].paso = "recibir" /\ Dada(c) =>
    haciaCpu[c][Len(haciaCpu[c])].pc = pcb[hilo[c].prog].pc

\* A thread that takes no program in its hands makes no program wait.
LEMMA EsperaSigue ==
  ASSUME NEW c \in CPUs, Otros(c), Ajenos(c), Conocidos(c)
  PROVE  \A p \in Programas : EnEspera(p)' => EnEspera(p)
<1> TAKE p \in Programas
<1> SUFFICES ASSUME EnEspera(p)' PROVE EnEspera(p)
  OBVIOUS
<1>1. ASSUME NEW x \in CPUs, x # c, Aguarda(x, p)' PROVE EnEspera(p)
  <2>1. Aguarda(x, p)' <=> Aguarda(x, p)
    BY <1>1, FrenteIgual DEF Otros, Ajenos
  <2> QED
    BY <1>1, <2>1 DEF EnEspera
<1>2. Listado(p)' \/ \E x \in CPUs : Aguarda(x, p)'
  BY DEF EnEspera
<1> QED
  BY <1>1, <1>2 DEF Conocidos

\* A step of thread c or of its CPU that moves no counter.
LEMMA AvanceQuieto ==
  ASSUME InvAvance, NEW c \in CPUs, Otros(c), Ajenos(c), UNCHANGED pcb,
         cpu'[c].pid = cpu[c].pid, cpu'[c].pc = cpu[c].pc,
         EnCurso(c)' => EnCurso(c) /\ hilo'[c].prog = hilo[c].prog,
         Conocidos(c), MensajeAlDia(c)'
  PROVE  InvAvance'
<1>1. \A x \in CPUs : cpu'[x].pid = cpu[x].pid /\ cpu'[x].pc = cpu[x].pc
  BY DEF Ajenos
<1>2. \A x \in CPUs \ {c} : hilo'[x] = hilo[x] /\ haciaCpu'[x] = haciaCpu[x]
  BY DEF Otros, Ajenos
<1>3. \A x \in CPUs \ {c} : (EnCurso(x)' <=> EnCurso(x)) /\ (Dada(x)' <=> Dada(x))
  BY FrenteIgual DEF Otros, Ajenos
<1>4. \A p, n : Hasta(p, n) => \A d \in CPUs : cpu'[d].pid = p => cpu'[d].pc <= n
  BY <1>1 DEF Hasta
<1>5. ASSUME NEW x \in CPUs, EnCurso(x)'
      PROVE  /\ pcb'[hilo'[x].prog].pc <= cpu'[x].pc
             /\ \A d \in CPUs : cpu'[d].pid = hilo'[x].prog => cpu'[d].pc <= cpu'[x].pc
  <2>1. EnCurso(x) /\ hilo'[x].prog = hilo[x].prog
    BY <1>2, <1>3, <1>5
  <2>2. pcb[hilo[x].prog].pc <= cpu[x].pc /\ Hasta(hilo[x].prog, cpu[x].pc)
    BY <2>1 DEF InvAvance, CpusAlDia
  <2> QED
    BY <1>1, <1>4, <2>1, <2>2
<1>6. CpusAlDia'
  BY <1>5 DEF CpusAlDia, Hasta
<1>7. PcbsAlDia'
  <2>1. \A p \in Programas : EnEspera(p)' => EnEspera(p)
    BY EsperaSigue
  <2>2. ASSUME NEW p \in Programas, EnEspera(p)'
        PROVE  \A d \in CPUs : cpu'[d].pid = p => cpu'[d].pc <= pcb'[p].pc
    BY <1>4, <2>1, <2>2 DEF InvAvance, PcbsAlDia
  <2> QED
    BY <2>2 DEF PcbsAlDia, Hasta
<1>8. MensajesAlDia'
  <2>1. ASSUME NEW x \in CPUs, hilo'[x].paso = "recibir", Dada(x)'
        PROVE  haciaCpu'[x][Len(haciaCpu'[x])].pc = pcb'[hilo'[x].prog].pc
    <3>1. CASE x = c
      BY <2>1, <3>1 DEF MensajeAlDia
    <3>2. CASE x # c
      BY <1>2, <1>3, <2>1, <3>2 DEF InvAvance, MensajesAlDia
    <3> QED
      BY <3>1, <3>2
  <2> QED
    BY <2>1 DEF MensajesAlDia
<1> QED
  BY <1>6, <1>7, <1>8 DEF InvAvance

\* The thread keeps the PCB that its CPU sent it.
LEMMA AvanceGuardado ==
  ASSUME InvPCP, InvAvance, NEW c \in CPUs, Otros(c), UNCHANGED <<cpu, canales>>,
         EnCurso(c), hilo'[c].paso \notin PasosCurso \cup {"recibir"},
         NEW b, b.pc = cpu[c].pc, pcb' = [pcb EXCEPT ![hilo[c].prog] = b],
         \A p \in Programas : p # hilo[c].prog /\ (Listado(p)' \/ Aguarda(c, p)') => EnEspera(p)
  PROVE  InvAvance'
<1> DEFINE q == hilo[c].prog
<1>1. /\ q \in Programas /\ ~EnEspera(q)
      /\ \A x \in CPUs : EnCurso(x) /\ hilo[x].prog = q => x = c
  BY EnCursoUnico
<1>2. pcb'[q].pc = cpu[c].pc /\ \A p \in Programas : p # q => pcb'[p] = pcb[p]
  BY <1>1, DeTodos DEF ListasEnRegla
<1>3. /\ \A x \in CPUs \ {c} : hilo'[x] = hilo[x] /\ haciaCpu'[x] = haciaCpu[x]
      /\ \A x \in CPUs \ {c} : (EnCurso(x)' <=> EnCurso(x)) /\ (Dada(x)' <=> Dada(x))
      /\ \A x \in CPUs \ {c} : \A p : Aguarda(x, p)' <=> Aguarda(x, p)
  BY FrenteIgual DEF Otros, canales
<1>4. ~EnCurso(c)'
  BY DEF EnCurso
<1>5. Hasta(q, cpu[c].pc)
  BY DEF InvAvance, CpusAlDia
<1>6. CpusAlDia'
  <2>1. ASSUME NEW x \in CPUs, EnCurso(x)'
        PROVE  /\ pcb'[hilo'[x].prog].pc <= cpu'[x].pc
               /\ \A d \in CPUs : cpu'[d].pid = hilo'[x].prog => cpu'[d].pc <= cpu'[x].pc
    <3>1. x # c /\ EnCurso(x) /\ hilo'[x] = hilo[x] /\ hilo[x].prog # q
      BY <1>1, <1>3, <1>4, <2>1
    <3>2. hilo[x].prog \in Programas
      BY <3>1, EnCursoUnico
    <3>3. pcb[hilo[x].prog].pc <= cpu[x].pc /\ Hasta(hilo[x].prog, cpu[x].pc)
      BY <3>1 DEF InvAvance, CpusAlDia
    <3> QED
      BY <1>2, <3>1, <3>2, <3>3 DEF Hasta
  <2> QED
    BY <2>1 DEF CpusAlDia, Hasta
<1>7. PcbsAlDia'
  <2>1. ASSUME NEW p \in Programas, EnEspera(p)'
        PROVE  \A d \in CPUs : cpu'[d].pid = p => cpu'[d].pc <= pcb'[p].pc
    <3>1. CASE p = q
      BY <1>2, <1>5, <3>1 DEF Hasta
    <3>2. CASE p # q
      <4>1. Listado(p)' \/ \E x \in CPUs : Aguarda(x, p)'
        BY <2>1 DEF EnEspera
      <4>2. EnEspera(p)
        BY <1>3, <3>2, <4>1 DEF EnEspera
      <4> QED
        BY <1>2, <3>2, <4>2 DEF InvAvance, PcbsAlDia, Hasta
    <3> QED
      BY <3>1, <3>2
  <2> QED
    BY <2>1 DEF PcbsAlDia, Hasta
<1>8. MensajesAlDia'
  <2>1. ASSUME NEW x \in CPUs, hilo'[x].paso = "recibir", Dada(x)'
        PROVE  haciaCpu'[x][Len(haciaCpu'[x])].pc = pcb'[hilo'[x].prog].pc
    <3>1. x # c /\ hilo'[x] = hilo[x] /\ Dada(x) /\ haciaCpu'[x] = haciaCpu[x]
      BY <1>3, <2>1
    <3>2. hilo[x].prog \in Programas
      BY <2>1, <3>1, DeCpuEnRegla
    <3>3. hilo[x].prog # q
      <4>1. Aguarda(x, hilo[x].prog)
        BY <2>1, <3>1 DEF Aguarda
      <4> QED
        BY <1>1, <3>2, <4>1 DEF EnEspera
    <3> QED
      BY <1>2, <2>1, <3>1, <3>2, <3>3 DEF InvAvance, MensajesAlDia
  <2> QED
    BY <2>1 DEF MensajesAlDia
<1> QED
  BY <1>6, <1>7, <1>8 DEF InvAvance

\* The CPU executes a line of its program.
LEMMA AvanceUnaLinea ==
  ASSUME InvPCP, InvAvance, NEW c \in CPUs, UNCHANGED varsPCP, Ajenos(c), EnCurso(c),
         cpu'[c].pid = cpu[c].pid, cpu'[c].pc = cpu[c].pc + 1,
         Dada(c)' => Dada(c), MensajeAlDia(c)'
  PROVE  InvAvance'
<1> DEFINE q == hilo[c].prog
<1>1. /\ q \in Programas /\ ~EnEspera(q)
      /\ \A x \in CPUs : EnCurso(x) /\ hilo[x].prog = q => x = c
  BY EnCursoUnico
<1>2. /\ pcb' = pcb /\ hilo' = hilo
      /\ \A x \in CPUs \ {c} : cpu'[x] = cpu[x] /\ haciaCpu'[x] = haciaCpu[x]
  BY DEF Ajenos, varsPCP
<1>3. /\ \A x \in CPUs \ {c} : (EnCurso(x)' <=> EnCurso(x)) /\ (Dada(x)' <=> Dada(x))
      /\ \A x \in CPUs \ {c} : \A p : Aguarda(x, p)' <=> Aguarda(x, p)
  BY <1>2, FrenteIgual DEF Ajenos
<1>4. \A p : Aguarda(c, p)' => Aguarda(c, p)
  BY <1>2 DEF Aguarda
<1>5. cpu[c].pid = q
  BY DEF EnCurso
<1>6. /\ pcb \in [Programas -> [pid : Programas, pc : Nat]]
      /\ \A x \in CPUs : cpu[x].pc \in Nat
  BY DeTodos DEF ListasEnRegla, CpusEnRegla, TipoCpu
<1>7. CpusAlDia'
  <2>1. ASSUME NEW x \in CPUs, EnCurso(x)'
        PROVE  /\ pcb'[hilo'[x].prog].pc <= cpu'[x].pc
               /\ \A d \in CPUs : cpu'[d].pid = hilo'[x].prog => cpu'[d].pc <= cpu'[x].pc
    <3>1. CASE x = c
      <4>1. pcb[q].pc <= cpu[c].pc /\ Hasta(q, cpu[c].pc)
        BY DEF InvAvance, CpusAlDia
      <4>2. pcb[q].pc \in Nat
        BY <1>1, <1>6
      <4>3. ASSUME NEW d \in CPUs, cpu'[d].pid = q PROVE cpu'[d].pc <= cpu'[c].pc
        BY <1>2, <1>6, <4>1, <4>3 DEF Hasta
      <4> QED
        BY <1>2, <1>6, <3>1, <4>1, <4>2, <4>3
    <3>2. CASE x # c
      <4>1. EnCurso(x) /\ hilo[x].prog # q
        BY <1>1, <1>3, <2>1, <3>2
      <4>2. pcb[hilo[x].prog].pc <= cpu[x].pc /\ Hasta(hilo[x].prog, cpu[x].pc)
        BY <4>1 DEF InvAvance, CpusAlDia
      <4> QED
        BY <1>2, <1>5, <3>2, <4>1, <4>2 DEF Hasta
    <3> QED
      BY <3>1, <3>2
  <2> QED
    BY <2>1 DEF CpusAlDia, Hasta
<1>8. PcbsAlDia'
  <2>1. ASSUME NEW p \in Programas, EnEspera(p)'
        PROVE  \A d \in CPUs : cpu'[d].pid = p => cpu'[d].pc <= pcb'[p].pc
    <3>1. Listado(p)' <=> Listado(p)
      BY ListadoQuieto DEF varsPCP, plp, ready, colas
    <3>2. EnEspera(p)
      BY <1>3, <1>4, <2>1, <3>1 DEF EnEspera
    <3> QED
      BY <1>1, <1>2, <1>5, <3>2 DEF InvAvance, PcbsAlDia, Hasta
  <2> QED
    BY <2>1 DEF PcbsAlDia, Hasta
<1>9. MensajesAlDia'
  <2>1. ASSUME NEW x \in CPUs, hilo'[x].paso = "recibir", Dada(x)'
        PROVE  haciaCpu'[x][Len(haciaCpu'[x])].pc = pcb'[hilo'[x].prog].pc
    <3>1. CASE x = c
      BY <2>1, <3>1 DEF MensajeAlDia
    <3>2. CASE x # c
      BY <1>2, <1>3, <2>1, <3>2 DEF InvAvance, MensajesAlDia
    <3> QED
      BY <3>1, <3>2
  <2> QED
    BY <2>1 DEF MensajesAlDia
<1> QED
  BY <1>7, <1>8, <1>9 DEF InvAvance

-----------------------------------------------------------------------------
(* Steps of the threads. *)

\* What a step does to its thread.
LEMMA PasoDelHilo ==
  ASSUME HilosEnRegla, NEW c \in CPUs, NEW b
  PROVE  /\ Seguir(c, b) =>
              /\ hilo'[c].paso = b /\ hilo'[c].prog = hilo[c].prog
              /\ hilo'[c].otro = hilo[c].otro /\ Otros(c)
         /\ Volver(c, b) => hilo'[c].paso = b /\ hilo'[c].prog = hilo[c].prog /\ Otros(c)
         /\ \A v : hilo' = [hilo EXCEPT ![c].leido = v, ![c].paso = b] =>
              hilo'[c].paso = b /\ hilo'[c].prog = hilo[c].prog /\ Otros(c)
         /\ \A v : hilo' = [hilo EXCEPT ![c].msg = v, ![c].paso = b] =>
              hilo'[c].paso = b /\ hilo'[c].prog = hilo[c].prog /\ Otros(c)
         /\ \A v : hilo' = [hilo EXCEPT ![c].otro = v, ![c].paso = b] =>
              /\ hilo'[c].paso = b /\ hilo'[c].prog = hilo[c].prog
              /\ hilo'[c].otro = v /\ Otros(c)
<1>1. hilo \in [CPUs -> TipoHilo] /\ hilo[c] \in TipoHilo
  BY DEF HilosEnRegla
<1>2. Seguir(c, b) => /\ hilo'[c].paso = b /\ hilo'[c].prog = hilo[c].prog
                      /\ hilo'[c].otro = hilo[c].otro /\ Otros(c)
  BY <1>1 DEF Seguir, Otros, TipoHilo
<1>3. Volver(c, b) => hilo'[c].paso = b /\ hilo'[c].prog = hilo[c].prog /\ Otros(c)
  BY <1>1 DEF Volver, Hilo, Otros, TipoHilo
<1>4. ASSUME NEW v, hilo' = [hilo EXCEPT ![c].leido = v, ![c].paso = b]
      PROVE  hilo'[c].paso = b /\ hilo'[c].prog = hilo[c].prog /\ Otros(c)
  BY <1>1, <1>4 DEF Otros, TipoHilo
<1>5. ASSUME NEW v, hilo' = [hilo EXCEPT ![c].msg = v, ![c].paso = b]
      PROVE  hilo'[c].paso = b /\ hilo'[c].prog = hilo[c].prog /\ Otros(c)
  BY <1>1, <1>5 DEF Otros, TipoHilo
<1>6. ASSUME NEW v, hilo' = [hilo EXCEPT ![c].otro = v, ![c].paso = b]
      PROVE  /\ hilo'[c].paso = b /\ hilo'[c].prog = hilo[c].prog
             /\ hilo'[c].otro = v /\ Otros(c)
  BY <1>1, <1>6 DEF Otros, TipoHilo
<1> QED
  BY <1>2, <1>3, <1>4, <1>5, <1>6

\* A step that goes to no recv, and takes on no CPU's counter.
LEMMA AvanceDeHilo ==
  ASSUME InvAvance, NEW c \in CPUs, Otros(c), Ajenos(c), UNCHANGED <<cpu, pcb>>,
         hilo'[c].paso # "recibir",
         hilo'[c].paso \in PasosCurso =>
           hilo[c].paso \in PasosCurso /\ hilo'[c].prog = hilo[c].prog,
         Conocidos(c)
  PROVE  InvAvance'
<1>1. EnCurso(c)' => EnCurso(c) /\ hilo'[c].prog = hilo[c].prog
  BY DEF EnCurso
<1>2. MensajeAlDia(c)'
  BY DEF MensajeAlDia
<1> QED
  BY <1>1, <1>2, AvanceQuieto

\* Nor moves a program.
LEMMA AvanceSinListas ==
  ASSUME InvAvance, NEW c \in CPUs, Otros(c), Ajenos(c),
         UNCHANGED <<cpu, pcb, admitidos, listaReady, progEncolados, dispositivo>>,
         hilo'[c].paso \notin {"recibir", "cargar", "enviar", "ioEncolar", "signalReady",
                               "recargarReady"},
         hilo'[c].paso \in PasosCurso =>
           hilo[c].paso \in PasosCurso /\ hilo'[c].prog = hilo[c].prog
  PROVE  InvAvance'
<1>1. Conocidos(c)
  <2>1. \A p \in Programas : Listado(p)' => EnEspera(p)
    BY ListadoQuieto DEF EnEspera
  <2>2. \A p : ~Aguarda(c, p)'
    BY DEF Aguarda
  <2> QED
    BY <2>1, <2>2 DEF Conocidos
<1> QED
  BY <1>1, AvanceDeHilo

\* Steps that move no program from list to list.
LEMMA InternoAvanza ==
  ASSUME InvPCP, InvAvance, NEW c \in CPUs, UNCHANGED <<canales, cpu>>,
         \/ EsperarReady(c) \/ WaitLeer(c) \/ WaitEscribir(c) \/ WaitSacar(c)
         \/ SignalLeer(c) \/ SignalEscribir(c) \/ SignalProbar(c) \/ SignalPost(c)
         \/ IoSacar(c) \/ IoPost(c) \/ RecargarPost(c) \/ ExitSacar(c) \/ ExitAgregar(c)
  PROVE  InvAvance'
<1>1. HilosEnRegla /\ Ajenos(c) /\ Fase(c)
  BY DeHilo DEF Ajenos, canales
<1>2. UNCHANGED <<pcb, admitidos, listaReady, progEncolados, dispositivo>>
  BY DEF EsperarReady, WaitLeer, WaitEscribir, WaitSacar, SignalLeer, SignalEscribir,
     SignalProbar, SignalPost, IoSacar, IoPost, RecargarPost, ExitSacar, ExitAgregar,
     plp, ready, colas
<1> DEFINE Va == /\ Otros(c) /\ hilo'[c].prog = hilo[c].prog
                 /\ \/ /\ hilo[c].paso \in PasosCurso
                       /\ hilo'[c].paso \in {"waitEscribir", "waitProbar", "waitEncolar",
                                             "signalEscribir", "signalProbar", "signalSacar",
                                             "signalResponder"}
                    \/ hilo'[c].paso \in {"sacar", "esperar", "ioPost", "exitAgregar", "null",
                                          "terminado"}
<1>3. Va
  <2>1. {"waitLeer", "waitEscribir", "waitSacar", "signalLeer", "signalEscribir",
         "signalProbar", "signalPost"} \subseteq PasosCurso
    BY DEF PasosCurso, PasosPedido, PasosWait, PasosSignal
  <2>2. CASE EsperarReady(c)
    BY <1>1, <2>1, <2>2, PasoDelHilo DEF EsperarReady
  <2>3. CASE WaitLeer(c)
    BY <1>1, <2>1, <2>3, PasoDelHilo DEF WaitLeer
  <2>4. CASE WaitEscribir(c)
    BY <1>1, <2>1, <2>4, PasoDelHilo DEF WaitEscribir
  <2>5. CASE WaitSacar(c)
    BY <1>1, <2>1, <2>5, PasoDelHilo DEF WaitSacar
  <2>6. CASE SignalLeer(c)
    BY <1>1, <2>1, <2>6, PasoDelHilo DEF SignalLeer
  <2>7. CASE SignalEscribir(c)
    BY <1>1, <2>1, <2>7, PasoDelHilo DEF SignalEscribir
  <2>8. CASE SignalProbar(c)
    BY <1>1, <2>1, <2>8, PasoDelHilo DEF SignalProbar
  <2>9. CASE SignalPost(c)
    BY <1>1, <2>1, <2>9, PasoDelHilo DEF SignalPost
  <2>10. CASE IoSacar(c)
    BY <1>1, <2>10, PasoDelHilo DEF IoSacar
  <2>11. CASE IoPost(c)
    BY <1>1, <2>11, PasoDelHilo DEF IoPost
  <2>12. CASE RecargarPost(c)
    BY <1>1, <2>12, PasoDelHilo DEF RecargarPost
  <2>13. CASE ExitSacar(c)
    <3>1. CASE NullEn(c)
      BY <1>1, <3>1, PasoDelHilo DEF NullEn
    <3>2. CASE ~NullEn(c)
      <4>1. PICK k \in EnExec(pcb[hilo[c].prog].pid) :
              hilo' = [hilo EXCEPT ![c].otro = listaExec[k], ![c].paso = "exitAgregar"]
        BY <2>13, <3>2 DEF ExitSacar
      <4> QED
        BY <1>1, <4>1, PasoDelHilo
    <3> QED
      BY <3>1, <3>2
  <2>14. CASE ExitAgregar(c)
    BY <1>1, <2>14, PasoDelHilo DEF ExitAgregar
  <2> QED
    BY <2>2, <2>3, <2>4, <2>5, <2>6, <2>7, <2>8, <2>9, <2>10, <2>11, <2>12, <2>13, <2>14
<1>4. hilo'[c].paso \in PasosCurso =>
        hilo[c].paso \in PasosCurso /\ hilo'[c].prog = hilo[c].prog
  BY <1>3 DEF PasosCurso, PasosPedido, PasosWait, PasosSignal
<1>5. hilo'[c].paso \notin {"recibir", "cargar", "enviar", "ioEncolar", "signalReady",
                            "recargarReady"}
  BY <1>3
<1> QED
  BY <1>1, <1>2, <1>3, <1>4, <1>5, AvanceSinListas


\* The queues and the devices of a step that leaves them alone.
LEMMA ColasQuietas ==
  ASSUME NEW p
  PROVE  /\ UNCHANGED progEncolados => Cardinality(Encolado(p)') = Cardinality(Encolado(p))
         /\ UNCHANGED dispositivo => Cardinality(EnManos(p)') = Cardinality(EnManos(p))
         /\ Listado(p) => EnEspera(p)
         /\ Veces(listaReady, p) > 0 => EnEspera(p)
         /\ Cardinality(Encolado(p)) > 0 => EnEspera(p)
         /\ Cardinality(EnManos(p)) > 0 => EnEspera(p)
         /\ \A c \in CPUs : Aguarda(c, p) => EnEspera(p)
<1>1. UNCHANGED progEncolados => Cardinality(Encolado(p)') = Cardinality(Encolado(p))
  BY DEF Encolado
<1>2. UNCHANGED dispositivo => Cardinality(EnManos(p)') = Cardinality(EnManos(p))
  BY DEF EnManos
<1>3. \A c \in CPUs : Aguarda(c, p) => EnEspera(p)
  BY DEF EnEspera
<1>4. /\ Listado(p) => EnEspera(p)
      /\ Veces(listaReady, p) > 0 => Listado(p)
      /\ Cardinality(Encolado(p)) > 0 => Listado(p)
      /\ Cardinality(EnManos(p)) > 0 => Listado(p)
  BY DEF EnEspera, Listado
<1> QED
  BY <1>1, <1>2, <1>3, <1>4

\* A program waits in the same way in READY, in a queue and in a thread between two
\* of them.
LEMMA DespachoAvanza ==
  ASSUME InvPCP, InvAvance, NEW c \in CPUs, UNCHANGED <<canales, cpu>>,
         SacarReady(c) \/ CargarExec(c)
  PROVE  InvAvance'
<1>1. HilosEnRegla /\ Ajenos(c) /\ ListasEnRegla /\ hilo[c] \in TipoHilo
  BY DeHilo DEF Ajenos, canales
<1>2. UNCHANGED <<pcb, admitidos, progEncolados, dispositivo>>
  BY DEF SacarReady, CargarExec, plp, colas
<1>3. CASE SacarReady(c)
  <2>1. /\ Otros(c) /\ hilo'[c].paso \in {"null", "cargar"}
        /\ hilo'[c].paso = "cargar" => listaReady # <<>> /\ hilo'[c].prog = Head(listaReady)
    <3>1. CASE NullEn(c)
      BY <1>1, <3>1, PasoDelHilo DEF NullEn
    <3>2. CASE ~NullEn(c)
      <4>1. hilo' = [hilo EXCEPT ![c] = Hilo("cargar", Head(listaReady))] /\ listaReady # <<>>
        BY <1>3, <3>2 DEF SacarReady
      <4> QED
        BY <1>1, <4>1 DEF HilosEnRegla, Hilo, Otros
    <3> QED
      BY <3>1, <3>2
  <2>2. \/ UNCHANGED listaReady
        \/ listaReady # <<>> /\ listaReady' = Tail(listaReady)
    BY <1>3 DEF SacarReady
  <2>3. ASSUME NEW p \in Programas
        PROVE  /\ Veces(listaReady', p) > 0 => Veces(listaReady, p) > 0
               /\ listaReady # <<>> /\ Head(listaReady) = p => Veces(listaReady, p) > 0
    <3> DEFINE T == 0..admitidos
    <3>1. listaReady \in Seq(T)
      BY <1>1 DEF ListasEnRegla
    <3> HIDE DEF T
    <3>2. /\ Veces(listaReady, p) \in Nat
          /\ listaReady # <<>> => /\ Veces(Tail(listaReady), p) \in Nat
                                  /\ Veces(Tail(listaReady), p) =
                                       Veces(listaReady, p) - Uno(Head(listaReady) = p)
      <4>1. listaReady # <<>> => Tail(listaReady) \in Seq(T)
        BY <3>1
      <4> QED
        BY <3>1, <4>1, VecesTipo, VecesSinCabeza
    <3>3. CASE listaReady # <<>> /\ Head(listaReady) = p
      BY <2>2, <3>2, <3>3 DEF Uno
    <3>4. CASE ~(listaReady # <<>> /\ Head(listaReady) = p)
      <4>1. CASE UNCHANGED listaReady
        BY <3>4, <4>1
      <4>2. CASE listaReady # <<>> /\ listaReady' = Tail(listaReady)
        BY <3>2, <3>4, <4>2 DEF Uno
      <4> QED
        BY <2>2, <4>1, <4>2
    <3> QED
      BY <3>3, <3>4
  <2>4. Conocidos(c)
    <3> SUFFICES ASSUME NEW p \in Programas, Listado(p)' \/ Aguarda(c, p)' PROVE EnEspera(p)
      BY DEF Conocidos
    <3>1. CASE Listado(p)'
      BY <1>2, <2>3, <3>1, ListadoLuego, ColasQuietas DEF Listado
    <3>2. CASE Aguarda(c, p)'
      <4>1. listaReady # <<>> /\ Head(listaReady) = p
        BY <2>1, <3>2 DEF Aguarda
      <4> QED
        BY <2>3, <4>1, ColasQuietas
    <3> QED
      BY <3>1, <3>2
  <2>5. hilo'[c].paso # "recibir" /\ hilo'[c].paso \notin PasosCurso
    BY <2>1 DEF PasosCurso, PasosPedido, PasosWait, PasosSignal
  <2> QED
    BY <1>1, <1>2, <2>1, <2>4, <2>5, AvanceDeHilo
<1>4. CASE CargarExec(c)
  <2>1. /\ Otros(c) /\ hilo'[c].paso = "enviar" /\ hilo'[c].prog = hilo[c].prog
        /\ hilo[c].paso = "cargar" /\ UNCHANGED listaReady
    BY <1>1, <1>4, PasoDelHilo DEF CargarExec, ready
  <2>2. Conocidos(c)
    <3> SUFFICES ASSUME NEW p \in Programas, Listado(p)' \/ Aguarda(c, p)' PROVE EnEspera(p)
      BY DEF Conocidos
    <3>1. CASE Listado(p)'
      BY <1>2, <2>1, <3>1, ListadoQuieto, ColasQuietas
    <3>2. CASE Aguarda(c, p)'
      <4>1. Aguarda(c, p)
        BY <2>1, <3>2 DEF Aguarda
      <4> QED
        BY <4>1, ColasQuietas
    <3> QED
      BY <3>1, <3>2
  <2>3. hilo'[c].paso # "recibir" /\ hilo'[c].paso \notin PasosCurso
    BY <2>1 DEF PasosCurso, PasosPedido, PasosWait, PasosSignal
  <2> QED
    BY <1>1, <1>2, <2>1, <2>2, <2>3, AvanceDeHilo
<1> QED
  BY <1>3, <1>4

\* A signal or a reload puts in READY a program that was waiting already.
LEMMA ReadyAvanza ==
  ASSUME InvPCP, InvAvance, NEW c \in CPUs, UNCHANGED <<canales, cpu>>,
         SignalReady(c) \/ RecargarReady(c)
  PROVE  InvAvance'
<1>1. HilosEnRegla /\ Ajenos(c) /\ ListasEnRegla /\ hilo[c] \in TipoHilo /\ Acotado(hilo[c])
  BY DeHilo DEF Ajenos, canales
<1>2. /\ UNCHANGED <<pcb, admitidos, progEncolados, dispositivo>>
      /\ listaReady' = Append(listaReady, hilo[c].otro)
      /\ hilo[c].paso \in {"signalReady", "recargarReady"}
  BY DEF SignalReady, RecargarReady, plp, colas
<1>3. /\ Otros(c) /\ hilo'[c].paso \in {"signalPost", "recargarPost"}
      /\ hilo'[c].paso = "signalPost" =>
           hilo[c].paso = "signalReady" /\ hilo'[c].prog = hilo[c].prog
  <2>1. CASE SignalReady(c)
    BY <1>1, <2>1, PasoDelHilo DEF SignalReady
  <2>2. CASE RecargarReady(c)
    BY <1>1, <2>2, PasoDelHilo DEF RecargarReady
  <2> QED
    BY <2>1, <2>2
<1>4. ASSUME NEW p \in Programas, Veces(listaReady', p) > 0 PROVE EnEspera(p)
  <2>1. hilo[c].otro \in 0..admitidos
    BY <1>1 DEF Acotado
  <2>2. Veces(listaReady', p) = Veces(listaReady, p) + Uno(hilo[c].otro = p)
    BY <1>1, <1>2, <2>1, ReadyCrece
  <2>3. CASE hilo[c].otro = p
    <3>1. Aguarda(c, p)
      BY <1>2, <2>3 DEF Aguarda
    <3> QED
      BY <3>1, ColasQuietas
  <2>4. CASE hilo[c].otro # p
    <3>1. Veces(listaReady, p) > 0
      BY <1>1, <1>4, <2>2, <2>4, ListaTipo DEF Uno
    <3> QED
      BY <3>1, ColasQuietas
  <2> QED
    BY <2>3, <2>4
<1>5. Conocidos(c)
  <2> SUFFICES ASSUME NEW p \in Programas, Listado(p)' \/ Aguarda(c, p)' PROVE EnEspera(p)
    BY DEF Conocidos
  <2>1. ~Aguarda(c, p)'
    BY <1>3 DEF Aguarda
  <2>2. \/ p > admitidos \/ Veces(listaReady', p) > 0 \/ Cardinality(Encolado(p)) > 0
        \/ Cardinality(EnManos(p)) > 0
    BY <1>2, <2>1, ListadoLuego, ColasQuietas
  <2> QED
    BY <1>4, <2>2, ColasQuietas DEF Listado
<1>6. /\ hilo'[c].paso # "recibir"
      /\ hilo'[c].paso \in PasosCurso =>
           hilo[c].paso \in PasosCurso /\ hilo'[c].prog = hilo[c].prog
  BY <1>3 DEF PasosCurso, PasosPedido, PasosWait, PasosSignal
<1> QED
  BY <1>1, <1>2, <1>3, <1>5, <1>6, AvanceDeHilo

\* A program leaves the queue of a semaphore, or enters the one of a device, still waiting.
LEMMA ColasAvanzan ==
  ASSUME InvPCP, InvAvance, NEW c \in CPUs, UNCHANGED <<canales, cpu>>,
         SignalSacar(c) \/ IoEncolar(c)
  PROVE  InvAvance'
<1>1. /\ HilosEnRegla /\ Ajenos(c) /\ ListasEnRegla /\ hilo[c] \in TipoHilo
      /\ Acotado(hilo[c]) /\ Fase(c) /\ admitidos \in Nat
  BY DeHilo DEF Ajenos, canales
<1>2. UNCHANGED <<pcb, admitidos, listaReady, dispositivo>>
  BY DEF SignalSacar, IoEncolar, plp, ready
<1>3. CASE SignalSacar(c)
  <2> DEFINE s == hilo[c].msg.nombre
  <2>1. s \in Semaforos \cup Dispositivos /\ hilo[c].paso = "signalSacar"
    BY <1>3, SemaforoDelMensaje DEF SignalSacar, PasosSignal
  <2>2. CASE progEncolados[s] = <<>>
    <3>1. /\ Otros(c) /\ hilo'[c].paso = "signalReady" /\ hilo'[c].prog = hilo[c].prog
          /\ hilo'[c].otro = Nadie /\ UNCHANGED progEncolados
      <4>1. /\ hilo' = [hilo EXCEPT ![c].otro = Nadie, ![c].paso = "signalReady"]
            /\ UNCHANGED progEncolados
        BY <1>3, <2>2 DEF SignalSacar
      <4>2. /\ hilo'[c].paso = "signalReady" /\ hilo'[c].prog = hilo[c].prog
            /\ hilo'[c].otro = Nadie /\ Otros(c)
        BY <1>1, <4>1, PasoDelHilo
      <4> QED
        BY <4>1, <4>2
    <3>2. Conocidos(c)
      <4>1. ASSUME NEW p \in Programas PROVE ~Aguarda(c, p)'
        BY <3>1 DEF Aguarda, Programas, Nadie
      <4>2. ASSUME NEW p \in Programas, Listado(p)' PROVE EnEspera(p)
        BY <1>2, <3>1, <4>2, ListadoQuieto, ColasQuietas
      <4> QED
        BY <4>1, <4>2 DEF Conocidos
    <3>3. hilo[c].paso \in PasosCurso
      BY <2>1 DEF PasosCurso, PasosPedido, PasosSignal
    <3> QED
      BY <1>1, <1>2, <3>1, <3>2, <3>3, AvanceDeHilo
  <2>3. CASE progEncolados[s] # <<>>
    <3> DEFINE o == Head(progEncolados[s])
    <3>1. /\ Otros(c) /\ hilo'[c].paso = "signalReady" /\ hilo'[c].prog = hilo[c].prog
          /\ hilo'[c].otro = o
          /\ progEncolados' = [progEncolados EXCEPT ![s] = Tail(progEncolados[s])]
      <4>1. /\ hilo' = [hilo EXCEPT ![c].otro = o, ![c].paso = "signalReady"]
            /\ progEncolados' = [progEncolados EXCEPT ![s] = Tail(progEncolados[s])]
        BY <1>3, <2>3 DEF SignalSacar
      <4>2. /\ hilo'[c].paso = "signalReady" /\ hilo'[c].prog = hilo[c].prog
            /\ hilo'[c].otro = o /\ Otros(c)
        BY <1>1, <4>1, PasoDelHilo
      <4> QED
        BY <4>1, <4>2
    <3>2. \A p : Cardinality(Encolado(p)') = Cardinality(Encolado(p)) - Uno(o = p)
      BY <1>1, <2>1, <2>3, <3>1, Desencola
    <3>3. /\ \A p : Cardinality(Encolado(p)) \in Nat
          /\ Cardinality(Encolado(o)) > 0
      <4>1. \A p : IsFiniteSet(Encolado(p)) /\ Cardinality(Encolado(p)) \in Nat
        BY <1>1, EncoladoTipo
      <4>2. <<s, 1>> \in Encolado(o)
        <5>1. /\ DOMAIN progEncolados = Semaforos \cup Dispositivos
              /\ progEncolados[s] \in Seq(1..admitidos)
          BY <1>1, <2>1 DEF ListasEnRegla
        <5> HIDE DEF s
        <5>2. 1 \in DOMAIN progEncolados[s] /\ progEncolados[s][1] = o
          BY <2>3, <5>1
        <5> QED
          BY <2>1, <5>1, <5>2 DEF Encolado
      <4>3. Cardinality(Encolado(o)) # 0
        BY <4>1, <4>2, FS_EmptySet
      <4> QED
        BY <4>1, <4>3
    <3> HIDE DEF o
    <3>4. ASSUME NEW p \in Programas, Cardinality(Encolado(p)') > 0 \/ o = p PROVE EnEspera(p)
      <4>1. Cardinality(Encolado(p)) > 0
        BY <3>2, <3>3, <3>4 DEF Uno
      <4> QED
        BY <4>1, ColasQuietas
    <3>5. Conocidos(c)
      <4> SUFFICES ASSUME NEW p \in Programas, Listado(p)' \/ Aguarda(c, p)' PROVE EnEspera(p)
        BY DEF Conocidos
      <4>1. CASE Aguarda(c, p)'
        BY <3>1, <3>4, <4>1 DEF Aguarda
      <4>2. CASE Listado(p)'
        BY <1>2, <3>4, <4>2, ListadoLuego, ColasQuietas DEF Listado
      <4> QED
        BY <4>1, <4>2
    <3>6. hilo[c].paso \in PasosCurso
      BY <2>1 DEF PasosCurso, PasosPedido, PasosSignal
    <3> QED
      BY <1>1, <1>2, <3>1, <3>5, <3>6, AvanceDeHilo
  <2> QED
    BY <2>2, <2>3
<1>4. CASE IoEncolar(c)
  <2> DEFINE q == hilo[c].prog
             r == hilo[c].msg.nombre
  <2>1. /\ Otros(c) /\ hilo'[c].paso = "ioSacar" /\ hilo[c].paso = "ioEncolar"
        /\ Encolar(r, q)
    BY <1>1, <1>4, PasoDelHilo DEF IoEncolar
  <2>2. r \in Semaforos \cup Dispositivos /\ q \in 1..admitidos
    BY <1>1, <2>1 DEF Fase, FaseFin, PasosFin, PasosIo, Acotado, PasosConProg, PasosDueno, Nadie
  <2>3. \A p : Cardinality(Encolado(p)') = Cardinality(Encolado(p)) + Uno(q = p)
    BY <1>1, <2>1, <2>2, Encola
  <2>4. ASSUME NEW p \in Programas, Cardinality(Encolado(p)') > 0 PROVE EnEspera(p)
    <3>1. CASE q = p
      <4>1. Aguarda(c, p)
        BY <2>1, <3>1 DEF Aguarda
      <4> QED
        BY <4>1, ColasQuietas
    <3>2. CASE q # p
      <4>1. Cardinality(Encolado(p)) > 0
        BY <1>1, <2>3, <2>4, <3>2, EncoladoTipo DEF Uno
      <4> QED
        BY <4>1, ColasQuietas
    <3> QED
      BY <3>1, <3>2
  <2>5. Conocidos(c)
    <3> SUFFICES ASSUME NEW p \in Programas, Listado(p)' \/ Aguarda(c, p)' PROVE EnEspera(p)
      BY DEF Conocidos
    <3>1. ~Aguarda(c, p)'
      BY <2>1 DEF Aguarda
    <3> QED
      BY <1>2, <2>4, <3>1, ListadoLuego, ColasQuietas DEF Listado
  <2>6. hilo'[c].paso # "recibir" /\ hilo'[c].paso \notin PasosCurso
    BY <2>1 DEF PasosCurso, PasosPedido, PasosWait, PasosSignal
  <2> QED
    BY <1>1, <1>2, <2>1, <2>5, <2>6, AvanceDeHilo
<1> QED
  BY <1>3, <1>4


\* What was sent back in a socket is of the program that the CPU has in use.
LEMMA RecibirAvanza ==
  ASSUME InvPCP, InvAvance, NEW c \in CPUs, Recibir(c), UNCHANGED cpu
  PROVE  InvAvance'
<1>1. /\ HilosEnRegla /\ hilo[c] \in TipoHilo /\ Fase(c) /\ CanalesEnRegla
      /\ hilo[c].paso = "recibir"
  BY DeHilo DEF Recibir, RecibirMensaje, RecibirFin
<1>2. /\ UNCHANGED <<pcb, admitidos, listaReady, progEncolados, dispositivo, haciaCpu, conectada>>
  BY DEF Recibir, RecibirMensaje, RecibirFin, plp, ready, colas
<1>3. PICK r \in Restos(haciaKernel[c]) :
        /\ haciaKernel[c] # <<>> /\ haciaKernel' = [haciaKernel EXCEPT ![c] = r]
        /\ hilo' = [hilo EXCEPT ![c].msg = Head(haciaKernel[c]),
                                ![c].paso = PasoPara(Head(haciaKernel[c]))]
  <2>1. ~RecibirFin(c)
    BY <1>1 DEF RecibirFin, Fase, FaseCpu
  <2> QED
    BY <2>1 DEF Recibir, RecibirMensaje
<1>4. Ajenos(c)
  BY <1>1, <1>2, <1>3 DEF Ajenos, CanalesEnRegla
<1> DEFINE m == Head(haciaKernel[c])
           b == PasoPara(m)
<1>5. Otros(c) /\ hilo'[c].paso = b /\ hilo'[c].prog = hilo[c].prog
  <2> HIDE DEF m, b
  <2>1. hilo' = [hilo EXCEPT ![c].msg = m, ![c].paso = b]
    BY <1>3 DEF m, b
  <2> QED
    BY <1>1, <2>1, PasoDelHilo
<1>6. \/ Pregunta(c) /\ m = Pedido(c)
      \/ Ociosa(c) /\ Devuelve(c, m, hilo[c].prog)
  BY <1>1, <1>3, LoQueLlega
<1>7. Pide(c) \/ Devuelta(c)
  BY <1>1, <1>3 DEF Fase, FaseRecibir, Dada, Perdida, Corre, Contestada
<1>8. b \in {"consulta", "waitLeer", "waitInexistente", "signalLeer", "signalInexistente",
            "ioPcb", "recargarSacar", "exitSacar"}
  <2>1. CASE Pregunta(c) /\ m = Pedido(c)
    <3>1. LineaActual(c).op \in {"consulta", "wait", "signal"}
      BY <1>1, <2>1 DEF Pregunta, Fase, FaseCpu
    <3> QED
      BY <2>1, <3>1 DEF Pedido, Mensaje, PasoPara
  <2>2. CASE Devuelve(c, m, hilo[c].prog)
    <3>1. m.op \in {"entradaSalidaKernel", "notificarPorFinRafaga",
                    "notificarPorFinPrograma", "exception"}
      BY <2>2 DEF Devuelve
    <3> HIDE DEF m
    <3> QED
      BY <3>1 DEF PasoPara
  <2> QED
    BY <1>6, <2>1, <2>2
<1>9. EnCurso(c)' => EnCurso(c) /\ hilo'[c].prog = hilo[c].prog
  BY <1>1, <1>5, <1>7 DEF EnCurso
<1>10. hilo'[c].paso \notin {"recibir", "cargar", "enviar", "ioEncolar", "signalReady",
                             "recargarReady"}
  BY <1>5, <1>8
<1>11. Conocidos(c)
  <2>1. \A p \in Programas : Listado(p)' => EnEspera(p)
    BY <1>2, ListadoQuieto DEF EnEspera
  <2>2. \A p : ~Aguarda(c, p)'
    BY <1>10 DEF Aguarda
  <2> QED
    BY <2>1, <2>2 DEF Conocidos
<1>12. MensajeAlDia(c)'
  BY <1>10 DEF MensajeAlDia
<1> QED
  BY <1>2, <1>4, <1>5, <1>9, <1>11, <1>12, AvanceQuieto

\* A thread that is between two messages of its CPU.
LEMMA EnviarAvanza ==
  ASSUME ProgramasEnRegla, InvPCP, InvAvance, NEW c \in CPUs, Enviar(c), UNCHANGED cpu
  PROVE  InvAvance'
<1>1. /\ HilosEnRegla /\ hilo[c] \in TipoHilo /\ Fase(c) /\ CanalesEnRegla
      /\ haciaCpu[c] \in Seq(Mensajes) /\ conectada[c]
  BY DeHilo, DeCpuEnRegla DEF Fase, FaseCpu
<1>2. UNCHANGED <<pcb, admitidos, listaReady, progEncolados, dispositivo, haciaKernel, conectada>>
  BY DEF Enviar, EnviarPcb, Consulta, WaitInexistente, WaitProbar, WaitBloquear,
     SignalInexistente, SignalResponder, plp, ready, colas
<1>3. Ajenos(c)
  <2>1. UNCHANGED haciaCpu \/ \E m : Responder(c, m)
    BY DEF Enviar, EnviarPcb, Consulta, WaitInexistente, WaitProbar, WaitBloquear,
       SignalInexistente, SignalResponder
  <2> QED
    BY <1>1, <1>2, <2>1, ResponderAjeno DEF Ajenos
<1>4. \A p \in Programas : Listado(p)' => EnEspera(p)
  BY <1>2, ListadoQuieto DEF EnEspera
<1>5. CASE EnviarPcb(c)
  <2> DEFINE m == Mensaje("atendeProceso", SinNombre, pcb[hilo[c].prog].pid,
                          pcb[hilo[c].prog].pc)
  <2>1. /\ hilo[c].paso = "enviar" /\ Otros(c)
        /\ hilo'[c].paso = "recibir" /\ hilo'[c].prog = hilo[c].prog
    BY <1>1, <1>5, PasoDelHilo DEF EnviarPcb
  <2>2. haciaCpu'[c] = Append(haciaCpu[c], m)
    BY <1>1, <1>5 DEF EnviarPcb, Responder, EnviarACpu, CanalesEnRegla
  <2>3. m.op = "atendeProceso" /\ m.pc = pcb[hilo[c].prog].pc
    BY DEF Mensaje
  <2> HIDE DEF m
  <2>4. /\ Len(haciaCpu'[c]) = Len(haciaCpu[c]) + 1 /\ haciaCpu'[c] # <<>>
        /\ haciaCpu'[c][Len(haciaCpu[c]) + 1] = m /\ Len(haciaCpu[c]) \in Nat
    BY <1>1, <2>2
  <2>5. ~EnCurso(c)'
    <3>1. ~Corre(c)' /\ ~Pide(c)' /\ ~Devuelta(c)'
      BY <2>4 DEF Corre, Pide, Devuelta
    <3>2. ASSUME Contestada(c)' PROVE FALSE
      <4>1. PICK op \in {"continuar", "terminar"} : haciaCpu'[c] = <<Respuesta(op)>>
        BY <3>2 DEF Contestada
      <4>2. Len(haciaCpu'[c]) = 1 /\ haciaCpu'[c][1] = Respuesta(op)
        BY <4>1
      <4>3. m = Respuesta(op)
        BY <2>4, <4>2
      <4> QED
        BY <2>3, <4>1, <4>3 DEF Respuesta, Mensaje
    <3> QED
      BY <2>1, <3>1, <3>2 DEF EnCurso, PasosCurso, PasosPedido, PasosWait, PasosSignal
  <2>6. Conocidos(c)
    <3>1. ASSUME NEW p \in Programas, Aguarda(c, p)' PROVE EnEspera(p)
      <4>1. Aguarda(c, p)
        BY <2>1, <3>1 DEF Aguarda
      <4> QED
        BY <4>1 DEF EnEspera
    <3> QED
      BY <1>4, <3>1 DEF Conocidos
  <2>7. MensajeAlDia(c)'
    BY <1>2, <2>1, <2>3, <2>4 DEF MensajeAlDia
  <2> QED
    BY <1>2, <1>3, <2>1, <2>5, <2>6, <2>7, AvanceQuieto
<1>6. CASE ~EnviarPcb(c)
  <2>1. PICK op \in {"continuar", "terminar", "bloquear"} :
          /\ hilo[c].paso \in PasosPedido
          /\ hilo'[c].prog = hilo[c].prog /\ Otros(c)
          /\ \/ /\ hilo'[c].paso \in {"esperar", "waitSacar"}
                /\ hilo'[c].paso = "waitSacar" => hilo[c].paso = "waitProbar"
             \/ /\ hilo'[c].paso = "recibir" /\ hilo[c].paso # "waitBloquear"
                /\ Responder(c, Respuesta(op))
    <3>1. {"consulta", "waitInexistente", "waitProbar", "waitBloquear", "signalInexistente",
           "signalResponder"} \subseteq PasosPedido
      BY DEF PasosPedido, PasosWait, PasosSignal
    <3>2. CASE Consulta(c)
      BY <1>1, <3>1, <3>2, PasoDelHilo DEF Consulta, RespuestasConsulta
    <3>3. CASE WaitInexistente(c)
      BY <1>1, <3>1, <3>3, PasoDelHilo DEF WaitInexistente
    <3>4. CASE WaitProbar(c)
      BY <1>1, <3>1, <3>4, PasoDelHilo DEF WaitProbar
    <3>5. CASE WaitBloquear(c)
      BY <1>1, <3>1, <3>5, PasoDelHilo DEF WaitBloquear
    <3>6. CASE SignalInexistente(c)
      BY <1>1, <3>1, <3>6, PasoDelHilo DEF SignalInexistente
    <3>7. CASE SignalResponder(c)
      BY <1>1, <3>1, <3>7, PasoDelHilo DEF SignalResponder
    <3> QED
      BY <1>6, <3>2, <3>3, <3>4, <3>5, <3>6, <3>7 DEF Enviar
  <2>2. CASE hilo'[c].paso \in {"esperar", "waitSacar"}
    <3>1. hilo'[c].paso \in PasosCurso =>
            hilo[c].paso \in PasosCurso /\ hilo'[c].prog = hilo[c].prog
      BY <2>1, <2>2 DEF PasosCurso, PasosPedido, PasosWait, PasosSignal
    <3> QED
      BY <1>2, <1>3, <2>1, <2>2, <3>1, AvanceSinListas
  <2>3. CASE hilo'[c].paso = "recibir"
    <3>1. hilo[c].paso \in PasosCurso /\ hilo[c].paso # "waitBloquear"
      BY <2>1, <2>3 DEF PasosCurso
    <3>2. haciaCpu[c] = <<>>
      BY <1>1, <2>1 DEF Fase, FasePedido
    <3>3. haciaCpu'[c] = Append(<<>>, Respuesta(op))
      BY <1>1, <2>1, <2>3, <3>2 DEF Responder, EnviarACpu, CanalesEnRegla
    <3>4. Len(haciaCpu'[c]) = 1 /\ haciaCpu'[c][1].op # "atendeProceso"
      BY <2>1, <3>3 DEF Respuesta, Mensaje
    <3>5. ~Dada(c)'
      BY <3>4 DEF Dada, EsPcb
    <3>6. EnCurso(c)' => EnCurso(c)
      BY <2>1, <3>1 DEF EnCurso
    <3>7. Conocidos(c)
      <4>1. \A p : ~Aguarda(c, p)'
        BY <2>3, <3>5 DEF Aguarda
      <4> QED
        BY <1>4, <4>1 DEF Conocidos
    <3>8. MensajeAlDia(c)'
      BY <3>5 DEF MensajeAlDia
    <3> QED
      BY <1>2, <1>3, <2>1, <3>6, <3>7, <3>8, AvanceQuieto
  <2> QED
    BY <2>1, <2>2, <2>3
<1> QED
  BY <1>5, <1>6

\* A thread that stores the PCB its CPU sent it: it holds the counter of the CPU.
LEMMA GuardarAvanza ==
  ASSUME ProgramasEnRegla, InvPCP, InvAvance, NEW c \in CPUs, UNCHANGED <<canales, cpu>>,
         WaitEncolar(c) \/ IoPcb(c) \/ RecargarSacar(c)
  PROVE  InvAvance'
<1> DEFINE q == hilo[c].prog
           m == hilo[c].msg
           b == PcbDe(m)
<1>1. /\ HilosEnRegla /\ ListasEnRegla /\ hilo[c] \in TipoHilo /\ Acotado(hilo[c]) /\ Fase(c)
      /\ PcbsEnRegla
  BY DeHilo, DeTodos
<1>2. UNCHANGED <<admitidos, listaReady, dispositivo>>
  BY DEF WaitEncolar, IoPcb, RecargarSacar, plp, ready
<1>3. \A p : Listado(p) => EnEspera(p)
  BY DEF EnEspera
<1>4. CASE WaitEncolar(c)
  <2>1. /\ hilo[c].paso = "waitEncolar" /\ Seguir(c, "waitBloquear")
        /\ pcb' = [pcb EXCEPT ![q] = b] /\ Encolar(m.nombre, q)
    BY <1>4 DEF WaitEncolar
  <2>2. Otros(c) /\ hilo'[c].paso = "waitBloquear" /\ hilo'[c].prog = q
    BY <1>1, <2>1, PasoDelHilo
  <2>3. hilo[c].paso \in PasosWait /\ hilo[c].paso \in PasosPedido
    BY <2>1 DEF PasosWait, PasosPedido
  <2>4. Pregunta(c) /\ m = Pedido(c) /\ LineaActual(c).op = "wait"
    BY <1>1, <2>3 DEF Fase, FasePedido
  <2>5. b.pc = cpu[c].pc /\ cpu[c].pid = q
    BY <2>4 DEF Pedido, Mensaje, PcbDe, Pregunta
  <2>6. EnCurso(c)
    BY <2>1, <2>3, <2>5 DEF EnCurso, PasosCurso
  <2>7. hilo'[c].paso \notin PasosCurso \cup {"recibir"}
    BY <2>2 DEF PasosCurso, PasosPedido, PasosWait, PasosSignal
  <2>8. ASSUME NEW p \in Programas, p # q, Listado(p)' \/ Aguarda(c, p)' PROVE EnEspera(p)
    <3>1. ~Aguarda(c, p)'
      BY <2>2 DEF Aguarda
    <3>2. PICK r : r = m.nombre /\ r \in Semaforos
      BY <2>3, SemaforoDelMensaje
    <3>3. q \in 1..admitidos
      BY <1>1, <2>1 DEF Acotado, PasosConProg, Nadie
    <3>4. PICK u \in 1..admitidos : u = q
      BY <3>3
    <3> HIDE DEF m, q
    <3>5. \A x : Cardinality(Encolado(x)') = Cardinality(Encolado(x)) + Uno(u = x)
      BY <1>1, <2>1, <3>2, <3>4, Encola
    <3>6. Cardinality(Encolado(p)') = Cardinality(Encolado(p))
      BY <1>1, <2>8, <3>4, <3>5, EncoladoTipo DEF Uno
    <3>7. \/ p > admitidos \/ Veces(listaReady, p) > 0 \/ Cardinality(Encolado(p)) > 0
          \/ Cardinality(EnManos(p)) > 0
      BY <1>2, <2>8, <3>1, <3>6, ListadoLuego, ColasQuietas
    <3> QED
      BY <1>3, <3>7 DEF Listado
  <2> HIDE DEF b
  <2> QED
    BY <2>1, <2>2, <2>5, <2>6, <2>7, <2>8, AvanceGuardado
<1>5. CASE IoPcb(c)
  <2>1. PICK a \in {"ioEncolar", "exitSacar"} : Seguir(c, a)
    <3>1. CASE m.nombre \in Dispositivos
      BY <1>5, <3>1 DEF IoPcb
    <3>2. CASE m.nombre \notin Dispositivos
      BY <1>5, <3>2 DEF IoPcb
    <3> QED
      BY <3>1, <3>2
  <2>2. /\ hilo[c].paso = "ioPcb" /\ pcb' = [pcb EXCEPT ![q] = b] /\ UNCHANGED progEncolados
    BY <1>5 DEF IoPcb, colas
  <2>3. Otros(c) /\ hilo'[c].paso = a /\ hilo'[c].prog = q
    BY <1>1, <2>1, PasoDelHilo
  <2>4. Devuelve(c, m, q) /\ m.op = "entradaSalidaKernel"
    BY <1>1, <2>2 DEF Fase, FaseFin, PasosFin, PasosIo
  <2>5. b.pc = cpu[c].pc /\ cpu[c].pid = q
    BY <2>4 DEF Devuelve, PcbDe
  <2>6. EnCurso(c)
    BY <2>2, <2>5 DEF EnCurso, PasosCurso
  <2>7. hilo'[c].paso \notin PasosCurso \cup {"recibir"}
    BY <2>3 DEF PasosCurso, PasosPedido, PasosWait, PasosSignal
  <2>8. ASSUME NEW p \in Programas, p # q, Listado(p)' \/ Aguarda(c, p)' PROVE EnEspera(p)
    <3>1. ~Aguarda(c, p)'
      BY <2>3, <2>8 DEF Aguarda
    <3>2. Listado(p)
      BY <1>2, <2>2, <2>8, <3>1, ListadoQuieto
    <3> QED
      BY <1>3, <3>2
  <2> HIDE DEF b
  <2> QED
    BY <2>2, <2>3, <2>5, <2>6, <2>7, <2>8, AvanceGuardado
<1>6. CASE RecargarSacar(c)
  <2>1. hilo[c].paso = "recargarSacar" /\ UNCHANGED progEncolados
    BY <1>6 DEF RecargarSacar, colas
  <2>2. PICK u \in 1..admitidos : u = q /\ pcb[u].pid = u /\ EnExec(u) # {}
    <3>1. hilo[c].paso \in PasosDueno
      BY <2>1 DEF PasosDueno
    <3> QED
      BY <3>1, HayEnExec
  <2>3. Devuelve(c, m, q) /\ m.op = "notificarPorFinRafaga"
    BY <1>1, <2>1 DEF Fase, FaseFin, PasosFin
  <2>4. b.pc = cpu[c].pc /\ cpu[c].pid = q /\ m.pid = q
    BY <2>3 DEF Devuelve, PcbDe
  <2>5. PICK i \in EnExec(u) :
          /\ hilo' = [hilo EXCEPT ![c].otro = listaExec[i], ![c].paso = "recargarReady"]
          /\ listaExec' = Sin(listaExec, i) /\ pcb' = [pcb EXCEPT ![listaExec[i]] = b]
    BY <1>6, <2>2, <2>4 DEF RecargarSacar
  <2>6. listaExec[i] = u
    BY <1>1, <2>2, <2>5, SacarDeExec
  <2>7. Otros(c) /\ hilo'[c].paso = "recargarReady" /\ hilo'[c].otro = q
    <3>1. hilo' = [hilo EXCEPT ![c].otro = u, ![c].paso = "recargarReady"]
      BY <2>5, <2>6
    <3>2. Otros(c) /\ hilo'[c].paso = "recargarReady" /\ hilo'[c].otro = u
      BY <1>1, <3>1 DEF HilosEnRegla, TipoHilo, Otros
    <3> QED
      BY <2>2, <3>2
  <2>8. pcb' = [pcb EXCEPT ![q] = b]
    BY <2>2, <2>5, <2>6
  <2>9. EnCurso(c)
    BY <2>1, <2>4 DEF EnCurso, PasosCurso
  <2>10. hilo'[c].paso \notin PasosCurso \cup {"recibir"}
    BY <2>7 DEF PasosCurso, PasosPedido, PasosWait, PasosSignal
  <2>11. ASSUME NEW p \in Programas, p # q, Listado(p)' \/ Aguarda(c, p)' PROVE EnEspera(p)
    <3>1. ~Aguarda(c, p)'
      BY <2>7, <2>11 DEF Aguarda
    <3>2. Listado(p)
      BY <1>2, <2>1, <2>11, <3>1, ListadoQuieto
    <3> QED
      BY <1>3, <3>2
  <2> HIDE DEF b
  <2> QED
    BY <2>4, <2>7, <2>8, <2>9, <2>10, <2>11, AvanceGuardado
<1> QED
  BY <1>4, <1>5, <1>6

\* A step of a device or of the PLP, which leaves threads, CPUs and PCBs alone: it
\* needs to know the programs in the lists.
LEMMA AvanceSinHilo ==
  ASSUME InvAvance, UNCHANGED <<hilo, canales, cpu, pcb>>,
         \A p \in Programas : Listado(p)' => EnEspera(p)
  PROVE  InvAvance'
<1>1. \A x \in CPUs : hilo'[x] = hilo[x] /\ cpu'[x] = cpu[x] /\ haciaCpu'[x] = haciaCpu[x]
                       /\ haciaKernel'[x] = haciaKernel[x]
  BY DEF canales
<1>2. /\ \A x \in CPUs : (EnCurso(x)' <=> EnCurso(x)) /\ (Dada(x)' <=> Dada(x))
      /\ \A x \in CPUs : \A p : Aguarda(x, p)' <=> Aguarda(x, p)
  BY <1>1, FrenteIgual
<1>3. \A p \in Programas : EnEspera(p)' => EnEspera(p)
  BY <1>2 DEF EnEspera
<1>4. CpusAlDia'
  BY <1>2 DEF InvAvance, CpusAlDia, Hasta
<1>5. PcbsAlDia'
  BY <1>3 DEF InvAvance, PcbsAlDia, Hasta
<1>6. MensajesAlDia'
  BY <1>2 DEF InvAvance, MensajesAlDia, canales
<1> QED
  BY <1>4, <1>5, <1>6 DEF InvAvance

\* A device takes programs from its queue and leaves them in READY.
LEMMA DispositivoAvanza ==
  ASSUME InvPCP, InvAvance, NEW d \in Dispositivos, UNCHANGED <<canales, cpu>>,
         DispEsperar(d) \/ DispSacar(d) \/ DispReady(d) \/ DispPost(d)
  PROVE  InvAvance'
<1>1. ListasEnRegla /\ DispositivosEnRegla
  BY DeTodos
<1>2. UNCHANGED <<hilo, pcb, admitidos>>
  BY DEF DispEsperar, DispSacar, DispReady, DispPost, plp
<1>3. SUFFICES ASSUME NEW p \in Programas, Listado(p)' PROVE EnEspera(p)
  BY <1>2, AvanceSinHilo
<1>4. \/ p > admitidos \/ Veces(listaReady', p) > 0 \/ Cardinality(Encolado(p)') > 0
      \/ Cardinality(EnManos(p)') > 0
  BY <1>2, <1>3, ListadoLuego
<1>5. p # Nadie
  BY DEF Programas, Nadie
<1>6. CASE DispEsperar(d) \/ DispPost(d)
  <2>1. /\ UNCHANGED <<listaReady, progEncolados>>
        /\ \A x \in Dispositivos : dispositivo'[x].prog = dispositivo[x].prog
    BY <1>1, <1>6 DEF DispEsperar, DispPost, ready, colas, DispositivosEnRegla
  <2>2. EnManos(p)' = EnManos(p)
    BY <2>1 DEF EnManos
  <2> QED
    BY <1>4, <2>1, <2>2, ColasQuietas DEF Listado
<1>7. CASE DispSacar(d)
  <2>1. dispositivo[d].paso = "sacar" /\ UNCHANGED listaReady
    BY <1>7 DEF DispSacar, ready
  <2>2. CASE progEncolados[d] = <<>>
    <3>1. UNCHANGED <<progEncolados, dispositivo>>
      BY <1>7, <2>2 DEF DispSacar
    <3> QED
      BY <1>4, <2>1, <3>1, ColasQuietas DEF Listado
  <2>3. CASE progEncolados[d] # <<>>
    <3>1. PICK q : q = Head(progEncolados[d])
      OBVIOUS
    <3>2. /\ dispositivo' = [dispositivo EXCEPT ![d] = [paso |-> "usar", prog |-> q]]
          /\ progEncolados' = [progEncolados EXCEPT ![d] = Tail(progEncolados[d])]
      BY <1>7, <2>3, <3>1 DEF DispSacar
    <3>3. Cardinality(Encolado(p)') = Cardinality(Encolado(p)) - Uno(q = p)
      BY <1>1, <2>3, <3>1, <3>2, Desencola
    <3>4. /\ \A x \in Dispositivos \ {d} : dispositivo'[x] = dispositivo[x]
          /\ dispositivo'[d].prog = q /\ dispositivo[d].prog # p
      BY <1>1, <1>5, <2>1, <3>2 DEF DispositivosEnRegla, Nadie
    <3>5. Cardinality(EnManos(p)') = Cardinality(EnManos(p)) + Uno(q = p) - Uno(FALSE)
      BY <3>4, ManosCuentan DEF Uno
    <3>6. Cardinality(Encolado(p)) \in Nat /\ Cardinality(EnManos(p)) \in Nat
      BY <1>1, EncoladoTipo, ManosTipo
    <3>7. CASE q = p
      <4>1. progEncolados[d] \in Seq(1..admitidos) /\ d \in DOMAIN progEncolados
        BY <1>1 DEF ListasEnRegla
      <4>2. 1 \in DOMAIN progEncolados[d] /\ progEncolados[d][1] = p
        BY <2>3, <3>1, <3>7, <4>1
      <4>3. <<d, 1>> \in Encolado(p)
        BY <4>1, <4>2 DEF Encolado
      <4>4. Cardinality(Encolado(p)) # 0
        BY <1>1, <4>3, EncoladoTipo, FS_EmptySet
      <4> QED
        BY <3>6, <4>4, ColasQuietas
    <3>8. CASE q # p
      <4>1. /\ Cardinality(Encolado(p)') = Cardinality(Encolado(p))
            /\ Cardinality(EnManos(p)') = Cardinality(EnManos(p))
        BY <3>3, <3>5, <3>6, <3>8 DEF Uno
      <4> QED
        BY <1>4, <2>1, <4>1, ColasQuietas DEF Listado
    <3> QED
      BY <3>7, <3>8
  <2> QED
    BY <2>2, <2>3
<1>8. CASE DispReady(d)
  <2>1. PICK q \in 0..admitidos : q = dispositivo[d].prog
    BY <1>1 DEF DispositivosEnRegla
  <2>2. /\ listaReady' = Append(listaReady, q) /\ UNCHANGED progEncolados
        /\ dispositivo' = [dispositivo EXCEPT ![d] = [paso |-> "post", prog |-> Nadie]]
    BY <1>8, <2>1 DEF DispReady, colas
  <2>3. Veces(listaReady', p) = Veces(listaReady, p) + Uno(q = p)
    BY <1>1, <2>2, ReadyCrece
  <2>4. /\ \A x \in Dispositivos \ {d} : dispositivo'[x] = dispositivo[x]
        /\ dispositivo'[d].prog # p
    BY <1>1, <1>5, <2>2 DEF DispositivosEnRegla
  <2>5. /\ Cardinality(EnManos(p)) \in Nat
        /\ Cardinality(EnManos(p)') = Cardinality(EnManos(p)) - Uno(q = p)
    BY <2>1, <2>4, ManosCuentan DEF Uno
  <2>6. CASE q = p
    <3>1. d \in EnManos(p)
      BY <2>1, <2>6 DEF EnManos
    <3>2. IsFiniteSet(EnManos(p))
      BY ParametrosPCP, FS_Subset DEF EnManos
    <3>3. Cardinality(EnManos(p)) # 0
      BY <3>1, <3>2, FS_EmptySet
    <3> QED
      BY <2>5, <3>3, ColasQuietas
  <2>7. CASE q # p
    <3>1. /\ Veces(listaReady', p) = Veces(listaReady, p)
          /\ Cardinality(EnManos(p)') = Cardinality(EnManos(p))
      BY <1>1, <2>3, <2>5, <2>7, ListaTipo DEF Uno
    <3> QED
      BY <1>4, <2>2, <3>1, ColasQuietas DEF Listado
  <2> QED
    BY <2>6, <2>7
<1> QED
  BY <1>6, <1>7, <1>8

\* A program that enters the system had not run.
LEMMA AdmisionAvanza ==
  ASSUME InvPCP, InvAvance, UNCHANGED <<canales, cpu>>, PonerEnReady \/ PostProductor
  PROVE  InvAvance'
<1>1. ListasEnRegla /\ admitidos \in Nat
  BY DeTodos
<1>2. UNCHANGED <<hilo, pcb, progEncolados, dispositivo>>
  BY DEF PonerEnReady, PostProductor, colas
<1>3. SUFFICES ASSUME NEW p \in Programas, Listado(p)' PROVE EnEspera(p)
  BY <1>2, AvanceSinHilo
<1>4. CASE PostProductor
  <2>1. UNCHANGED <<admitidos, listaReady>>
    BY <1>4 DEF PostProductor
  <2> QED
    BY <1>2, <1>3, <2>1, ListadoQuieto, ColasQuietas
<1>5. CASE PonerEnReady
  <2>1. PICK n : n = admitidos + 1
    OBVIOUS
  <2>2. admitidos' = n /\ listaReady' = Append(listaReady, n)
    BY <1>5, <2>1 DEF PonerEnReady
  <2>3. p \in Nat
    BY DEF Programas
  <2>4. CASE p > admitidos
    BY <2>4, ColasQuietas DEF Listado
  <2>5. CASE ~(p > admitidos)
    <3> DEFINE T == 0..n
               T0 == 0..admitidos
    <3>1. listaReady \in Seq(T0) /\ T0 \subseteq T /\ n \in T /\ n # p /\ ~(p > n)
      BY <1>1, <2>1, <2>3, <2>5 DEF ListasEnRegla
    <3> HIDE DEF T, T0
    <3>2. listaReady \in Seq(T)
      BY <3>1, ColaCrece
    <3>3. Veces(listaReady', p) = Veces(listaReady, p) + Uno(n = p)
      BY <2>2, <3>1, <3>2, VecesConUltimo
    <3>4. Veces(listaReady', p) = Veces(listaReady, p)
      BY <1>1, <3>1, <3>3, ListaTipo DEF Uno
    <3>5. \/ p > n \/ Veces(listaReady', p) > 0 \/ Cardinality(Encolado(p)') > 0
          \/ Cardinality(EnManos(p)') > 0
      BY <1>3, <2>2, ListadoLuego
    <3> QED
      BY <1>2, <3>1, <3>4, <3>5, ColasQuietas DEF Listado
  <2> QED
    BY <2>4, <2>5
<1> QED
  BY <1>4, <1>5

-----------------------------------------------------------------------------
(* Steps of the CPUs. *)

\* A CPU gets a PCB, whose counter is the newest of the program.
LEMMA RecibirPcbAvanza ==
  ASSUME InvPCP, InvAvance, NEW c \in CPUs, RecibirPcb(c), UNCHANGED varsPCP
  PROVE  InvAvance'
<1> DEFINE m == Head(haciaCpu[c])
<1>1. /\ cpu[c].paso = "recibirPcb" /\ haciaCpu[c] # <<>>
      /\ UNCHANGED <<haciaKernel, hilo, pcb, admitidos, listaReady, progEncolados, dispositivo>>
  BY DEF RecibirPcb, varsPCP, plp, ready, colas
<1>2. PICK r \in Restos(haciaCpu[c]) : haciaCpu' = [haciaCpu EXCEPT ![c] = r]
  BY DEF RecibirPcb
<1>3. PICK q \in Programas :
        /\ q = hilo[c].prog /\ haciaCpu[c] \in Seq(Mensajes)
        /\ hilo[c].paso = "recibir" /\ Dada(c) /\ Ociosa(c)
  BY <1>1, DeCpuEnRegla
<1>4. /\ Len(haciaCpu[c]) = 1 /\ EsPcb(haciaCpu[c][1], q)
      /\ haciaCpu[c][1].pc = pcb[q].pc
  BY <1>1, <1>3 DEF Dada, EnWait, InvAvance, MensajesAlDia
<1>5. m = haciaCpu[c][1] /\ r = <<>>
  BY <1>3, <1>4, RestosDeUno
<1>6. m.op = "atendeProceso" /\ m.pid = q /\ m.pc = pcb[q].pc
  BY <1>4, <1>5 DEF EsPcb
<1>7. cpu'[c].pid = q /\ cpu'[c].pc = pcb[q].pc /\ \A x \in CPUs \ {c} : cpu'[x] = cpu[x]
  <2>1. cpu' = [cpu EXCEPT ![c] =
                  [paso |-> "ejecutar", pid |-> m.pid, pc |-> m.pc, i |-> 0,
                   estadoRafaga |-> "notificarPorFinRafaga", fallas |-> 0,
                   manejador |-> cpu[c].manejador]]
    BY <1>6 DEF RecibirPcb
  <2> HIDE DEF m
  <2> QED
    BY <1>6, <2>1, DeTodos DEF CpusEnRegla
<1> HIDE DEF m
<1>8. haciaCpu'[c] = <<>> /\ \A x \in CPUs \ {c} : haciaCpu'[x] = haciaCpu[x]
  BY <1>2, <1>5, DeTodos DEF CanalesEnRegla
<1>9. ~Dada(c)'
  <2>1. Len(<<>>) = 0
    OBVIOUS
  <2> QED
    BY <1>8, <2>1 DEF Dada
<1>10. /\ \A x \in CPUs \ {c} : (EnCurso(x)' <=> EnCurso(x)) /\ (Dada(x)' <=> Dada(x))
       /\ \A x \in CPUs \ {c} : \A p : Aguarda(x, p)' <=> Aguarda(x, p)
  BY <1>1, <1>7, <1>8, FrenteIgual
<1>11. EnEspera(q)
  BY <1>3 DEF EnEspera, Aguarda
<1>12. Hasta(q, pcb[q].pc)
  BY <1>11 DEF InvAvance, PcbsAlDia
<1>13. pcb[q].pc \in Nat
  BY DeTodos DEF ListasEnRegla
<1>14. CpusAlDia'
  <2>1. ASSUME NEW x \in CPUs, EnCurso(x)'
        PROVE  /\ pcb'[hilo'[x].prog].pc <= cpu'[x].pc
               /\ \A d \in CPUs : cpu'[d].pid = hilo'[x].prog => cpu'[d].pc <= cpu'[x].pc
    <3>1. CASE x = c
      <4>1. ASSUME NEW d \in CPUs, cpu'[d].pid = q PROVE cpu'[d].pc <= pcb[q].pc
        <5>1. CASE d = c
          BY <1>7, <1>13, <5>1
        <5>2. CASE d # c
          BY <1>7, <1>12, <4>1, <5>2 DEF Hasta
        <5> QED
          BY <5>1, <5>2
      <4> QED
        BY <1>1, <1>3, <1>7, <1>13, <3>1, <4>1
    <3>2. CASE x # c
      <4>1. EnCurso(x)
        BY <1>10, <2>1, <3>2
      <4>2. hilo[x].prog # q
        BY <1>11, <4>1, EnCursoUnico
      <4>3. pcb[hilo[x].prog].pc <= cpu[x].pc /\ Hasta(hilo[x].prog, cpu[x].pc)
        BY <4>1 DEF InvAvance, CpusAlDia
      <4> QED
        BY <1>1, <1>7, <3>2, <4>2, <4>3 DEF Hasta
    <3> QED
      BY <3>1, <3>2
  <2> QED
    BY <2>1 DEF CpusAlDia, Hasta
<1>15. PcbsAlDia'
  <2>1. ASSUME NEW p \in Programas, EnEspera(p)'
        PROVE  \A d \in CPUs : cpu'[d].pid = p => cpu'[d].pc <= pcb'[p].pc
    <3>1. Listado(p)' <=> Listado(p)
      BY <1>1, ListadoQuieto
    <3>2. Aguarda(c, p)' => FALSE
      BY <1>1, <1>3, <1>9 DEF Aguarda
    <3>3. EnEspera(p)
      BY <1>10, <2>1, <3>1, <3>2 DEF EnEspera
    <3>4. Hasta(p, pcb[p].pc)
      BY <3>3 DEF InvAvance, PcbsAlDia
    <3>5. ASSUME NEW d \in CPUs, cpu'[d].pid = p PROVE cpu'[d].pc <= pcb[p].pc
      <4>1. CASE d = c
        BY <1>7, <1>13, <3>5, <4>1
      <4>2. CASE d # c
        BY <1>7, <3>4, <3>5, <4>2 DEF Hasta
      <4> QED
        BY <4>1, <4>2
    <3> QED
      BY <1>1, <3>5
  <2> QED
    BY <2>1 DEF PcbsAlDia, Hasta
<1>16. MensajesAlDia'
  BY <1>1, <1>8, <1>9, <1>10 DEF InvAvance, MensajesAlDia
<1> QED
  BY <1>14, <1>15, <1>16 DEF InvAvance

\* A CPU that executes a line, whatever the line does.
LEMMA LineaAvanza ==
  ASSUME ProgramasEnRegla, InvPCP, InvAvance, NEW c \in CPUs, UNCHANGED varsPCP,
         EjecutarLinea(c) \/ Pedir(c) \/ Fallar(c)
  PROVE  InvAvance'
<1>1. cpu \in [CPUs -> TipoCpu] /\ cpu[c] \in TipoCpu /\ FaseCpu(c) /\ CanalesEnRegla
  BY DeTodos, DeCpuEnRegla DEF CpusEnRegla
<1>2. ~(cpu[c].fallas > 0)
  BY <1>1 DEF FaseCpu
<1>3. /\ cpu[c].paso = "ejecutar" /\ cpu[c].estadoRafaga = "notificarPorFinRafaga"
      /\ UNCHANGED <<haciaCpu, conectada>>
  BY <1>2 DEF EjecutarLinea, Pedir, Fallar, puedeSeguirEjecutando
<1>4. ~Ociosa(c)
  BY <1>3 DEF Ociosa
<1>5. hilo[c].paso = "recibir" /\ Corre(c)
  BY <1>3, <1>4, DeCpuEnRegla
<1>6. EnCurso(c)
  BY <1>5 DEF EnCurso, Corre, Ejecuta
<1>7. UNCHANGED haciaKernel \/ \E m : EnviarAKernel(c, m)
  BY DEF EjecutarLinea, Pedir, Fallar
<1>8. PICK k : /\ cpu' = [cpu EXCEPT ![c] = k]
               /\ k.pid = cpu[c].pid /\ k.pc = cpu[c].pc + 1
  <2>1. CASE EjecutarLinea(c)
    <3> DEFINE s == [cpu[c] EXCEPT !.pc = @ + 1, !.i = @ + 1]
    <3>1. s.pid = cpu[c].pid /\ s.pc = cpu[c].pc + 1
      BY <1>1 DEF TipoCpu
    <3>2. \A e : [s EXCEPT !.estadoRafaga = e].pid = s.pid
                 /\ [s EXCEPT !.estadoRafaga = e].pc = s.pc
      BY <1>1 DEF TipoCpu
    <3>3. \/ cpu' = [cpu EXCEPT ![c] = s]
          \/ \E e : cpu' = [cpu EXCEPT ![c] = [s EXCEPT !.estadoRafaga = e]]
      BY <2>1 DEF EjecutarLinea
    <3> HIDE DEF s
    <3> QED
      BY <3>1, <3>2, <3>3
  <2>2. CASE Pedir(c)
    <3> DEFINE n == cpu[c].pc + 1
               k == [cpu[c] EXCEPT !.paso = "respuesta", !.pc = n]
    <3>1. cpu' = [cpu EXCEPT ![c].paso = "respuesta", ![c].pc = n]
      BY <2>2 DEF Pedir
    <3> HIDE DEF n
    <3>2. cpu' = [cpu EXCEPT ![c] = k]
      BY <1>1, <3>1
    <3>3. k.pid = cpu[c].pid /\ k.pc = n
      BY <1>1 DEF TipoCpu
    <3> QED
      BY <3>2, <3>3 DEF n
  <2>3. CASE Fallar(c)
    <3> DEFINE l == ProximaLinea(c)
               j == [cpu[c] EXCEPT !.pc = @ + 1, !.i = @ + 1, !.estadoRafaga = "exception",
                                   !.fallas = l.fallas - 1]
    <3> HIDE DEF l
    <3>1. cpu' = [cpu EXCEPT ![c] = j]
      BY <1>2, <2>3 DEF Fallar, l
    <3>2. j.pid = cpu[c].pid /\ j.pc = cpu[c].pc + 1
      BY <1>1 DEF TipoCpu
    <3> QED
      BY <3>1, <3>2
  <2> QED
    BY <2>1, <2>2, <2>3
<1>9. cpu'[c] = k /\ Ajenos(c)
  <2>1. cpu'[c] = k /\ \A x \in CPUs \ {c} : cpu'[x] = cpu[x]
    BY <1>1, <1>8
  <2>2. \A x \in CPUs \ {c} : haciaKernel'[x] = haciaKernel[x]
    BY <1>1, <1>7 DEF EnviarAKernel, CanalesEnRegla
  <2> QED
    BY <1>3, <2>1, <2>2 DEF Ajenos
<1>10. ~Dada(c)'
  <2>1. haciaCpu'[c] = <<>> /\ Len(<<>>) = 0
    BY <1>3, <1>5 DEF Corre
  <2> QED
    BY <2>1 DEF Dada
<1>11. MensajeAlDia(c)'
  BY <1>10 DEF MensajeAlDia
<1> QED
  BY <1>6, <1>8, <1>9, <1>10, <1>11, AvanceUnaLinea

\* The end of a burst.
LEMMA TerminarAvanza ==
  ASSUME InvPCP, InvAvance, NEW c \in CPUs, UNCHANGED varsPCP, TerminarRafaga(c)
  PROVE  InvAvance'
<1>1. cpu \in [CPUs -> TipoCpu] /\ cpu[c] \in TipoCpu /\ FaseCpu(c) /\ CanalesEnRegla
  BY DeTodos, DeCpuEnRegla DEF CpusEnRegla
<1>2. /\ cpu[c].paso = "ejecutar" /\ UNCHANGED <<haciaCpu, conectada, hilo, pcb, admitidos,
                                                  listaReady, progEncolados, dispositivo>>
      /\ cpu' = [cpu EXCEPT ![c].paso = "recibirPcb", ![c].manejador = TRUE]
  BY DEF TerminarRafaga, varsPCP, plp, ready, colas
<1>3. /\ cpu'[c].paso = "recibirPcb" /\ cpu'[c].pid = cpu[c].pid /\ cpu'[c].pc = cpu[c].pc
      /\ \A x \in CPUs \ {c} : cpu'[x] = cpu[x]
  BY <1>1, <1>2 DEF TipoCpu
<1>4. Otros(c) /\ Ajenos(c)
  <2>1. UNCHANGED haciaKernel \/ \E m : EnviarAKernel(c, m)
    BY DEF TerminarRafaga
  <2>2. \A x \in CPUs \ {c} : haciaKernel'[x] = haciaKernel[x]
    BY <1>1, <2>1 DEF EnviarAKernel, CanalesEnRegla
  <2> QED
    BY <1>2, <1>3, <2>2 DEF Ajenos, Otros
<1>5. ~Corre(c)' /\ ~Pide(c)' /\ ~Contestada(c)'
  BY <1>3 DEF Corre, Ejecuta, Pide, Pregunta, Contestada
<1>6. /\ Dada(c)' => Dada(c)
      /\ hilo[c].paso = "recibir" /\ Devuelta(c)' /\ cpu[c].pid = hilo[c].prog => EnCurso(c)
  <2>1. CASE cpu[c].estadoRafaga \in {"entradaSalidaKernel", "waitPcbBloqueado", "exception"}
    <3>1. UNCHANGED haciaKernel /\ Ociosa(c)
      BY <1>2, <2>1 DEF TerminarRafaga, Ociosa
    <3>2. Dada(c)' => Dada(c)
      BY <1>2, <1>3, <3>1 DEF Dada, EnWait, EsPcb
    <3>3. Devuelta(c)' => Devuelta(c)
      BY <1>2, <1>3, <3>1 DEF Devuelta, Devuelve
    <3> QED
      BY <3>2, <3>3 DEF EnCurso
  <2>2. CASE cpu[c].estadoRafaga \notin {"entradaSalidaKernel", "waitPcbBloqueado", "exception"}
    <3>1. cpu[c].estadoRafaga \in {"notificarPorFinRafaga", "notificarPorFinPrograma"}
          /\ ~Ociosa(c)
      BY <1>2, <2>2 DEF TerminarRafaga, Ociosa
    <3>2. hilo[c].paso = "recibir" /\ Corre(c)
      BY <1>2, <3>1, DeCpuEnRegla
    <3>3. haciaCpu'[c] = <<>> /\ Len(<<>>) = 0
      BY <1>2, <3>2 DEF Corre
    <3>4. ~Dada(c)'
      BY <3>3 DEF Dada
    <3> QED
      BY <3>2, <3>4 DEF EnCurso
  <2> QED
    BY <2>1, <2>2
<1>7. EnCurso(c)' => EnCurso(c)
  BY <1>2, <1>3, <1>5, <1>6 DEF EnCurso
<1>8. Conocidos(c)
  <2> SUFFICES ASSUME NEW p \in Programas, Listado(p)' \/ Aguarda(c, p)' PROVE EnEspera(p)
    BY DEF Conocidos
  <2>1. Listado(p)' <=> Listado(p)
    BY <1>2, ListadoQuieto
  <2>2. Aguarda(c, p)' => Aguarda(c, p)
    BY <1>2, <1>6 DEF Aguarda
  <2> QED
    BY <2>1, <2>2 DEF EnEspera
<1>9. MensajeAlDia(c)'
  BY <1>2, <1>6 DEF MensajeAlDia, InvAvance, MensajesAlDia
<1> QED
  BY <1>2, <1>3, <1>4, <1>7, <1>8, <1>9, AvanceQuieto

\* An answer, after which a PCB may be waiting in the socket.
LEMMA RespuestaAvanza ==
  ASSUME InvPCP, InvAvance, NEW c \in CPUs, UNCHANGED varsPCP, RecibirRespuesta(c)
  PROVE  InvAvance'
<1> DEFINE l == LineaActual(c)
           m == Head(haciaCpu[c])
           e == EstadoTras(l.op, m.op)
<1>1. /\ cpu \in [CPUs -> TipoCpu] /\ cpu[c] \in TipoCpu /\ FaseCpu(c) /\ CanalesEnRegla
      /\ haciaCpu[c] \in Seq(Mensajes)
  BY DeTodos, DeCpuEnRegla DEF CpusEnRegla
<1>2. /\ cpu[c].paso = "respuesta" /\ haciaCpu[c] # <<>>
      /\ UNCHANGED <<haciaKernel, conectada, hilo, pcb, admitidos, listaReady, progEncolados,
                     dispositivo>>
      /\ cpu' = [cpu EXCEPT ![c].paso = "ejecutar", ![c].i = @ + 1, ![c].estadoRafaga = e]
  BY DEF RecibirRespuesta, varsPCP, plp, ready, colas
<1>3. PICK r \in Restos(haciaCpu[c]) : haciaCpu' = [haciaCpu EXCEPT ![c] = r]
  BY DEF RecibirRespuesta
<1>4. m.op # "continuar" /\ l.op = "wait" => e = "waitPcbBloqueado"
  BY DEF EstadoTras
<1> HIDE DEF e
<1>5. /\ cpu'[c].paso = "ejecutar" /\ cpu'[c].pid = cpu[c].pid /\ cpu'[c].pc = cpu[c].pc
      /\ cpu'[c].estadoRafaga = e
      /\ \A x \in CPUs \ {c} : cpu'[x] = cpu[x]
  BY <1>1, <1>2 DEF TipoCpu
<1>6. haciaCpu'[c] = r /\ \A x \in CPUs \ {c} : haciaCpu'[x] = haciaCpu[x]
  BY <1>1, <1>3 DEF CanalesEnRegla
<1>7. Otros(c) /\ Ajenos(c)
  BY <1>2, <1>5, <1>6 DEF Ajenos, Otros
<1>8. /\ \/ hilo[c].paso \in PasosLibres
         \/ hilo[c].paso = "recibir" /\ Dada(c) /\ EnWait(c)
         \/ hilo[c].paso = "recibir" /\ Contestada(c)
  BY <1>2, DeCpuEnRegla
<1>9. CASE hilo[c].paso \in PasosLibres
  <2>1. hilo'[c].paso = hilo[c].paso /\ hilo[c].paso # "recibir"
    BY <1>2, <1>9 DEF PasosLibres
  <2>2. ~EnCurso(c)'
    BY <1>9, <2>1 DEF EnCurso, PasosLibres, PasosCurso, PasosPedido, PasosWait, PasosSignal
  <2>3. Conocidos(c)
    <3> SUFFICES ASSUME NEW p \in Programas, Listado(p)' \/ Aguarda(c, p)' PROVE EnEspera(p)
      BY DEF Conocidos
    <3>1. Listado(p)' <=> Listado(p)
      BY <1>2, ListadoQuieto
    <3>2. Aguarda(c, p)' => Aguarda(c, p)
      BY <1>2, <2>1 DEF Aguarda
    <3> QED
      BY <3>1, <3>2 DEF EnEspera
  <2>4. MensajeAlDia(c)'
    BY <2>1 DEF MensajeAlDia
  <2> QED
    BY <1>2, <1>5, <1>7, <2>2, <2>3, <2>4, AvanceQuieto
<1>10. CASE hilo[c].paso = "recibir" /\ Dada(c) /\ EnWait(c)
  <2>1. /\ Len(haciaCpu[c]) = 2 /\ haciaCpu[c][1] \in Rechazos /\ haciaKernel[c] = <<>>
    BY <1>10 DEF Dada, EnWait, Ociosa
  <2>2. m \in Rechazos /\ (r = <<>> \/ (r \in Seq(Mensajes) /\ Len(r) = 1 /\ r[1] = haciaCpu[c][2]))
    BY <1>1, <2>1, RestosDeDos
  <2>3. e = "waitPcbBloqueado"
    BY <1>4, <1>10, <2>2 DEF EnWait, Rechazos, Respuesta, Mensaje
  <2>4. ~EnCurso(c)'
    <3>1. ~Corre(c)' /\ ~Pide(c)' /\ ~Contestada(c)'
      BY <1>5, <2>3 DEF Corre, Ejecuta, Pide, Pregunta, Contestada
    <3>2. haciaKernel'[c] = <<>> /\ Len(<<>>) = 0
      BY <1>2, <2>1
    <3>3. ~Devuelta(c)'
      BY <3>2 DEF Devuelta
    <3>4. hilo'[c].paso = "recibir"
      BY <1>2, <1>10
    <3> QED
      BY <3>1, <3>3, <3>4 DEF EnCurso, PasosCurso, PasosPedido, PasosWait, PasosSignal
  <2>5. Conocidos(c)
    <3> SUFFICES ASSUME NEW p \in Programas, Listado(p)' \/ Aguarda(c, p)' PROVE EnEspera(p)
      BY DEF Conocidos
    <3>1. Listado(p)' <=> Listado(p)
      BY <1>2, ListadoQuieto
    <3>2. Aguarda(c, p)' => Aguarda(c, p)
      BY <1>2, <1>10 DEF Aguarda
    <3> QED
      BY <3>1, <3>2 DEF EnEspera
  <2>6. MensajeAlDia(c)'
    <3> SUFFICES ASSUME Dada(c)' PROVE haciaCpu'[c][Len(haciaCpu'[c])].pc = pcb'[hilo'[c].prog].pc
      BY DEF MensajeAlDia
    <3>1. Len(r) = 1 /\ r[1] = haciaCpu[c][2]
      <4>1. Len(haciaCpu'[c]) \in {1, 2} /\ Len(<<>>) = 0
        BY DEF Dada
      <4> QED
        BY <1>6, <2>2, <4>1
    <3>2. haciaCpu[c][2].pc = pcb[hilo[c].prog].pc
      BY <1>10, <2>1 DEF InvAvance, MensajesAlDia
    <3> QED
      BY <1>2, <1>6, <3>1, <3>2
  <2> QED
    BY <1>2, <1>5, <1>7, <2>4, <2>5, <2>6, AvanceQuieto
<1>11. CASE hilo[c].paso = "recibir" /\ Contestada(c)
  <2>1. EnCurso(c)
    BY <1>11 DEF EnCurso, Contestada, Pregunta
  <2>2. r = <<>> /\ Len(<<>>) = 0
    <3>1. PICK op \in {"continuar", "terminar"} : haciaCpu[c] = <<Respuesta(op)>>
      BY <1>11 DEF Contestada
    <3>2. Len(haciaCpu[c]) = 1
      BY <3>1
    <3> QED
      BY <1>1, <3>2, RestosDeUno
  <2>3. ~Dada(c)'
    BY <1>6, <2>2 DEF Dada
  <2>4. Conocidos(c)
    <3> SUFFICES ASSUME NEW p \in Programas, Listado(p)' \/ Aguarda(c, p)' PROVE EnEspera(p)
      BY DEF Conocidos
    <3>1. Listado(p)' <=> Listado(p)
      BY <1>2, ListadoQuieto
    <3>2. ~Aguarda(c, p)'
      BY <1>2, <1>11, <2>3 DEF Aguarda
    <3> QED
      BY <3>1, <3>2 DEF EnEspera
  <2>5. MensajeAlDia(c)'
    BY <2>3 DEF MensajeAlDia
  <2> QED
    BY <1>2, <1>5, <1>7, <2>1, <2>4, <2>5, AvanceQuieto
<1> QED
  BY <1>8, <1>9, <1>10, <1>11

-----------------------------------------------------------------------------
(* The theorems. *)

\* At the start every program is outside and no CPU has one.
LEMMA AvanceInicial ==
  ASSUME Init
  PROVE  InvAvance
<1>1. /\ \A c \in CPUs : hilo[c].paso = "esperar" /\ cpu[c].pid = Nadie
  BY DEF Init, InitPCP, InitCpu, Hilo
<1>2. \A c \in CPUs : ~EnCurso(c) /\ hilo[c].paso # "recibir"
  BY <1>1 DEF EnCurso, PasosCurso, PasosPedido, PasosWait, PasosSignal
<1>3. \A p \in Programas : \A n : Hasta(p, n)
  BY <1>1 DEF Hasta, Programas, Nadie
<1> QED
  BY <1>2, <1>3 DEF InvAvance, CpusAlDia, PcbsAlDia, MensajesAlDia

\* A step of the kernel, by the part of it that steps.
LEMMA KernelAvanza ==
  ASSUME ProgramasEnRegla, InvPCP, InvAvance, NextPCP, UNCHANGED cpu
  PROVE  InvAvance'
<1>1. CASE Admision
  BY <1>1, AdmisionAvanza DEF Admision
<1>2. ASSUME NEW c \in CPUs, pfnControladorConexion(c) PROVE InvAvance'
  <2>1. CASE Recibir(c)
    BY <2>1, RecibirAvanza
  <2>2. CASE Enviar(c)
    BY <2>2, EnviarAvanza
  <2>3. CASE Interno(c)
    <3>1. UNCHANGED <<canales, cpu>>
      BY <2>3 DEF Interno
    <3>2. CASE EsperarReady(c) \/ WaitLeer(c) \/ WaitEscribir(c) \/ WaitSacar(c)
                 \/ SignalLeer(c) \/ SignalEscribir(c) \/ SignalProbar(c) \/ SignalPost(c)
                 \/ IoSacar(c) \/ IoPost(c) \/ RecargarPost(c) \/ ExitSacar(c)
                 \/ ExitAgregar(c)
      BY <3>1, <3>2, InternoAvanza
    <3>3. CASE SacarReady(c) \/ CargarExec(c)
      BY <3>1, <3>3, DespachoAvanza
    <3>4. CASE SignalReady(c) \/ RecargarReady(c)
      BY <3>1, <3>4, ReadyAvanza
    <3>5. CASE SignalSacar(c) \/ IoEncolar(c)
      BY <3>1, <3>5, ColasAvanzan
    <3>6. CASE WaitEncolar(c) \/ IoPcb(c) \/ RecargarSacar(c)
      BY <3>1, <3>6, GuardarAvanza
    <3> QED
      BY <2>3, <3>2, <3>3, <3>4, <3>5, <3>6 DEF Interno
  <2> QED
    BY <1>2, <2>1, <2>2, <2>3 DEF pfnControladorConexion
<1>3. ASSUME NEW d \in Dispositivos, fnDispositivos(d) PROVE InvAvance'
  BY <1>3, DispositivoAvanza DEF fnDispositivos
<1> QED
  BY <1>1, <1>2, <1>3 DEF NextPCP

\* A step of a CPU.
LEMMA CpuAvanza ==
  ASSUME ProgramasEnRegla, InvPCP, InvAvance, NextCpu, UNCHANGED varsPCP
  PROVE  InvAvance'
<1>1. PICK c \in CPUs : EjecutarRafaga(c) \/ signal_handler(c)
  BY DEF NextCpu
<1>2. ~signal_handler(c)
  BY DEF signal_handler, ProgramasEnRegla
<1>3. \/ RecibirPcb(c) \/ EjecutarLinea(c) \/ Pedir(c) \/ RecibirRespuesta(c) \/ Fallar(c)
      \/ TerminarRafaga(c)
  BY <1>1, <1>2 DEF EjecutarRafaga
<1> QED
  BY <1>3, RecibirPcbAvanza, LineaAvanza, RespuestaAvanza, TerminarAvanza

\* A step in which nothing moves.
LEMMA QuietoAvanza ==
  ASSUME InvAvance, UNCHANGED vars
  PROVE  InvAvance'
<1>1. UNCHANGED <<hilo, canales, cpu, pcb, admitidos, listaReady, progEncolados, dispositivo>>
  BY DEF vars, varsPCP, plp, ready, colas
<1>2. \A p \in Programas : Listado(p)' => EnEspera(p)
  BY <1>1, ListadoQuieto DEF EnEspera
<1> QED
  BY <1>1, <1>2, AvanceSinHilo

\* The newest counter of a program is in the CPU that executes it or, if it waits to
\* be executed, in its PCB and in the message that carries it.
THEOREM InvarianteAvance == ProgramasEnRegla /\ Spec => []InvAvance
<1>1. SUFFICES ASSUME ProgramasEnRegla PROVE Spec => []InvAvance
  OBVIOUS
<1>2. Spec => []InvPCP
  BY <1>1, InvariantePCP
<1>3. Init => InvAvance
  BY AvanceInicial
<1>4. InvPCP /\ InvAvance /\ [Next]_vars => InvAvance'
  BY <1>1, KernelAvanza, CpuAvanza, QuietoAvanza DEF Next
<1> QED
  BY <1>2, <1>3, <1>4, PTL DEF Spec

\* A CPU executes the line after the last that any CPU executed of its program.
LEMMA SinRetrocesoBasta ==
  ASSUME InvPCP, InvAvance
  PROVE  SinRetroceso
<1> SUFFICES ASSUME NEW c \in CPUs, cpu[c].paso = "ejecutar", puedeSeguirEjecutando(c)
             PROVE  cpu[c].pc = Avance(cpu[c].pid)
  BY DEF SinRetroceso
<1>1. cpu[c].estadoRafaga = "notificarPorFinRafaga" /\ ~Ociosa(c)
  BY DEF puedeSeguirEjecutando, Ociosa
<1>2. hilo[c].paso = "recibir" /\ Corre(c) /\ hilo[c].prog \in Programas
  BY <1>1, DeCpuEnRegla
<1>3. EnCurso(c) /\ cpu[c].pid = hilo[c].prog
  BY <1>2 DEF EnCurso, Corre, Ejecuta
<1>4. PICK p \in Programas : p = cpu[c].pid
  BY <1>2, <1>3
<1>5. pcb[p].pc <= cpu[c].pc /\ Hasta(p, cpu[c].pc)
  BY <1>3, <1>4 DEF InvAvance, CpusAlDia
<1> DEFINE pcs == {pcb[p].pc} \cup {cpu[d].pc : d \in {x \in CPUs : cpu[x].pid = p}}
<1>6. /\ cpu[c].pc \in pcs /\ pcs \subseteq Nat
      /\ \A n \in pcs : n <= cpu[c].pc
  BY <1>4, <1>5, DeTodos DEF Hasta, ListasEnRegla, CpusEnRegla, TipoCpu
<1>7. Avance(p) = CHOOSE n \in pcs : \A k \in pcs : k <= n
  BY DEF Avance
<1> HIDE DEF pcs
<1>8. Avance(p) \in pcs /\ \A k \in pcs : k <= Avance(p)
  BY <1>6, <1>7
<1>9. Avance(p) = cpu[c].pc
  <2>1. PICK v \in Nat : v = Avance(p) /\ \A k \in pcs : k <= v
    BY <1>6, <1>8
  <2>2. v <= cpu[c].pc /\ cpu[c].pc <= v /\ cpu[c].pc \in Nat
    BY <1>6, <1>8, <2>1
  <2> QED
    BY <2>1, <2>2
<1> QED
  BY <1>4, <1>9

\* The PCB a CPU gets is up to date, whatever the program went through since it last
\* ran.
THEOREM NuncaRetrocede == ProgramasEnRegla /\ Spec => []SinRetroceso
<1>1. InvPCP /\ InvAvance => SinRetroceso
  BY SinRetrocesoBasta
<1> QED
  BY <1>1, InvariantePCP, InvarianteAvance, PTL

=============================================================================
