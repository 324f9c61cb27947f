---------------------------- MODULE PCPRefina_proof ----------------------------
(***************************************************************************)
(* The kernel's threads and the CPUs implement CortoPlazo, unless fnUnlock *)
(* puts a NULL in READY (SenalesSinNull) or a program waits on a semaphore *)
(* that is not configured (SemaforosExisten).                              *)
(***************************************************************************)
EXTENDS PCPAvance_proof

-----------------------------------------------------------------------------
(* What is known of a program that is ending. *)

\* The CPU has the program of its thread at a line that may end it.
LineaFinal(c, p) == cpu[c].pid = p /\ cpu[c].pc \in Finales[p]

\* m ends its program.
Mortal(m) ==
  \/ m.op \in {"notificarPorFinPrograma", "exception"}
  \/ m.op = "entradaSalidaKernel" /\ m.nombre \notin Dispositivos

\* The program of thread c is about to be ended.
Muere(c) ==
  \/ /\ hilo[c].paso = "recibir"
     /\ \/ Corre(c) /\ cpu[c].estadoRafaga = "notificarPorFinPrograma"
        \/ Contestada(c) /\ haciaCpu[c] = <<Respuesta("terminar")>>
        \/ Devuelta(c) /\ Mortal(haciaKernel[c][1])
  \/ hilo[c].paso = "ioPcb" /\ Mortal(hilo[c].msg)
  \/ hilo[c].paso = "signalInexistente"

\* Thread c is moving p to EXIT.
Sale(c, p) ==
  \/ hilo[c].paso = "exitSacar" /\ hilo[c].prog = p
  \/ hilo[c].paso = "exitAgregar" /\ hilo[c].otro = p

FinEnRegla(c) == Muere(c) => LineaFinal(c, hilo[c].prog)
SalidaEnRegla(c) ==
  \A p \in Programas :
    Sale(c, p) => LineaFinal(c, p) /\ pcb[p].pc <= cpu[c].pc /\ Hasta(p, cpu[c].pc)

\* A counter that a CPU has kept is the newest only while its program is executed or
\* ended.
SobraEnRegla(c) ==
  \A p \in Programas :
    cpu[c].pid = p =>
      EnCurso(c) \/ Sale(c, p) \/ p \in EnCola(exitProcesos) \/ cpu[c].pc <= pcb[p].pc

InvCorto ==
  \A c \in CPUs :
    /\ hilo[c].paso # "waitInexistente"
    /\ FinEnRegla(c) /\ SalidaEnRegla(c) /\ SobraEnRegla(c)

-----------------------------------------------------------------------------
(* The places that CortoPlazo tells apart exclude each other. *)

EnReady(p) == p \in EnCola(listaReady)
EnExit(p) == p \in EnCola(exitProcesos)
EnColas(p) == p \in UNION {EnCola(progEncolados[r]) : r \in DOMAIN progEncolados}
EnDisp(p) == \E d \in Dispositivos : dispositivo[d].prog = p
EnHilo(p) == \E c \in CPUs : Lleva(hilo[c], p)
Senalado(p) == \E c \in HilosEn({"signalReady"}) : hilo[c].otro = p

Excluyentes ==
  \A p \in Programas :
    /\ p > admitidos =>
         ~EnReady(p) /\ ~EnExit(p) /\ ~EnColas(p) /\ ~EnDisp(p) /\ ~EnHilo(p)
    /\ EnReady(p) => ~EnExit(p) /\ ~EnColas(p) /\ ~EnDisp(p) /\ ~EnHilo(p)
    /\ EnExit(p) => ~EnColas(p) /\ ~EnDisp(p) /\ ~EnHilo(p)
    /\ EnColas(p) => ~EnDisp(p) /\ ~EnHilo(p)
    /\ EnDisp(p) => ~EnHilo(p)
    /\ \A c, d \in CPUs : Lleva(hilo[c], p) /\ Lleva(hilo[d], p) => c = d
    /\ \A c, d \in Dispositivos : dispositivo[c].prog = p /\ dispositivo[d].prog = p => c = d

\* The counts of EnSuLugar say so.
LEMMA SeExcluyen == InvPCP => Excluyentes
<1> SUFFICES ASSUME InvPCP, NEW p \in Programas
             PROVE  /\ p > admitidos =>
                         ~EnReady(p) /\ ~EnExit(p) /\ ~EnColas(p) /\ ~EnDisp(p) /\ ~EnHilo(p)
                    /\ EnReady(p) => ~EnExit(p) /\ ~EnColas(p) /\ ~EnDisp(p) /\ ~EnHilo(p)
                    /\ EnExit(p) => ~EnColas(p) /\ ~EnDisp(p) /\ ~EnHilo(p)
                    /\ EnColas(p) => ~EnDisp(p) /\ ~EnHilo(p)
                    /\ EnDisp(p) => ~EnHilo(p)
                    /\ \A c, d \in CPUs : Lleva(hilo[c], p) /\ Lleva(hilo[d], p) => c = d
                    /\ \A c, d \in Dispositivos :
                         dispositivo[c].prog = p /\ dispositivo[d].prog = p => c = d
  BY DEF Excluyentes
<1> DEFINE T == 0..admitidos
           U == 1..admitidos
           L == Llevan(p)
           D == EnManos(p)
           I == EntreDosListas(p)
           O == Duenos(p)
<1>1. /\ admitidos \in Nat /\ ListasEnRegla /\ HilosEnRegla /\ DispositivosEnRegla /\ Lugares
      /\ p \in Nat /\ p # 0
  BY DeTodos DEF Programas
<1>2. /\ listaReady \in Seq(T) /\ exitProcesos \in Seq(U)
      /\ DOMAIN progEncolados = Semaforos \cup Dispositivos
      /\ \A r \in DOMAIN progEncolados : progEncolados[r] \in Seq(U)
  BY <1>1 DEF ListasEnRegla
<1>3. /\ L \subseteq CPUs /\ IsFiniteSet(L) /\ Cardinality(L) \in Nat
      /\ \A c \in CPUs : c \in L <=> Lleva(hilo[c], p)
  <2>1. \A c : c \in L <=> c \in CPUs /\ Lleva(hilo[c], p)
    BY DEF Llevan, HilosEn, Lleva
  <2>2. L \subseteq CPUs
    BY <2>1
  <2> HIDE DEF L
  <2> QED
    BY <2>1, <2>2, ParametrosConexion, FS_Subset, FS_CardinalityType
<1>4. /\ IsFiniteSet(D) /\ Cardinality(D) \in Nat
      /\ \A d \in Dispositivos : d \in D <=> dispositivo[d].prog = p
  <2>1. D \subseteq Dispositivos
    BY DEF EnManos
  <2> QED
    BY <2>1, ParametrosPCP, FS_Subset, FS_CardinalityType DEF EnManos
<1>5. CASE p > admitidos
  <2>1. ~EnReady(p)
    <3>1. \A i \in 1..Len(listaReady) : listaReady[i] \in T
      <4> HIDE DEF T
      <4> QED
        BY <1>2, ElementOfSeq
    <3> QED
      BY <1>1, <1>5, <3>1 DEF EnReady, EnCola
  <2>2. ~EnExit(p)
    <3>1. \A i \in 1..Len(exitProcesos) : exitProcesos[i] \in U
      <4> HIDE DEF U
      <4> QED
        BY <1>2, ElementOfSeq
    <3> QED
      BY <1>1, <1>5, <3>1 DEF EnExit, EnCola
  <2>3. ~EnColas(p)
    <3>1. \A r \in DOMAIN progEncolados : \A i \in 1..Len(progEncolados[r]) :
            progEncolados[r][i] \in U
      <4> HIDE DEF U
      <4> QED
        BY <1>2, ElementOfSeq
    <3> QED
      BY <1>1, <1>5, <3>1 DEF EnColas, EnCola
  <2>4. \A d \in Dispositivos : dispositivo[d].prog # p
    BY <1>1, <1>5 DEF DispositivosEnRegla
  <2>5. \A c \in CPUs : ~Lleva(hilo[c], p)
    BY <1>1, <1>5 DEF HilosEnRegla, Acotado, Lleva
  <2> QED
    BY <1>5, <2>1, <2>2, <2>3, <2>4, <2>5 DEF EnDisp, EnHilo
<1>6. CASE ~(p > admitidos)
  <2>1. p \in 1..admitidos
    BY <1>1, <1>6
  <2>2. /\ Cardinality(O) <= Veces(listaExec, p)
        /\ Veces(listaReady, p) + Veces(listaExec, p) + Veces(exitProcesos, p)
             + Cardinality(Encolado(p)) + Cardinality(D) + Cardinality(L)
           = 1 + Cardinality(I)
    BY <1>1, <2>1 DEF Lugares, EnSuLugar
  <2>3. /\ IsFiniteSet(O) /\ I \subseteq O
    <3>1. IsFiniteSet(O)
      BY ParametrosConexion, FS_Subset DEF Duenos
    <3>2. I \subseteq O
      BY DEF EntreDosListas, Duenos, HilosEn, Dueno, PasosDueno
    <3> QED
      BY <3>1, <3>2
  <2>4. /\ Veces(listaReady, p) \in Nat /\ Veces(listaExec, p) \in Nat
        /\ Veces(exitProcesos, p) \in Nat
        /\ Cardinality(Encolado(p)) \in Nat /\ IsFiniteSet(Encolado(p))
    BY <1>1, ListaTipo, EncoladoTipo
  <2> HIDE DEF L, D, I, O
  <2>5. Cardinality(I) <= Cardinality(O) /\ Cardinality(I) \in Nat /\ Cardinality(O) \in Nat
    BY <2>3, FS_Subset, FS_CardinalityType
  <2>6. PICK r, x, e, d, l \in Nat :
          /\ r = Veces(listaReady, p) /\ x = Veces(exitProcesos, p)
          /\ e = Cardinality(Encolado(p)) /\ d = Cardinality(D) /\ l = Cardinality(L)
    BY <1>3, <1>4, <2>4
  <2>7. r + x + e + d + l <= 1
    BY <2>2, <2>4, <2>5, <2>6
  <2>8. EnReady(p) => r > 0
    <3> HIDE DEF T
    <3>1. Veces(listaReady, p) = 0 => \A i \in 1..Len(listaReady) : listaReady[i] # p
      BY <1>2, VecesTipo
    <3> QED
      BY <2>6, <3>1 DEF EnReady, EnCola
  <2>9. EnExit(p) => x > 0
    <3> HIDE DEF U
    <3>1. Veces(exitProcesos, p) = 0 => \A i \in 1..Len(exitProcesos) : exitProcesos[i] # p
      BY <1>2, VecesTipo
    <3>2. EnExit(p) => \E i \in 1..Len(exitProcesos) : exitProcesos[i] = p
      BY DEF EnExit, EnCola
    <3> QED
      BY <2>6, <3>1, <3>2
  <2>10. EnColas(p) => e > 0
    <3> SUFFICES ASSUME EnColas(p) PROVE e > 0
      OBVIOUS
    <3>1. PICK q \in DOMAIN progEncolados : \E i \in 1..Len(progEncolados[q]) :
            progEncolados[q][i] = p
      BY DEF EnColas, EnCola
    <3>2. DOMAIN progEncolados[q] = 1..Len(progEncolados[q])
      BY <1>2, LenProperties
    <3>3. PICK i \in DOMAIN progEncolados[q] : progEncolados[q][i] = p
      BY <3>1, <3>2
    <3>4. <<q, i>> \in Encolado(p)
      BY <3>3 DEF Encolado
    <3>5. Cardinality(Encolado(p)) # 0
      BY <2>4, <3>4, FS_EmptySet
    <3> QED
      BY <2>6, <3>5
  <2>11. \A y \in D : \A z \in D : d > 0 /\ (d = 1 => y = z)
    <3>1. d = 0 => D = {}
      BY <1>4, <2>6, FS_EmptySet
    <3>2. d = 1 => \E y : D = {y}
      BY <1>4, <2>6, FS_Singleton
    <3> QED
      BY <2>6, <3>1, <3>2
  <2>12. \A y \in L : \A z \in L : l > 0 /\ (l = 1 => y = z)
    <3>1. l = 0 => L = {}
      BY <1>3, <2>6, FS_EmptySet
    <3>2. l = 1 => \E y : L = {y}
      BY <1>3, <2>6, FS_Singleton
    <3> QED
      BY <2>6, <3>1, <3>2
  <2>13. EnDisp(p) => d > 0
    BY <1>4, <2>11 DEF EnDisp
  <2>14. EnHilo(p) => l > 0
    BY <1>3, <2>12 DEF EnHilo
  <2>15. d <= 1 /\ l <= 1
    BY <2>7
  <2>16. \A c, f \in Dispositivos : dispositivo[c].prog = p /\ dispositivo[f].prog = p => c = f
    <3>1. d = 0 \/ d = 1
      BY <2>15
    <3> QED
      BY <1>4, <2>11, <3>1
  <2>17. \A c, f \in CPUs : Lleva(hilo[c], p) /\ Lleva(hilo[f], p) => c = f
    <3>1. l = 0 \/ l = 1
      BY <2>15
    <3> QED
      BY <1>3, <2>12, <3>1
  <2>18. /\ EnReady(p) => ~EnExit(p) /\ ~EnColas(p) /\ ~EnDisp(p) /\ ~EnHilo(p)
         /\ EnExit(p) => ~EnColas(p) /\ ~EnDisp(p) /\ ~EnHilo(p)
         /\ EnColas(p) => ~EnDisp(p) /\ ~EnHilo(p)
         /\ EnDisp(p) => ~EnHilo(p)
    BY <2>8, <2>9, <2>10, <2>13, <2>14, <2>7
  <2> QED
    BY <1>6, <2>16, <2>17, <2>18
<1> QED
  BY <1>5, <1>6

\* And so they do after a step.
LEMMA SeExcluyenLuego ==
  ASSUME InvPCP'
  PROVE  Excluyentes'
BY SeExcluyen, PTL

-----------------------------------------------------------------------------
(* The place the refinement mapping gives each program. *)

Sitios ==
  \A p \in Programas :
    /\ p > admitidos => Lugar(p) = "afuera"
    /\ EnReady(p) => Lugar(p) = "listo"
    /\ EnExit(p) => Lugar(p) = "fin"
    /\ EnColas(p) \/ EnDisp(p) \/ Senalado(p) => Lugar(p) = "bloqueado"
    /\ \/ p > admitidos \/ EnReady(p) \/ EnExit(p) \/ EnColas(p) \/ EnDisp(p) \/ Senalado(p)
       \/ Lugar(p) = "ejecutando"

\* The cases of Lugar, in the words above.
LEMMA SitiosSon == Excluyentes => Sitios
<1> SUFFICES ASSUME Excluyentes, NEW p \in Programas
             PROVE  /\ p > admitidos => Lugar(p) = "afuera"
                    /\ EnReady(p) => Lugar(p) = "listo"
                    /\ EnExit(p) => Lugar(p) = "fin"
                    /\ EnColas(p) \/ EnDisp(p) \/ Senalado(p) => Lugar(p) = "bloqueado"
                    /\ \/ p > admitidos \/ EnReady(p) \/ EnExit(p) \/ EnColas(p)
                       \/ EnDisp(p) \/ Senalado(p)
                       \/ Lugar(p) = "ejecutando"
  BY DEF Sitios
<1>1. Senalado(p) => EnHilo(p)
  BY DEF Senalado, EnHilo, HilosEn, Lleva
<1>2. Lugar(p) = CASE p > admitidos -> "afuera"
                   [] EnReady(p) -> "listo"
                   [] EnExit(p) -> "fin"
                   [] EnColas(p) -> "bloqueado"
                   [] EnDisp(p) -> "bloqueado"
                   [] Senalado(p) -> "bloqueado"
                   [] OTHER -> "ejecutando"
  BY DEF Lugar, EnReady, EnExit, EnColas, EnDisp, Senalado
<1>3. /\ p > admitidos =>
           ~EnReady(p) /\ ~EnExit(p) /\ ~EnColas(p) /\ ~EnDisp(p) /\ ~EnHilo(p)
      /\ EnReady(p) => ~EnExit(p) /\ ~EnColas(p) /\ ~EnDisp(p) /\ ~EnHilo(p)
      /\ EnExit(p) => ~EnColas(p) /\ ~EnDisp(p) /\ ~EnHilo(p)
      /\ EnColas(p) => ~EnDisp(p) /\ ~EnHilo(p)
      /\ EnDisp(p) => ~EnHilo(p)
  BY DEF Excluyentes
<1> QED
  BY <1>1, <1>2, <1>3

\* And after a step.
LEMMA SitiosSonLuego ==
  ASSUME Excluyentes'
  PROVE  Sitios'
BY SitiosSon, PTL

-----------------------------------------------------------------------------
(* What keeps the invariant. *)

\* While the thread is in recv, a CPU that executes its program, waits for an answer
\* to it or has said something is the one with the newest counter.
CursoSi ==
  \A c \in CPUs :
    /\ hilo[c].paso = "recibir" /\ cpu[c].pid = hilo[c].prog
    /\ Ejecuta(c) \/ (Pregunta(c) /\ Len(haciaCpu[c]) <= 1) \/ haciaKernel[c] # <<>>
    => EnCurso(c)

\* It follows from the protocol.
LEMMA EsCurso == InvPCP => CursoSi
<1> SUFFICES ASSUME InvPCP, NEW c \in CPUs, hilo[c].paso = "recibir", cpu[c].pid = hilo[c].prog,
                    Ejecuta(c) \/ (Pregunta(c) /\ Len(haciaCpu[c]) <= 1) \/ haciaKernel[c] # <<>>
             PROVE  EnCurso(c)
  BY DEF CursoSi
<1>1. Dada(c) \/ Perdida(c) \/ Corre(c) \/ Pide(c) \/ Contestada(c) \/ Devuelta(c)
  BY DeHilo DEF Fase, FaseRecibir
<1>2. CASE Dada(c)
  BY <1>2 DEF Dada, Ociosa, Ejecuta, Pregunta, EnWait
<1>3. CASE Perdida(c)
  BY <1>3 DEF Perdida, Ociosa, Ejecuta, Pregunta
<1> QED
  BY <1>1, <1>2, <1>3 DEF EnCurso

\* And after a step.
LEMMA EsCursoLuego ==
  ASSUME InvPCP'
  PROVE  CursoSi'
BY EsCurso, PTL

\* The program of a CPU that has the newest counter is not being ended by another
\* thread.
LEMMA NadieLaSaca ==
  ASSUME InvPCP, NEW c \in CPUs, EnCurso(c), NEW x \in CPUs \ {c}
  PROVE  ~Sale(x, hilo[c].prog)
<1>1. hilo[c].paso \in (PasosDueno \ {"ioSacar"}) \cup {"waitEncolar"}
  BY DEF EnCurso, PasosCurso, PasosPedido, PasosWait, PasosSignal, PasosDueno
<1>2. /\ Sale(x, hilo[c].prog) =>
           \/ Lleva(hilo[x], hilo[c].prog)
           \/ Dueno(hilo[x], hilo[c].prog) /\ hilo[x].paso # "ioSacar"
  BY DEF Sale, Lleva, Dueno, PasosDueno
<1>3. CASE hilo[c].paso = "waitEncolar"
  BY <1>2, <1>3, UnicoAlEncolar
<1>4. CASE hilo[c].paso \in PasosDueno \ {"ioSacar"}
  BY <1>2, <1>4, UnicoDueno
<1> QED
  BY <1>1, <1>3, <1>4

\* A thread and a CPU that do not step.
LEMMA MuereIgual ==
  ASSUME NEW x \in CPUs, hilo'[x] = hilo[x], cpu'[x] = cpu[x],
         haciaCpu'[x] = haciaCpu[x], haciaKernel'[x] = haciaKernel[x]
  PROVE  /\ Muere(x)' <=> Muere(x)
         /\ \A p : (Sale(x, p)' <=> Sale(x, p)) /\ (LineaFinal(x, p)' <=> LineaFinal(x, p))
<1>1. LineaActual(x)' = LineaActual(x)
  BY DEF LineaActual
<1>2. Corre(x)' <=> Corre(x)
  BY DEF Corre, Ejecuta
<1>3. Contestada(x)' <=> Contestada(x)
  BY <1>1 DEF Contestada, Pregunta
<1>4. Devuelta(x)' <=> Devuelta(x)
  BY DEF Devuelta, Devuelve, Ociosa
<1>5. Muere(x)' <=> Muere(x)
  BY <1>2, <1>3, <1>4 DEF Muere
<1> QED
  BY <1>5 DEF Sale, LineaFinal

\* A step of thread c or of its CPU, after which that CPU is as it should.
LEMMA CortoSigue ==
  ASSUME InvPCP, InvPCP', InvCorto, NEW c \in CPUs, Otros(c), Ajenos(c),
         \A p \in Programas : pcb[p].pc <= pcb'[p].pc,
         \A p \in Programas : p \in EnCola(exitProcesos) => p \in EnCola(exitProcesos'),
         \A x \in CPUs \ {c} : \A p \in Programas : Sale(x, p) =>
           pcb'[p].pc = pcb[p].pc /\ (cpu'[c].pid = p => cpu'[c].pc <= cpu[x].pc),
         hilo'[c].paso # "waitInexistente", FinEnRegla(c)', SalidaEnRegla(c)', SobraEnRegla(c)'
  PROVE  InvCorto'
<1> SUFFICES ASSUME NEW x \in CPUs \ {c}
             PROVE  /\ hilo'[x].paso # "waitInexistente"
                    /\ FinEnRegla(x)' /\ SalidaEnRegla(x)' /\ SobraEnRegla(x)'
  BY DEF InvCorto
<1>1. /\ hilo'[x] = hilo[x] /\ cpu'[x] = cpu[x] /\ haciaCpu'[x] = haciaCpu[x]
      /\ haciaKernel'[x] = haciaKernel[x]
      /\ \A d \in CPUs \ {c} : cpu'[d] = cpu[d]
  BY DEF Otros, Ajenos
<1>2. /\ Muere(x)' <=> Muere(x)
      /\ EnCurso(x)' <=> EnCurso(x)
      /\ \A p : (Sale(x, p)' <=> Sale(x, p)) /\ (LineaFinal(x, p)' <=> LineaFinal(x, p))
  BY <1>1, MuereIgual, FrenteIgual
<1>3. /\ hilo[x].paso # "waitInexistente"
      /\ FinEnRegla(x) /\ SalidaEnRegla(x) /\ SobraEnRegla(x)
  BY DEF InvCorto
<1>4. FinEnRegla(x)'
  BY <1>1, <1>2, <1>3 DEF FinEnRegla
<1>5. SalidaEnRegla(x)'
  <2>1. ASSUME NEW p \in Programas, Sale(x, p)
        PROVE  /\ LineaFinal(x, p) /\ pcb'[p].pc <= cpu'[x].pc
               /\ \A d \in CPUs : cpu'[d].pid = p => cpu'[d].pc <= cpu'[x].pc
    <3>1. LineaFinal(x, p) /\ pcb[p].pc <= cpu[x].pc /\ Hasta(p, cpu[x].pc)
      BY <1>3, <2>1 DEF SalidaEnRegla
    <3>2. pcb'[p].pc = pcb[p].pc /\ (cpu'[c].pid = p => cpu'[c].pc <= cpu[x].pc)
      BY <2>1
    <3> QED
      BY <1>1, <3>1, <3>2 DEF Hasta
  <2> QED
    BY <1>2, <2>1 DEF SalidaEnRegla, Hasta
<1>6. SobraEnRegla(x)'
  <2>1. ASSUME NEW p \in Programas, cpu[x].pc <= pcb[p].pc PROVE cpu[x].pc <= pcb'[p].pc
    <3>1. cpu[x].pc \in Nat /\ pcb[p].pc \in Nat
      BY DeTodos DEF CpusEnRegla, TipoCpu, ListasEnRegla
    <3>2. pcb'[p].pc \in Nat
      BY DEF InvPCP, Tipos, ListasEnRegla
    <3> QED
      BY <2>1, <3>1, <3>2
  <2> QED
    BY <1>1, <1>2, <1>3, <2>1 DEF SobraEnRegla, EnCola
<1> QED
  BY <1>1, <1>3, <1>4, <1>5, <1>6

\* A step of thread c or of its CPU that moves no counter.
LEMMA CortoQuieto ==
  ASSUME InvPCP, InvPCP', InvAvance, InvCorto, NEW c \in CPUs, Otros(c), Ajenos(c), UNCHANGED pcb,
         cpu'[c].pid = cpu[c].pid, cpu'[c].pc = cpu[c].pc,
         \A p \in Programas : p \in EnCola(exitProcesos) => p \in EnCola(exitProcesos'),
         hilo'[c].paso # "waitInexistente",
         Muere(c)' => LineaFinal(c, hilo'[c].prog),
         \A p \in Programas :
           Sale(c, p)' => Sale(c, p) \/ (LineaFinal(c, p) /\ EnCurso(c) /\ p = hilo[c].prog),
         EnCurso(c) => EnCurso(c)' \/ Sale(c, cpu[c].pid)',
         \A p \in Programas : Sale(c, p) => Sale(c, p)' \/ p \in EnCola(exitProcesos')
  PROVE  InvCorto'
<1>0. \A x \in CPUs : cpu'[x].pid = cpu[x].pid /\ cpu'[x].pc = cpu[x].pc
  BY DEF Ajenos
<1>1. FinEnRegla(c) /\ SalidaEnRegla(c) /\ SobraEnRegla(c)
  BY DEF InvCorto
<1>2. \A p : LineaFinal(c, p)' <=> LineaFinal(c, p)
  BY DEF LineaFinal
<1>3. \A p \in Programas : pcb[p].pc \in Nat
  BY DeTodos DEF ListasEnRegla
<1>4. \A p \in Programas : \A x \in CPUs \ {c} : Sale(x, p) /\ cpu[c].pid = p =>
        cpu[c].pc <= cpu[x].pc
  BY DEF InvCorto, SalidaEnRegla, Hasta
<1>5. FinEnRegla(c)'
  BY <1>2 DEF FinEnRegla, LineaFinal
<1>6. SalidaEnRegla(c)'
  <2> SUFFICES ASSUME NEW p \in Programas, Sale(c, p)'
               PROVE  /\ LineaFinal(c, p) /\ pcb[p].pc <= cpu[c].pc
                      /\ \A d \in CPUs : cpu'[d].pid = p => cpu'[d].pc <= cpu[c].pc
    BY <1>2 DEF SalidaEnRegla, Hasta
  <2>1. LineaFinal(c, p) /\ pcb[p].pc <= cpu[c].pc /\ Hasta(p, cpu[c].pc)
    <3>1. CASE Sale(c, p)
      BY <1>1, <3>1 DEF SalidaEnRegla
    <3>2. CASE LineaFinal(c, p) /\ EnCurso(c) /\ p = hilo[c].prog
      BY <3>2 DEF InvAvance, CpusAlDia
    <3> QED
      BY <3>1, <3>2
  <2> QED
    BY <1>0, <2>1 DEF Hasta
<1>7. SobraEnRegla(c)'
  <2> SUFFICES ASSUME NEW p \in Programas, cpu[c].pid = p
               PROVE  \/ EnCurso(c)' \/ Sale(c, p)' \/ p \in EnCola(exitProcesos')
                      \/ cpu[c].pc <= pcb[p].pc
    BY DEF SobraEnRegla, EnCola
  <2>1. EnCurso(c) \/ Sale(c, p) \/ p \in EnCola(exitProcesos) \/ cpu[c].pc <= pcb[p].pc
    BY <1>1 DEF SobraEnRegla
  <2> QED
    BY <2>1 DEF Sale
<1> QED
  BY <1>3, <1>4, <1>5, <1>6, <1>7, CortoSigue

-----------------------------------------------------------------------------
(* Steps of the threads that keep InvCorto. *)

\* A thread that neither moves a program to EXIT nor sends, receives or stores a PCB.
LEMMA CortoSinSalir ==
  ASSUME InvPCP, InvPCP', InvAvance, InvCorto, NEW c \in CPUs, Otros(c),
         UNCHANGED <<canales, cpu, pcb, exitProcesos>>,
         hilo[c].paso \notin {"exitSacar", "exitAgregar", "recibir"},
         hilo'[c].paso \notin {"exitSacar", "exitAgregar", "recibir", "ioPcb", "signalInexistente",
                               "waitInexistente"},
         hilo[c].paso \in PasosCurso =>
           hilo'[c].paso \in PasosCurso /\ hilo'[c].prog = hilo[c].prog
  PROVE  InvCorto'
<1>1. Ajenos(c) /\ cpu'[c].pid = cpu[c].pid /\ cpu'[c].pc = cpu[c].pc
  BY DEF Ajenos, canales
<1>2. \A p \in Programas : p \in EnCola(exitProcesos) => p \in EnCola(exitProcesos')
  BY DEF EnCola
<1>3. ~Muere(c)' /\ \A p : ~Sale(c, p) /\ ~Sale(c, p)'
  BY DEF Muere, Sale
<1>4. EnCurso(c) => EnCurso(c)'
  BY DEF EnCurso
<1> QED
  BY <1>1, <1>2, <1>3, <1>4, CortoQuieto

\* Steps inside a wait, a signal, an I/O, a reload or a dispatch.
LEMMA InternoCorto ==
  ASSUME InvPCP, InvPCP', InvAvance, InvCorto, NEW c \in CPUs, UNCHANGED <<canales, cpu>>,
         \/ EsperarReady(c) \/ SacarReady(c) \/ CargarExec(c)
         \/ WaitLeer(c) \/ WaitEscribir(c) \/ WaitSacar(c)
         \/ SignalLeer(c) \/ SignalEscribir(c) \/ SignalProbar(c) \/ SignalSacar(c)
         \/ SignalReady(c) \/ SignalPost(c)
         \/ IoEncolar(c) \/ IoSacar(c) \/ IoPost(c) \/ RecargarReady(c) \/ RecargarPost(c)
  PROVE  InvCorto'
<1>1. HilosEnRegla /\ hilo[c] \in TipoHilo
  BY DeHilo
<1>2. UNCHANGED <<pcb, exitProcesos>>
  BY DEF EsperarReady, SacarReady, CargarExec, WaitLeer, WaitEscribir, WaitSacar, SignalLeer,
     SignalEscribir, SignalProbar, SignalSacar, SignalReady, SignalPost, IoEncolar, IoSacar,
     IoPost, RecargarReady, RecargarPost
<1> DEFINE Va == /\ Otros(c)
                 /\ \/ /\ hilo[c].paso \in {"waitLeer", "waitEscribir", "waitSacar", "signalLeer",
                                            "signalEscribir", "signalProbar", "signalSacar",
                                            "signalReady", "signalPost"}
                       /\ hilo'[c].prog = hilo[c].prog
                       /\ hilo'[c].paso \in {"waitEscribir", "waitProbar", "waitEncolar",
                                             "signalEscribir", "signalProbar", "signalSacar",
                                             "signalReady", "signalPost", "signalResponder"}
                    \/ /\ hilo[c].paso \in {"esperar", "sacar", "cargar", "ioEncolar", "ioSacar",
                                            "ioPost", "recargarReady", "recargarPost"}
                       /\ hilo'[c].paso \in {"sacar", "cargar", "null", "enviar", "ioSacar",
                                             "ioPost", "esperar", "recargarPost"}
<1>3. Va
  <2>1. CASE EsperarReady(c)
    BY <1>1, <2>1, PasoDelHilo DEF EsperarReady
  <2>2. CASE SacarReady(c)
    <3>1. CASE NullEn(c)
      BY <1>1, <2>2, <3>1, PasoDelHilo DEF NullEn, SacarReady
    <3>2. CASE ~NullEn(c)
      <4>1. hilo' = [hilo EXCEPT ![c] = Hilo("cargar", Head(listaReady))]
        BY <2>2, <3>2 DEF SacarReady
      <4> QED
        BY <1>1, <2>2, <4>1 DEF SacarReady, HilosEnRegla, Hilo, Otros
    <3> QED
      BY <3>1, <3>2
  <2>3. CASE CargarExec(c)
    BY <1>1, <2>3, PasoDelHilo DEF CargarExec
  <2>4. CASE WaitLeer(c)
    BY <1>1, <2>4, PasoDelHilo DEF WaitLeer
  <2>5. CASE WaitEscribir(c)
    BY <1>1, <2>5, PasoDelHilo DEF WaitEscribir
  <2>6. CASE WaitSacar(c)
    BY <1>1, <2>6, PasoDelHilo DEF WaitSacar
  <2>7. CASE SignalLeer(c)
    BY <1>1, <2>7, PasoDelHilo DEF SignalLeer
  <2>8. CASE SignalEscribir(c)
    BY <1>1, <2>8, PasoDelHilo DEF SignalEscribir
  <2>9. CASE SignalProbar(c)
    BY <1>1, <2>9, PasoDelHilo DEF SignalProbar
  <2>10. CASE SignalSacar(c)
    <3>1. PICK v : hilo' = [hilo EXCEPT ![c].otro = v, ![c].paso = "signalReady"]
      BY <2>10 DEF SignalSacar
    <3> QED
      BY <1>1, <2>10, <3>1, PasoDelHilo DEF SignalSacar
  <2>11. CASE SignalReady(c)
    BY <1>1, <2>11, PasoDelHilo DEF SignalReady
  <2>12. CASE SignalPost(c)
    BY <1>1, <2>12, PasoDelHilo DEF SignalPost
  <2>13. CASE IoEncolar(c)
    BY <1>1, <2>13, PasoDelHilo DEF IoEncolar
  <2>14. CASE IoSacar(c)
    BY <1>1, <2>14, PasoDelHilo DEF IoSacar
  <2>15. CASE IoPost(c)
    BY <1>1, <2>15, PasoDelHilo DEF IoPost
  <2>16. CASE RecargarReady(c)
    BY <1>1, <2>16, PasoDelHilo DEF RecargarReady
  <2>17. CASE RecargarPost(c)
    BY <1>1, <2>17, PasoDelHilo DEF RecargarPost
  <2> QED
    BY <2>1, <2>2, <2>3, <2>4, <2>5, <2>6, <2>7, <2>8, <2>9, <2>10, <2>11, <2>12, <2>13,
       <2>14, <2>15, <2>16, <2>17
<1>4. /\ hilo[c].paso \notin {"exitSacar", "exitAgregar", "recibir"}
      /\ hilo'[c].paso \notin {"exitSacar", "exitAgregar", "recibir", "ioPcb",
                               "signalInexistente", "waitInexistente"}
  BY <1>3
<1>5. hilo[c].paso \in PasosCurso =>
        hilo'[c].paso \in PasosCurso /\ hilo'[c].prog = hilo[c].prog
  <2>1. {"waitEscribir", "waitProbar", "waitEncolar", "signalEscribir", "signalProbar",
         "signalSacar", "signalReady", "signalPost", "signalResponder"} \subseteq PasosCurso
    BY DEF PasosCurso, PasosPedido, PasosWait, PasosSignal
  <2>2. PasosCurso \cap {"esperar", "sacar", "cargar", "ioEncolar", "ioSacar", "ioPost",
                         "recargarReady", "recargarPost"} = {}
    BY DEF PasosCurso, PasosPedido, PasosWait, PasosSignal
  <2> QED
    BY <1>3, <2>1, <2>2
<1> QED
  BY <1>2, <1>3, <1>4, <1>5, CortoSinSalir

\* The thread takes from EXEC the program it answers for, which it moves to EXIT.
LEMMA SaleElSuyo ==
  ASSUME InvPCP, NEW c \in CPUs, ExitSacar(c)
  PROVE  /\ hilo[c].paso = "exitSacar" /\ hilo[c].prog \in Programas
         /\ hilo'[c].paso = "exitAgregar" /\ hilo'[c].otro = hilo[c].prog /\ Otros(c)
<1>1. hilo[c].paso = "exitSacar" /\ ListasEnRegla /\ PcbsEnRegla /\ HilosEnRegla
  BY DeTodos DEF ExitSacar
<1>2. PICK u \in 1..admitidos :
        u = hilo[c].prog /\ u \in Programas /\ pcb[u].pid = u /\ EnExec(u) # {}
  <2>1. hilo[c].paso \in PasosDueno
    BY <1>1 DEF PasosDueno
  <2> QED
    BY <2>1, HayEnExec
<1>3. PICK k \in EnExec(u) :
        /\ hilo' = [hilo EXCEPT ![c].otro = listaExec[k], ![c].paso = "exitAgregar"]
        /\ listaExec' = Sin(listaExec, k)
  BY <1>2 DEF ExitSacar
<1>4. listaExec[k] = u
  BY <1>1, <1>2, <1>3, SacarDeExec
<1>5. hilo' = [hilo EXCEPT ![c].otro = u, ![c].paso = "exitAgregar"]
  BY <1>3, <1>4
<1>6. hilo'[c].paso = "exitAgregar" /\ hilo'[c].otro = u /\ Otros(c)
  BY <1>1, <1>5 DEF HilosEnRegla, TipoHilo, Otros
<1> QED
  BY <1>1, <1>2, <1>6

\* moverAExit.
LEMMA ExitCorto ==
  ASSUME InvPCP, InvPCP', InvAvance, InvCorto, NEW c \in CPUs, UNCHANGED <<canales, cpu>>,
         ExitSacar(c) \/ ExitAgregar(c)
  PROVE  InvCorto'
<1>1. Ajenos(c) /\ cpu'[c].pid = cpu[c].pid /\ cpu'[c].pc = cpu[c].pc
  BY DEF Ajenos, canales
<1>2. UNCHANGED pcb /\ hilo[c].paso \in {"exitSacar", "exitAgregar"}
  BY DEF ExitSacar, ExitAgregar
<1>3. ~EnCurso(c)
  BY <1>2 DEF EnCurso, PasosCurso, PasosPedido, PasosWait, PasosSignal
<1>4. CASE ExitSacar(c)
  <2>1. /\ hilo[c].paso = "exitSacar" /\ hilo'[c].paso = "exitAgregar"
        /\ hilo'[c].otro = hilo[c].prog /\ Otros(c)
    BY <1>4, SaleElSuyo
  <2>2. \A p \in Programas : p \in EnCola(exitProcesos) => p \in EnCola(exitProcesos')
    BY <1>4 DEF ExitSacar, EnCola
  <2>3. ~Muere(c)' /\ \A p : Sale(c, p)' <=> Sale(c, p)
    BY <2>1 DEF Muere, Sale
  <2> QED
    BY <1>1, <1>2, <1>3, <2>1, <2>2, <2>3, CortoQuieto
<1>5. CASE ExitAgregar(c)
  <2>1. hilo[c].paso = "exitAgregar" /\ exitProcesos' = Append(exitProcesos, hilo[c].otro)
    BY <1>5 DEF ExitAgregar
  <2>2. hilo'[c].paso \in {"terminado", "esperar"} /\ Otros(c)
    <3>1. PICK b \in {"terminado", "esperar"} : Volver(c, b)
      BY <1>5 DEF ExitAgregar
    <3> QED
      BY <3>1, DeTodos, PasoDelHilo
  <2>3. /\ \A p \in Programas : p \in EnCola(exitProcesos) => p \in EnCola(exitProcesos')
        /\ hilo[c].otro \in EnCola(exitProcesos')
    <3> DEFINE U == 1..admitidos
               o == hilo[c].otro
    <3>1. exitProcesos \in Seq(U) /\ o \in U
      BY <2>1, DeHilo DEF ListasEnRegla, Acotado, PasosConOtro, Nadie
    <3> HIDE DEF U, o
    <3>2. /\ Len(Append(exitProcesos, o)) = Len(exitProcesos) + 1 /\ Len(exitProcesos) \in Nat
          /\ \A j \in 1..Len(exitProcesos) : Append(exitProcesos, o)[j] = exitProcesos[j]
          /\ Append(exitProcesos, o)[Len(exitProcesos) + 1] = o
      BY <3>1, ColaConUltimo
    <3>3. exitProcesos' = Append(exitProcesos, o)
      BY <2>1 DEF o
    <3> QED
      BY <3>2, <3>3 DEF EnCola, o
  <2>4. ~Muere(c)' /\ \A p : ~Sale(c, p)'
    BY <2>2 DEF Muere, Sale
  <2>5. \A p : Sale(c, p) => p = hilo[c].otro
    BY <2>1 DEF Sale
  <2> QED
    BY <1>1, <1>2, <1>3, <2>2, <2>3, <2>4, <2>5, CortoQuieto
<1> QED
  BY <1>4, <1>5

\* The thread keeps the PCB that its CPU sent it.
LEMMA CortoGuardado ==
  ASSUME InvPCP, InvPCP', InvAvance, InvCorto, NEW c \in CPUs, Otros(c),
         UNCHANGED <<cpu, canales, exitProcesos>>, EnCurso(c),
         hilo'[c].paso \notin {"recibir", "ioPcb", "signalInexistente", "waitInexistente"},
         NEW b, b.pc = cpu[c].pc, pcb' = [pcb EXCEPT ![hilo[c].prog] = b],
         \A p \in Programas : Sale(c, p)' => p = hilo[c].prog /\ LineaFinal(c, hilo[c].prog)
  PROVE  InvCorto'
<1> DEFINE q == hilo[c].prog
<1>1. q \in Programas /\ cpu[c].pid = q
  BY EnCursoUnico DEF EnCurso
<1>2. /\ \A p \in Programas : pcb[p].pc \in Nat
      /\ cpu[c].pc \in Nat
  BY DeTodos DEF ListasEnRegla, CpusEnRegla, TipoCpu
<1>3. pcb'[q].pc = cpu[c].pc /\ \A p \in Programas : p # q => pcb'[p] = pcb[p]
  BY <1>1, DeTodos DEF ListasEnRegla
<1>4. pcb[q].pc <= cpu[c].pc /\ Hasta(q, cpu[c].pc)
  BY DEF InvAvance, CpusAlDia
<1>5. \A p \in Programas : pcb[p].pc <= pcb'[p].pc
  BY <1>2, <1>3, <1>4
<1>6. \A x \in CPUs \ {c} : ~Sale(x, q)
  BY NadieLaSaca
<1>7. \A x \in CPUs \ {c} : \A p \in Programas : Sale(x, p) =>
        pcb'[p].pc = pcb[p].pc /\ (cpu'[c].pid = p => cpu'[c].pc <= cpu[x].pc)
  BY <1>1, <1>3, <1>6
<1>8. FinEnRegla(c)'
  <2>1. ~Muere(c)'
    BY DEF Muere
  <2> QED
    BY <2>1 DEF FinEnRegla
<1>9. SalidaEnRegla(c)'
  <2>1. ASSUME NEW p \in Programas, Sale(c, p)'
        PROVE  /\ LineaFinal(c, p)' /\ pcb'[p].pc <= cpu'[c].pc
               /\ \A d \in CPUs : cpu'[d].pid = p => cpu'[d].pc <= cpu'[c].pc
    <3>1. p = q /\ LineaFinal(c, q)
      BY <2>1
    <3> QED
      BY <1>2, <1>3, <1>4, <3>1 DEF LineaFinal, Hasta
  <2> QED
    BY <2>1 DEF SalidaEnRegla, Hasta
<1>10. SobraEnRegla(c)'
  BY <1>1, <1>2, <1>3 DEF SobraEnRegla
<1>11. /\ Ajenos(c)
       /\ \A p \in Programas : p \in EnCola(exitProcesos) => p \in EnCola(exitProcesos')
  BY DEF Ajenos, canales, EnCola
<1> HIDE DEF q
<1> QED
  BY <1>5, <1>7, <1>8, <1>9, <1>10, <1>11, CortoSigue

\* What a thread does that stores the PCB its CPU sent it: it holds the counter of
\* the CPU, and only an I/O on a device that is not configured ends the program.
Guarda(c) ==
  /\ EnCurso(c) /\ Otros(c)
  /\ \E b : b.pc = cpu[c].pc /\ pcb' = [pcb EXCEPT ![hilo[c].prog] = b]
  /\ \/ /\ hilo[c].paso = "waitEncolar" /\ hilo'[c].paso = "waitBloquear"
        /\ hilo'[c].prog = hilo[c].prog
     \/ /\ hilo[c].paso = "ioPcb" /\ hilo'[c].paso = "ioEncolar"
        /\ hilo'[c].prog = hilo[c].prog
     \/ /\ hilo[c].paso = "ioPcb" /\ hilo'[c].paso = "exitSacar"
        /\ hilo'[c].prog = hilo[c].prog /\ Muere(c)
     \/ /\ hilo[c].paso = "recargarSacar" /\ hilo'[c].paso = "recargarReady"
        /\ hilo'[c].otro = hilo[c].prog

\* The three steps that store a PCB.
LEMMA QueGuarda ==
  ASSUME InvPCP, NEW c \in CPUs, WaitEncolar(c) \/ IoPcb(c) \/ RecargarSacar(c)
  PROVE  Guarda(c)
<1> DEFINE q == hilo[c].prog
           m == hilo[c].msg
           b == PcbDe(m)
<1>1. /\ HilosEnRegla /\ ListasEnRegla /\ hilo[c] \in TipoHilo /\ Acotado(hilo[c]) /\ Fase(c)
      /\ PcbsEnRegla
  BY DeHilo, DeTodos
<1>2. CASE WaitEncolar(c)
  <2>1. /\ hilo[c].paso = "waitEncolar" /\ Seguir(c, "waitBloquear")
        /\ pcb' = [pcb EXCEPT ![q] = b]
    BY <1>2 DEF WaitEncolar
  <2>2. Otros(c) /\ hilo'[c].paso = "waitBloquear" /\ hilo'[c].prog = q
    BY <1>1, <2>1, PasoDelHilo
  <2>3. hilo[c].paso \in PasosWait /\ hilo[c].paso \in PasosPedido
    BY <2>1 DEF PasosWait, PasosPedido
  <2>4. Pregunta(c) /\ m = Pedido(c) /\ LineaActual(c).op = "wait"
    BY <1>1, <2>3 DEF Fase, FasePedido
  <2>5. b.pc = cpu[c].pc /\ cpu[c].pid = q
    BY <2>4 DEF Pedido, Mensaje, PcbDe, Pregunta
  <2>6. EnCurso(c)
    BY <2>1, <2>3, <2>5 DEF EnCurso, PasosCurso
  <2> HIDE DEF b
  <2> QED
    BY <2>1, <2>2, <2>5, <2>6 DEF Guarda
<1>3. CASE IoPcb(c)
  <2>1. PICK a : /\ Seguir(c, a)
                 /\ \/ a = "ioEncolar"
                    \/ a = "exitSacar" /\ m.nombre \notin Dispositivos
    <3>1. CASE m.nombre \in Dispositivos
      BY <1>3, <3>1 DEF IoPcb
    <3>2. CASE m.nombre \notin Dispositivos
      BY <1>3, <3>2 DEF IoPcb
    <3> QED
      BY <3>1, <3>2
  <2>2. hilo[c].paso = "ioPcb" /\ pcb' = [pcb EXCEPT ![q] = b]
    BY <1>3 DEF IoPcb
  <2>3. Otros(c) /\ hilo'[c].paso = a /\ hilo'[c].prog = q
    BY <1>1, <2>1, PasoDelHilo
  <2>4. Devuelve(c, m, q) /\ m.op = "entradaSalidaKernel"
    BY <1>1, <2>2 DEF Fase, FaseFin, PasosFin, PasosIo
  <2>5. b.pc = cpu[c].pc /\ cpu[c].pid = q
    BY <2>4 DEF Devuelve, PcbDe
  <2>6. EnCurso(c)
    BY <2>2, <2>5 DEF EnCurso, PasosCurso
  <2>7. a = "exitSacar" => Muere(c)
    BY <2>1, <2>2, <2>4 DEF Muere, Mortal
  <2> HIDE DEF b
  <2> QED
    BY <2>1, <2>2, <2>3, <2>5, <2>6, <2>7 DEF Guarda
<1>4. CASE RecargarSacar(c)
  <2>1. hilo[c].paso = "recargarSacar"
    BY <1>4 DEF RecargarSacar
  <2>2. PICK u \in 1..admitidos : u = q /\ pcb[u].pid = u /\ EnExec(u) # {}
    <3>1. hilo[c].paso \in PasosDueno
      BY <2>1 DEF PasosDueno
    <3> QED
      BY <3>1, HayEnExec
  <2>3. Devuelve(c, m, q) /\ m.op = "notificarPorFinRafaga"
    BY <1>1, <2>1 DEF Fase, FaseFin, PasosFin
  <2>4. b.pc = cpu[c].pc /\ cpu[c].pid = q /\ m.pid = q
    BY <2>3 DEF Devuelve, PcbDe
  <2>5. PICK i \in EnExec(u) :
          /\ hilo' = [hilo EXCEPT ![c].otro = listaExec[i], ![c].paso = "recargarReady"]
          /\ listaExec' = Sin(listaExec, i) /\ pcb' = [pcb EXCEPT ![listaExec[i]] = b]
    BY <1>4, <2>2, <2>4 DEF RecargarSacar
  <2>6. listaExec[i] = u
    BY <1>1, <2>2, <2>5, SacarDeExec
  <2>7. Otros(c) /\ hilo'[c].paso = "recargarReady" /\ hilo'[c].otro = q
    <3>1. hilo' = [hilo EXCEPT ![c].otro = u, ![c].paso = "recargarReady"]
      BY <2>5, <2>6
    <3>2. Otros(c) /\ hilo'[c].paso = "recargarReady" /\ hilo'[c].otro = u
      BY <1>1, <3>1 DEF HilosEnRegla, TipoHilo, Otros
    <3> QED
      BY <2>2, <3>2
  <2>8. pcb' = [pcb EXCEPT ![q] = b]
    BY <2>2, <2>5, <2>6
  <2>9. EnCurso(c)
    BY <2>1, <2>4 DEF EnCurso, PasosCurso
  <2> HIDE DEF b
  <2> QED
    BY <2>1, <2>4, <2>7, <2>8, <2>9 DEF Guarda
<1> QED
  BY <1>2, <1>3, <1>4

\* They keep InvCorto.
LEMMA GuardarCorto ==
  ASSUME InvPCP, InvPCP', InvAvance, InvCorto, NEW c \in CPUs, UNCHANGED <<canales, cpu>>,
         WaitEncolar(c) \/ IoPcb(c) \/ RecargarSacar(c)
  PROVE  InvCorto'
<1>1. Guarda(c) /\ UNCHANGED exitProcesos
  BY QueGuarda DEF WaitEncolar, IoPcb, RecargarSacar
<1>2. EnCurso(c) /\ Otros(c)
  BY <1>1 DEF Guarda
<1>3. PICK b : b.pc = cpu[c].pc /\ pcb' = [pcb EXCEPT ![hilo[c].prog] = b]
  BY <1>1 DEF Guarda
<1>4. hilo'[c].paso \notin {"recibir", "ioPcb", "signalInexistente", "waitInexistente"}
  BY <1>1 DEF Guarda
<1>5. \A p \in Programas : Sale(c, p)' => p = hilo[c].prog /\ Muere(c)
  BY <1>1 DEF Guarda, Sale
<1>6. Muere(c) => LineaFinal(c, hilo[c].prog)
  BY DEF InvCorto, FinEnRegla
<1>7. \A p \in Programas : Sale(c, p)' => p = hilo[c].prog /\ LineaFinal(c, hilo[c].prog)
  BY <1>5, <1>6
<1> QED
  BY <1>1, <1>2, <1>3, <1>4, <1>7, CortoGuardado

\* The lines at which a program may end.
LEMMA LineaQueTermina ==
  ASSUME ProgramasEnRegla, NEW p \in Programas, NEW n \in 1..Final(p)
  PROVE  /\ n \in DOMAIN Codigo[p]
         /\ PuedeTerminar(Codigo[p][n]) => n \in Finales[p]
<1> DEFINE T == [op : Operaciones, nombre : Nombres, fallas : Nat]
<1>1. Codigo[p] \in Seq(T)
  BY DEF ProgramasEnRegla
<1> HIDE DEF T
<1>2. n \in DOMAIN Codigo[p]
  BY <1>1, LenProperties DEF Final
<1> QED
  BY <1>2 DEF Finales

\* The line of a CPU that waits for an answer.
LEMMA LineaQuePide ==
  ASSUME ProgramasEnRegla, InvPCP, NEW c \in CPUs, Pregunta(c)
  PROVE  /\ LineaActual(c).op \in {"consulta", "wait", "signal"}
         /\ PuedeTerminar(LineaActual(c)) => LineaFinal(c, hilo[c].prog)
         /\ SemaforosExisten /\ LineaActual(c).op = "wait" => LineaActual(c).nombre \in Semaforos
<1>1. /\ cpu[c].pid \in Programas /\ cpu[c].pc \in 0..Final(cpu[c].pid) /\ cpu[c].pc > 0
      /\ LineaActual(c).op \in {"consulta", "wait", "signal"} /\ cpu[c].pid = hilo[c].prog
  BY DeCpuEnRegla DEF FaseCpu, Pregunta
<1>2. PICK p \in Programas : p = cpu[c].pid
  BY <1>1
<1>3. Final(p) \in Nat
  BY HayLinea
<1>4. PICK n \in 1..Final(p) : n = cpu[c].pc
  BY <1>1, <1>2, <1>3
<1>5. LineaActual(c) = Codigo[p][n]
  BY <1>2, <1>4 DEF LineaActual
<1>6. n \in DOMAIN Codigo[p] /\ (PuedeTerminar(Codigo[p][n]) => n \in Finales[p])
  BY LineaQueTermina
<1>7. PuedeTerminar(LineaActual(c)) => LineaFinal(c, hilo[c].prog)
  BY <1>1, <1>2, <1>4, <1>5, <1>6 DEF LineaFinal
<1>8. SemaforosExisten /\ LineaActual(c).op = "wait" => LineaActual(c).nombre \in Semaforos
  BY <1>5, <1>6 DEF SemaforosExisten
<1> QED
  BY <1>1, <1>7, <1>8

\* What the thread has received decides what it does.
LEMMA RecibirCorto ==
  ASSUME ProgramasEnRegla, SemaforosExisten, InvPCP, InvPCP', InvAvance, InvCorto, NEW c \in CPUs,
         Recibir(c), UNCHANGED cpu
  PROVE  InvCorto'
<1>1. /\ HilosEnRegla /\ hilo[c] \in TipoHilo /\ Fase(c) /\ CanalesEnRegla
      /\ hilo[c].paso = "recibir"
  BY DeHilo DEF Recibir, RecibirMensaje, RecibirFin
<1>2. UNCHANGED <<pcb, exitProcesos, haciaCpu, conectada>>
  BY DEF Recibir, RecibirMensaje, RecibirFin
<1>3. PICK r \in Restos(haciaKernel[c]) :
        /\ haciaKernel[c] # <<>> /\ haciaKernel' = [haciaKernel EXCEPT ![c] = r]
        /\ hilo' = [hilo EXCEPT ![c].msg = Head(haciaKernel[c]),
                                ![c].paso = PasoPara(Head(haciaKernel[c]))]
  <2>1. ~RecibirFin(c)
    BY <1>1 DEF RecibirFin, Fase, FaseCpu
  <2> QED
    BY <2>1 DEF Recibir, RecibirMensaje
<1>4. Ajenos(c) /\ cpu'[c].pid = cpu[c].pid /\ cpu'[c].pc = cpu[c].pc
  BY <1>1, <1>2, <1>3 DEF Ajenos, CanalesEnRegla
<1> DEFINE m == Head(haciaKernel[c])
           b == PasoPara(m)
<1>5. Otros(c) /\ hilo'[c].paso = b /\ hilo'[c].prog = hilo[c].prog /\ hilo'[c].msg = m
  <2> HIDE DEF m, b
  <2>1. hilo' = [hilo EXCEPT ![c].msg = m, ![c].paso = b]
    BY <1>3 DEF m, b
  <2> QED
    BY <1>1, <2>1 DEF HilosEnRegla, TipoHilo, Otros
<1>6. \/ Pregunta(c) /\ m = Pedido(c)
      \/ Ociosa(c) /\ Devuelve(c, m, hilo[c].prog)
  BY <1>1, <1>3, LoQueLlega
<1>7. Pide(c) \/ Devuelta(c)
  BY <1>1, <1>3 DEF Fase, FaseRecibir, Dada, Perdida, Corre, Contestada
<1>8. Muere(c) => LineaFinal(c, hilo[c].prog)
  BY DEF InvCorto, FinEnRegla
<1>9. \/ b \in {"consulta", "waitLeer", "signalLeer", "recargarSacar"}
      \/ b = "signalInexistente" /\ LineaFinal(c, hilo[c].prog)
      \/ b = "ioPcb" /\ (Mortal(m) => LineaFinal(c, hilo[c].prog))
      \/ b = "exitSacar" /\ LineaFinal(c, hilo[c].prog)
  <2>1. CASE Pregunta(c) /\ m = Pedido(c)
    <3>1. /\ LineaActual(c).op \in {"consulta", "wait", "signal"}
          /\ LineaActual(c).op = "wait" => LineaActual(c).nombre \in Semaforos
          /\ PuedeTerminar(LineaActual(c)) => LineaFinal(c, hilo[c].prog)
      BY <2>1, LineaQuePide
    <3>2. CASE LineaActual(c).op = "signal" /\ LineaActual(c).nombre \notin Semaforos
      <4>1. PuedeTerminar(LineaActual(c))
        BY <3>2 DEF PuedeTerminar
      <4> QED
        BY <2>1, <3>1, <3>2, <4>1 DEF Pedido, Mensaje, PasoPara
    <3> QED
      BY <2>1, <3>1, <3>2 DEF Pedido, Mensaje, PasoPara
  <2>2. CASE Ociosa(c) /\ Devuelve(c, m, hilo[c].prog)
    <3>1. m.op \in {"entradaSalidaKernel", "notificarPorFinRafaga",
                    "notificarPorFinPrograma", "exception"}
      BY <2>2 DEF Devuelve
    <3>2. Devuelta(c)
      BY <1>7, <2>2 DEF Pide, Pregunta, Ociosa
    <3>3. Mortal(m) => LineaFinal(c, hilo[c].prog)
      <4>1. haciaKernel[c] \in Seq(Mensajes) /\ Len(haciaKernel[c]) = 1
        BY <1>1, <3>2 DEF CanalesEnRegla, Devuelta
      <4>2. m = haciaKernel[c][1]
        BY <4>1, RestosDeUno
      <4> QED
        BY <1>1, <1>8, <3>2, <4>2 DEF Muere
    <3> HIDE DEF m
    <3> QED
      BY <3>1, <3>3 DEF PasoPara, Mortal
  <2> QED
    BY <1>6, <2>1, <2>2
<1> HIDE DEF b, m
<1>10. hilo'[c].paso # "waitInexistente"
  BY <1>5, <1>9
<1>11. Muere(c)' => LineaFinal(c, hilo'[c].prog)
  BY <1>5, <1>9 DEF Muere
<1>12. \A p \in Programas :
         Sale(c, p)' => Sale(c, p) \/ (LineaFinal(c, p) /\ EnCurso(c) /\ p = hilo[c].prog)
  <2>1. ASSUME NEW p \in Programas, Sale(c, p)' PROVE LineaFinal(c, p) /\ p = hilo[c].prog
    BY <1>5, <1>9, <2>1 DEF Sale
  <2>2. LineaFinal(c, hilo[c].prog) => EnCurso(c)
    BY <1>1, <1>7 DEF LineaFinal, EnCurso
  <2> QED
    BY <2>1, <2>2
<1>13. EnCurso(c) => EnCurso(c)' \/ Sale(c, cpu[c].pid)'
  <2>1. {"consulta", "waitLeer", "signalLeer", "recargarSacar", "signalInexistente", "ioPcb"}
          \subseteq PasosCurso
    BY DEF PasosCurso, PasosPedido, PasosWait, PasosSignal
  <2> QED
    BY <1>5, <1>9, <2>1 DEF EnCurso, Sale
<1>14. \A p : ~Sale(c, p)
  BY <1>1 DEF Sale
<1>15. \A p \in Programas : p \in EnCola(exitProcesos) => p \in EnCola(exitProcesos')
  BY <1>2 DEF EnCola
<1> QED
  BY <1>2, <1>4, <1>5, <1>10, <1>11, <1>12, <1>13, <1>14, <1>15, CortoQuieto

\* The answers: "terminar" goes to a program that is at a line that may end it.
LEMMA EnviarCorto ==
  ASSUME ProgramasEnRegla, InvPCP, InvPCP', InvAvance, InvCorto, NEW c \in CPUs, Enviar(c),
         UNCHANGED cpu
  PROVE  InvCorto'
<1>1. /\ HilosEnRegla /\ hilo[c] \in TipoHilo /\ Fase(c) /\ CanalesEnRegla
      /\ haciaCpu[c] \in Seq(Mensajes) /\ conectada[c]
  BY DeHilo, DeCpuEnRegla DEF Fase, FaseCpu
<1>2. UNCHANGED <<pcb, exitProcesos, haciaKernel, conectada>>
  BY DEF Enviar, EnviarPcb, Consulta, WaitInexistente, WaitProbar, WaitBloquear,
     SignalInexistente, SignalResponder
<1>3. Ajenos(c) /\ cpu'[c].pid = cpu[c].pid /\ cpu'[c].pc = cpu[c].pc
  <2>1. UNCHANGED haciaCpu \/ \E m : Responder(c, m)
    BY DEF Enviar, EnviarPcb, Consulta, WaitInexistente, WaitProbar, WaitBloquear,
       SignalInexistente, SignalResponder
  <2> QED
    BY <1>1, <1>2, <2>1, ResponderAjeno DEF Ajenos
<1>4. \A p \in Programas : p \in EnCola(exitProcesos) => p \in EnCola(exitProcesos')
  BY <1>2 DEF EnCola
<1>5. CASE EnviarPcb(c)
  <2> DEFINE m == Mensaje("atendeProceso", SinNombre, pcb[hilo[c].prog].pid,
                          pcb[hilo[c].prog].pc)
  <2>1. /\ hilo[c].paso = "enviar" /\ Otros(c)
        /\ hilo'[c].paso = "recibir" /\ hilo'[c].prog = hilo[c].prog
    BY <1>1, <1>5, PasoDelHilo DEF EnviarPcb
  <2>2. haciaCpu'[c] = Append(haciaCpu[c], m)
    BY <1>1, <1>5 DEF EnviarPcb, Responder, EnviarACpu, CanalesEnRegla
  <2>3. m.op = "atendeProceso"
    BY DEF Mensaje
  <2> HIDE DEF m
  <2>4. /\ Len(haciaCpu'[c]) = Len(haciaCpu[c]) + 1 /\ haciaCpu'[c] # <<>>
        /\ haciaCpu'[c][Len(haciaCpu[c]) + 1] = m /\ Len(haciaCpu[c]) \in Nat
    BY <1>1, <2>2
  <2>5. ~Muere(c)'
    <3>1. ~Corre(c)' /\ ~Devuelta(c)'
      BY <2>4 DEF Corre, Devuelta
    <3>2. ASSUME haciaCpu'[c] = <<Respuesta("terminar")>> PROVE FALSE
      <4>1. Len(haciaCpu'[c]) = 1 /\ haciaCpu'[c][1] = Respuesta("terminar")
        BY <3>2
      <4>2. m = Respuesta("terminar")
        BY <2>4, <4>1
      <4> QED
        BY <2>3, <4>2 DEF Respuesta, Mensaje
    <3> QED
      BY <2>1, <3>1, <3>2 DEF Muere
  <2>6. ~EnCurso(c) /\ \A p : ~Sale(c, p) /\ ~Sale(c, p)'
    BY <2>1 DEF EnCurso, PasosCurso, PasosPedido, PasosWait, PasosSignal, Sale
  <2> QED
    BY <1>2, <1>3, <1>4, <2>1, <2>5, <2>6, CortoQuieto
<1>6. CASE ~EnviarPcb(c)
  <2>1. PICK op \in {"continuar", "terminar", "bloquear"} :
          /\ hilo[c].paso \in PasosPedido
          /\ hilo'[c].prog = hilo[c].prog /\ Otros(c)
          /\ \/ hilo[c].paso = "waitBloquear" /\ hilo'[c].paso = "esperar"
             \/ hilo'[c].paso = "waitSacar"
             \/ /\ hilo'[c].paso = "recibir" /\ Responder(c, Respuesta(op))
                /\ op = "terminar" => hilo[c].paso \in {"consulta", "signalInexistente"}
                /\ hilo[c].paso = "consulta" => op \in RespuestasConsulta(hilo[c].msg.nombre)
    <3>1. {"consulta", "waitInexistente", "waitProbar", "waitBloquear", "signalInexistente",
           "signalResponder"} \subseteq PasosPedido
      BY DEF PasosPedido, PasosWait, PasosSignal
    <3>2. CASE Consulta(c)
      BY <1>1, <3>1, <3>2, PasoDelHilo DEF Consulta, RespuestasConsulta
    <3>3. ~WaitInexistente(c)
      BY DEF WaitInexistente, InvCorto
    <3>4. CASE WaitProbar(c)
      BY <1>1, <3>1, <3>4, PasoDelHilo DEF WaitProbar
    <3>5. CASE WaitBloquear(c)
      BY <1>1, <3>1, <3>5, PasoDelHilo DEF WaitBloquear
    <3>6. CASE SignalInexistente(c)
      BY <1>1, <3>1, <3>6, PasoDelHilo DEF SignalInexistente
    <3>7. CASE SignalResponder(c)
      BY <1>1, <3>1, <3>7, PasoDelHilo DEF SignalResponder
    <3> QED
      BY <1>6, <3>2, <3>3, <3>4, <3>5, <3>6, <3>7 DEF Enviar
  <2>2. \A p : ~Sale(c, p) /\ ~Sale(c, p)'
    BY <2>1 DEF Sale, PasosPedido, PasosWait, PasosSignal
  <2>3. CASE hilo'[c].paso \in {"esperar", "waitSacar"}
    <3>1. ~Muere(c)' /\ hilo'[c].paso # "waitInexistente"
      BY <2>3 DEF Muere
    <3>2. EnCurso(c) => EnCurso(c)'
      <4>1. "waitSacar" \in PasosCurso /\ "waitBloquear" \notin PasosCurso
        BY DEF PasosCurso, PasosPedido, PasosWait
      <4> QED
        BY <1>3, <2>1, <2>3, <4>1 DEF EnCurso
    <3> QED
      BY <1>2, <1>3, <1>4, <2>1, <2>2, <3>1, <3>2, CortoQuieto
  <2>4. CASE hilo'[c].paso = "recibir"
    <3>1. /\ haciaCpu[c] = <<>> /\ Pregunta(c)
          /\ hilo[c].paso = "consulta" => LineaActual(c).op = "consulta"
          /\ hilo[c].msg = Pedido(c)
      BY <1>1, <2>1 DEF Fase, FasePedido
    <3>2. haciaCpu'[c] = Append(<<>>, Respuesta(op))
      BY <1>1, <2>1, <2>4, <3>1 DEF Responder, EnviarACpu, CanalesEnRegla
    <3>3. /\ Len(haciaCpu'[c]) = 1 /\ haciaCpu'[c][1].op = op
          /\ haciaCpu'[c] = <<Respuesta("terminar")>> => op = "terminar"
      BY <2>1, <3>2 DEF Respuesta, Mensaje
    <3>4. Pregunta(c)'
      BY <2>1, <3>1 DEF Pregunta
    <3>5. EnCurso(c)'
      <4>1. CursoSi'
        BY EsCursoLuego
      <4>2. cpu'[c].pid = hilo'[c].prog
        BY <3>4 DEF Pregunta
      <4>3. (/\ hilo'[c].paso = "recibir" /\ cpu'[c].pid = hilo'[c].prog
             /\ Pregunta(c)' /\ Len(haciaCpu'[c]) <= 1) => EnCurso(c)'
        BY <4>1 DEF CursoSi
      <4>4. Len(haciaCpu'[c]) <= 1
        BY <3>3
      <4> QED
        BY <2>4, <3>4, <4>2, <4>3, <4>4
    <3>6. Muere(c)' => LineaFinal(c, hilo'[c].prog)
      <4>1. ~Corre(c)' /\ ~Devuelta(c)'
        BY <3>4 DEF Corre, Ejecuta, Devuelta, Ociosa, Pregunta
      <4>2. Muere(c)' => op = "terminar"
        BY <2>4, <3>3, <4>1 DEF Muere
      <4>3. hilo[c].paso = "consulta" /\ op = "terminar" => LineaFinal(c, hilo[c].prog)
        <5>1. hilo[c].paso = "consulta" => hilo[c].msg.nombre = LineaActual(c).nombre
          BY <3>1 DEF Pedido, Mensaje
        <5>2. hilo[c].paso = "consulta" /\ op = "terminar" =>
                LineaActual(c).nombre \notin VariablesCompartidas
          BY <2>1, <2>4, <5>1 DEF RespuestasConsulta
        <5> QED
          BY <3>1, <5>2, LineaQuePide DEF PuedeTerminar
      <4>4. hilo[c].paso = "signalInexistente" => LineaFinal(c, hilo[c].prog)
        BY DEF InvCorto, FinEnRegla, Muere
      <4> QED
        BY <2>1, <2>4, <4>2, <4>3, <4>4
    <3> QED
      BY <1>2, <1>3, <1>4, <2>1, <2>2, <2>4, <3>5, <3>6, CortoQuieto
  <2> QED
    BY <2>1, <2>3, <2>4
<1> QED
  BY <1>5, <1>6

\* A step of a device or of the PLP.
LEMMA CortoSinHilo ==
  ASSUME InvCorto, UNCHANGED <<hilo, canales, cpu, pcb, exitProcesos>>
  PROVE  InvCorto'
<1> SUFFICES ASSUME NEW x \in CPUs
             PROVE  /\ hilo'[x].paso # "waitInexistente"
                    /\ FinEnRegla(x)' /\ SalidaEnRegla(x)' /\ SobraEnRegla(x)'
  BY DEF InvCorto
<1>1. /\ hilo'[x] = hilo[x] /\ cpu'[x] = cpu[x] /\ haciaCpu'[x] = haciaCpu[x]
      /\ haciaKernel'[x] = haciaKernel[x]
  BY DEF canales
<1>2. /\ Muere(x)' <=> Muere(x)
      /\ EnCurso(x)' <=> EnCurso(x)
      /\ \A p : (Sale(x, p)' <=> Sale(x, p)) /\ (LineaFinal(x, p)' <=> LineaFinal(x, p))
  BY <1>1, MuereIgual, FrenteIgual
<1>3. /\ hilo[x].paso # "waitInexistente"
      /\ FinEnRegla(x) /\ SalidaEnRegla(x) /\ SobraEnRegla(x)
  BY DEF InvCorto
<1>4. FinEnRegla(x)'
  BY <1>1, <1>2, <1>3 DEF FinEnRegla
<1>5. SalidaEnRegla(x)'
  BY <1>1, <1>2, <1>3 DEF SalidaEnRegla, Hasta
<1>6. SobraEnRegla(x)'
  BY <1>1, <1>2, <1>3 DEF SobraEnRegla, EnCola
<1> QED
  BY <1>1, <1>3, <1>4, <1>5, <1>6

-----------------------------------------------------------------------------
(* Steps of the CPUs that keep InvCorto. *)

\* What a CPU gets with a PCB.
LEMMA QueRecibe ==
  ASSUME InvPCP, InvAvance, NEW c \in CPUs, RecibirPcb(c), UNCHANGED varsPCP
  PROVE  /\ hilo[c].paso = "recibir" /\ hilo[c].prog \in Programas /\ Dada(c)
         /\ cpu'[c].paso = "ejecutar" /\ cpu'[c].estadoRafaga = "notificarPorFinRafaga"
         /\ cpu'[c].pid = hilo[c].prog /\ cpu'[c].pc = pcb[hilo[c].prog].pc
         /\ \A x \in CPUs \ {c} : cpu'[x] = cpu[x]
         /\ haciaCpu'[c] = <<>> /\ Ajenos(c)
<1> DEFINE m == Head(haciaCpu[c])
<1>1. cpu[c].paso = "recibirPcb" /\ haciaCpu[c] # <<>> /\ UNCHANGED haciaKernel
  BY DEF RecibirPcb
<1>2. PICK r \in Restos(haciaCpu[c]) : haciaCpu' = [haciaCpu EXCEPT ![c] = r]
  BY DEF RecibirPcb
<1>3. PICK q \in Programas :
        /\ q = hilo[c].prog /\ haciaCpu[c] \in Seq(Mensajes)
        /\ hilo[c].paso = "recibir" /\ Dada(c) /\ Ociosa(c)
  BY <1>1, DeCpuEnRegla
<1>4. /\ Len(haciaCpu[c]) = 1 /\ EsPcb(haciaCpu[c][1], q)
      /\ haciaCpu[c][1].pc = pcb[q].pc
  BY <1>1, <1>3 DEF Dada, EnWait, InvAvance, MensajesAlDia
<1>5. m = haciaCpu[c][1] /\ r = <<>>
  BY <1>3, <1>4, RestosDeUno
<1>6. m.op = "atendeProceso" /\ m.pid = q /\ m.pc = pcb[q].pc
  BY <1>4, <1>5 DEF EsPcb
<1>7. /\ cpu' = [cpu EXCEPT ![c] =
                   [paso |-> "ejecutar", pid |-> m.pid, pc |-> m.pc, i |-> 0,
                    estadoRafaga |-> "notificarPorFinRafaga", fallas |-> 0,
                    manejador |-> cpu[c].manejador]]
      /\ UNCHANGED conectada
  BY <1>6 DEF RecibirPcb
<1> HIDE DEF m
<1>8. /\ cpu'[c].paso = "ejecutar" /\ cpu'[c].estadoRafaga = "notificarPorFinRafaga"
      /\ cpu'[c].pid = q /\ cpu'[c].pc = pcb[q].pc /\ \A x \in CPUs \ {c} : cpu'[x] = cpu[x]
  BY <1>6, <1>7, DeTodos DEF CpusEnRegla
<1>9. haciaCpu'[c] = <<>> /\ \A x \in CPUs \ {c} : haciaCpu'[x] = haciaCpu[x]
  BY <1>2, <1>5, DeTodos DEF CanalesEnRegla
<1>10. Ajenos(c)
  BY <1>1, <1>7, <1>8, <1>9 DEF Ajenos
<1> QED
  BY <1>3, <1>8, <1>9, <1>10

\* A CPU that gets a PCB has its counter.
LEMMA RecibirPcbCorto ==
  ASSUME InvPCP, InvPCP', InvAvance, InvCorto, NEW c \in CPUs, RecibirPcb(c), UNCHANGED varsPCP
  PROVE  InvCorto'
<1>1. UNCHANGED <<hilo, pcb, exitProcesos>>
  BY DEF varsPCP
<1>2. PICK q \in Programas :
        /\ q = hilo[c].prog /\ hilo[c].paso = "recibir"
        /\ cpu'[c].paso = "ejecutar" /\ cpu'[c].estadoRafaga = "notificarPorFinRafaga"
        /\ cpu'[c].pid = q /\ cpu'[c].pc = pcb[q].pc
        /\ haciaCpu'[c] = <<>> /\ Ajenos(c)
  BY QueRecibe
<1>3. \A p \in Programas : pcb[p].pc \in Nat
  BY DeTodos DEF ListasEnRegla
<1>4. \A x \in CPUs \ {c} : \A p \in Programas : Sale(x, p) =>
        pcb'[p].pc = pcb[p].pc /\ (cpu'[c].pid = p => cpu'[c].pc <= cpu[x].pc)
  BY <1>1, <1>2 DEF InvCorto, SalidaEnRegla
<1>5. FinEnRegla(c)'
  <2>1. ~Ociosa(c)' /\ ~Contestada(c)' /\ ~(cpu'[c].estadoRafaga = "notificarPorFinPrograma")
    BY <1>2 DEF Ociosa, Contestada, Pregunta
  <2>2. ~Devuelta(c)'
    BY <2>1 DEF Devuelta
  <2> QED
    BY <1>1, <1>2, <2>1, <2>2 DEF FinEnRegla, Muere
<1>6. SalidaEnRegla(c)'
  BY <1>1, <1>2 DEF SalidaEnRegla, Sale
<1>7. SobraEnRegla(c)'
  BY <1>1, <1>2, <1>3 DEF SobraEnRegla
<1>8. /\ Otros(c) /\ hilo'[c].paso # "waitInexistente"
      /\ \A p \in Programas : p \in EnCola(exitProcesos) => p \in EnCola(exitProcesos')
      /\ \A p \in Programas : pcb[p].pc <= pcb'[p].pc
  BY <1>1, <1>2, <1>3 DEF Otros, EnCola
<1> QED
  BY <1>2, <1>4, <1>5, <1>6, <1>7, <1>8, CortoSigue

\* A CPU executes one line of the program of its thread; what may end the program
\* is a line at which it may end.
LEMMA QueEjecuta ==
  ASSUME ProgramasEnRegla, InvPCP, NEW c \in CPUs, UNCHANGED varsPCP,
         EjecutarLinea(c) \/ Pedir(c) \/ Fallar(c)
  PROVE  /\ hilo[c].paso = "recibir" /\ EnCurso(c) /\ Ajenos(c)
         /\ cpu'[c].pid = cpu[c].pid /\ cpu'[c].pc = cpu[c].pc + 1 /\ haciaCpu'[c] = <<>>
         /\ cpu[c].pc < Final(cpu[c].pid)
         /\ Ejecuta(c)' \/ Pregunta(c)' \/ haciaKernel'[c] # <<>>
         /\ \/ cpu'[c].paso = "respuesta"
            \/ cpu'[c].paso = "ejecutar" /\ cpu'[c].estadoRafaga = "notificarPorFinRafaga"
            \/ PuedeTerminar(ProximaLinea(c))
            \/ cpu'[c].estadoRafaga = "entradaSalidaKernel" /\ ~Mortal(haciaKernel'[c][1])
<1> DEFINE l == ProximaLinea(c)
           n == cpu[c].pc + 1
<1>1. cpu \in [CPUs -> TipoCpu] /\ cpu[c] \in TipoCpu /\ FaseCpu(c) /\ CanalesEnRegla
  BY DeTodos, DeCpuEnRegla DEF CpusEnRegla
<1>2. ~(cpu[c].fallas > 0)
  BY <1>1 DEF FaseCpu
<1>3. /\ cpu[c].paso = "ejecutar" /\ cpu[c].estadoRafaga = "notificarPorFinRafaga"
      /\ UNCHANGED <<haciaCpu, conectada, hilo>>
  BY <1>2 DEF EjecutarLinea, Pedir, Fallar, puedeSeguirEjecutando, varsPCP
<1>4. ~Ociosa(c)
  BY <1>3 DEF Ociosa
<1>5. hilo[c].paso = "recibir" /\ Corre(c)
  BY <1>3, <1>4, DeCpuEnRegla
<1>6. EnCurso(c) /\ haciaCpu[c] = <<>> /\ haciaKernel[c] = <<>> /\ cpu[c].pid = hilo[c].prog
  BY <1>5 DEF EnCurso, Corre, Ejecuta
<1>7. \A m : EnviarAKernel(c, m) =>
        /\ haciaKernel'[c] # <<>> /\ haciaKernel'[c][1] = m
        /\ \A x \in CPUs \ {c} : haciaKernel'[x] = haciaKernel[x]
  BY <1>1, <1>6 DEF EnviarAKernel, CanalesEnRegla
<1> HIDE DEF l
<1> DEFINE Hace(k) ==
             /\ cpu' = [cpu EXCEPT ![c] = k]
             /\ k.pid = cpu[c].pid /\ k.pc = n
             /\ UNCHANGED haciaKernel \/ \E m : EnviarAKernel(c, m)
             /\ \/ k.paso = "ejecutar" /\ k.estadoRafaga = "notificarPorFinRafaga"
                \/ /\ k.paso = "ejecutar" /\ k.estadoRafaga = "notificarPorFinPrograma"
                   /\ PuedeTerminar(l)
                \/ k.paso = "respuesta"
                \/ /\ k.estadoRafaga = "entradaSalidaKernel" /\ haciaKernel'[c] # <<>>
                   /\ PuedeTerminar(l) \/ ~Mortal(haciaKernel'[c][1])
                \/ haciaKernel'[c] # <<>> /\ PuedeTerminar(l)
<1>8. PICK k : Hace(k)
  <2>1. CASE EjecutarLinea(c)
    <3> DEFINE s == [cpu[c] EXCEPT !.pc = @ + 1, !.i = @ + 1]
    <3>1. /\ s.pid = cpu[c].pid /\ s.pc = n /\ s.paso = "ejecutar"
          /\ s.estadoRafaga = "notificarPorFinRafaga"
      BY <1>1, <1>3 DEF TipoCpu
    <3>2. \A e : /\ [s EXCEPT !.estadoRafaga = e].pid = s.pid
                 /\ [s EXCEPT !.estadoRafaga = e].pc = s.pc
                 /\ [s EXCEPT !.estadoRafaga = e].paso = s.paso
                 /\ [s EXCEPT !.estadoRafaga = e].estadoRafaga = e
      BY <1>1 DEF TipoCpu
    <3>3. \/ cpu' = [cpu EXCEPT ![c] = s] /\ UNCHANGED haciaKernel
          \/ /\ cpu' = [cpu EXCEPT ![c] = [s EXCEPT !.estadoRafaga = "notificarPorFinPrograma"]]
             /\ l.op = "fin" /\ UNCHANGED haciaKernel
          \/ /\ cpu' = [cpu EXCEPT ![c] = [s EXCEPT !.estadoRafaga = "entradaSalidaKernel"]]
             /\ l.op = "io"
             /\ EnviarAKernel(c, Mensaje("entradaSalidaKernel", l.nombre, s.pid, s.pc))
      BY <2>1 DEF EjecutarLinea, l
    <3> HIDE DEF s, n
    <3>4. CASE cpu' = [cpu EXCEPT ![c] = s] /\ UNCHANGED haciaKernel
      BY <3>1, <3>4
    <3>5. CASE /\ cpu' = [cpu EXCEPT ![c] = [s EXCEPT !.estadoRafaga = "notificarPorFinPrograma"]]
               /\ l.op = "fin" /\ UNCHANGED haciaKernel
      <4>1. PuedeTerminar(l)
        BY <3>5 DEF PuedeTerminar
      <4>2. PICK k : /\ k = [s EXCEPT !.estadoRafaga = "notificarPorFinPrograma"]
                     /\ k.pid = s.pid /\ k.pc = s.pc /\ k.paso = s.paso
                     /\ k.estadoRafaga = "notificarPorFinPrograma"
        BY <3>2
      <4>3. Hace(k)
        BY <3>1, <3>5, <4>1, <4>2
      <4> QED
        BY <4>3
    <3>6. CASE /\ cpu' = [cpu EXCEPT ![c] = [s EXCEPT !.estadoRafaga = "entradaSalidaKernel"]]
               /\ l.op = "io"
               /\ EnviarAKernel(c, Mensaje("entradaSalidaKernel", l.nombre, s.pid, s.pc))
      <4> DEFINE m == Mensaje("entradaSalidaKernel", l.nombre, s.pid, s.pc)
      <4>1. PuedeTerminar(l) \/ ~Mortal(m)
        BY <3>6 DEF PuedeTerminar, Mortal, Mensaje
      <4> HIDE DEF m
      <4>2. EnviarAKernel(c, m) /\ haciaKernel'[c] # <<>> /\ haciaKernel'[c][1] = m
        BY <1>7, <3>6 DEF m
      <4>3. PICK k : /\ k = [s EXCEPT !.estadoRafaga = "entradaSalidaKernel"]
                     /\ k.pid = s.pid /\ k.pc = s.pc /\ k.paso = s.paso
                     /\ k.estadoRafaga = "entradaSalidaKernel"
        BY <3>2
      <4>4. Hace(k)
        BY <3>1, <3>6, <4>1, <4>2, <4>3
      <4> QED
        BY <4>4
    <3> QED
      BY <3>3, <3>4, <3>5, <3>6
  <2>2. CASE Pedir(c)
    <3> DEFINE k == [cpu[c] EXCEPT !.paso = "respuesta", !.pc = n]
    <3>1. cpu' = [cpu EXCEPT ![c].paso = "respuesta", ![c].pc = n]
          /\ \E m : EnviarAKernel(c, m)
      BY <2>2 DEF Pedir
    <3> HIDE DEF n
    <3>2. cpu' = [cpu EXCEPT ![c] = k]
      BY <1>1, <3>1
    <3>3. k.pid = cpu[c].pid /\ k.pc = n /\ k.paso = "respuesta"
      BY <1>1 DEF TipoCpu
    <3> HIDE DEF k
    <3> QED
      BY <3>1, <3>2, <3>3
  <2>3. CASE Fallar(c)
    <3> DEFINE j == [cpu[c] EXCEPT !.pc = @ + 1, !.i = @ + 1, !.estadoRafaga = "exception",
                                   !.fallas = l.fallas - 1]
    <3>1. /\ cpu' = [cpu EXCEPT ![c] = j] /\ l.op = "falla"
          /\ EnviarAKernel(c, Mensaje("exception", SinNombre, Nadie, 0))
      BY <1>2, <2>3 DEF Fallar, l
    <3>2. j.pid = cpu[c].pid /\ j.pc = n
      BY <1>1 DEF TipoCpu
    <3> HIDE DEF j, n
    <3>3. PuedeTerminar(l) /\ haciaKernel'[c] # <<>>
      BY <1>7, <3>1 DEF PuedeTerminar
    <3> QED
      BY <3>1, <3>2, <3>3
  <2> QED
    BY <2>1, <2>2, <2>3
<1> HIDE DEF n
<1>9. cpu'[c] = k /\ Ajenos(c)
  <2>1. cpu'[c] = k /\ \A x \in CPUs \ {c} : cpu'[x] = cpu[x]
    BY <1>1, <1>8
  <2>2. \A x \in CPUs \ {c} : haciaKernel'[x] = haciaKernel[x]
    BY <1>7, <1>8
  <2> QED
    BY <1>3, <2>1, <2>2 DEF Ajenos
<1>10. /\ k.paso = "ejecutar" /\ k.estadoRafaga \in {"notificarPorFinRafaga",
                                                     "notificarPorFinPrograma"} => Ejecuta(c)'
       /\ k.paso = "respuesta" => Pregunta(c)'
  BY <1>3, <1>6, <1>8, <1>9 DEF Ejecuta, Pregunta
<1>11. Ejecuta(c)' \/ Pregunta(c)' \/ haciaKernel'[c] # <<>>
  BY <1>8, <1>10
<1>12. \/ cpu'[c].paso = "respuesta"
       \/ cpu'[c].paso = "ejecutar" /\ cpu'[c].estadoRafaga = "notificarPorFinRafaga"
       \/ PuedeTerminar(l)
       \/ cpu'[c].estadoRafaga = "entradaSalidaKernel" /\ ~Mortal(haciaKernel'[c][1])
  BY <1>8, <1>9
<1>13. cpu[c].pc < Final(cpu[c].pid)
  BY <1>1, <1>3 DEF FaseCpu
<1> QED
  BY <1>3, <1>5, <1>6, <1>8, <1>9, <1>11, <1>12, <1>13 DEF l, n

\* It keeps InvCorto.
LEMMA LineaCorto ==
  ASSUME ProgramasEnRegla, InvPCP, InvPCP', InvAvance, InvCorto, NEW c \in CPUs,
         UNCHANGED varsPCP, EjecutarLinea(c) \/ Pedir(c) \/ Fallar(c)
  PROVE  InvCorto'
<1>1. UNCHANGED <<hilo, pcb, exitProcesos>>
  BY DEF varsPCP
<1>2. /\ hilo[c].paso = "recibir" /\ EnCurso(c) /\ Ajenos(c)
      /\ cpu'[c].pid = cpu[c].pid /\ cpu'[c].pc = cpu[c].pc + 1 /\ haciaCpu'[c] = <<>>
      /\ cpu[c].pc < Final(cpu[c].pid)
      /\ Ejecuta(c)' \/ Pregunta(c)' \/ haciaKernel'[c] # <<>>
      /\ \/ cpu'[c].paso = "respuesta"
         \/ cpu'[c].paso = "ejecutar" /\ cpu'[c].estadoRafaga = "notificarPorFinRafaga"
         \/ PuedeTerminar(ProximaLinea(c))
         \/ cpu'[c].estadoRafaga = "entradaSalidaKernel" /\ ~Mortal(haciaKernel'[c][1])
  BY QueEjecuta
<1>3. PICK q \in Programas : q = hilo[c].prog /\ q = cpu[c].pid
  BY <1>2, EnCursoUnico DEF EnCurso
<1>4. \A p \in Programas : pcb[p].pc \in Nat
  BY DeTodos DEF ListasEnRegla
<1>5. \A x \in CPUs \ {c} : \A p \in Programas : Sale(x, p) =>
        pcb'[p].pc = pcb[p].pc /\ (cpu'[c].pid = p => cpu'[c].pc <= cpu[x].pc)
  <2>1. \A x \in CPUs \ {c} : ~Sale(x, q)
    BY <1>2, <1>3, NadieLaSaca
  <2> QED
    BY <1>1, <1>2, <1>3, <2>1
<1>6. PuedeTerminar(ProximaLinea(c)) => LineaFinal(c, q)'
  <2>1. cpu[c].pc \in Nat /\ Final(q) \in Nat
    BY <1>3, DeTodos, HayLinea DEF CpusEnRegla, TipoCpu
  <2>2. PICK n \in 1..Final(q) : n = cpu[c].pc + 1
    BY <1>2, <1>3, <2>1
  <2>3. ProximaLinea(c) = Codigo[q][n]
    BY <1>3, <2>2 DEF ProximaLinea
  <2>4. PuedeTerminar(Codigo[q][n]) => n \in Finales[q]
    BY LineaQueTermina
  <2> QED
    BY <1>2, <1>3, <2>2, <2>3, <2>4 DEF LineaFinal
<1>7. FinEnRegla(c)'
  <2> SUFFICES ASSUME Muere(c)' PROVE LineaFinal(c, q)'
    BY <1>1, <1>3 DEF FinEnRegla, LineaFinal
  <2>1. hilo'[c].paso = "recibir" /\ haciaCpu'[c] # <<Respuesta("terminar")>>
    BY <1>1, <1>2
  <2>2. \/ Corre(c)' /\ cpu'[c].estadoRafaga = "notificarPorFinPrograma"
        \/ Devuelta(c)' /\ Mortal(haciaKernel[c][1])'
    BY <2>1 DEF Muere
  <2>3. CASE Corre(c)' /\ cpu'[c].estadoRafaga = "notificarPorFinPrograma"
    <3>1. cpu'[c].paso = "ejecutar"
      BY <2>3 DEF Corre, Ejecuta
    <3> QED
      BY <1>2, <1>6, <2>3, <3>1
  <2>4. CASE Devuelta(c)' /\ Mortal(haciaKernel[c][1])'
    <3>1. \/ cpu'[c].paso = "recibirPcb"
          \/ cpu'[c].estadoRafaga # "notificarPorFinRafaga" /\ cpu'[c].paso = "ejecutar"
      BY <2>4 DEF Devuelta, Ociosa
    <3>2. Mortal(haciaKernel'[c][1])
      BY <2>4 DEF Mortal
    <3> QED
      BY <1>2, <1>6, <3>1, <3>2
  <2> QED
    BY <2>2, <2>3, <2>4
<1>8. SalidaEnRegla(c)'
  BY <1>1, <1>2 DEF SalidaEnRegla, Sale
<1>9. EnCurso(c)'
  <2>1. CursoSi'
    BY EsCursoLuego
  <2>2. (/\ hilo'[c].paso = "recibir" /\ cpu'[c].pid = hilo'[c].prog
         /\ \/ Ejecuta(c)'
            \/ Pregunta(c)' /\ Len(haciaCpu'[c]) <= 1
            \/ haciaKernel'[c] # <<>>) => EnCurso(c)'
    BY <2>1 DEF CursoSi
  <2>3. Len(haciaCpu'[c]) <= 1
    BY <1>2
  <2> QED
    BY <1>1, <1>2, <1>3, <2>2, <2>3
<1>10. SobraEnRegla(c)'
  BY <1>9 DEF SobraEnRegla
<1>11. /\ Otros(c) /\ hilo'[c].paso # "waitInexistente"
       /\ \A p \in Programas : p \in EnCola(exitProcesos) => p \in EnCola(exitProcesos')
       /\ \A p \in Programas : pcb[p].pc <= pcb'[p].pc
  BY <1>1, <1>2, <1>4 DEF Otros, EnCola
<1> QED
  BY <1>2, <1>5, <1>7, <1>8, <1>10, <1>11, CortoSigue

\* The end of a burst.
LEMMA TerminarCorto ==
  ASSUME ProgramasEnRegla, InvPCP, InvPCP', InvAvance, InvCorto, NEW c \in CPUs,
         UNCHANGED varsPCP, TerminarRafaga(c)
  PROVE  InvCorto'
<1> DEFINE m == Mensaje(cpu[c].estadoRafaga, SinNombre, cpu[c].pid, cpu[c].pc)
<1>1. cpu \in [CPUs -> TipoCpu] /\ cpu[c] \in TipoCpu /\ CanalesEnRegla
  BY DeTodos, DeCpuEnRegla DEF CpusEnRegla
<1>2. /\ cpu[c].paso = "ejecutar" /\ UNCHANGED <<haciaCpu, conectada, hilo, pcb, exitProcesos>>
      /\ cpu' = [cpu EXCEPT ![c].paso = "recibirPcb", ![c].manejador = TRUE]
  BY DEF TerminarRafaga, varsPCP
<1>3. /\ cpu'[c].paso = "recibirPcb" /\ cpu'[c].pid = cpu[c].pid /\ cpu'[c].pc = cpu[c].pc
      /\ \A x \in CPUs \ {c} : cpu'[x] = cpu[x]
  BY <1>1, <1>2 DEF TipoCpu
<1>4. Otros(c) /\ Ajenos(c)
  <2>1. UNCHANGED haciaKernel \/ \E w : EnviarAKernel(c, w)
    BY DEF TerminarRafaga
  <2>2. \A x \in CPUs \ {c} : haciaKernel'[x] = haciaKernel[x]
    BY <1>1, <2>1 DEF EnviarAKernel, CanalesEnRegla
  <2> QED
    BY <1>2, <1>3, <2>2 DEF Ajenos, Otros
<1>5. ~Corre(c)' /\ ~Contestada(c)'
  BY <1>3 DEF Corre, Ejecuta, Pregunta, Contestada
<1>6. /\ \A p \in Programas : p \in EnCola(exitProcesos) => p \in EnCola(exitProcesos')
      /\ \A p : Sale(c, p)' <=> Sale(c, p)
      /\ hilo'[c] = hilo[c]
  BY <1>2 DEF EnCola, Sale
<1>7. CASE cpu[c].estadoRafaga \in {"entradaSalidaKernel", "waitPcbBloqueado", "exception"}
  <2>1. UNCHANGED haciaKernel /\ Ociosa(c)
    BY <1>2, <1>7 DEF TerminarRafaga, Ociosa
  <2>2. Devuelta(c)' <=> Devuelta(c)
    BY <1>2, <1>3, <2>1 DEF Devuelta, Devuelve, Ociosa
  <2>3. ~Corre(c) /\ ~Pide(c) /\ ~Contestada(c)
    BY <1>2, <1>7 DEF Corre, Ejecuta, Pide, Pregunta, Contestada
  <2>4. EnCurso(c) => EnCurso(c)'
    BY <1>3, <1>6, <2>2, <2>3 DEF EnCurso
  <2>5. Muere(c)' => Muere(c)
    BY <1>5, <1>6, <2>1, <2>2 DEF Muere
  <2>6. Muere(c)' => LineaFinal(c, hilo'[c].prog)
    BY <1>6, <2>5 DEF InvCorto, FinEnRegla
  <2> QED
    BY <1>2, <1>3, <1>4, <1>6, <2>4, <2>6, CortoQuieto DEF InvCorto
<1>8. CASE cpu[c].estadoRafaga \notin {"entradaSalidaKernel", "waitPcbBloqueado", "exception"}
  <2>1. /\ cpu[c].estadoRafaga \in {"notificarPorFinRafaga", "notificarPorFinPrograma"}
        /\ ~Ociosa(c) /\ EnviarAKernel(c, m)
    BY <1>2, <1>8 DEF TerminarRafaga, Ociosa
  <2>2. hilo[c].paso = "recibir" /\ Corre(c)
    BY <1>2, <2>1, DeCpuEnRegla
  <2>3. haciaKernel[c] = <<>> /\ cpu[c].pid = hilo[c].prog /\ EnCurso(c)
    BY <2>2 DEF Corre, Ejecuta, EnCurso
  <2>4. m.op = cpu[c].estadoRafaga
    BY DEF Mensaje
  <2> HIDE DEF m
  <2>5. haciaKernel'[c] # <<>> /\ haciaKernel'[c][1] = m
    BY <1>1, <2>1, <2>3 DEF EnviarAKernel, CanalesEnRegla
  <2>6. EnCurso(c)'
    <3>1. CursoSi'
      BY EsCursoLuego
    <3>2. (/\ hilo'[c].paso = "recibir" /\ cpu'[c].pid = hilo'[c].prog
           /\ haciaKernel'[c] # <<>>) => EnCurso(c)'
      BY <3>1 DEF CursoSi
    <3> QED
      BY <1>3, <1>6, <2>2, <2>3, <2>5, <3>2
  <2>7. Muere(c)' => LineaFinal(c, hilo'[c].prog)
    <3>1. Muere(c)' => Mortal(haciaKernel'[c][1])
      BY <1>5, <1>6, <2>2 DEF Muere, Mortal
    <3>2. Mortal(m) => cpu[c].estadoRafaga = "notificarPorFinPrograma"
      BY <2>1, <2>4 DEF Mortal
    <3>3. cpu[c].estadoRafaga = "notificarPorFinPrograma" => Muere(c)
      BY <2>2 DEF Muere
    <3> QED
      BY <1>6, <2>5, <3>1, <3>2, <3>3 DEF InvCorto, FinEnRegla
  <2> QED
    BY <1>2, <1>3, <1>4, <1>6, <2>6, <2>7, CortoQuieto DEF InvCorto
<1> QED
  BY <1>7, <1>8

\* An answer.
LEMMA RespuestaCorto ==
  ASSUME ProgramasEnRegla, InvPCP, InvPCP', InvAvance, InvCorto, NEW c \in CPUs,
         UNCHANGED varsPCP, RecibirRespuesta(c)
  PROVE  InvCorto'
<1> DEFINE l == LineaActual(c)
           m == Head(haciaCpu[c])
           e == EstadoTras(l.op, m.op)
<1>1. /\ cpu \in [CPUs -> TipoCpu] /\ cpu[c] \in TipoCpu /\ FaseCpu(c) /\ CanalesEnRegla
      /\ haciaCpu[c] \in Seq(Mensajes)
  BY DeTodos, DeCpuEnRegla DEF CpusEnRegla
<1>2. /\ cpu[c].paso = "respuesta" /\ haciaCpu[c] # <<>>
      /\ UNCHANGED <<haciaKernel, conectada, hilo, pcb, exitProcesos>>
      /\ cpu' = [cpu EXCEPT ![c].paso = "ejecutar", ![c].i = @ + 1, ![c].estadoRafaga = e]
  BY DEF RecibirRespuesta, varsPCP
<1>3. PICK r \in Restos(haciaCpu[c]) : haciaCpu' = [haciaCpu EXCEPT ![c] = r]
  BY DEF RecibirRespuesta
<1>4. /\ m.op # "continuar" /\ l.op = "wait" => e = "waitPcbBloqueado"
      /\ e = "notificarPorFinPrograma" =>
           m.op # "continuar" /\ (l.op = "consulta" \/ m.op = "terminar")
      /\ e \in {"notificarPorFinRafaga", "notificarPorFinPrograma", "waitPcbBloqueado"}
      /\ l.op # "wait" => e # "waitPcbBloqueado"
      /\ m.op = "continuar" => e # "waitPcbBloqueado"
  BY DEF EstadoTras
<1> HIDE DEF e
<1>5. /\ cpu'[c].paso = "ejecutar" /\ cpu'[c].pid = cpu[c].pid /\ cpu'[c].pc = cpu[c].pc
      /\ cpu'[c].estadoRafaga = e
      /\ \A x \in CPUs \ {c} : cpu'[x] = cpu[x]
  BY <1>1, <1>2 DEF TipoCpu
<1>6. haciaCpu'[c] = r /\ \A x \in CPUs \ {c} : haciaCpu'[x] = haciaCpu[x]
  BY <1>1, <1>3 DEF CanalesEnRegla
<1>7. Otros(c) /\ Ajenos(c)
  BY <1>2, <1>5, <1>6 DEF Ajenos, Otros
<1>8. /\ \A p \in Programas : p \in EnCola(exitProcesos) => p \in EnCola(exitProcesos')
      /\ \A p : Sale(c, p)' <=> Sale(c, p)
      /\ hilo'[c] = hilo[c]
  BY <1>2 DEF EnCola, Sale
<1>9. /\ \/ hilo[c].paso \in PasosLibres
         \/ hilo[c].paso = "recibir" /\ Dada(c) /\ EnWait(c)
         \/ hilo[c].paso = "recibir" /\ Contestada(c)
  BY <1>2, DeCpuEnRegla
<1>10. CASE hilo[c].paso \in PasosLibres
  <2>1. hilo[c].paso \notin PasosCurso \cup {"recibir", "ioPcb", "signalInexistente"}
    BY <1>10 DEF PasosLibres, PasosCurso, PasosPedido, PasosWait, PasosSignal
  <2>2. ~EnCurso(c) /\ ~Muere(c)'
    BY <1>8, <2>1 DEF EnCurso, Muere
  <2> QED
    BY <1>2, <1>5, <1>7, <1>8, <2>2, CortoQuieto DEF InvCorto
<1>11. CASE hilo[c].paso = "recibir" /\ Dada(c) /\ EnWait(c)
  <2>1. ~EnCurso(c)
    <3>1. haciaCpu[c] \in Seq(Mensajes)
      BY <1>1
    <3>2. hilo[c].paso \notin PasosCurso
      BY <1>11 DEF PasosCurso, PasosPedido, PasosWait, PasosSignal
    <3> QED
      BY <1>11, <3>1, <3>2, DadaSola DEF EnCurso
  <2>2. /\ Len(haciaCpu[c]) = 2 /\ haciaCpu[c][1] \in Rechazos /\ haciaKernel[c] = <<>>
    BY <1>11 DEF Dada, EnWait, Ociosa
  <2>3. m \in Rechazos
    BY <1>1, <2>2, RestosDeDos
  <2>4. e = "waitPcbBloqueado"
    BY <1>4, <1>11, <2>3 DEF EnWait, Rechazos, Respuesta, Mensaje
  <2>5. ~Corre(c)' /\ ~Contestada(c)'
    BY <1>5, <2>4 DEF Corre, Ejecuta, Pregunta, Contestada
  <2>6. ~Devuelta(c)'
    <3>1. haciaKernel'[c] = <<>> /\ Len(<<>>) = 0
      BY <1>2, <2>2
    <3> QED
      BY <3>1 DEF Devuelta
  <2>7. ~Muere(c)'
    BY <1>8, <1>11, <2>5, <2>6 DEF Muere
  <2> QED
    BY <1>2, <1>5, <1>7, <1>8, <2>1, <2>7, CortoQuieto DEF InvCorto
<1>12. CASE hilo[c].paso = "recibir" /\ Contestada(c)
  <2>1. PICK op \in {"continuar", "terminar"} :
          haciaCpu[c] = <<Respuesta(op)>> /\ (op = "terminar" => l.op # "wait")
    BY <1>12 DEF Contestada
  <2>2. m.op = op /\ Len(haciaCpu[c]) = 1
    BY <2>1 DEF Respuesta, Mensaje
  <2>3. e # "waitPcbBloqueado"
    BY <1>4, <2>1, <2>2
  <2>4. Ejecuta(c)'
    BY <1>4, <1>5, <1>8, <1>12, <2>3 DEF Ejecuta, Contestada, Pregunta
  <2>5. EnCurso(c)'
    <3>1. CursoSi'
      BY EsCursoLuego
    <3>2. (/\ hilo'[c].paso = "recibir" /\ cpu'[c].pid = hilo'[c].prog
           /\ Ejecuta(c)') => EnCurso(c)'
      BY <3>1 DEF CursoSi
    <3>3. cpu'[c].pid = hilo'[c].prog
      BY <2>4 DEF Ejecuta
    <3> QED
      BY <1>8, <1>12, <2>4, <3>2, <3>3
  <2>6. Muere(c)' => LineaFinal(c, hilo'[c].prog)
    <3>1. ~Contestada(c)' /\ ~Devuelta(c)'
      BY <2>4 DEF Ejecuta, Contestada, Pregunta, Devuelta, Ociosa
    <3>2. Muere(c)' => e = "notificarPorFinPrograma"
      BY <1>5, <1>8, <1>12, <3>1 DEF Muere
    <3>3. e = "notificarPorFinPrograma" => m.op = "terminar"
      BY <1>4, <2>1, <2>2
    <3>4. m.op = "terminar" => LineaFinal(c, hilo[c].prog)
      <4>1. m.op = "terminar" => Muere(c)
        BY <1>12, <2>1, <2>2 DEF Muere
      <4> QED
        BY <4>1 DEF InvCorto, FinEnRegla
    <3> QED
      BY <1>4, <1>8, <3>2, <3>3, <3>4
  <2> QED
    BY <1>2, <1>5, <1>7, <1>8, <2>5, <2>6, CortoQuieto DEF InvCorto
<1> QED
  BY <1>9, <1>10, <1>11, <1>12

-----------------------------------------------------------------------------
(* InvCorto is invariant. *)

\* At the start no thread has a program.
LEMMA CortoInicial ==
  ASSUME Init
  PROVE  InvCorto
<1>1. \A c \in CPUs : hilo[c].paso = "esperar" /\ cpu[c].pid = Nadie
  BY DEF Init, InitPCP, InitCpu, Hilo
<1>2. \A c \in CPUs : ~Muere(c) /\ \A p : ~Sale(c, p)
  BY <1>1 DEF Muere, Sale
<1>3. \A p \in Programas : p # Nadie
  BY DEF Programas, Nadie
<1> QED
  BY <1>1, <1>2, <1>3 DEF InvCorto, FinEnRegla, SalidaEnRegla, SobraEnRegla

\* A step of the kernel, by the part of it that steps.
LEMMA KernelCorto ==
  ASSUME ProgramasEnRegla, SemaforosExisten, InvPCP, InvPCP', InvAvance, InvCorto, NextPCP,
         UNCHANGED cpu
  PROVE  InvCorto'
<1>1. CASE Admision
  BY <1>1, CortoSinHilo DEF Admision, PonerEnReady, PostProductor
<1>2. ASSUME NEW c \in CPUs, pfnControladorConexion(c) PROVE InvCorto'
  <2>1. CASE Recibir(c)
    BY <2>1, RecibirCorto
  <2>2. CASE Enviar(c)
    BY <2>2, EnviarCorto
  <2>3. CASE Interno(c)
    <3>1. UNCHANGED <<canales, cpu>>
      BY <2>3 DEF Interno
    <3>2. CASE WaitEncolar(c) \/ IoPcb(c) \/ RecargarSacar(c)
      BY <3>1, <3>2, GuardarCorto
    <3>3. CASE ExitSacar(c) \/ ExitAgregar(c)
      BY <3>1, <3>3, ExitCorto
    <3>4. CASE ~(\/ WaitEncolar(c) \/ IoPcb(c) \/ RecargarSacar(c)
                 \/ ExitSacar(c) \/ ExitAgregar(c))
      <4>1. \/ EsperarReady(c) \/ SacarReady(c) \/ CargarExec(c)
            \/ WaitLeer(c) \/ WaitEscribir(c) \/ WaitSacar(c)
            \/ SignalLeer(c) \/ SignalEscribir(c) \/ SignalProbar(c) \/ SignalSacar(c)
            \/ SignalReady(c) \/ SignalPost(c)
            \/ IoEncolar(c) \/ IoSacar(c) \/ IoPost(c) \/ RecargarReady(c) \/ RecargarPost(c)
        BY <2>3, <3>4 DEF Interno
      <4> QED
        BY <3>1, <4>1, InternoCorto
    <3> QED
      BY <3>2, <3>3, <3>4
  <2> QED
    BY <1>2, <2>1, <2>2, <2>3 DEF pfnControladorConexion
<1>3. ASSUME NEW d \in Dispositivos, fnDispositivos(d) PROVE InvCorto'
  BY <1>3, CortoSinHilo DEF fnDispositivos, DispEsperar, DispSacar, DispReady, DispPost
<1> QED
  BY <1>1, <1>2, <1>3 DEF NextPCP

\* A step of a CPU.
LEMMA CpuCorto ==
  ASSUME ProgramasEnRegla, InvPCP, InvPCP', InvAvance, InvCorto, NextCpu, UNCHANGED varsPCP
  PROVE  InvCorto'
<1>1. PICK c \in CPUs : EjecutarRafaga(c) \/ signal_handler(c)
  BY DEF NextCpu
<1>2. ~signal_handler(c)
  BY DEF signal_handler, ProgramasEnRegla
<1>3. \/ RecibirPcb(c) \/ EjecutarLinea(c) \/ Pedir(c) \/ RecibirRespuesta(c) \/ Fallar(c)
      \/ TerminarRafaga(c)
  BY <1>1, <1>2 DEF EjecutarRafaga
<1> QED
  BY <1>3, RecibirPcbCorto, LineaCorto, RespuestaCorto, TerminarCorto

\* A step in which nothing moves.
LEMMA QuietoCorto ==
  ASSUME InvCorto, UNCHANGED vars
  PROVE  InvCorto'
<1>1. UNCHANGED <<hilo, canales, cpu, pcb, exitProcesos>>
  BY DEF vars, varsPCP
<1> QED
  BY <1>1, CortoSinHilo

\* A program is ended at a line that may end it, with its newest counter in the CPU
\* that executed it.
THEOREM InvarianteCorto == ProgramasEnRegla /\ SemaforosExisten /\ Spec => []InvCorto
<1>1. SUFFICES ASSUME ProgramasEnRegla, SemaforosExisten PROVE Spec => []InvCorto
  OBVIOUS
<1>2. Spec => [](InvPCP /\ InvAvance)
  BY <1>1, InvariantePCP, InvarianteAvance, PTL
<1>3. Init => InvCorto
  BY CortoInicial
<1>4. InvPCP /\ InvPCP' /\ InvAvance /\ InvCorto /\ [Next]_vars => InvCorto'
  BY <1>1, KernelCorto, CpuCorto, QuietoCorto DEF Next
<1> QED
  BY <1>2, <1>3, <1>4, PTL DEF Spec

-----------------------------------------------------------------------------
(* The counter that the refinement mapping shows of each program. *)

\* A counter that none of the copies exceeds is the newest.
AvanceDice ==
  \A p \in Programas : \A n \in Nat :
    /\ pcb[p].pc = n \/ \E d \in CPUs : cpu[d].pid = p /\ cpu[d].pc = n
    /\ pcb[p].pc <= n /\ Hasta(p, n)
    => Avance(p) = n

\* By the definition of Avance.
LEMMA AvanceDe == InvPCP => AvanceDice
<1> SUFFICES ASSUME InvPCP, NEW p \in Programas, NEW n \in Nat,
                    pcb[p].pc = n \/ \E d \in CPUs : cpu[d].pid = p /\ cpu[d].pc = n,
                    pcb[p].pc <= n, Hasta(p, n)
             PROVE  Avance(p) = n
  BY DEF AvanceDice
<1> DEFINE pcs == {pcb[p].pc} \cup {cpu[d].pc : d \in {x \in CPUs : cpu[x].pid = p}}
<1>1. n \in pcs /\ pcs \subseteq Nat /\ \A m \in pcs : m <= n
  BY DeTodos DEF Hasta, ListasEnRegla, CpusEnRegla, TipoCpu
<1>2. Avance(p) = CHOOSE m \in pcs : \A k \in pcs : k <= m
  BY DEF Avance
<1> HIDE DEF pcs
<1>3. Avance(p) \in pcs /\ \A k \in pcs : k <= Avance(p)
  BY <1>1, <1>2
<1>4. PICK v \in Nat : v = Avance(p) /\ \A k \in pcs : k <= v
  BY <1>1, <1>3
<1>5. v <= n /\ n <= v
  BY <1>1, <1>3, <1>4
<1> QED
  BY <1>4, <1>5

\* And after a step.
LEMMA AvanceDeLuego ==
  ASSUME InvPCP'
  PROVE  AvanceDice'
BY AvanceDe, PTL

\* A step that moves no counter of a program.
LEMMA AvanceIgual ==
  ASSUME NEW p, pcb'[p].pc = pcb[p].pc,
         \A d \in CPUs : /\ cpu'[d].pid = p <=> cpu[d].pid = p
                         /\ cpu[d].pid = p => cpu'[d].pc = cpu[d].pc
  PROVE  Avance(p)' = Avance(p)
<1>1. {cpu'[c].pc : c \in {d \in CPUs : cpu'[d].pid = p}}
        = {cpu[c].pc : c \in {d \in CPUs : cpu[d].pid = p}}
  OBVIOUS
<1> QED
  BY <1>1 DEF Avance

\* The greatest of two sets is the same if they have the same upper bounds in them.
LEMMA MismoMayor ==
  ASSUME NEW S, NEW T,
         \A n : n \in S /\ (\A m \in S : m <= n) <=> n \in T /\ (\A m \in T : m <= n)
  PROVE  (CHOOSE n \in S : \A m \in S : m <= n) = (CHOOSE n \in T : \A m \in T : m <= n)
OBVIOUS

\* A PCB that is stored brings its program's counter up to the CPU's.
LEMMA AvanceAlGuardar ==
  ASSUME InvPCP, InvPCP', InvAvance, NEW c \in CPUs, Guarda(c), UNCHANGED cpu
  PROVE  \A p \in Programas : Avance(p)' = Avance(p)
<1>1. EnCurso(c)
  BY DEF Guarda
<1>2. PICK b : b.pc = cpu[c].pc /\ pcb' = [pcb EXCEPT ![hilo[c].prog] = b]
  BY DEF Guarda
<1>3. PICK q \in Programas : q = hilo[c].prog /\ q = cpu[c].pid
  BY <1>1, EnCursoUnico DEF EnCurso
<1>4. PICK n \in Nat : n = cpu[c].pc
  BY DeTodos DEF CpusEnRegla, TipoCpu
<1>5. pcb'[q].pc = n /\ \A p \in Programas : p # q => pcb'[p] = pcb[p]
  BY <1>2, <1>3, <1>4, DeTodos DEF ListasEnRegla
<1>6. pcb[q].pc <= n /\ Hasta(q, n)
  BY <1>1, <1>3, <1>4 DEF InvAvance, CpusAlDia
<1>7. Avance(q) = n
  <2>1. AvanceDice
    BY AvanceDe
  <2> QED
    BY <1>3, <1>4, <1>6, <2>1 DEF AvanceDice
<1>8. Avance(q)' = n
  <2>1. AvanceDice'
    BY AvanceDeLuego
  <2>2. /\ pcb'[q].pc <= n
        /\ \A d \in CPUs : cpu'[d].pid = q => cpu'[d].pc <= n
    BY <1>5, <1>6 DEF Hasta
  <2> QED
    BY <1>5, <2>1, <2>2 DEF AvanceDice, Hasta
<1>9. \A p \in Programas : p # q => Avance(p)' = Avance(p)
  BY <1>5, AvanceIgual
<1> QED
  BY <1>7, <1>8, <1>9

\* A CPU that gets a PCB forgets a counter that was not the newest, or is of a program
\* that has ended.
LEMMA AvanceAlRecibir ==
  ASSUME InvPCP, InvPCP', InvAvance, InvCorto, NEW c \in CPUs, RecibirPcb(c), UNCHANGED varsPCP
  PROVE  \A p \in Programas : ~EnExit(p) => Avance(p)' = Avance(p)
<1>1. UNCHANGED <<hilo, pcb>>
  BY DEF varsPCP
<1>2. /\ hilo[c].paso = "recibir" /\ hilo[c].prog \in Programas /\ Dada(c)
      /\ cpu'[c].pid = hilo[c].prog /\ cpu'[c].pc = pcb[hilo[c].prog].pc
      /\ \A x \in CPUs \ {c} : cpu'[x] = cpu[x]
  BY QueRecibe
<1>3. PICK q \in Programas : q = hilo[c].prog
  BY <1>2
<1>4. /\ \A p \in Programas : pcb[p].pc \in Nat
      /\ \A d \in CPUs : cpu[d].pc \in Nat
  BY DeTodos DEF ListasEnRegla, CpusEnRegla, TipoCpu
<1>5. PICK n \in Nat : n = pcb[q].pc
  BY <1>4
<1>6. Hasta(q, n)
  <2>1. EnEspera(q)
    BY <1>2, <1>3 DEF EnEspera, Aguarda
  <2> QED
    BY <1>5, <2>1 DEF InvAvance, PcbsAlDia
<1>7. Avance(q) = n
  <2>1. AvanceDice
    BY AvanceDe
  <2>2. pcb[q].pc <= n
    BY <1>5
  <2> QED
    BY <1>5, <1>6, <2>1, <2>2 DEF AvanceDice
<1>8. Avance(q)' = n
  <2>1. AvanceDice'
    BY AvanceDeLuego
  <2>2. \A d \in CPUs : cpu'[d].pid = q => cpu'[d].pc <= n
    <3> SUFFICES ASSUME NEW d \in CPUs, cpu'[d].pid = q PROVE cpu'[d].pc <= n
      OBVIOUS
    <3>1. CASE d = c
      BY <1>2, <1>3, <1>5, <3>1
    <3>2. CASE d # c
      BY <1>2, <1>6, <3>2 DEF Hasta
    <3> QED
      BY <3>1, <3>2
  <2>3. pcb'[q].pc = n /\ pcb'[q].pc <= n
    BY <1>1, <1>5
  <2> QED
    BY <2>1, <2>2, <2>3 DEF AvanceDice, Hasta
<1>9. ASSUME NEW p \in Programas, p # q, ~EnExit(p) PROVE Avance(p)' = Avance(p)
  <2>1. CASE cpu[c].pid # p
    BY <1>1, <1>2, <1>3, <1>9, <2>1, AvanceIgual
  <2>2. CASE cpu[c].pid = p
    <3>1. cpu[c].pc <= pcb[p].pc
      <4>1. ~EnCurso(c)
        BY <1>3, <1>9, <2>2 DEF EnCurso
      <4>2. ~Sale(c, p)
        BY <1>2 DEF Sale
      <4> QED
        BY <1>9, <2>2, <4>1, <4>2 DEF InvCorto, SobraEnRegla, EnExit
    <3> DEFINE S == {pcb[p].pc} \cup {cpu[d].pc : d \in {x \in CPUs : cpu[x].pid = p}}
               T == {pcb[p].pc} \cup {cpu'[d].pc : d \in {x \in CPUs : cpu'[x].pid = p}}
    <3>2. T \subseteq S /\ S \subseteq T \cup {cpu[c].pc} /\ pcb[p].pc \in T /\ cpu[c].pc \in S
      BY <1>2, <1>3, <1>9, <2>2
    <3>3. S \subseteq Nat /\ pcb[p].pc \in Nat /\ cpu[c].pc \in Nat
      BY <1>4
    <3>4. Avance(p) = CHOOSE m \in S : \A k \in S : k <= m
      BY DEF Avance
    <3>5. Avance(p)' = CHOOSE m \in T : \A k \in T : k <= m
      BY <1>1 DEF Avance
    <3> HIDE DEF S, T
    <3>6. \A m : m \in S /\ (\A k \in S : k <= m) <=> m \in T /\ (\A k \in T : k <= m)
      <4>1. ASSUME NEW m \in S, \A k \in S : k <= m PROVE m \in T /\ \A k \in T : k <= m
        <5>1. CASE m = cpu[c].pc
          <6>1. pcb[p].pc <= cpu[c].pc
            BY <3>2, <4>1, <5>1
          <6>2. m = pcb[p].pc
            BY <3>1, <3>3, <5>1, <6>1
          <6> QED
            BY <3>2, <4>1, <6>2
        <5>2. CASE m # cpu[c].pc
          BY <3>2, <4>1, <5>2
        <5> QED
          BY <5>1, <5>2
      <4>2. ASSUME NEW m \in T, \A k \in T : k <= m PROVE m \in S /\ \A k \in S : k <= m
        <5>1. pcb[p].pc <= m /\ m \in Nat
          BY <3>2, <3>3, <4>2
        <5>2. cpu[c].pc <= m
          BY <3>1, <3>3, <5>1
        <5> QED
          BY <3>2, <4>2, <5>2
      <4> QED
        BY <4>1, <4>2
    <3>7. (CHOOSE m \in S : \A k \in S : k <= m) = (CHOOSE m \in T : \A k \in T : k <= m)
      BY <3>6, MismoMayor
    <3> QED
      BY <3>4, <3>5, <3>7
  <2> QED
    BY <2>1, <2>2
<1> QED
  BY <1>3, <1>7, <1>8, <1>9

\* A line moves the counter of its program by one.
LEMMA AvanceDeLinea ==
  ASSUME ProgramasEnRegla, InvPCP, InvPCP', InvAvance, InvAvance', NEW c \in CPUs,
         UNCHANGED varsPCP, EjecutarLinea(c) \/ Pedir(c) \/ Fallar(c)
  PROVE  \E q \in Programas :
           /\ q = hilo[c].prog /\ EnCurso(c) /\ hilo[c].paso = "recibir"
           /\ Avance(q)' = Avance(q) + 1
           /\ \A p \in Programas : p # q => Avance(p)' = Avance(p)
<1>1. UNCHANGED <<hilo, pcb>>
  BY DEF varsPCP
<1>2. /\ hilo[c].paso = "recibir" /\ EnCurso(c) /\ Ajenos(c)
      /\ cpu'[c].pid = cpu[c].pid /\ cpu'[c].pc = cpu[c].pc + 1 /\ haciaCpu'[c] = <<>>
      /\ Ejecuta(c)' \/ Pregunta(c)' \/ haciaKernel'[c] # <<>>
  BY QueEjecuta
<1>3. PICK q \in Programas : q = hilo[c].prog /\ q = cpu[c].pid
  BY <1>2, EnCursoUnico DEF EnCurso
<1>4. PICK n \in Nat : n = cpu[c].pc
  BY DeTodos DEF CpusEnRegla, TipoCpu
<1>5. Avance(q) = n
  <2>1. AvanceDice
    BY AvanceDe
  <2>2. pcb[q].pc <= n /\ Hasta(q, n)
    BY <1>2, <1>3, <1>4 DEF InvAvance, CpusAlDia
  <2> QED
    BY <1>3, <1>4, <2>1, <2>2 DEF AvanceDice
<1>6. Avance(q)' = n + 1
  <2>1. EnCurso(c)'
    <3>1. CursoSi'
      BY EsCursoLuego
    <3>2. (/\ hilo'[c].paso = "recibir" /\ cpu'[c].pid = hilo'[c].prog
           /\ \/ Ejecuta(c)'
              \/ Pregunta(c)' /\ Len(haciaCpu'[c]) <= 1
              \/ haciaKernel'[c] # <<>>) => EnCurso(c)'
      BY <3>1 DEF CursoSi
    <3>3. Len(haciaCpu'[c]) <= 1
      BY <1>2
    <3> QED
      BY <1>1, <1>2, <1>3, <3>2, <3>3
  <2>2. /\ pcb'[q].pc <= cpu'[c].pc
        /\ \A d \in CPUs : cpu'[d].pid = q => cpu'[d].pc <= cpu'[c].pc
    BY <1>1, <1>3, <2>1 DEF InvAvance, CpusAlDia, Hasta
  <2>3. PICK k \in Nat : k = n + 1 /\ k = cpu'[c].pc
    BY <1>2, <1>4
  <2>4. cpu'[c].pid = q
    BY <1>2, <1>3
  <2>5. AvanceDice'
    BY AvanceDeLuego
  <2>6. Avance(q)' = k
    BY <2>2, <2>3, <2>4, <2>5 DEF AvanceDice, Hasta
  <2> QED
    BY <2>3, <2>6
<1>7. \A p \in Programas : p # q => Avance(p)' = Avance(p)
  <2>1. \A x \in CPUs \ {c} : cpu'[x] = cpu[x]
    BY <1>2 DEF Ajenos
  <2> QED
    BY <1>1, <1>2, <1>3, <2>1, AvanceIgual
<1>8. Avance(q)' = Avance(q) + 1
  BY <1>5, <1>6
<1> QED
  BY <1>2, <1>3, <1>7, <1>8

-----------------------------------------------------------------------------
(* Every step of the kernel and the CPUs is one of CortoPlazo, or unseen. *)

\* The elements of a list that gets one more, and of one that loses its head.
LEMMA EnColaAgregar ==
  ASSUME NEW T, NEW s \in Seq(T), NEW e \in T
  PROVE  \A p : p \in EnCola(Append(s, e)) <=> p \in EnCola(s) \/ p = e
<1>1. /\ Len(s) \in Nat /\ Len(Append(s, e)) = Len(s) + 1
      /\ \A i \in 1..Len(s) : Append(s, e)[i] = s[i]
      /\ Append(s, e)[Len(s) + 1] = e
  BY ColaConUltimo
<1>2. \A i : i \in 1..(Len(s) + 1) <=> i \in 1..Len(s) \/ i = Len(s) + 1
  BY <1>1
<1> QED
  BY <1>1, <1>2 DEF EnCola

\* The other way round.
LEMMA EnColaQuitar ==
  ASSUME NEW T, NEW s \in Seq(T), s # <<>>
  PROVE  \A p : p \in EnCola(s) <=> p \in EnCola(Tail(s)) \/ p = Head(s)
<1> DEFINE n == Len(s)
<1>1. /\ n \in Nat \ {0} /\ Head(s) = s[1] /\ Len(Tail(s)) = n - 1
      /\ \A i \in 1..(n - 1) : Tail(s)[i] = s[i + 1]
  BY ColaSinCabeza
<1> HIDE DEF n
<1>2. ASSUME NEW p, p \in EnCola(s) PROVE p \in EnCola(Tail(s)) \/ p = Head(s)
  <2>1. PICK i \in 1..n : s[i] = p
    BY <1>2 DEF EnCola, n
  <2>2. CASE i = 1
    BY <1>1, <2>1, <2>2
  <2>3. CASE i # 1
    <3>1. i - 1 \in 1..(n - 1) /\ (i - 1) + 1 = i
      BY <1>1, <2>3
    <3>2. Tail(s)[i - 1] = p
      BY <1>1, <2>1, <3>1
    <3> QED
      BY <1>1, <3>1, <3>2 DEF EnCola
  <2> QED
    BY <2>2, <2>3
<1>3. ASSUME NEW p, p \in EnCola(Tail(s)) PROVE p \in EnCola(s)
  <2>1. PICK i \in 1..(n - 1) : Tail(s)[i] = p
    BY <1>1, <1>3 DEF EnCola
  <2>2. i + 1 \in 1..n /\ s[i + 1] = p
    BY <1>1, <2>1
  <2> QED
    BY <2>2 DEF EnCola, n
<1>4. Head(s) \in EnCola(s)
  <2>1. 1 \in 1..n
    BY <1>1
  <2> QED
    BY <1>1, <2>1 DEF EnCola, n
<1> QED
  BY <1>2, <1>3, <1>4

\* p waits: for a semaphore, for a device, in its hands or in those of a signal.
Parado(p) == EnColas(p) \/ EnDisp(p) \/ Senalado(p)

\* A step leaves p where it was, as far as CortoPlazo tells.
Queda(p) ==
  /\ p > admitidos' <=> p > admitidos
  /\ EnReady(p)' <=> EnReady(p)
  /\ EnExit(p)' <=> EnExit(p)
  /\ Parado(p)' <=> Parado(p)

\* A step moves no counter of a program that has not ended.
MismoAvance == \A p \in Programas : ~EnExit(p) => Avance(p)' = Avance(p)

\* A program that a thread takes from one list to another, or whose thread serves its
\* CPU, is being executed.
QuienEjecuta ==
  \A c \in CPUs : \A p \in Programas :
    \/ Lleva(hilo[c], p) /\ hilo[c].paso # "signalReady"
    \/ hilo[c].paso \in PasosDueno \ {"ioSacar"} /\ hilo[c].prog = p
    => Lugar(p) = "ejecutando"

\* It is in no queue.
LEMMA EsQuienEjecuta == InvPCP => QuienEjecuta
<1> SUFFICES ASSUME InvPCP, NEW c \in CPUs, NEW p \in Programas,
                    \/ Lleva(hilo[c], p) /\ hilo[c].paso # "signalReady"
                    \/ hilo[c].paso \in PasosDueno \ {"ioSacar"} /\ hilo[c].prog = p
             PROVE  Lugar(p) = "ejecutando"
  BY DEF QuienEjecuta
<1>1. Excluyentes /\ Sitios
  BY SeExcluyen, SitiosSon
<1>2. CASE Lleva(hilo[c], p) /\ hilo[c].paso # "signalReady"
  <2>1. EnHilo(p) /\ \A x \in CPUs : Lleva(hilo[x], p) => x = c
    BY <1>1, <1>2 DEF Excluyentes, EnHilo
  <2>2. ~Senalado(p)
    BY <1>2, <2>1 DEF Senalado, HilosEn, Lleva
  <2>3. ~(p > admitidos) /\ ~EnReady(p) /\ ~EnExit(p) /\ ~EnColas(p) /\ ~EnDisp(p)
    BY <1>1, <2>1 DEF Excluyentes
  <2> QED
    BY <1>1, <2>2, <2>3 DEF Sitios
<1>3. CASE hilo[c].paso \in PasosDueno \ {"ioSacar"} /\ hilo[c].prog = p
  <2>1. /\ p \in 1..admitidos /\ admitidos \in Nat
        /\ listaReady \in Seq(0..admitidos) /\ exitProcesos \in Seq(1..admitidos)
    BY <1>3, UnicoDueno, DeTodos DEF ListasEnRegla
  <2>2. /\ Veces(listaReady, p) = 0 /\ Cardinality(Encolado(p)) = 0
        /\ Cardinality(EnManos(p)) = 0 /\ \A x \in CPUs : ~Lleva(hilo[x], p)
    BY <1>3, UnicoDueno
  <2>3. Veces(exitProcesos, p) = 0
    BY <1>3, <2>1, DeTodos, Unico
  <2>4. ~EnReady(p)
    <3> DEFINE T == 0..admitidos
    <3>1. listaReady \in Seq(T)
      BY <2>1
    <3> HIDE DEF T
    <3>2. \A i \in 1..Len(listaReady) : listaReady[i] # p
      BY <2>2, <3>1, VecesTipo
    <3> QED
      BY <3>2 DEF EnReady, EnCola
  <2>5. ~EnExit(p)
    <3> DEFINE T == 1..admitidos
    <3>1. exitProcesos \in Seq(T)
      BY <2>1
    <3> HIDE DEF T
    <3>2. \A i \in 1..Len(exitProcesos) : exitProcesos[i] # p
      BY <2>3, <3>1, VecesTipo
    <3> QED
      BY <3>2 DEF EnExit, EnCola
  <2>6. ~EnColas(p)
    <3> SUFFICES ASSUME EnColas(p) PROVE FALSE
      OBVIOUS
    <3>1. PICK q \in DOMAIN progEncolados : \E i \in 1..Len(progEncolados[q]) :
            progEncolados[q][i] = p
      BY DEF EnColas, EnCola
    <3>2. DOMAIN progEncolados[q] = 1..Len(progEncolados[q])
      BY <3>1, DeTodos, LenProperties DEF ListasEnRegla
    <3>3. PICK i \in DOMAIN progEncolados[q] : progEncolados[q][i] = p
      BY <3>1, <3>2
    <3>4. <<q, i>> \in Encolado(p)
      BY <3>3 DEF Encolado
    <3>5. IsFiniteSet(Encolado(p))
      BY DeTodos, EncoladoTipo
    <3> QED
      BY <2>2, <3>4, <3>5, FS_EmptySet
  <2>7. ~EnDisp(p)
    <3>1. EnManos(p) \subseteq Dispositivos
      BY DEF EnManos
    <3>2. EnManos(p) = {}
      BY <2>2, <3>1, ParametrosPCP, FS_Subset, FS_EmptySet
    <3> QED
      BY <3>2 DEF EnManos, EnDisp
  <2>8. ~Senalado(p)
    BY <2>2 DEF Senalado, HilosEn, Lleva
  <2>9. ~(p > admitidos)
    BY <2>1
  <2> QED
    BY <1>1, <2>4, <2>5, <2>6, <2>7, <2>8, <2>9 DEF Sitios
<1> QED
  BY <1>2, <1>3

\* And after a step.
LEMMA EsQuienEjecutaLuego ==
  ASSUME InvPCP'
  PROVE  QuienEjecuta'
BY EsQuienEjecuta, PTL

\* A program that stays has the same place.
LEMMA SitioIgual ==
  ASSUME Sitios, Sitios', NEW p \in Programas, Queda(p)
  PROVE  Lugar(p)' = Lugar(p)
BY DEF Sitios, Queda, Parado

\* What the abstract scheduler sees of the counters, when nobody moves them.
LEMMA AvanceNoSeVe ==
  ASSUME Sitios, Sitios', MismoAvance, \A p \in Programas : EnExit(p)' <=> EnExit(p)
  PROVE  AvanceHastaElFin' = AvanceHastaElFin
<1>1. \A p \in Programas :
        /\ Lugar(p) = "fin" <=> EnExit(p)
        /\ Lugar(p)' = "fin" <=> EnExit(p)'
  BY DEF Sitios
<1>2. \A p \in Programas :
        (IF Lugar(p) = "fin" THEN 0 ELSE Avance(p))'
          = (IF Lugar(p) = "fin" THEN 0 ELSE Avance(p))
  BY <1>1 DEF MismoAvance
<1> QED
  BY <1>2 DEF AvanceHastaElFin

\* A step that moves no program and no counter is not seen.
LEMMA NoSeMueve ==
  ASSUME Sitios, Sitios', MismoAvance, \A p \in Programas : Queda(p), UNCHANGED listaReady
  PROVE  UNCHANGED Abstracto!varsCP
<1>1. \A p \in Programas : Lugar(p)' = Lugar(p)
  BY SitioIgual
<1>2. [p \in Programas |-> Lugar(p)]' = [p \in Programas |-> Lugar(p)]
  BY <1>1, Zenon
<1>3. AvanceHastaElFin' = AvanceHastaElFin
  BY AvanceNoSeVe DEF Queda
<1> QED
  BY <1>2, <1>3 DEF Abstracto!varsCP

\* A step that moves one program.
LEMMA SeMueve ==
  ASSUME Sitios, Sitios', NEW p \in Programas, NEW de, NEW a, Lugar(p) = de, Lugar(p)' = a,
         \A q \in Programas : q # p => Queda(q),
         IF a = "listo" THEN listaReady' = Append(listaReady, p)
         ELSE IF de = "listo" THEN p = Head(listaReady) /\ listaReady' = Tail(listaReady)
         ELSE UNCHANGED listaReady
  PROVE  Abstracto!Mudar(p, de, a)
<1>1. \A q \in Programas : q # p => Lugar(q)' = Lugar(q)
  BY SitioIgual
<1>2. [q \in Programas |-> Lugar(q)]' = [[q \in Programas |-> Lugar(q)] EXCEPT ![p] = a]
  BY <1>1, Zenon
<1> QED
  BY <1>2 DEF Abstracto!Mudar

\* What the invariants say of the places, before a step and after it.
LEMMA Vista ==
  ASSUME InvPCP, InvPCP'
  PROVE  Sitios /\ Sitios' /\ QuienEjecuta /\ QuienEjecuta'
BY SeExcluyen, SitiosSon, SeExcluyenLuego, SitiosSonLuego, EsQuienEjecuta, EsQuienEjecutaLuego

\* A step of the kernel that stores no PCB moves no counter.
LEMMA SinContadores ==
  ASSUME UNCHANGED <<pcb, cpu>>
  PROVE  \A p : Avance(p)' = Avance(p)
BY AvanceIgual

\* What threads have been taken to signal, when one thread steps.
LEMMA SenaladoSigue ==
  ASSUME NEW c \in CPUs, Otros(c), NEW p,
         hilo[c].paso = "signalReady" /\ hilo[c].otro = p
           <=> hilo'[c].paso = "signalReady" /\ hilo'[c].otro = p
  PROVE  Senalado(p)' <=> Senalado(p)
BY DEF Senalado, HilosEn, Otros

\* A step of a thread that changes no list of programs but EXEC leaves every program.
LEMMA QuedaSinListas ==
  ASSUME NEW c \in CPUs, Otros(c), hilo[c].paso # "signalReady", hilo'[c].paso # "signalReady",
         UNCHANGED <<admitidos, listaReady, exitProcesos, progEncolados, dispositivo>>
  PROVE  \A p : Queda(p)
<1> SUFFICES ASSUME NEW p PROVE Queda(p)
  OBVIOUS
<1>1. Senalado(p)' <=> Senalado(p)
  BY SenaladoSigue
<1>2. /\ EnReady(p)' <=> EnReady(p)
      /\ EnExit(p)' <=> EnExit(p)
      /\ EnColas(p)' <=> EnColas(p)
      /\ EnDisp(p)' <=> EnDisp(p)
  BY DEF EnReady, EnExit, EnColas, EnDisp, EnCola
<1> QED
  BY <1>1, <1>2 DEF Queda, Parado

\* A program that goes into READY.
LEMMA EntraEnReady ==
  ASSUME InvPCP, NEW q \in Programas, listaReady' = Append(listaReady, q)
  PROVE  \A p : EnReady(p)' <=> EnReady(p) \/ p = q
<1> DEFINE T == Nat
           U == 0..admitidos
<1>1. listaReady \in Seq(U) /\ U \subseteq T /\ q \in T
  BY DeTodos DEF ListasEnRegla, Programas
<1> HIDE DEF T, U
<1>2. \A p : p \in EnCola(Append(listaReady, q)) <=> p \in EnCola(listaReady) \/ p = q
  BY <1>1, ColaCrece, EnColaAgregar
<1>3. \A p : p \in EnCola(listaReady') <=> p \in EnCola(listaReady) \/ p = q
  BY <1>2
<1> QED
  BY <1>3 DEF EnReady, EnCola

\* A program that goes back to READY.
LEMMA VuelveAReady ==
  ASSUME InvPCP, InvPCP', NEW q \in Programas, listaReady' = Append(listaReady, q),
         UNCHANGED <<admitidos, exitProcesos, pcb, cpu>>,
         \A p \in Programas : p # q => (Parado(p)' <=> Parado(p)),
         NEW de, Lugar(q) = de
  PROVE  Abstracto!Mudar(q, de, "listo") /\ AvanceHastaElFin' = AvanceHastaElFin
<1>1. Sitios /\ Sitios'
  BY Vista
<1>2. \A p : EnReady(p)' <=> EnReady(p) \/ p = q
  BY EntraEnReady
<1>3. \A p : EnExit(p)' <=> EnExit(p)
  BY DEF EnExit, EnCola
<1>4. \A p \in Programas : p # q => Queda(p)
  BY <1>2, <1>3 DEF Queda
<1>5. Lugar(q)' = "listo"
  BY <1>1, <1>2 DEF Sitios
<1>6. MismoAvance
  BY SinContadores DEF MismoAvance
<1> QED
  BY <1>1, <1>3, <1>4, <1>5, <1>6, SeMueve, AvanceNoSeVe

\* The PLP admits a program.
LEMMA PasoAdmitir ==
  ASSUME InvPCP, InvPCP', PonerEnReady, UNCHANGED <<canales, cpu>>
  PROVE  Abstracto!NextCP
<1>1. PICK q \in Programas : q = admitidos + 1
  BY DEF PonerEnReady
<1>2. /\ listaReady' = Append(listaReady, q) /\ admitidos' = q
      /\ UNCHANGED <<exitProcesos, pcb, progEncolados, dispositivo, hilo>>
  BY <1>1 DEF PonerEnReady, colas
<1>3. Sitios /\ Sitios' /\ admitidos \in Nat /\ \A p \in Programas : p \in Nat
  BY Vista, DeTodos DEF Programas
<1>4. \A p : EnReady(p)' <=> EnReady(p) \/ p = q
  BY <1>2, EntraEnReady
<1>5. \A p : (EnExit(p)' <=> EnExit(p)) /\ (Parado(p)' <=> Parado(p))
  BY <1>2 DEF EnExit, EnCola, Parado, EnColas, EnDisp, Senalado, HilosEn
<1>6. \A p \in Programas : p # q => Queda(p)
  BY <1>1, <1>2, <1>3, <1>4, <1>5 DEF Queda
<1>7. Lugar(q) = "afuera" /\ Lugar(q)' = "listo"
  BY <1>1, <1>3, <1>4 DEF Sitios
<1>8. MismoAvance
  BY <1>2, SinContadores DEF MismoAvance
<1>9. AvanceHastaElFin' = AvanceHastaElFin
  BY <1>3, <1>5, <1>8, AvanceNoSeVe
<1>10. Abstracto!Mudar(q, "afuera", "listo")
  BY <1>2, <1>3, <1>6, <1>7, SeMueve
<1>11. \A p \in Programas : p < q => Lugar(p) # "afuera"
  <2> SUFFICES ASSUME NEW p \in Programas, p < q PROVE Lugar(p) # "afuera"
    OBVIOUS
  <2>1. ~(p > admitidos)
    BY <1>1, <1>3
  <2> QED
    BY <1>3, <2>1 DEF Sitios
<1>12. Abstracto!Admitir(q)
  BY <1>9, <1>10, <1>11 DEF Abstracto!Admitir
<1> QED
  BY <1>12 DEF Abstracto!NextCP

\* A thread takes the first program of READY.
LEMMA PasoDespachar ==
  ASSUME InvPCP, InvPCP', ReadyContado, ReadySinNull, NEW c \in CPUs, UNCHANGED <<canales, cpu>>,
         SacarReady(c)
  PROVE  Abstracto!NextCP
<1>1. hilo[c].paso = "sacar" /\ listaReady # <<>> /\ listaReady \in Seq(Programas)
  BY HayEnReady DEF SacarReady, ReadySinNull
<1>2. PICK q \in Programas : q = Head(listaReady) /\ q # Nadie
  <2> DEFINE T == Programas
  <2>1. Head(listaReady) \in T
    <3>1. listaReady \in Seq(T)
      BY <1>1
    <3> HIDE DEF T
    <3> QED
      BY <1>1, <3>1, ColaSinCabeza
  <2> QED
    BY <2>1 DEF Programas, Nadie
<1>3. /\ listaReady' = Tail(listaReady) /\ hilo' = [hilo EXCEPT ![c] = Hilo("cargar", q)]
      /\ UNCHANGED <<admitidos, exitProcesos, pcb, progEncolados, dispositivo>>
  BY <1>1, <1>2 DEF SacarReady, plp, colas
<1>4. hilo'[c] = Hilo("cargar", q) /\ Otros(c)
  BY <1>3, DeTodos DEF HilosEnRegla, Otros
<1>5. Sitios /\ Sitios' /\ QuienEjecuta'
  BY Vista
<1>6. \A p : EnReady(p) <=> EnReady(p)' \/ p = q
  <2> DEFINE T == Programas
  <2>1. listaReady \in Seq(T)
    BY <1>1
  <2> HIDE DEF T
  <2>2. \A p : p \in EnCola(listaReady) <=> p \in EnCola(Tail(listaReady)) \/ p = Head(listaReady)
    BY <1>1, <2>1, EnColaQuitar
  <2>3. \A p : p \in EnCola(listaReady) <=> p \in EnCola(listaReady') \/ p = q
    BY <1>2, <1>3, <2>2
  <2> QED
    BY <2>3 DEF EnReady, EnCola
<1>7. \A p : (EnExit(p)' <=> EnExit(p)) /\ (Parado(p)' <=> Parado(p))
  <2> SUFFICES ASSUME NEW p PROVE (EnExit(p)' <=> EnExit(p)) /\ (Parado(p)' <=> Parado(p))
    OBVIOUS
  <2>1. Senalado(p)' <=> Senalado(p)
    BY <1>1, <1>4, SenaladoSigue DEF Hilo
  <2> QED
    BY <1>3, <2>1 DEF EnExit, EnCola, Parado, EnColas, EnDisp
<1>8. \A p \in Programas : p # q => Queda(p)
  BY <1>3, <1>6, <1>7 DEF Queda
<1>9. Lugar(q) = "listo"
  BY <1>5, <1>6 DEF Sitios
<1>10. Lugar(q)' = "ejecutando"
  <2>1. Lleva(hilo'[c], q) /\ hilo'[c].paso # "signalReady"
    BY <1>4 DEF Hilo, Lleva
  <2> QED
    BY <1>5, <2>1 DEF QuienEjecuta
<1>11. Abstracto!Mudar(q, "listo", "ejecutando")
  BY <1>2, <1>3, <1>5, <1>8, <1>9, <1>10, SeMueve
<1>12. MismoAvance
  BY <1>3, SinContadores DEF MismoAvance
<1>13. AvanceHastaElFin' = AvanceHastaElFin
  BY <1>5, <1>7, <1>12, AvanceNoSeVe
<1>14. Abstracto!Despachar(q)
  BY <1>11, <1>13 DEF Abstracto!Despachar
<1> QED
  BY <1>14 DEF Abstracto!NextCP

\* A program out of a CPU goes back to READY at the end of its quantum.
LEMMA PasoRecargar ==
  ASSUME InvPCP, InvPCP', NEW c \in CPUs, UNCHANGED <<canales, cpu>>, RecargarReady(c)
  PROVE  Abstracto!NextCP
<1>1. PICK q \in Programas : q = hilo[c].otro
  BY DeHilo DEF RecargarReady, Acotado, PasosConOtro, Programas, Nadie
<1>2. /\ hilo[c].paso = "recargarReady" /\ listaReady' = Append(listaReady, q)
      /\ UNCHANGED <<admitidos, exitProcesos, pcb, progEncolados, dispositivo>>
  BY <1>1 DEF RecargarReady, plp, colas
<1>3. hilo'[c].paso = "recargarPost" /\ Otros(c)
  BY DeTodos, PasoDelHilo DEF RecargarReady
<1>4. \A p : Parado(p)' <=> Parado(p)
  <2> SUFFICES ASSUME NEW p PROVE Parado(p)' <=> Parado(p)
    OBVIOUS
  <2>1. Senalado(p)' <=> Senalado(p)
    BY <1>2, <1>3, SenaladoSigue
  <2> QED
    BY <1>2, <2>1 DEF EnCola, Parado, EnColas, EnDisp
<1>5. Lugar(q) = "ejecutando"
  <2>1. QuienEjecuta
    BY Vista
  <2> QED
    BY <1>1, <1>2, <2>1 DEF QuienEjecuta, Lleva
<1>6. Abstracto!Mudar(q, "ejecutando", "listo") /\ AvanceHastaElFin' = AvanceHastaElFin
  BY <1>2, <1>4, <1>5, VuelveAReady
<1>7. Abstracto!Volver(q)
  BY <1>6 DEF Abstracto!Volver
<1> QED
  BY <1>7 DEF Abstracto!NextCP

\* A signal wakes the program it took from the queue of its semaphore.
LEMMA PasoSenal ==
  ASSUME InvPCP, InvPCP', SenalesSinNull, NEW c \in CPUs, UNCHANGED <<canales, cpu>>, SignalReady(c)
  PROVE  Abstracto!NextCP
<1>1. PICK q \in Programas : q = hilo[c].otro
  BY DeHilo DEF SignalReady, SenalesSinNull, Acotado, Programas, Nadie
<1>2. /\ hilo[c].paso = "signalReady" /\ listaReady' = Append(listaReady, q)
      /\ UNCHANGED <<admitidos, exitProcesos, pcb, progEncolados, dispositivo>>
  BY <1>1 DEF SignalReady, plp, colas
<1>3. hilo'[c].paso = "signalPost" /\ Otros(c)
  BY DeTodos DEF SignalReady, HilosEnRegla, TipoHilo, Otros
<1>4. \A p \in Programas : p # q => (Parado(p)' <=> Parado(p))
  <2> SUFFICES ASSUME NEW p \in Programas, p # q PROVE Parado(p)' <=> Parado(p)
    OBVIOUS
  <2>1. Senalado(p)' <=> Senalado(p)
    BY <1>1, <1>3, SenaladoSigue
  <2> QED
    BY <1>2, <2>1 DEF EnCola, Parado, EnColas, EnDisp
<1>5. Lugar(q) = "bloqueado"
  <2>1. Sitios
    BY Vista
  <2>2. Senalado(q)
    BY <1>1, <1>2 DEF Senalado, HilosEn
  <2> QED
    BY <2>1, <2>2 DEF Sitios
<1>6. Abstracto!Mudar(q, "bloqueado", "listo") /\ AvanceHastaElFin' = AvanceHastaElFin
  BY <1>2, <1>4, <1>5, VuelveAReady
<1>7. Abstracto!Despertar(q)
  BY <1>6 DEF Abstracto!Despertar
<1> QED
  BY <1>7 DEF Abstracto!NextCP

\* A device wakes the program it has served.
LEMMA PasoServido ==
  ASSUME InvPCP, InvPCP', NEW d \in Dispositivos, UNCHANGED <<canales, cpu>>, DispReady(d)
  PROVE  Abstracto!NextCP
<1>1. PICK q \in Programas : q = dispositivo[d].prog
  BY DeTodos DEF DispReady, DispositivosEnRegla, Programas, Nadie
<1>2. /\ listaReady' = Append(listaReady, q)
      /\ UNCHANGED <<admitidos, exitProcesos, pcb, progEncolados, hilo>>
  BY <1>1 DEF DispReady, plp, colas
<1>3. /\ dispositivo'[d].prog = Nadie
      /\ \A x \in Dispositivos \ {d} : dispositivo'[x] = dispositivo[x]
  BY DeTodos DEF DispReady, DispositivosEnRegla
<1>4. \A p \in Programas : p # q => (Parado(p)' <=> Parado(p))
  <2> SUFFICES ASSUME NEW p \in Programas, p # q PROVE Parado(p)' <=> Parado(p)
    OBVIOUS
  <2>1. p # Nadie
    BY DEF Programas, Nadie
  <2>2. EnDisp(p)' <=> EnDisp(p)
    BY <1>1, <1>3, <2>1 DEF EnDisp
  <2> QED
    BY <1>2, <2>2 DEF EnCola, Parado, EnColas, Senalado, HilosEn
<1>5. Lugar(q) = "bloqueado"
  <2>1. Sitios
    BY Vista
  <2> QED
    BY <1>1, <2>1 DEF Sitios, EnDisp
<1>6. Abstracto!Mudar(q, "bloqueado", "listo") /\ AvanceHastaElFin' = AvanceHastaElFin
  BY <1>2, <1>4, <1>5, VuelveAReady
<1>7. Abstracto!Despertar(q)
  BY <1>6 DEF Abstracto!Despertar
<1> QED
  BY <1>7 DEF Abstracto!NextCP

\* A program is queued for a semaphore or a device.
LEMMA EntraEnCola ==
  ASSUME InvPCP, NEW q \in Programas, NEW r \in Semaforos \cup Dispositivos, Encolar(r, q)
  PROVE  \A p : EnColas(p)' <=> EnColas(p) \/ p = q
<1> DEFINE T == Nat
           U == 1..admitidos
           R == Semaforos \cup Dispositivos
<1>1. /\ progEncolados \in [R -> Seq(U)] /\ U \subseteq T /\ q \in T
      /\ progEncolados' = [progEncolados EXCEPT ![r] = Append(@, q)]
  BY DeTodos DEF ListasEnRegla, Programas, Encolar
<1> HIDE DEF T, U
<1>2. /\ progEncolados[r] \in Seq(T)
      /\ progEncolados'[r] = Append(progEncolados[r], q)
      /\ \A x \in R \ {r} : progEncolados'[x] = progEncolados[x]
      /\ DOMAIN progEncolados = R /\ DOMAIN progEncolados' = R
  BY <1>1, ColaCrece
<1>3. \A p : p \in EnCola(progEncolados'[r]) <=> p \in EnCola(progEncolados[r]) \/ p = q
  <2>1. \A p : p \in EnCola(Append(progEncolados[r], q))
                 <=> p \in EnCola(progEncolados[r]) \/ p = q
    BY <1>1, <1>2, EnColaAgregar
  <2> QED
    BY <1>2, <2>1
<1>4. \A p : \A x \in R \ {r} : p \in EnCola(progEncolados'[x]) <=> p \in EnCola(progEncolados[x])
  BY <1>2
<1>5. /\ \A p : EnColas(p) <=> \E x \in R : p \in EnCola(progEncolados[x])
      /\ \A p : EnColas(p)' <=> \E x \in R : p \in EnCola(progEncolados'[x])
  BY <1>2 DEF EnColas, EnCola
<1> HIDE DEF R
<1>6. r \in R
  BY DEF R
<1> QED
  BY <1>3, <1>4, <1>5, <1>6

\* The first of a queue goes out of it.
LEMMA SaleDeCola ==
  ASSUME InvPCP, NEW r \in Semaforos \cup Dispositivos, progEncolados[r] # <<>>,
         progEncolados' = [progEncolados EXCEPT ![r] = Tail(@)]
  PROVE  \A p : EnColas(p) <=> EnColas(p)' \/ p = Head(progEncolados[r])
<1> DEFINE U == 1..admitidos
           R == Semaforos \cup Dispositivos
<1>1. progEncolados \in [R -> Seq(U)]
  BY DeTodos DEF ListasEnRegla
<1> HIDE DEF U
<1>2. /\ progEncolados[r] \in Seq(U)
      /\ progEncolados'[r] = Tail(progEncolados[r])
      /\ \A x \in R \ {r} : progEncolados'[x] = progEncolados[x]
      /\ DOMAIN progEncolados = R /\ DOMAIN progEncolados' = R
  BY <1>1
<1>3. \A p : p \in EnCola(progEncolados[r])
               <=> p \in EnCola(progEncolados'[r]) \/ p = Head(progEncolados[r])
  <2>1. \A p : p \in EnCola(progEncolados[r])
                 <=> p \in EnCola(Tail(progEncolados[r])) \/ p = Head(progEncolados[r])
    BY <1>2, EnColaQuitar
  <2> QED
    BY <1>2, <2>1
<1>4. \A p : \A x \in R \ {r} : p \in EnCola(progEncolados'[x]) <=> p \in EnCola(progEncolados[x])
  BY <1>2
<1>5. /\ \A p : EnColas(p) <=> \E x \in R : p \in EnCola(progEncolados[x])
      /\ \A p : EnColas(p)' <=> \E x \in R : p \in EnCola(progEncolados'[x])
  <2>1. DOMAIN progEncolados = R /\ DOMAIN progEncolados' = R
    BY <1>2
  <2> HIDE DEF R
  <2> QED
    BY <2>1 DEF EnColas, EnCola
<1> HIDE DEF R
<1>6. r \in R
  BY DEF R
<1> QED
  BY <1>3, <1>4, <1>5, <1>6

\* A program blocks: on a semaphore, with its PCB stored, or on a device.
LEMMA PasoBloquear ==
  ASSUME InvPCP, InvPCP', InvAvance, NEW c \in CPUs, UNCHANGED <<canales, cpu>>,
         WaitEncolar(c) \/ IoEncolar(c)
  PROVE  Abstracto!NextCP
<1>1. hilo[c].paso \in {"waitEncolar", "ioEncolar"}
  BY DEF WaitEncolar, IoEncolar
<1>2. PICK q \in Programas : q = hilo[c].prog
  BY <1>1, DeHilo DEF Acotado, PasosConProg, PasosDueno, Programas, Nadie
<1>3. PICK r \in Semaforos \cup Dispositivos : r = hilo[c].msg.nombre
  <2>1. CASE hilo[c].paso = "waitEncolar"
    BY <2>1, SemaforoDelMensaje DEF PasosWait
  <2>2. CASE hilo[c].paso = "ioEncolar"
    <3>1. hilo[c].paso \in PasosFin
      BY <2>2 DEF PasosFin, PasosIo
    <3> QED
      BY <2>2, <3>1, DeHilo DEF Fase, FaseFin
  <2> QED
    BY <1>1, <2>1, <2>2
<1>4. /\ Encolar(r, q) /\ UNCHANGED <<admitidos, listaReady, exitProcesos, dispositivo>>
  BY <1>2, <1>3 DEF WaitEncolar, IoEncolar, plp, ready
<1>5. hilo'[c].paso # "signalReady" /\ Otros(c)
  BY DeTodos, PasoDelHilo DEF WaitEncolar, IoEncolar
<1>6. Sitios /\ Sitios' /\ QuienEjecuta
  BY Vista
<1>7. \A p : EnColas(p)' <=> EnColas(p) \/ p = q
  BY <1>4, EntraEnCola
<1>8. \A p : /\ EnReady(p)' <=> EnReady(p)
             /\ EnExit(p)' <=> EnExit(p)
             /\ Parado(p)' <=> Parado(p) \/ p = q
  <2> SUFFICES ASSUME NEW p
               PROVE  /\ EnReady(p)' <=> EnReady(p)
                      /\ EnExit(p)' <=> EnExit(p)
                      /\ Parado(p)' <=> Parado(p) \/ p = q
    OBVIOUS
  <2>1. Senalado(p)' <=> Senalado(p)
    BY <1>1, <1>5, SenaladoSigue
  <2>2. EnDisp(p)' <=> EnDisp(p)
    BY <1>4 DEF EnDisp
  <2>3. (EnReady(p)' <=> EnReady(p)) /\ (EnExit(p)' <=> EnExit(p))
    BY <1>4 DEF EnReady, EnExit, EnCola
  <2> QED
    BY <1>7, <2>1, <2>2, <2>3 DEF Parado
<1>9. \A p \in Programas : p # q => Queda(p)
  BY <1>4, <1>8 DEF Queda
<1>10. Lugar(q) = "ejecutando"
  BY <1>1, <1>2, <1>6 DEF QuienEjecuta, Lleva, PasosDueno
<1>11. Lugar(q)' = "bloqueado"
  BY <1>6, <1>7 DEF Sitios
<1>12. Abstracto!Mudar(q, "ejecutando", "bloqueado")
  BY <1>4, <1>6, <1>9, <1>10, <1>11, SeMueve
<1>13. MismoAvance
  <2>1. CASE WaitEncolar(c)
    <3>1. Guarda(c) /\ UNCHANGED cpu
      BY <2>1, QueGuarda
    <3> QED
      BY <3>1, AvanceAlGuardar DEF MismoAvance
  <2>2. CASE IoEncolar(c)
    <3>1. UNCHANGED <<pcb, cpu>>
      BY <2>2 DEF IoEncolar
    <3> QED
      BY <3>1, SinContadores DEF MismoAvance
  <2> QED
    BY <2>1, <2>2
<1>14. AvanceHastaElFin' = AvanceHastaElFin
  BY <1>6, <1>8, <1>13, AvanceNoSeVe
<1>15. Abstracto!Bloquear(q)
  BY <1>12, <1>14 DEF Abstracto!Bloquear
<1> QED
  BY <1>15 DEF Abstracto!NextCP

\* The program that a thread moves to EXIT is at a line that may end it.
LEMMA TerminaDonde ==
  ASSUME InvPCP, InvCorto
  PROVE  TerminaElQueTermino
<1> SUFFICES ASSUME NEW c \in CPUs, hilo[c].paso = "exitAgregar"
             PROVE  Avance(hilo[c].otro) \in Finales[hilo[c].otro]
  BY DEF TerminaElQueTermino, HilosEn
<1>1. PICK q \in Programas : q = hilo[c].otro
  BY DeHilo DEF Acotado, PasosConOtro, Programas, Nadie
<1>2. LineaFinal(c, q) /\ pcb[q].pc <= cpu[c].pc /\ Hasta(q, cpu[c].pc)
  BY <1>1 DEF InvCorto, SalidaEnRegla, Sale
<1>3. PICK n \in Nat : n = cpu[c].pc
  BY DeTodos DEF CpusEnRegla, TipoCpu
<1>4. AvanceDice
  BY AvanceDe
<1>5. Avance(q) = n
  BY <1>1, <1>2, <1>3, <1>4 DEF AvanceDice, LineaFinal
<1> QED
  BY <1>1, <1>2, <1>3, <1>5 DEF LineaFinal

\* A program gets to EXIT.
LEMMA PasoTerminar ==
  ASSUME InvPCP, InvPCP', InvCorto, NEW c \in CPUs, UNCHANGED <<canales, cpu>>, ExitAgregar(c)
  PROVE  Abstracto!NextCP
<1>1. PICK q \in Programas : q = hilo[c].otro
  BY DeHilo DEF ExitAgregar, Acotado, PasosConOtro, Programas, Nadie
<1>2. /\ hilo[c].paso = "exitAgregar" /\ exitProcesos' = Append(exitProcesos, q)
      /\ UNCHANGED <<admitidos, listaReady, pcb, progEncolados, dispositivo>>
  BY <1>1 DEF ExitAgregar, plp, ready, colas
<1>3. hilo'[c].paso # "signalReady" /\ Otros(c)
  BY DeTodos, PasoDelHilo DEF ExitAgregar
<1>4. Sitios /\ Sitios' /\ QuienEjecuta
  BY Vista
<1>5. \A p : EnExit(p)' <=> EnExit(p) \/ p = q
  <2> DEFINE T == Nat
             U == 1..admitidos
  <2>1. exitProcesos \in Seq(U) /\ U \subseteq T /\ q \in T
    BY DeTodos DEF ListasEnRegla, Programas
  <2> HIDE DEF T, U
  <2>2. \A p : p \in EnCola(Append(exitProcesos, q)) <=> p \in EnCola(exitProcesos) \/ p = q
    BY <2>1, ColaCrece, EnColaAgregar
  <2>3. \A p : p \in EnCola(exitProcesos') <=> p \in EnCola(exitProcesos) \/ p = q
    BY <1>2, <2>2
  <2> QED
    BY <2>3 DEF EnExit, EnCola
<1>6. \A p : (EnReady(p)' <=> EnReady(p)) /\ (Parado(p)' <=> Parado(p))
  <2> SUFFICES ASSUME NEW p PROVE (EnReady(p)' <=> EnReady(p)) /\ (Parado(p)' <=> Parado(p))
    OBVIOUS
  <2>1. Senalado(p)' <=> Senalado(p)
    BY <1>2, <1>3, SenaladoSigue
  <2> QED
    BY <1>2, <2>1 DEF EnReady, EnCola, Parado, EnColas, EnDisp
<1>7. \A p \in Programas : p # q => Queda(p)
  BY <1>2, <1>5, <1>6 DEF Queda
<1>8. Lugar(q) = "ejecutando"
  BY <1>1, <1>2, <1>4 DEF QuienEjecuta, Lleva
<1>9. Lugar(q)' = "fin"
  BY <1>4, <1>5 DEF Sitios
<1>10. Abstracto!Mudar(q, "ejecutando", "fin")
  BY <1>2, <1>4, <1>7, <1>8, <1>9, SeMueve
<1>11. Avance(q) \in Finales[q]
  BY <1>1, <1>2, TerminaDonde DEF TerminaElQueTermino, HilosEn
<1>12. AvanceHastaElFin[q] = Avance(q)
  BY <1>8 DEF AvanceHastaElFin
<1>13. AvanceHastaElFin' = [AvanceHastaElFin EXCEPT ![q] = 0]
  <2>1. \A p \in Programas : Avance(p)' = Avance(p)
    BY <1>2, SinContadores
  <2>2. \A p \in Programas : p # q => Lugar(p)' = Lugar(p)
    BY <1>4, <1>7, SitioIgual
  <2>3. \A p \in Programas : p # q =>
          (IF Lugar(p) = "fin" THEN 0 ELSE Avance(p))'
            = (IF Lugar(p) = "fin" THEN 0 ELSE Avance(p))
    BY <2>1, <2>2
  <2>4. (IF Lugar(q) = "fin" THEN 0 ELSE Avance(q))' = 0
    BY <1>9
  <2> QED
    BY <2>3, <2>4 DEF AvanceHastaElFin
<1>14. Abstracto!Terminar(q)
  BY <1>10, <1>11, <1>12, <1>13 DEF Abstracto!Terminar
<1> QED
  BY <1>14 DEF Abstracto!NextCP

\* A CPU executes a line.
LEMMA PasoAvanzar ==
  ASSUME ProgramasEnRegla, InvPCP, InvPCP', InvAvance, InvAvance', NEW c \in CPUs,
         UNCHANGED varsPCP, EjecutarLinea(c) \/ Pedir(c) \/ Fallar(c)
  PROVE  Abstracto!NextCP
<1>1. PICK q \in Programas :
        /\ q = hilo[c].prog /\ EnCurso(c) /\ hilo[c].paso = "recibir"
        /\ Avance(q)' = Avance(q) + 1
        /\ \A p \in Programas : p # q => Avance(p)' = Avance(p)
  BY AvanceDeLinea
<1>2. \A p : Lugar(p)' = Lugar(p)
  BY DEF Lugar, HilosEn, EnCola, varsPCP, plp, ready, colas
<1>3. Lugar(q) = "ejecutando"
  <2>1. QuienEjecuta
    BY Vista
  <2> QED
    BY <1>1, <2>1 DEF QuienEjecuta, PasosDueno
<1>4. [p \in Programas |-> Lugar(p)]' = [p \in Programas |-> Lugar(p)] /\ UNCHANGED listaReady
  BY <1>2 DEF varsPCP, ready
<1>5. AvanceHastaElFin' = [AvanceHastaElFin EXCEPT ![q] = @ + 1]
  <2>1. \A p \in Programas : p # q =>
          (IF Lugar(p) = "fin" THEN 0 ELSE Avance(p))'
            = (IF Lugar(p) = "fin" THEN 0 ELSE Avance(p))
    BY <1>1, <1>2
  <2>2. (IF Lugar(q) = "fin" THEN 0 ELSE Avance(q))' = Avance(q) + 1
    BY <1>1, <1>2, <1>3
  <2>3. AvanceHastaElFin[q] = Avance(q)
    BY <1>3 DEF AvanceHastaElFin
  <2> QED
    BY <2>1, <2>2, <2>3 DEF AvanceHastaElFin
<1>6. Abstracto!Avanzar(q)
  BY <1>3, <1>4, <1>5 DEF Abstracto!Avanzar
<1> QED
  BY <1>6 DEF Abstracto!NextCP

\* A signal takes a program from the queue of its semaphore, or a NULL: it is not seen.
LEMMA SenalNoSeVe ==
  ASSUME InvPCP, InvPCP', NEW c \in CPUs, UNCHANGED <<canales, cpu>>, SignalSacar(c)
  PROVE  UNCHANGED Abstracto!varsCP
<1>1. /\ hilo[c].paso = "signalSacar"
      /\ UNCHANGED <<admitidos, listaReady, exitProcesos, pcb, dispositivo>>
  BY DEF SignalSacar, plp, ready
<1>2. PICK r \in Semaforos \cup Dispositivos : r = hilo[c].msg.nombre
  BY <1>1, SemaforoDelMensaje DEF PasosSignal
<1>3. PICK u :
        /\ hilo' = [hilo EXCEPT ![c].otro = u, ![c].paso = "signalReady"]
        /\ \/ u = Nadie /\ UNCHANGED progEncolados
           \/ /\ progEncolados[r] # <<>> /\ u = Head(progEncolados[r])
              /\ progEncolados' = [progEncolados EXCEPT ![r] = Tail(@)]
  BY <1>2 DEF SignalSacar
<1>4. hilo'[c].paso = "signalReady" /\ hilo'[c].otro = u /\ Otros(c)
  BY <1>3, DeTodos DEF HilosEnRegla, TipoHilo, Otros
<1>5. ASSUME NEW p \in Programas PROVE Parado(p)' <=> Parado(p)
  <2>1. EnDisp(p)' <=> EnDisp(p)
    BY <1>1 DEF EnDisp
  <2>2. Senalado(p)' <=> Senalado(p) \/ p = u
    BY <1>1, <1>4 DEF Senalado, HilosEn, Otros
  <2>3. CASE u = Nadie /\ UNCHANGED progEncolados
    <3>1. p # u
      BY <2>3 DEF Programas, Nadie
    <3>2. EnColas(p)' <=> EnColas(p)
      BY <2>3 DEF EnColas, EnCola
    <3> QED
      BY <2>1, <2>2, <3>1, <3>2 DEF Parado
  <2>4. CASE /\ progEncolados[r] # <<>> /\ u = Head(progEncolados[r])
             /\ progEncolados' = [progEncolados EXCEPT ![r] = Tail(@)]
    <3>1. EnColas(p) <=> EnColas(p)' \/ p = u
      BY <2>4, SaleDeCola
    <3> QED
      BY <2>1, <2>2, <3>1 DEF Parado
  <2> QED
    BY <1>3, <2>3, <2>4
<1>6. \A p \in Programas : Queda(p)
  BY <1>1, <1>5 DEF Queda, EnReady, EnExit, EnCola
<1>7. MismoAvance
  BY <1>1, SinContadores DEF MismoAvance
<1> QED
  BY <1>1, <1>6, <1>7, Vista, NoSeMueve

\* A step of a thread that CortoPlazo does not see: it moves no program out of the
\* places it tells apart.
LEMMA HiloNoSeVe ==
  ASSUME InvPCP, InvPCP', NEW c \in CPUs, pfnControladorConexion(c), UNCHANGED cpu,
         Otros(c), MismoAvance, ~SignalSacar(c), hilo[c].paso # "signalReady",
         UNCHANGED <<admitidos, listaReady, exitProcesos, progEncolados, dispositivo>>
  PROVE  UNCHANGED Abstracto!varsCP
<1>1. hilo'[c].paso # "signalReady"
  <2>1. CASE SignalProbar(c)
    <3>1. \E b \in {"signalSacar", "signalResponder"} : Seguir(c, b)
      BY <2>1 DEF SignalProbar
    <3> QED
      BY <3>1, DeTodos, PasoDelHilo
  <2>2. CASE ~SignalProbar(c)
    BY <2>2, PasosDeSignal
  <2> QED
    BY <2>1, <2>2
<1>2. \A p \in Programas : Queda(p)
  BY <1>1, QuedaSinListas
<1> QED
  BY <1>2, Vista, NoSeMueve

\* The steps of a thread that store no PCB and move no program.
LEMMA HiloMudo ==
  ASSUME InvPCP, InvPCP', NEW c \in CPUs, pfnControladorConexion(c), UNCHANGED cpu,
         \/ Recibir(c) \/ Enviar(c)
         \/ EsperarReady(c) \/ CargarExec(c) \/ WaitLeer(c) \/ WaitEscribir(c) \/ WaitSacar(c)
         \/ SignalLeer(c) \/ SignalEscribir(c) \/ SignalProbar(c) \/ SignalPost(c)
         \/ IoSacar(c) \/ IoPost(c) \/ RecargarPost(c) \/ ExitSacar(c)
  PROVE  UNCHANGED Abstracto!varsCP
<1>1. CASE Recibir(c)
  <2>1. hilo[c].paso = "recibir" /\ Otros(c)
    <3>1. PICK m, b : hilo' = [hilo EXCEPT ![c].msg = m, ![c].paso = b]
      BY <1>1 DEF Recibir, RecibirMensaje, RecibirFin
    <3> QED
      BY <1>1, <3>1, DeTodos, PasoDelHilo DEF Recibir, RecibirMensaje, RecibirFin
  <2>2. UNCHANGED <<admitidos, listaReady, exitProcesos, progEncolados, dispositivo, pcb>>
    BY <1>1 DEF Recibir, RecibirMensaje, RecibirFin, plp, ready, colas
  <2>3. MismoAvance /\ ~SignalSacar(c)
    BY <2>1, <2>2, SinContadores DEF MismoAvance, SignalSacar
  <2> QED
    BY <2>1, <2>2, <2>3, HiloNoSeVe
<1>2. CASE Enviar(c)
  <2>1. /\ hilo[c].paso \in {"enviar", "consulta", "waitInexistente", "waitProbar",
                             "waitBloquear", "signalInexistente", "signalResponder"}
        /\ \E b : Seguir(c, b) \/ Volver(c, b)
        /\ UNCHANGED <<admitidos, listaReady, exitProcesos, progEncolados, dispositivo, pcb>>
    BY <1>2 DEF Enviar, EnviarPcb, Consulta, WaitInexistente, WaitProbar, WaitBloquear,
       SignalInexistente, SignalResponder, plp, ready, colas
  <2>2. Otros(c)
    BY <2>1, DeTodos, PasoDelHilo
  <2>3. MismoAvance /\ ~SignalSacar(c)
    BY <2>1, SinContadores DEF MismoAvance, SignalSacar
  <2> QED
    BY <2>1, <2>2, <2>3, HiloNoSeVe
<1>3. CASE \/ EsperarReady(c) \/ CargarExec(c) \/ WaitEscribir(c) \/ WaitSacar(c)
           \/ SignalEscribir(c) \/ SignalProbar(c) \/ SignalPost(c)
           \/ IoSacar(c) \/ IoPost(c) \/ RecargarPost(c)
  <2>1. /\ hilo[c].paso \in {"esperar", "cargar", "waitEscribir", "waitSacar", "signalEscribir",
                             "signalProbar", "signalPost", "ioSacar", "ioPost", "recargarPost"}
        /\ \E b : Seguir(c, b) \/ Volver(c, b)
        /\ UNCHANGED <<admitidos, listaReady, exitProcesos, progEncolados, dispositivo, pcb>>
    BY <1>3 DEF EsperarReady, CargarExec, WaitEscribir, WaitSacar, SignalEscribir, SignalProbar,
       SignalPost, IoSacar, IoPost, RecargarPost, plp, ready, colas
  <2>2. Otros(c)
    BY <2>1, DeTodos, PasoDelHilo
  <2>3. MismoAvance /\ ~SignalSacar(c)
    BY <2>1, SinContadores DEF MismoAvance, SignalSacar
  <2> QED
    BY <2>1, <2>2, <2>3, HiloNoSeVe
<1>4. CASE WaitLeer(c) \/ SignalLeer(c)
  <2>1. /\ hilo[c].paso \in {"waitLeer", "signalLeer"}
        /\ \E b, v : hilo' = [hilo EXCEPT ![c].leido = v, ![c].paso = b]
        /\ UNCHANGED <<admitidos, listaReady, exitProcesos, progEncolados, dispositivo, pcb>>
    BY <1>4 DEF WaitLeer, SignalLeer, plp, ready, colas
  <2>2. Otros(c)
    BY <2>1, DeTodos, PasoDelHilo
  <2>3. MismoAvance /\ ~SignalSacar(c)
    BY <2>1, SinContadores DEF MismoAvance, SignalSacar
  <2> QED
    BY <2>1, <2>2, <2>3, HiloNoSeVe
<1>5. CASE ExitSacar(c)
  <2>1. hilo[c].paso = "exitSacar" /\ Otros(c)
    BY <1>5, SaleElSuyo
  <2>2. UNCHANGED <<admitidos, listaReady, exitProcesos, progEncolados, dispositivo, pcb>>
    BY <1>5 DEF ExitSacar, plp, ready, colas
  <2>3. MismoAvance /\ ~SignalSacar(c)
    BY <2>1, <2>2, SinContadores DEF MismoAvance, SignalSacar
  <2> QED
    BY <2>1, <2>2, <2>3, HiloNoSeVe
<1> QED
  BY <1>1, <1>2, <1>3, <1>4, <1>5

\* A PCB stored, by an I/O or the end of a quantum, is not seen.
LEMMA GuardarNoSeVe ==
  ASSUME InvPCP, InvPCP', InvAvance, NEW c \in CPUs, pfnControladorConexion(c), UNCHANGED cpu,
         IoPcb(c) \/ RecargarSacar(c)
  PROVE  UNCHANGED Abstracto!varsCP
<1>1. Guarda(c) /\ Otros(c)
  BY QueGuarda DEF Guarda
<1>2. /\ hilo[c].paso \in {"ioPcb", "recargarSacar"}
      /\ UNCHANGED <<admitidos, listaReady, exitProcesos, progEncolados, dispositivo>>
  BY DEF IoPcb, RecargarSacar, plp, ready, colas
<1>3. MismoAvance
  BY <1>1, AvanceAlGuardar DEF MismoAvance
<1>4. ~SignalSacar(c)
  BY <1>2 DEF SignalSacar
<1> QED
  BY <1>1, <1>2, <1>3, <1>4, HiloNoSeVe

\* Nor is a post of the PLP or of a device, or a program in the hands of a device.
LEMMA DispositivoNoSeVe ==
  ASSUME InvPCP, InvPCP', UNCHANGED <<canales, cpu>>,
         PostProductor \/ \E d \in Dispositivos : DispEsperar(d) \/ DispSacar(d) \/ DispPost(d)
  PROVE  UNCHANGED Abstracto!varsCP
<1>1. UNCHANGED <<admitidos, listaReady, exitProcesos, pcb, hilo>>
  BY DEF PostProductor, DispEsperar, DispSacar, DispPost, plp, ready
<1>2. \A p \in Programas : Parado(p)' <=> Parado(p)
  <2>1. CASE UNCHANGED dispositivo /\ UNCHANGED progEncolados
    BY <1>1, <2>1 DEF Parado, EnColas, EnDisp, Senalado, HilosEn, EnCola
  <2>2. ASSUME NEW d \in Dispositivos, DispEsperar(d) \/ DispPost(d)
        PROVE  \A p \in Programas : Parado(p)' <=> Parado(p)
    <3>1. \A x \in Dispositivos : dispositivo'[x].prog = dispositivo[x].prog
      BY <2>2, DeTodos DEF DispositivosEnRegla, DispEsperar, DispPost
    <3>2. UNCHANGED progEncolados
      BY <2>2 DEF DispEsperar, DispPost, colas
    <3> QED
      BY <1>1, <3>1, <3>2 DEF Parado, EnColas, EnDisp, Senalado, HilosEn, EnCola
  <2>3. ASSUME NEW d \in Dispositivos, DispSacar(d)
        PROVE  \A p \in Programas : Parado(p)' <=> Parado(p)
    <3>1. dispositivo[d].paso = "sacar" /\ progEncolados[d] # <<>>
      BY <2>3, HayEnDispositivo DEF DispSacar
    <3>2. PICK u : u = Head(progEncolados[d])
      OBVIOUS
    <3>3. /\ dispositivo' = [dispositivo EXCEPT ![d] = [paso |-> "usar", prog |-> u]]
          /\ progEncolados' = [progEncolados EXCEPT ![d] = Tail(@)]
      BY <2>3, <3>1, <3>2 DEF DispSacar
    <3>4. /\ dispositivo[d].prog = Nadie /\ dispositivo'[d].prog = u
          /\ \A x \in Dispositivos \ {d} : dispositivo'[x] = dispositivo[x]
      BY <3>1, <3>3, DeTodos DEF DispositivosEnRegla
    <3> SUFFICES ASSUME NEW p \in Programas PROVE Parado(p)' <=> Parado(p)
      OBVIOUS
    <3>5. p # Nadie
      BY DEF Programas, Nadie
    <3>6. EnDisp(p)' <=> EnDisp(p) \/ p = u
      BY <3>4, <3>5 DEF EnDisp
    <3>7. EnColas(p) <=> EnColas(p)' \/ p = u
      BY <3>1, <3>2, <3>3, SaleDeCola
    <3>8. Senalado(p)' <=> Senalado(p)
      BY <1>1 DEF Senalado, HilosEn
    <3> QED
      BY <3>6, <3>7, <3>8 DEF Parado
  <2>4. CASE PostProductor
    BY <2>1, <2>4 DEF PostProductor, colas
  <2> QED
    BY <2>2, <2>3, <2>4
<1>3. \A p \in Programas : Queda(p)
  BY <1>1, <1>2 DEF Queda, EnReady, EnExit, EnCola
<1>4. MismoAvance
  BY <1>1, SinContadores DEF MismoAvance
<1> QED
  BY <1>1, <1>3, <1>4, Vista, NoSeMueve

\* Nor is a CPU that gets a PCB or an answer, or ends its burst.
LEMMA CpuNoSeVe ==
  ASSUME InvPCP, InvPCP', InvAvance, InvCorto, NEW c \in CPUs, UNCHANGED varsPCP,
         RecibirPcb(c) \/ RecibirRespuesta(c) \/ TerminarRafaga(c)
  PROVE  UNCHANGED Abstracto!varsCP
<1>1. UNCHANGED <<admitidos, listaReady, exitProcesos, pcb, hilo, progEncolados, dispositivo>>
  BY DEF varsPCP, plp, ready, colas
<1>2. \A p \in Programas : Queda(p)
  BY <1>1 DEF Queda, EnReady, EnExit, EnCola, Parado, EnColas, EnDisp, Senalado, HilosEn
<1>3. MismoAvance
  <2>1. CASE RecibirPcb(c)
    BY <2>1, AvanceAlRecibir DEF MismoAvance
  <2>2. CASE RecibirRespuesta(c) \/ TerminarRafaga(c)
    <3>1. \A x \in CPUs : cpu'[x].pid = cpu[x].pid /\ cpu'[x].pc = cpu[x].pc
      <4>1. CpusEnRegla
        BY DeTodos
      <4>2. CASE RecibirRespuesta(c)
        BY <4>1, <4>2 DEF RecibirRespuesta, CpusEnRegla, TipoCpu
      <4>3. CASE TerminarRafaga(c)
        BY <4>1, <4>3 DEF TerminarRafaga, CpusEnRegla, TipoCpu
      <4> QED
        BY <2>2, <4>2, <4>3
    <3> QED
      BY <1>1, <3>1, AvanceIgual DEF MismoAvance
  <2> QED
    BY <2>1, <2>2
<1> QED
  BY <1>1, <1>2, <1>3, Vista, NoSeMueve

\* At the start every program is outside.
LEMMA InicioAbstracto ==
  ASSUME ProgramasEnRegla, Init
  PROVE  Abstracto!InitCP
<1>1. Sitios /\ admitidos = 0 /\ listaReady = <<>>
  BY InvInicial, SeExcluyen, SitiosSon DEF Init, InitPCP
<1>2. \A p \in Programas : Lugar(p) = "afuera"
  BY <1>1 DEF Sitios, Programas
<1>3. \A p \in Programas : Avance(p) = 0
  <2>1. AvanceDice
    BY InvInicial, AvanceDe
  <2>2. \A c \in CPUs : cpu[c].pid = Nadie
    BY DEF Init, InitCpu
  <2>3. \A p \in Programas : pcb[p].pc = 0 /\ Hasta(p, 0)
    BY <2>2 DEF Init, InitPCP, Hasta, Programas, Nadie
  <2> QED
    BY <2>1, <2>3 DEF AvanceDice
<1>4. AvanceHastaElFin = [p \in Programas |-> 0]
  BY <1>2, <1>3 DEF AvanceHastaElFin
<1> QED
  BY <1>1, <1>2, <1>4 DEF Abstracto!InitCP

\* A step of the kernel or of a CPU is one of the abstract scheduler, or unseen.
LEMMA PasoAbstracto ==
  ASSUME ProgramasEnRegla, InvPCP, InvPCP', InvAvance, InvAvance', InvCorto, ReadyContado,
         ReadySinNull, SenalesSinNull, [Next]_vars
  PROVE  [Abstracto!NextCP]_Abstracto!varsCP
<1>1. CASE NextPCP /\ UNCHANGED cpu
  <2>1. CASE Admision
    BY <1>1, <2>1, PasoAdmitir, DispositivoNoSeVe DEF Admision
  <2>2. ASSUME NEW d \in Dispositivos, fnDispositivos(d)
        PROVE  [Abstracto!NextCP]_Abstracto!varsCP
    BY <1>1, <2>2, PasoServido, DispositivoNoSeVe DEF fnDispositivos
  <2>3. ASSUME NEW c \in CPUs, pfnControladorConexion(c)
        PROVE  [Abstracto!NextCP]_Abstracto!varsCP
    <3>1. CASE Recibir(c) \/ Enviar(c)
      BY <1>1, <2>3, <3>1, HiloMudo
    <3>2. CASE Interno(c)
      <4>1. UNCHANGED <<canales, cpu>>
        BY <1>1, <3>2 DEF Interno
      <4>2. CASE SacarReady(c)
        BY <4>1, <4>2, PasoDespachar
      <4>3. CASE WaitEncolar(c) \/ IoEncolar(c)
        BY <4>1, <4>3, PasoBloquear
      <4>4. CASE SignalSacar(c)
        BY <4>1, <4>4, SenalNoSeVe
      <4>5. CASE SignalReady(c)
        BY <4>1, <4>5, PasoSenal
      <4>6. CASE IoPcb(c) \/ RecargarSacar(c)
        BY <2>3, <4>1, <4>6, GuardarNoSeVe
      <4>7. CASE RecargarReady(c)
        BY <4>1, <4>7, PasoRecargar
      <4>8. CASE ExitAgregar(c)
        BY <4>1, <4>8, PasoTerminar
      <4>9. CASE \/ EsperarReady(c) \/ CargarExec(c) \/ WaitLeer(c) \/ WaitEscribir(c)
                 \/ WaitSacar(c) \/ SignalLeer(c) \/ SignalEscribir(c) \/ SignalProbar(c)
                 \/ SignalPost(c) \/ IoSacar(c) \/ IoPost(c) \/ RecargarPost(c) \/ ExitSacar(c)
        BY <2>3, <4>1, <4>9, HiloMudo
      <4> QED
        BY <3>2, <4>2, <4>3, <4>4, <4>5, <4>6, <4>7, <4>8, <4>9 DEF Interno
    <3> QED
      BY <2>3, <3>1, <3>2 DEF pfnControladorConexion
  <2> QED
    BY <1>1, <2>1, <2>2, <2>3 DEF NextPCP
<1>2. CASE NextCpu /\ UNCHANGED varsPCP
  <2>1. PICK c \in CPUs : EjecutarRafaga(c)
    BY <1>2 DEF NextCpu, signal_handler, ProgramasEnRegla
  <2>2. CASE EjecutarLinea(c) \/ Pedir(c) \/ Fallar(c)
    BY <1>2, <2>2, PasoAvanzar
  <2>3. CASE RecibirPcb(c) \/ RecibirRespuesta(c) \/ TerminarRafaga(c)
    BY <1>2, <2>3, CpuNoSeVe
  <2> QED
    BY <2>1, <2>2, <2>3 DEF EjecutarRafaga
<1>3. CASE UNCHANGED vars
  <2>1. UNCHANGED <<admitidos, listaReady, exitProcesos, pcb, cpu, hilo, progEncolados,
                    dispositivo>>
    BY <1>3 DEF vars, varsPCP, plp, ready, colas
  <2>2. \A p \in Programas : Queda(p)
    BY <2>1 DEF Queda, EnReady, EnExit, EnCola, Parado, EnColas, EnDisp, Senalado, HilosEn
  <2>3. MismoAvance
    BY <2>1, SinContadores DEF MismoAvance
  <2> QED
    BY <2>1, <2>2, <2>3, Vista, NoSeMueve
<1> QED
  BY <1>1, <1>2, <1>3 DEF Next

-----------------------------------------------------------------------------
(* The theorems. *)

\* Only the program that reached a line that may end it is moved to EXIT.
THEOREM SoloTerminaElQueTermino ==
  ProgramasEnRegla /\ SemaforosExisten /\ Spec => []TerminaElQueTermino
<1> SUFFICES ASSUME ProgramasEnRegla, SemaforosExisten PROVE Spec => []TerminaElQueTermino
  OBVIOUS
<1>1. InvPCP /\ InvCorto => TerminaElQueTermino
  BY TerminaDonde
<1> QED
  BY <1>1, InvariantePCP, InvarianteCorto, PTL

\* While no signal finds its queue emptied by another after its test, the threads,
\* semaphores, devices and CPUs implement CortoPlazo.
THEOREM RefinaSinNull ==
  ProgramasEnRegla /\ SemaforosExisten /\ Spec /\ []SenalesSinNull => ImplementaCortoPlazo
<1> SUFFICES ASSUME ProgramasEnRegla, SemaforosExisten
             PROVE  Spec /\ []SenalesSinNull => ImplementaCortoPlazo
  OBVIOUS
<1>1. Init => Abstracto!InitCP
  BY InicioAbstracto
<1>2. Init => ReadySinNull
  BY EmptySeq DEF Init, InitPCP, ReadySinNull
<1>3. InvPCP /\ ReadySinNull /\ SenalesSinNull /\ [Next]_vars => ReadySinNull'
  BY ReadySigueSinNull
<1>4. /\ InvPCP /\ InvPCP' /\ InvAvance /\ InvAvance' /\ InvCorto /\ ReadyContado
      /\ ReadySinNull /\ SenalesSinNull /\ [Next]_vars
      => [Abstracto!NextCP]_Abstracto!varsCP
  BY PasoAbstracto
<1> QED
  BY <1>1, <1>2, <1>3, <1>4, InvariantePCP, InvarianteAvance, InvarianteCorto,
     ReadySiempreContado, PTL
  DEF Spec, ImplementaCortoPlazo, Abstracto!SpecCP

\* Without NULL in a signal, and so while no two CPUs are in fnLock or fnUnlock of the
\* same semaphore at once,
THEOREM RefinaSinCarreras ==
  ProgramasEnRegla /\ SemaforosExisten /\ Spec /\ []SinCarreras => ImplementaCortoPlazo
BY SenalesSinCarreras, RefinaSinNull

\* kernel and CPUs implement the abstract short-term scheduler; with one CPU, always.
THEOREM RefinaCortoPlazo ==
  ProgramasEnRegla /\ SemaforosExisten /\ UnaCpu /\ Spec => ImplementaCortoPlazo
<1> SUFFICES ASSUME ProgramasEnRegla, SemaforosExisten, UnaCpu
             PROVE  Spec => ImplementaCortoPlazo
  OBVIOUS
<1>1. SinCarreras
  BY UnaSinCarreras
<1>2. Spec => []SinCarreras
  BY <1>1, PTL
<1> QED
  BY <1>2, RefinaSinCarreras

=============================================================================
