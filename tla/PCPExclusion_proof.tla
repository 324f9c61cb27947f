-------------------------- MODULE PCPExclusion_proof --------------------------
(***************************************************************************)
(* Two programs are never at once between a wait and a signal of a         *)
(* semaphore of initial value 1, for any number of programs, CPUs and      *)
(* semaphores, unless two threads are in fnLock or fnUnlock of it at once  *)
(* (SinCarreras).                                                          *)
(***************************************************************************)
EXTENDS PCPRefina_proof

-----------------------------------------------------------------------------
(* There is one permit to be inside, and it is always in one place. *)

\* Thread c has the permit of s in its hands: it serves a signal that has not put it
\* in the counter or given it to a program of the queue, or a wait that has taken it
\* from the counter.
Cede(c, s) ==
  \/ /\ hilo[c].paso = "recibir"
     /\ \E m \in EnCola(haciaKernel[c]) : m.op = "signalKernel" /\ m.nombre = s
  \/ /\ hilo[c].msg.nombre = s
     /\ \/ hilo[c].paso \in {"signalLeer", "signalEscribir"}
        \/ hilo[c].paso \in {"signalProbar", "signalSacar"} /\ iSemaforo[s] <= 0
        \/ hilo[c].paso = "waitProbar" /\ iSemaforo[s] >= 0

\* The counter, one thread or one program has it.
UnPermiso(s) ==
  /\ iSemaforo[s] <= 1
  /\ iSemaforo[s] = 1 =>
       (\A c \in CPUs : ~Cede(c, s)) /\ (\A p \in Programas : ~Adentro(p, s))
  /\ \A c, d \in CPUs : Cede(c, s) /\ Cede(d, s) => c = d
  /\ \A c \in CPUs : \A p \in Programas : ~(Cede(c, s) /\ Adentro(p, s))
  /\ \A p, q \in Programas : Adentro(p, s) /\ Adentro(q, s) => p = q

InvPermiso == \A s \in Exclusivos : UnPermiso(s)

\* A step after which nobody has it that had it not.
LEMMA PermisoSePierde ==
  ASSUME NEW s, UnPermiso(s), iSemaforo[s] \in Int, iSemaforo'[s] \in Int,
         iSemaforo'[s] <= iSemaforo[s],
         \A c \in CPUs : Cede(c, s)' => Cede(c, s),
         \A p \in Programas : Adentro(p, s)' => Adentro(p, s)
  PROVE  UnPermiso(s)'
BY DEF UnPermiso

\* A step that gives it to thread c, from the counter or from a program.
LEMMA PermisoAlHilo ==
  ASSUME NEW s, UnPermiso(s), iSemaforo[s] \in Int, iSemaforo'[s] \in Int, NEW c \in CPUs,
         \/ iSemaforo[s] = 1 /\ iSemaforo'[s] <= 0
         \/ /\ iSemaforo'[s] <= iSemaforo[s]
            /\ \E p \in Programas : Adentro(p, s) /\ ~Adentro(p, s)',
         \A d \in CPUs : Cede(d, s)' => Cede(d, s) \/ d = c,
         \A p \in Programas : Adentro(p, s)' => Adentro(p, s)
  PROVE  UnPermiso(s)'
BY DEF UnPermiso

\* A step in which thread c gives it to a program.
LEMMA PermisoAlPrograma ==
  ASSUME NEW s, UnPermiso(s), iSemaforo[s] \in Int, iSemaforo'[s] = iSemaforo[s],
         NEW c \in CPUs, Cede(c, s), ~Cede(c, s)', NEW q,
         \A d \in CPUs : Cede(d, s)' => Cede(d, s),
         \A p \in Programas : Adentro(p, s)' => Adentro(p, s) \/ p = q
  PROVE  UnPermiso(s)'
BY DEF UnPermiso

\* A step in which thread c puts it in the counter.
LEMMA PermisoAlSemaforo ==
  ASSUME NEW s, UnPermiso(s), iSemaforo[s] \in Int, iSemaforo'[s] \in Int, iSemaforo'[s] <= 1,
         NEW c \in CPUs, Cede(c, s), iSemaforo'[s] = 1 => ~Cede(c, s)',
         \A d \in CPUs : Cede(d, s)' => Cede(d, s),
         \A p \in Programas : Adentro(p, s)' => Adentro(p, s)
  PROVE  UnPermiso(s)'
BY DEF UnPermiso

-----------------------------------------------------------------------------
(* Who gets inside. *)

\* A program whose counter stays, or is forgotten at its end, gets inside only if it
\* was waiting.
LEMMA AdentroSigue ==
  ASSUME NEW s, NEW p \in Programas,
         AvanceHastaElFin'[p] \in {AvanceHastaElFin[p], 0},
         EsperaA(p, s) => EsperaA(p, s)'
  PROVE  Adentro(p, s)' => Adentro(p, s)
<1>1. ~EnSeccion(p, s, 0)
  BY DEF EnSeccion
<1>2. Adentro(p, s)' <=> EnSeccion(p, s, AvanceHastaElFin'[p]) /\ ~EsperaA(p, s)'
  BY DEF Adentro, EnSeccion
<1> QED
  BY <1>1, <1>2 DEF Adentro

\* A step of the kernel stores PCBs, but moves no counter.
LEMMA KernelNoAvanza ==
  ASSUME InvPCP, InvPCP', InvAvance, NextPCP, UNCHANGED cpu
  PROVE  \A p \in Programas : Avance(p)' = Avance(p)
<1>1. CASE UNCHANGED pcb
  BY <1>1, SinContadores
<1>2. ASSUME NEW c \in CPUs, WaitEncolar(c) \/ IoPcb(c) \/ RecargarSacar(c)
      PROVE  \A p \in Programas : Avance(p)' = Avance(p)
  BY <1>2, QueGuarda, AvanceAlGuardar
<1>3. ASSUME NEW c \in CPUs, pfnControladorConexion(c),
             ~(WaitEncolar(c) \/ IoPcb(c) \/ RecargarSacar(c))
      PROVE  UNCHANGED pcb
  <2>1. CASE Recibir(c) \/ Enviar(c)
    BY <2>1 DEF Recibir, RecibirMensaje, RecibirFin, Enviar, EnviarPcb, Consulta,
       WaitInexistente, WaitProbar, WaitBloquear, SignalInexistente, SignalResponder
  <2>2. CASE Interno(c)
    BY <1>3, <2>2 DEF Interno, EsperarReady, SacarReady, CargarExec, WaitLeer, WaitEscribir,
       WaitSacar, SignalLeer, SignalEscribir, SignalProbar, SignalSacar, SignalReady,
       SignalPost, IoEncolar, IoSacar, IoPost, RecargarReady, RecargarPost, ExitSacar,
       ExitAgregar
  <2> QED
    BY <1>3, <2>1, <2>2 DEF pfnControladorConexion
<1>4. CASE Admision \/ \E d \in Dispositivos : fnDispositivos(d)
  BY <1>1, <1>4 DEF Admision, PonerEnReady, PostProductor, fnDispositivos, DispEsperar,
     DispSacar, DispReady, DispPost
<1> QED
  BY <1>1, <1>2, <1>3, <1>4 DEF NextPCP

\* It ends at most the program that a thread has in its hands.
LEMMA KernelTermina ==
  ASSUME InvPCP, NextPCP
  PROVE  \A p : /\ EnExit(p) => EnExit(p)'
                /\ EnExit(p)' => \/ EnExit(p)
                                 \/ \E c \in HilosEn({"exitAgregar"}) : hilo[c].otro = p
<1>1. CASE UNCHANGED exitProcesos
  BY <1>1 DEF EnExit, EnCola
<1>2. ASSUME NEW c \in CPUs, ExitAgregar(c)
      PROVE  \A p : EnExit(p)' <=> EnExit(p) \/ p = hilo[c].otro
  <2> DEFINE T == Nat
             U == 1..admitidos
  <2>1. exitProcesos \in Seq(U) /\ U \subseteq T
    BY DeTodos DEF ListasEnRegla
  <2>2. hilo[c].otro \in T
    BY DeHilo DEF TipoHilo, Pids, Programas, Nadie
  <2> HIDE DEF T, U
  <2>3. \A p : p \in EnCola(Append(exitProcesos, hilo[c].otro)) <=>
                p \in EnCola(exitProcesos) \/ p = hilo[c].otro
    <3>1. exitProcesos \in Seq(T)
      BY <2>1, ColaCrece
    <3> QED
      BY <2>2, <3>1, EnColaAgregar
  <2>4. exitProcesos' = Append(exitProcesos, hilo[c].otro)
    BY <1>2 DEF ExitAgregar
  <2>5. \A p : p \in EnCola(exitProcesos') <=> p \in EnCola(exitProcesos) \/ p = hilo[c].otro
    BY <2>3, <2>4
  <2> QED
    BY <2>5 DEF EnExit, EnCola
<1>3. ASSUME NEW c \in CPUs, pfnControladorConexion(c), ~ExitAgregar(c)
      PROVE  UNCHANGED exitProcesos
  <2>1. CASE Recibir(c) \/ Enviar(c)
    BY <2>1 DEF Recibir, RecibirMensaje, RecibirFin, Enviar, EnviarPcb, Consulta,
       WaitInexistente, WaitProbar, WaitBloquear, SignalInexistente, SignalResponder
  <2>2. CASE Interno(c)
    BY <1>3, <2>2 DEF Interno, EsperarReady, SacarReady, CargarExec, WaitLeer, WaitEscribir,
       WaitSacar, WaitEncolar, SignalLeer, SignalEscribir, SignalProbar, SignalSacar,
       SignalReady, SignalPost, IoPcb, IoEncolar, IoSacar, IoPost, RecargarSacar,
       RecargarReady, RecargarPost, ExitSacar
  <2> QED
    BY <1>3, <2>1, <2>2 DEF pfnControladorConexion
<1>4. CASE Admision \/ \E d \in Dispositivos : fnDispositivos(d)
  BY <1>1, <1>4 DEF Admision, PonerEnReady, PostProductor, fnDispositivos, DispEsperar,
     DispSacar, DispReady, DispPost
<1>5. ASSUME NEW c \in CPUs, ExitAgregar(c) PROVE c \in HilosEn({"exitAgregar"})
  BY <1>5 DEF ExitAgregar, HilosEn
<1> QED
  BY <1>1, <1>2, <1>3, <1>4, <1>5 DEF NextPCP

\* So the counter of a program stays, or is forgotten at its end.
LEMMA AvanceDelKernel ==
  ASSUME InvPCP, InvPCP', InvAvance, NextPCP, UNCHANGED cpu
  PROVE  \A p \in Programas : AvanceHastaElFin'[p] \in {AvanceHastaElFin[p], 0}
<1>1. \A p \in Programas : Avance(p)' = Avance(p)
  BY KernelNoAvanza
<1>2. \A p \in Programas : (Lugar(p) = "fin" <=> EnExit(p)) /\ (Lugar(p)' = "fin" <=> EnExit(p)')
  BY Vista DEF Sitios
<1> SUFFICES ASSUME NEW p \in Programas
             PROVE  AvanceHastaElFin'[p] \in {AvanceHastaElFin[p], 0}
  OBVIOUS
<1>3. /\ AvanceHastaElFin[p] = IF Lugar(p) = "fin" THEN 0 ELSE Avance(p)
      /\ AvanceHastaElFin'[p] = IF Lugar(p)' = "fin" THEN 0 ELSE Avance(p)'
  BY DEF AvanceHastaElFin
<1> QED
  BY <1>1, <1>2, <1>3, KernelTermina

-----------------------------------------------------------------------------
(* Steps of the threads. *)

\* A thread that is not in recv has nothing to receive.
LEMMA NadaQueRecibir ==
  ASSUME InvPCP, NEW c \in CPUs, hilo[c].paso # "recibir"
  PROVE  haciaKernel[c] = <<>>
<1>1. Fase(c) /\ hilo[c].paso \in PasosHilo /\ hilo[c].paso # "terminado"
  BY DeHilo DEF TipoHilo, Fase
<1>2. hilo[c].paso \in PasosLibres \cup PasosPedido \cup PasosFin
  BY <1>1, PasosPorFase
<1> QED
  BY <1>1, <1>2 DEF Fase, FaseLibre, FasePedido, FaseFin

\* Nobody is in an empty channel or queue.
LEMMA NadieEnCola == EnCola(<<>>) = {}
BY DEF EnCola

\* A thread reads its own channel only.
LEMMA CanalAjeno ==
  ASSUME InvPCP, NEW c \in CPUs, pfnControladorConexion(c)
  PROVE  /\ \A d \in CPUs \ {c} : haciaKernel'[d] = haciaKernel[d]
         /\ ~RecibirMensaje(c) => UNCHANGED haciaKernel
<1>1. CASE RecibirMensaje(c)
  BY <1>1, DeTodos DEF RecibirMensaje, CanalesEnRegla
<1>2. CASE ~RecibirMensaje(c)
  BY <1>2 DEF pfnControladorConexion, Recibir, RecibirFin, Enviar, Interno, canales
<1> QED
  BY <1>1, <1>2

\* While nobody else is in its functions, a step of thread c gives the permit of s to
\* no other thread, and lets inside only a program that it has taken out of the queue
\* or no longer keeps waiting.
LEMMA PermisoDeHilo ==
  ASSUME InvPCP, InvPCP', InvAvance, SinCarreras, NEW c \in CPUs, pfnControladorConexion(c),
         UNCHANGED cpu, NEW s \in Semaforos, NEW q,
         iSemaforo'[s] = iSemaforo[s] \/ EnFn(c, s),
         \A p \in Programas : p \in EnCola(progEncolados[s]) =>
           p \in EnCola(progEncolados'[s]) \/ p = q,
         PideEntrar(c, s) =>
           \/ PideEntrar(c, s)' /\ hilo'[c].prog = hilo[c].prog
           \/ hilo[c].prog \in EnCola(progEncolados'[s])
           \/ hilo[c].prog = q
  PROVE  /\ \A d \in CPUs \ {c} : Cede(d, s)' => Cede(d, s)
         /\ \A p \in Programas : Adentro(p, s)' => Adentro(p, s) \/ p = q
<1>1. Otros(c) /\ \A d \in CPUs \ {c} : haciaKernel'[d] = haciaKernel[d]
  BY ColaAjena, CanalAjeno
<1>2. ASSUME NEW d \in CPUs \ {c}, Cede(d, s)' PROVE Cede(d, s)
  <2>1. hilo'[d] = hilo[d] /\ haciaKernel'[d] = haciaKernel[d]
    BY <1>1 DEF Otros
  <2>2. CASE iSemaforo'[s] = iSemaforo[s]
    BY <1>2, <2>1, <2>2 DEF Cede, EnCola
  <2>3. CASE EnFn(c, s)
    <3>1. ~EnFn(d, s)
      BY <2>3 DEF SinCarreras
    <3> QED
      BY <1>2, <2>1, <3>1 DEF Cede, EnFn, EnCola, PasosWait, PasosSignal
  <2> QED
    BY <2>2, <2>3
<1>3. ASSUME NEW p \in Programas, p # q, EsperaA(p, s) PROVE EsperaA(p, s)'
  <2>1. CASE p \in EnCola(progEncolados[s])
    BY <1>3, <2>1 DEF EsperaA, EnCola
  <2>2. ASSUME NEW d \in CPUs, hilo[d].prog = p, PideEntrar(d, s) PROVE EsperaA(p, s)'
    <3>1. CASE d = c
      BY <1>3, <2>2, <3>1 DEF EsperaA, EnCola
    <3>2. CASE d # c
      <4>1. hilo'[d] = hilo[d] /\ haciaKernel'[d] = haciaKernel[d]
        BY <1>1, <3>2 DEF Otros
      <4>2. PideEntrar(d, s)'
        BY <2>2, <4>1 DEF PideEntrar, EnCola
      <4> QED
        BY <2>2, <4>1, <4>2 DEF EsperaA
    <3> QED
      BY <3>1, <3>2
  <2> QED
    BY <1>3, <2>1, <2>2 DEF EsperaA
<1>4. \A p \in Programas : AvanceHastaElFin'[p] \in {AvanceHastaElFin[p], 0}
  BY AvanceDelKernel DEF NextPCP
<1> QED
  BY <1>2, <1>3, <1>4, AdentroSigue

\* A step that neither lets anyone in nor gives the permit to anyone.
LEMMA PermisoQuieto ==
  ASSUME InvPCP, InvPCP', InvAvance, SinCarreras, NEW c \in CPUs, pfnControladorConexion(c),
         UNCHANGED cpu, NEW s \in Semaforos, UnPermiso(s),
         iSemaforo'[s] = iSemaforo[s], progEncolados'[s] = progEncolados[s],
         Cede(c, s)' => Cede(c, s),
         PideEntrar(c, s) => PideEntrar(c, s)' /\ hilo'[c].prog = hilo[c].prog
  PROVE  UnPermiso(s)'
<1>1. Nadie \notin Programas /\ iSemaforo[s] \in Int
  BY DeTodos DEF Programas, Nadie, ValoresEnRegla
<1>2. /\ \A d \in CPUs \ {c} : Cede(d, s)' => Cede(d, s)
      /\ \A p \in Programas : Adentro(p, s)' => Adentro(p, s) \/ p = Nadie
  BY PermisoDeHilo
<1> QED
  BY <1>1, <1>2, PermisoSePierde

\* A thread receives one message, and which.
LEMMA MensajeRecibido ==
  ASSUME InvPCP, NEW c \in CPUs, RecibirMensaje(c)
  PROVE  /\ haciaKernel[c] \in Seq(Mensajes) /\ Len(haciaKernel[c]) = 1
         /\ Head(haciaKernel[c]).op \in
              {"consulta", "waitKernel", "signalKernel", "entradaSalidaKernel",
               "notificarPorFinRafaga", "notificarPorFinPrograma", "exception"}
<1> DEFINE m == Head(haciaKernel[c])
<1>0. hilo[c].paso = "recibir" /\ haciaKernel[c] # <<>>
  BY DEF RecibirMensaje
<1>1. Pide(c) \/ Devuelta(c)
  BY <1>0, DeHilo DEF Fase, FaseRecibir, Dada, Perdida, Corre, Contestada
<1>2. haciaKernel[c] \in Seq(Mensajes) /\ Len(haciaKernel[c]) = 1
  BY <1>1, DeTodos DEF CanalesEnRegla, Pide, Devuelta
<1>3. m = haciaKernel[c][1]
  BY <1>2
<1>4. CASE Pide(c)
  <2>1. LineaActual(c).op \in {"consulta", "wait", "signal"}
    BY <1>4, DeHilo DEF Fase, FaseCpu, Pide, Pregunta
  <2> QED
    BY <1>2, <1>4, <2>1 DEF Pide, Pedido, Mensaje
<1>5. CASE Devuelta(c)
  BY <1>2, <1>3, <1>5 DEF Devuelta, Devuelve
<1> QED
  BY <1>1, <1>2, <1>4, <1>5

\* A message is received: a request to enter, or a permit that is given back, is
\* served.
LEMMA PermisoRecibe ==
  ASSUME InvPCP, InvPCP', InvAvance, SinCarreras, NEW c \in CPUs, pfnControladorConexion(c),
         UNCHANGED cpu, NEW s \in Semaforos, UnPermiso(s), RecibirMensaje(c)
  PROVE  UnPermiso(s)'
<1> DEFINE m == Head(haciaKernel[c])
<1>1. /\ hilo[c].paso = "recibir" /\ haciaKernel[c] # <<>>
      /\ hilo' = [hilo EXCEPT ![c].msg = m, ![c].paso = PasoPara(m)]
      /\ iSemaforo' = iSemaforo /\ progEncolados' = progEncolados
  BY DEF RecibirMensaje, colas
<1>2. /\ haciaKernel[c] \in Seq(Mensajes) /\ Len(haciaKernel[c]) = 1
      /\ m.op \in {"consulta", "waitKernel", "signalKernel", "entradaSalidaKernel",
                   "notificarPorFinRafaga", "notificarPorFinPrograma", "exception"}
  BY MensajeRecibido
<1>3. EnCola(haciaKernel[c]) = {m}
  <2>1. m = haciaKernel[c][1] /\ 1..Len(haciaKernel[c]) = {1}
    BY <1>2
  <2> QED
    BY <2>1 DEF EnCola
<1>4. /\ m.op = "waitKernel" /\ m.nombre = s => PasoPara(m) = "waitLeer"
      /\ PasoPara(m) = "signalLeer" => m.op = "signalKernel"
      /\ PasoPara(m) \notin {"recibir", "signalEscribir", "signalProbar", "signalSacar",
                             "waitProbar"}
  BY <1>2 DEF PasoPara
<1> HIDE DEF m
<1>5. hilo'[c].paso = PasoPara(m) /\ hilo'[c].msg = m /\ hilo'[c].prog = hilo[c].prog
  BY <1>1, DeTodos, PasoDelHilo, SemHiloMsg
<1>6. Cede(c, s)' => Cede(c, s)
  BY <1>1, <1>3, <1>4, <1>5 DEF Cede
<1>7. PideEntrar(c, s) => PideEntrar(c, s)' /\ hilo'[c].prog = hilo[c].prog
  BY <1>1, <1>3, <1>4, <1>5 DEF PideEntrar, PasosWait
<1> QED
  BY <1>1, <1>6, <1>7, PermisoQuieto

\* What any other step of thread c does to it: it goes on in the function it was in,
\* or is in none.
LEMMA PasoAjeno ==
  ASSUME InvPCP, NEW c \in CPUs, Enviar(c) \/ Interno(c)
  PROVE  \/ hilo'[c].msg = hilo[c].msg /\ hilo[c].paso \in PasosWait \cup PasosSignal
         \/ hilo'[c].paso \notin PasosWait \cup PasosSignal
<1>1. HilosEnRegla
  BY DeTodos
<1>2. ASSUME NEW b, b \notin PasosWait \cup PasosSignal, NEW v,
             \/ Seguir(c, b) \/ Volver(c, b)
             \/ hilo' = [hilo EXCEPT ![c].otro = v, ![c].paso = b]
             \/ hilo' = [hilo EXCEPT ![c] = Hilo(b, v)]
      PROVE  hilo'[c].paso \notin PasosWait \cup PasosSignal
  BY <1>1, <1>2, SemHilo
<1>3. CASE \/ EnviarPcb(c) \/ Consulta(c) \/ WaitInexistente(c) \/ SignalInexistente(c)
           \/ EsperarReady(c) \/ SacarReady(c) \/ CargarExec(c)
           \/ IoPcb(c) \/ IoEncolar(c) \/ IoSacar(c) \/ IoPost(c)
           \/ RecargarSacar(c) \/ RecargarReady(c) \/ RecargarPost(c)
           \/ ExitSacar(c) \/ ExitAgregar(c)
  <2>1. \E b \in {"recibir", "esperar", "sacar", "cargar", "enviar", "null", "ioEncolar",
                  "exitSacar", "ioSacar", "ioPost", "recargarReady", "recargarPost",
                  "exitAgregar", "terminado"} : \E v :
          \/ Seguir(c, b) \/ Volver(c, b)
          \/ hilo' = [hilo EXCEPT ![c].otro = v, ![c].paso = b]
          \/ hilo' = [hilo EXCEPT ![c] = Hilo(b, v)]
    <3>1. CASE EnviarPcb(c) \/ Consulta(c) \/ WaitInexistente(c) \/ SignalInexistente(c)
      BY <3>1 DEF EnviarPcb, Consulta, WaitInexistente, SignalInexistente
    <3>2. CASE EsperarReady(c) \/ SacarReady(c) \/ CargarExec(c)
      BY <3>2 DEF EsperarReady, SacarReady, CargarExec, NullEn
    <3>3. CASE IoPcb(c) \/ IoEncolar(c) \/ IoSacar(c) \/ IoPost(c)
      BY <3>3 DEF IoPcb, IoEncolar, IoSacar, IoPost
    <3>4. CASE RecargarSacar(c) \/ RecargarReady(c) \/ RecargarPost(c)
      BY <3>4 DEF RecargarSacar, RecargarReady, RecargarPost, NullEn
    <3>5. CASE ExitSacar(c) \/ ExitAgregar(c)
      BY <3>5 DEF ExitSacar, ExitAgregar, NullEn
    <3> QED
      BY <1>3, <3>1, <3>2, <3>3, <3>4, <3>5
  <2> QED
    BY <1>2, <2>1 DEF PasosWait, PasosSignal
<1>4. CASE WaitBloquear(c) \/ SignalResponder(c)
  BY <1>2, <1>4 DEF WaitBloquear, SignalResponder, PasosWait, PasosSignal
<1>5. CASE WaitProbar(c)
  <2>1. hilo[c].paso \in PasosWait
    BY <1>5 DEF WaitProbar, PasosWait
  <2>2. CASE Seguir(c, "waitSacar")
    BY <1>1, <2>1, <2>2, SemHiloMsg
  <2>3. CASE Volver(c, "recibir")
    BY <1>2, <2>3 DEF PasosWait, PasosSignal
  <2> QED
    BY <1>5, <2>2, <2>3 DEF WaitProbar
<1>6. CASE \/ WaitLeer(c) \/ WaitEscribir(c) \/ WaitSacar(c) \/ WaitEncolar(c)
           \/ SignalLeer(c) \/ SignalEscribir(c) \/ SignalProbar(c) \/ SignalSacar(c)
           \/ SignalReady(c) \/ SignalPost(c)
  <2>1. hilo[c].paso \in PasosWait \cup PasosSignal
    BY <1>6 DEF WaitLeer, WaitEscribir, WaitSacar, WaitEncolar, SignalLeer, SignalEscribir,
       SignalProbar, SignalSacar, SignalReady, SignalPost, PasosWait, PasosSignal
  <2>2. \E b, v : \/ Seguir(c, b)
                  \/ hilo' = [hilo EXCEPT ![c].otro = v, ![c].paso = b]
                  \/ hilo' = [hilo EXCEPT ![c].leido = v, ![c].paso = b]
    BY <1>6 DEF WaitLeer, WaitEscribir, WaitSacar, WaitEncolar, SignalLeer, SignalEscribir,
       SignalProbar, SignalSacar, SignalReady, SignalPost
  <2> QED
    BY <1>1, <2>1, <2>2, SemHiloMsg
<1> QED
  BY <1>3, <1>4, <1>5, <1>6 DEF Enviar, Interno

\* A thread that is not in the functions of s leaves its permit where it was.
LEMMA PermisoFuera ==
  ASSUME InvPCP, InvPCP', InvAvance, SinCarreras, NEW c \in CPUs, pfnControladorConexion(c),
         UNCHANGED cpu, NEW s \in Semaforos, UnPermiso(s), Enviar(c) \/ Interno(c), ~EnFn(c, s)
  PROVE  UnPermiso(s)'
<1>1. ~EnFn(c, s)'
  BY PasoAjeno DEF EnFn
<1>2. progEncolados'[s] = progEncolados[s]
  BY ColaAjena
<1>3. iSemaforo'[s] = iSemaforo[s]
  <2>1. CASE WaitEscribir(c) \/ SignalEscribir(c)
    <3>1. hilo[c].msg.nombre # s
      BY <2>1 DEF EnFn, WaitEscribir, SignalEscribir, PasosWait, PasosSignal
    <3> QED
      BY <2>1, <3>1, DeTodos DEF WaitEscribir, SignalEscribir, ValoresEnRegla
  <2>2. CASE Enviar(c)
    BY <2>2 DEF Enviar, EnviarPcb, Consulta, WaitInexistente, WaitProbar, WaitBloquear,
       SignalInexistente, SignalResponder, colas
  <2>3. CASE Interno(c) /\ ~WaitEscribir(c) /\ ~SignalEscribir(c)
    BY <2>3 DEF Interno, EsperarReady, SacarReady, CargarExec, WaitLeer, WaitSacar, WaitEncolar,
       SignalLeer, SignalProbar, SignalSacar, SignalReady, SignalPost, IoPcb, IoEncolar,
       IoSacar, IoPost, RecargarSacar, RecargarReady, RecargarPost, ExitSacar, ExitAgregar,
       colas
  <2> QED
    BY <2>1, <2>2, <2>3
<1>4. hilo[c].paso # "recibir"
  <2>1. CASE Enviar(c)
    BY <2>1 DEF Enviar, EnviarPcb, Consulta, WaitInexistente, WaitProbar, WaitBloquear,
       SignalInexistente, SignalResponder
  <2>2. CASE Interno(c)
    BY <2>2 DEF Interno, EsperarReady, SacarReady, CargarExec, WaitLeer, WaitEscribir,
       WaitSacar, WaitEncolar, SignalLeer, SignalEscribir, SignalProbar, SignalSacar,
       SignalReady, SignalPost, IoPcb, IoEncolar, IoSacar, IoPost, RecargarSacar,
       RecargarReady, RecargarPost, ExitSacar, ExitAgregar
  <2> QED
    BY <2>1, <2>2
<1>5. haciaKernel'[c] = <<>>
  <2>1. haciaKernel[c] = <<>> /\ ~RecibirMensaje(c)
    BY <1>4, NadaQueRecibir DEF RecibirMensaje
  <2> QED
    BY <2>1, CanalAjeno
<1>6. ~Cede(c, s)'
  BY <1>1, <1>5, NadieEnCola DEF Cede, EnFn, PasosWait, PasosSignal
<1>7. ~PideEntrar(c, s)
  BY <1>4 DEF PideEntrar, EnFn
<1> QED
  BY <1>2, <1>3, <1>6, <1>7, PermisoQuieto

-----------------------------------------------------------------------------
(* fnLock and fnUnlock. *)

\* A wait takes the permit from the counter if it is there, and lets its program in;
\* if it is not, its program goes on waiting, in the queue.
LEMMA PermisoWait ==
  ASSUME InvPCP, InvPCP', InvAvance, InvSem, SinCarreras, NEW c \in CPUs,
         pfnControladorConexion(c), UNCHANGED cpu, NEW s \in Semaforos, UnPermiso(s),
         hilo[c].msg.nombre = s,
         \/ WaitLeer(c) \/ WaitEscribir(c) \/ WaitProbar(c) \/ WaitSacar(c) \/ WaitEncolar(c)
         \/ WaitBloquear(c)
  PROVE  UnPermiso(s)'
<1>1. HilosEnRegla /\ Nadie \notin Programas /\ iSemaforo \in [Semaforos -> Int]
  BY DeTodos DEF Programas, Nadie, ValoresEnRegla
<1>2. CASE WaitLeer(c)
  <2>0. PICK v : v = iSemaforo[s]
    OBVIOUS
  <2>1. /\ hilo[c].paso = "waitLeer" /\ iSemaforo' = iSemaforo /\ progEncolados' = progEncolados
        /\ hilo' = [hilo EXCEPT ![c].leido = v, ![c].paso = "waitEscribir"]
    BY <1>2, <2>0 DEF WaitLeer, colas
  <2>2. /\ hilo'[c].paso = "waitEscribir" /\ hilo'[c].prog = hilo[c].prog
        /\ hilo'[c].msg = hilo[c].msg
    BY <1>1, <2>1, PasoDelHilo, SemHiloMsg
  <2>3. ~Cede(c, s)' /\ PideEntrar(c, s)'
    BY <2>2 DEF Cede, PideEntrar, PasosWait
  <2> QED
    BY <2>1, <2>2, <2>3, PermisoQuieto
<1>3. CASE WaitEscribir(c)
  <2>1. /\ hilo[c].paso = "waitEscribir" /\ Seguir(c, "waitProbar")
        /\ iSemaforo' = [iSemaforo EXCEPT ![s] = hilo[c].leido - 1]
        /\ progEncolados' = progEncolados
    BY <1>3 DEF WaitEscribir
  <2>2. EnFn(c, s) /\ SabeDe(hilo[c], iSemaforo[s], Len(progEncolados[s]))
    BY <2>1 DEF EnFn, PasosWait, InvSem, SemEnRegla
  <2>3. iSemaforo'[s] = iSemaforo[s] - 1 /\ iSemaforo[s] \in Int
    BY <1>1, <2>1, <2>2 DEF SabeDe
  <2>4. /\ hilo'[c].paso = "waitProbar" /\ hilo'[c].prog = hilo[c].prog
        /\ hilo'[c].msg = hilo[c].msg
    BY <1>1, <2>1, PasoDelHilo, SemHiloMsg
  <2>5. PideEntrar(c, s)'
    BY <2>4 DEF PideEntrar, PasosWait
  <2>6. /\ \A d \in CPUs \ {c} : Cede(d, s)' => Cede(d, s)
        /\ \A p \in Programas : Adentro(p, s)' => Adentro(p, s)
    BY <1>1, <2>1, <2>2, <2>4, <2>5, PermisoDeHilo
  <2>7. CASE iSemaforo[s] = 1
    BY <2>3, <2>6, <2>7, PermisoAlHilo
  <2>8. CASE iSemaforo[s] # 1
    <3>1. iSemaforo[s] <= 0
      BY <2>3, <2>8 DEF UnPermiso
    <3>2. ~Cede(c, s)'
      BY <2>3, <2>4, <3>1 DEF Cede
    <3> QED
      BY <2>3, <2>6, <3>2, PermisoSePierde
  <2> QED
    BY <2>7, <2>8
<1>4. CASE WaitProbar(c)
  <2>1. /\ hilo[c].paso = "waitProbar"
        /\ iSemaforo' = iSemaforo /\ progEncolados' = progEncolados
        /\ \/ iSemaforo[s] < 0 /\ Seguir(c, "waitSacar")
           \/ ~(iSemaforo[s] < 0 /\ listaExec # <<>>) /\ Volver(c, "recibir")
    BY <1>4 DEF WaitProbar, colas
  <2>2. CASE iSemaforo[s] < 0 /\ Seguir(c, "waitSacar")
    <3>1. /\ hilo'[c].paso = "waitSacar" /\ hilo'[c].prog = hilo[c].prog
          /\ hilo'[c].msg = hilo[c].msg
      BY <1>1, <2>2, PasoDelHilo, SemHiloMsg
    <3>2. ~Cede(c, s)' /\ PideEntrar(c, s)'
      BY <3>1 DEF Cede, PideEntrar, PasosWait
    <3> QED
      BY <2>1, <3>1, <3>2, PermisoQuieto
  <2>3. CASE ~(iSemaforo[s] < 0 /\ listaExec # <<>>) /\ Volver(c, "recibir")
    <3>1. listaExec # <<>>
      <4>1. EnExec(hilo[c].prog) # {}
        BY <2>1, HayEnExec DEF PasosDueno
      <4> QED
        BY <4>1, EmptySeq DEF EnExec
    <3>2. iSemaforo[s] \in Int /\ iSemaforo[s] >= 0
      BY <1>1, <2>3, <3>1
    <3>3. Cede(c, s)
      BY <2>1, <3>2 DEF Cede
    <3>4. hilo'[c].paso = "recibir"
      BY <1>1, <2>3, PasoDelHilo
    <3>5. haciaKernel'[c] = <<>>
      <4>1. haciaKernel[c] = <<>> /\ ~RecibirMensaje(c)
        BY <2>1, NadaQueRecibir DEF RecibirMensaje
      <4> QED
        BY <4>1, CanalAjeno
    <3>6. ~Cede(c, s)'
      BY <3>4, <3>5, NadieEnCola DEF Cede
    <3>7. PICK q : q = hilo[c].prog
      OBVIOUS
    <3>8. /\ \A d \in CPUs \ {c} : Cede(d, s)' => Cede(d, s)
          /\ \A p \in Programas : Adentro(p, s)' => Adentro(p, s) \/ p = q
      BY <2>1, <3>7, PermisoDeHilo
    <3> QED
      BY <2>1, <3>2, <3>3, <3>6, <3>8, PermisoAlPrograma
  <2> QED
    BY <2>1, <2>2, <2>3
<1>5. CASE WaitSacar(c)
  <2>1. /\ hilo[c].paso = "waitSacar" /\ Seguir(c, "waitEncolar")
        /\ iSemaforo' = iSemaforo /\ progEncolados' = progEncolados
    BY <1>5 DEF WaitSacar, colas
  <2>2. /\ hilo'[c].paso = "waitEncolar" /\ hilo'[c].prog = hilo[c].prog
        /\ hilo'[c].msg = hilo[c].msg
    BY <1>1, <2>1, PasoDelHilo, SemHiloMsg
  <2>3. ~Cede(c, s)' /\ PideEntrar(c, s)'
    BY <2>2 DEF Cede, PideEntrar, PasosWait
  <2> QED
    BY <2>1, <2>2, <2>3, PermisoQuieto
<1>6. CASE WaitEncolar(c)
  <2>1. /\ hilo[c].paso = "waitEncolar" /\ Seguir(c, "waitBloquear")
        /\ iSemaforo' = iSemaforo /\ Encolar(s, hilo[c].prog)
    BY <1>6 DEF WaitEncolar
  <2>2. \A p : p \in EnCola(progEncolados'[s])
                 <=> p \in EnCola(progEncolados[s]) \/ p = hilo[c].prog
    <3> DEFINE T == Nat
               U == 1..admitidos
    <3>1. progEncolados \in [Semaforos \cup Dispositivos -> Seq(U)] /\ U \subseteq T
      BY DeTodos DEF ListasEnRegla
    <3>2. hilo[c].prog \in T
      BY DeHilo DEF TipoHilo, Pids, Programas, Nadie
    <3>3. progEncolados'[s] = Append(progEncolados[s], hilo[c].prog)
      BY <2>1, <3>1 DEF Encolar
    <3>4. progEncolados[s] \in Seq(U)
      BY <3>1
    <3> HIDE DEF T, U
    <3>5. progEncolados[s] \in Seq(T)
      BY <3>1, <3>4, ColaCrece
    <3> QED
      BY <3>2, <3>3, <3>5, EnColaAgregar
  <2>3. hilo'[c].paso = "waitBloquear"
    BY <1>1, <2>1, PasoDelHilo
  <2>4. ~Cede(c, s)'
    BY <2>3 DEF Cede
  <2>5. /\ \A d \in CPUs \ {c} : Cede(d, s)' => Cede(d, s)
        /\ \A p \in Programas : Adentro(p, s)' => Adentro(p, s) \/ p = Nadie
    BY <2>1, <2>2, PermisoDeHilo
  <2> QED
    BY <1>1, <2>1, <2>4, <2>5, PermisoSePierde
<1>7. CASE WaitBloquear(c)
  <2>1. /\ hilo[c].paso = "waitBloquear" /\ Volver(c, "esperar")
        /\ iSemaforo' = iSemaforo /\ progEncolados' = progEncolados
    BY <1>7 DEF WaitBloquear, colas
  <2>2. hilo'[c].paso = "esperar"
    BY <1>1, <2>1, PasoDelHilo
  <2>3. ~Cede(c, s)' /\ ~PideEntrar(c, s)
    BY <2>1, <2>2 DEF Cede, PideEntrar
  <2> QED
    BY <2>1, <2>3, PermisoQuieto
<1> QED
  BY <1>2, <1>3, <1>4, <1>5, <1>6, <1>7

\* A signal gives the permit of its program to the first of the queue, or else to the
\* counter.
LEMMA PermisoSignal ==
  ASSUME InvPCP, InvPCP', InvAvance, InvSem, SinCarreras, NEW c \in CPUs,
         pfnControladorConexion(c), UNCHANGED cpu, NEW s \in Semaforos, UnPermiso(s),
         hilo[c].msg.nombre = s,
         \/ SignalLeer(c) \/ SignalEscribir(c) \/ SignalProbar(c) \/ SignalSacar(c)
         \/ SignalReady(c) \/ SignalPost(c) \/ SignalResponder(c)
  PROVE  UnPermiso(s)'
<1>1. HilosEnRegla /\ Nadie \notin Programas /\ iSemaforo \in [Semaforos -> Int]
  BY DeTodos DEF Programas, Nadie, ValoresEnRegla
<1>2. hilo[c].paso \in PasosSignal
  BY DEF SignalLeer, SignalEscribir, SignalProbar, SignalSacar, SignalReady, SignalPost,
     SignalResponder, PasosSignal
<1>3. ~PideEntrar(c, s)
  BY <1>2 DEF PideEntrar, PasosSignal, PasosWait
<1>4. EnFn(c, s) /\ SabeDe(hilo[c], iSemaforo[s], Len(progEncolados[s]))
  BY <1>2 DEF EnFn, InvSem, SemEnRegla
<1>5. CASE SignalLeer(c)
  <2>1. PICK v : v = iSemaforo[s]
    OBVIOUS
  <2>2. /\ hilo[c].paso = "signalLeer"
        /\ iSemaforo' = iSemaforo /\ progEncolados' = progEncolados
        /\ hilo' = [hilo EXCEPT ![c].leido = v, ![c].paso = "signalEscribir"]
    BY <1>5, <2>1 DEF SignalLeer, colas
  <2>3. Cede(c, s)
    BY <2>2 DEF Cede
  <2> QED
    BY <1>3, <2>2, <2>3, PermisoQuieto
<1>6. CASE SignalEscribir(c)
  <2>1. /\ hilo[c].paso = "signalEscribir" /\ Seguir(c, "signalProbar")
        /\ iSemaforo' = [iSemaforo EXCEPT ![s] = hilo[c].leido + 1]
        /\ progEncolados' = progEncolados
    BY <1>6 DEF SignalEscribir
  <2>2. iSemaforo'[s] = iSemaforo[s] + 1 /\ iSemaforo[s] \in Int
    BY <1>1, <1>4, <2>1 DEF SabeDe
  <2>3. Cede(c, s)
    BY <2>1 DEF Cede
  <2>4. iSemaforo[s] <= 0
    BY <2>2, <2>3 DEF UnPermiso
  <2>5. hilo'[c].paso = "signalProbar"
    BY <1>1, <2>1, PasoDelHilo
  <2>6. iSemaforo'[s] = 1 => ~Cede(c, s)'
    BY <2>5 DEF Cede
  <2>7. /\ \A d \in CPUs \ {c} : Cede(d, s)' => Cede(d, s)
        /\ \A p \in Programas : Adentro(p, s)' => Adentro(p, s)
    BY <1>1, <1>3, <1>4, <2>1, PermisoDeHilo
  <2> QED
    BY <1>1, <2>2, <2>3, <2>4, <2>6, <2>7, PermisoAlSemaforo
<1>7. CASE SignalProbar(c)
  <2>1. /\ hilo[c].paso = "signalProbar"
        /\ iSemaforo' = iSemaforo /\ progEncolados' = progEncolados
        /\ \/ iSemaforo[s] <= 0 /\ Seguir(c, "signalSacar")
           \/ Seguir(c, "signalResponder")
    BY <1>7 DEF SignalProbar, colas
  <2>2. Cede(c, s)' => Cede(c, s)
    <3>1. CASE iSemaforo[s] <= 0
      BY <2>1, <3>1 DEF Cede
    <3>2. CASE Seguir(c, "signalResponder")
      <4>1. hilo'[c].paso = "signalResponder"
        BY <1>1, <3>2, PasoDelHilo
      <4> QED
        BY <4>1 DEF Cede
    <3> QED
      BY <2>1, <3>1, <3>2
  <2> QED
    BY <1>3, <2>1, <2>2, PermisoQuieto
<1>8. CASE SignalSacar(c)
  <2>1. hilo[c].paso = "signalSacar" /\ iSemaforo' = iSemaforo /\ iSemaforo[s] \in Int
    BY <1>1, <1>8 DEF SignalSacar
  <2>2. Cede(c, s)
    BY <1>4, <2>1 DEF SabeDe, Cede
  <2>3. PICK q : /\ hilo' = [hilo EXCEPT ![c].otro = q, ![c].paso = "signalReady"]
                 /\ \/ q = Nadie /\ UNCHANGED progEncolados
                    \/ /\ progEncolados[s] # <<>> /\ q = Head(progEncolados[s])
                       /\ progEncolados' = [progEncolados EXCEPT ![s] = Tail(@)]
    BY <1>8 DEF SignalSacar
  <2>4. hilo'[c].paso = "signalReady"
    BY <1>1, <2>3, PasoDelHilo
  <2>5. ~Cede(c, s)'
    BY <2>4 DEF Cede
  <2>6. \A p \in Programas : p \in EnCola(progEncolados[s]) =>
          p \in EnCola(progEncolados'[s]) \/ p = q
    <3>1. CASE q = Nadie /\ UNCHANGED progEncolados
      BY <3>1
    <3>2. CASE /\ progEncolados[s] # <<>> /\ q = Head(progEncolados[s])
               /\ progEncolados' = [progEncolados EXCEPT ![s] = Tail(@)]
      <4> DEFINE U == 1..admitidos
      <4>1. progEncolados \in [Semaforos \cup Dispositivos -> Seq(U)]
        BY DeTodos DEF ListasEnRegla
      <4>2. progEncolados[s] \in Seq(U) /\ progEncolados'[s] = Tail(progEncolados[s])
        BY <3>2, <4>1
      <4> HIDE DEF U
      <4>3. \A p : p \in EnCola(progEncolados[s]) =>
              p \in EnCola(Tail(progEncolados[s])) \/ p = Head(progEncolados[s])
        BY <3>2, <4>2, EnColaQuitar
      <4> QED
        BY <3>2, <4>2, <4>3
    <3> QED
      BY <2>3, <3>1, <3>2
  <2>7. /\ \A d \in CPUs \ {c} : Cede(d, s)' => Cede(d, s)
        /\ \A p \in Programas : Adentro(p, s)' => Adentro(p, s) \/ p = q
    BY <1>3, <2>1, <2>6, PermisoDeHilo
  <2> QED
    BY <2>1, <2>2, <2>5, <2>7, PermisoAlPrograma
<1>9. CASE SignalReady(c) \/ SignalPost(c) \/ SignalResponder(c)
  <2>1. iSemaforo' = iSemaforo /\ progEncolados' = progEncolados
    BY <1>9 DEF SignalReady, SignalPost, SignalResponder, colas
  <2>2. hilo'[c].paso \in {"signalPost", "signalResponder", "recibir"}
    <3>1. CASE SignalReady(c)
      BY <1>1, <3>1, SemHilo DEF SignalReady
    <3>2. CASE SignalPost(c) \/ SignalResponder(c)
      BY <1>1, <3>2, PasoDelHilo DEF SignalPost, SignalResponder
    <3> QED
      BY <1>9, <3>1, <3>2
  <2>3. haciaKernel'[c] = <<>>
    <3>1. hilo[c].paso # "recibir"
      BY <1>2 DEF PasosSignal
    <3>2. haciaKernel[c] = <<>> /\ ~RecibirMensaje(c)
      BY <3>1, NadaQueRecibir DEF RecibirMensaje
    <3> QED
      BY <3>2, CanalAjeno
  <2>4. ~Cede(c, s)'
    BY <2>2, <2>3, NadieEnCola DEF Cede
  <2> QED
    BY <1>3, <2>1, <2>4, PermisoQuieto
<1> QED
  BY <1>5, <1>6, <1>7, <1>8, <1>9

\* Every step of a thread keeps one permit.
LEMMA HiloPermiso ==
  ASSUME InvPCP, InvPCP', InvAvance, InvSem, SinCarreras, NEW c \in CPUs,
         pfnControladorConexion(c), UNCHANGED cpu, NEW s \in Semaforos, UnPermiso(s)
  PROVE  UnPermiso(s)'
<1>1. CASE RecibirMensaje(c)
  BY <1>1, PermisoRecibe
<1>2. ~RecibirFin(c)
  BY DeHilo DEF RecibirFin, Fase, FaseCpu
<1>3. CASE (Enviar(c) \/ Interno(c)) /\ ~EnFn(c, s)
  BY <1>3, PermisoFuera
<1>4. CASE (Enviar(c) \/ Interno(c)) /\ EnFn(c, s)
  <2>1. hilo[c].msg.nombre = s /\ hilo[c].paso \in PasosWait \cup PasosSignal
    BY <1>4 DEF EnFn
  <2>2. \/ WaitLeer(c) \/ WaitEscribir(c) \/ WaitProbar(c) \/ WaitSacar(c) \/ WaitEncolar(c)
        \/ WaitBloquear(c)
        \/ SignalLeer(c) \/ SignalEscribir(c) \/ SignalProbar(c) \/ SignalSacar(c)
        \/ SignalReady(c) \/ SignalPost(c) \/ SignalResponder(c)
    <3>1. CASE Enviar(c)
      BY <2>1, <3>1 DEF Enviar, EnviarPcb, Consulta, WaitInexistente, SignalInexistente,
         PasosWait, PasosSignal
    <3>2. CASE Interno(c)
      BY <2>1, <3>2 DEF Interno, EsperarReady, SacarReady, CargarExec, IoPcb, IoEncolar,
         IoSacar, IoPost, RecargarSacar, RecargarReady, RecargarPost, ExitSacar, ExitAgregar,
         PasosWait, PasosSignal
    <3> QED
      BY <1>4, <3>1, <3>2
  <2> QED
    BY <2>1, <2>2, PermisoWait, PermisoSignal
<1> QED
  BY <1>1, <1>2, <1>3, <1>4 DEF pfnControladorConexion, Recibir

-----------------------------------------------------------------------------
(* The other steps of the kernel, and those of the CPUs. *)

\* A step of the PLP or of a device.
LEMMA PermisoSinHilo ==
  ASSUME InvPCP, InvPCP', InvAvance, NextPCP, UNCHANGED <<cpu, hilo, haciaKernel>>,
         NEW s \in Semaforos, UnPermiso(s),
         iSemaforo'[s] = iSemaforo[s], progEncolados'[s] = progEncolados[s]
  PROVE  UnPermiso(s)'
<1>1. \A p : EsperaA(p, s) => EsperaA(p, s)'
  BY DEF EsperaA, PideEntrar, EnCola
<1>2. \A p \in Programas : Adentro(p, s)' => Adentro(p, s)
  BY <1>1, AvanceDelKernel, AdentroSigue
<1>3. \A c \in CPUs : Cede(c, s)' => Cede(c, s)
  BY DEF Cede, EnCola
<1>4. iSemaforo[s] \in Int
  BY DeTodos DEF ValoresEnRegla
<1> QED
  BY <1>2, <1>3, <1>4, PermisoSePierde

\* A CPU that gets a PCB or an answer, or ends its burst: it asks for no semaphore.
LEMMA PermisoCpu ==
  ASSUME InvPCP, InvPCP', InvAvance, InvCorto, NEW c \in CPUs, UNCHANGED varsPCP,
         RecibirPcb(c) \/ RecibirRespuesta(c) \/ TerminarRafaga(c),
         NEW s \in Semaforos, UnPermiso(s)
  PROVE  UnPermiso(s)'
<1>1. UNCHANGED <<hilo, iSemaforo, progEncolados>> /\ iSemaforo[s] \in Int
  BY DeTodos DEF varsPCP, colas, ValoresEnRegla
<1>2. AvanceHastaElFin' = AvanceHastaElFin
  BY CpuNoSeVe DEF Abstracto!varsCP
<1>3. \A d \in CPUs : \A m :
        /\ m \in EnCola(haciaKernel[d]) => m \in EnCola(haciaKernel'[d])
        /\ m \in EnCola(haciaKernel'[d]) /\ m.op = "signalKernel" => m \in EnCola(haciaKernel[d])
  <2>1. CASE UNCHANGED haciaKernel
    BY <2>1
  <2>2. ASSUME NEW m \in Mensajes, m.op # "signalKernel", EnviarAKernel(c, m)
        PROVE  \A d \in CPUs : \A x :
                 /\ x \in EnCola(haciaKernel[d]) => x \in EnCola(haciaKernel'[d])
                 /\ x \in EnCola(haciaKernel'[d]) /\ x.op = "signalKernel" =>
                      x \in EnCola(haciaKernel[d])
    <3>1. haciaKernel \in [CPUs -> Seq(Mensajes)]
      BY DeTodos DEF CanalesEnRegla
    <3>2. /\ haciaKernel'[c] = Append(haciaKernel[c], m) /\ haciaKernel[c] \in Seq(Mensajes)
          /\ \A d \in CPUs \ {c} : haciaKernel'[d] = haciaKernel[d]
      BY <2>2, <3>1 DEF EnviarAKernel
    <3>3. \A x : x \in EnCola(Append(haciaKernel[c], m)) <=> x \in EnCola(haciaKernel[c]) \/ x = m
      BY <3>2, EnColaAgregar
    <3> QED
      BY <2>2, <3>2, <3>3
  <2>3. CASE TerminarRafaga(c) /\ ~UNCHANGED haciaKernel
    <3>1. PICK e \in {"notificarPorFinRafaga", "notificarPorFinPrograma"} :
            EnviarAKernel(c, Mensaje(e, SinNombre, cpu[c].pid, cpu[c].pc))
      BY <2>3 DEF TerminarRafaga
    <3>2. PICK m : m = Mensaje(e, SinNombre, cpu[c].pid, cpu[c].pc)
      OBVIOUS
    <3>3. m \in Mensajes /\ m.op # "signalKernel"
      BY <3>2, DeTodos DEF Mensaje, Mensajes, CpusEnRegla, TipoCpu, DeCpu
    <3> QED
      BY <2>2, <3>1, <3>2, <3>3
  <2> QED
    BY <2>1, <2>3 DEF RecibirPcb, RecibirRespuesta
<1>4. \A p : EsperaA(p, s) => EsperaA(p, s)'
  BY <1>1, <1>3 DEF EsperaA, PideEntrar
<1>5. \A p \in Programas : Adentro(p, s)' => Adentro(p, s)
  BY <1>2, <1>4, AdentroSigue
<1>6. \A d \in CPUs : Cede(d, s)' => Cede(d, s)
  BY <1>1, <1>3 DEF Cede
<1> QED
  BY <1>1, <1>5, <1>6, PermisoSePierde

\* What a line sends: a request for its semaphore, or something else.
LEMMA LoQuePide ==
  ASSUME InvPCP, NEW c \in CPUs, hilo[c].paso = "recibir", UNCHANGED varsPCP,
         EjecutarLinea(c) \/ Pedir(c) \/ Fallar(c)
  PROVE  LET l == ProximaLinea(c)
         IN  /\ haciaKernel[c] = <<>>
             /\ \A d \in CPUs \ {c} : haciaKernel'[d] = haciaKernel[d]
             /\ \/ haciaKernel'[c] = <<>> /\ l.op \notin {"wait", "signal"}
                \/ \E m : /\ haciaKernel'[c] = <<m>>
                          /\ \/ l.op = "wait" /\ m.op = "waitKernel" /\ m.nombre = l.nombre
                             \/ l.op = "signal" /\ m.op = "signalKernel" /\ m.nombre = l.nombre
                             \/ /\ l.op \notin {"wait", "signal"}
                                /\ m.op \notin {"waitKernel", "signalKernel"}
<1> DEFINE l == ProximaLinea(c)
<1>1. FaseCpu(c) /\ haciaKernel \in [CPUs -> Seq(Mensajes)]
  BY DeTodos, DeCpuEnRegla DEF CanalesEnRegla
<1>2. cpu[c].fallas = 0 /\ cpu[c].paso = "ejecutar" /\ cpu[c].estadoRafaga = "notificarPorFinRafaga"
  BY <1>1 DEF FaseCpu, EjecutarLinea, Pedir, Fallar, puedeSeguirEjecutando
<1>3. haciaKernel[c] = <<>>
  BY <1>2, DeCpuEnRegla DEF Ociosa, Corre
<1>4. ASSUME NEW m, EnviarAKernel(c, m)
      PROVE  haciaKernel'[c] = <<m>> /\ \A d \in CPUs \ {c} : haciaKernel'[d] = haciaKernel[d]
  BY <1>1, <1>3, <1>4 DEF EnviarAKernel
<1> HIDE DEF l
<1>5. CASE EjecutarLinea(c)
  <2>1. \/ UNCHANGED haciaKernel /\ l.op \notin {"wait", "signal"}
        \/ /\ l.op = "io"
           /\ \E m : m.op = "entradaSalidaKernel" /\ EnviarAKernel(c, m)
    BY <1>5 DEF EjecutarLinea, Mensaje, l
  <2> QED
    BY <1>3, <1>4, <2>1 DEF l
<1>6. CASE Pedir(c)
  <2>1. \E m : /\ EnviarAKernel(c, m) /\ m.nombre = l.nombre
               /\ \/ l.op = "consulta" /\ m.op = "consulta"
                  \/ l.op = "wait" /\ m.op = "waitKernel"
                  \/ l.op = "signal" /\ m.op = "signalKernel"
    BY <1>6 DEF Pedir, Mensaje, l
  <2> QED
    BY <1>3, <1>4, <2>1 DEF l
<1>7. CASE Fallar(c)
  <2>1. l.op = "falla" /\ \E m : EnviarAKernel(c, m) /\ m.op = "exception"
    BY <1>2, <1>7 DEF Fallar, Mensaje, l
  <2> QED
    BY <1>3, <1>4, <2>1 DEF l
<1> QED
  BY <1>5, <1>6, <1>7

\* One line more: only a wait of s gets a program into its section, and a signal of s
\* takes it out.
LEMMA UnaLineaMas ==
  ASSUME NEW p, NEW s, NEW n \in Nat
  PROVE  LET l == Codigo[p][n + 1]
         IN  /\ EnSeccion(p, s, n + 1) => EnSeccion(p, s, n) \/ (l.op = "wait" /\ l.nombre = s)
             /\ l.op = "signal" /\ l.nombre = s => ~EnSeccion(p, s, n + 1)
<1> SUFFICES ASSUME EnSeccion(p, s, n + 1)
             PROVE  /\ \/ EnSeccion(p, s, n)
                       \/ Codigo[p][n + 1].op = "wait" /\ Codigo[p][n + 1].nombre = s
                    /\ ~(Codigo[p][n + 1].op = "signal" /\ Codigo[p][n + 1].nombre = s)
  OBVIOUS
<1>1. PICK w \in 1..(n + 1) :
        /\ Codigo[p][w].op = "wait" /\ Codigo[p][w].nombre = s
        /\ \A k \in (w + 1)..(n + 1) : ~(Codigo[p][k].op = "signal" /\ Codigo[p][k].nombre = s)
  BY DEF EnSeccion
<1>2. CASE w = n + 1
  BY <1>1, <1>2
<1>3. CASE w # n + 1
  <2>1. w \in 1..n /\ n + 1 \in (w + 1)..(n + 1) /\ \A k \in (w + 1)..n : k \in (w + 1)..(n + 1)
    BY <1>3
  <2> QED
    BY <1>1, <2>1 DEF EnSeccion
<1> QED
  BY <1>2, <1>3

\* The line a CPU executes is one of the program of its thread, which waits for nothing
\* and is past the lines before.
LEMMA QuienPide ==
  ASSUME ProgramasEnRegla, InvPCP, InvPCP', InvAvance, InvAvance', NEW c \in CPUs,
         UNCHANGED varsPCP, EjecutarLinea(c) \/ Pedir(c) \/ Fallar(c)
  PROVE  \E q \in Programas : \E n \in Nat :
           /\ hilo[c].prog = q /\ hilo[c].paso = "recibir"
           /\ cpu[c].pid = q /\ cpu[c].pc = n
           /\ n + 1 \in DOMAIN Codigo[q] /\ ProximaLinea(c) = Codigo[q][n + 1]
           /\ AvanceHastaElFin[q] = n /\ AvanceHastaElFin'[q] = n + 1
           /\ \A p \in Programas \ {q} : AvanceHastaElFin'[p] = AvanceHastaElFin[p]
           /\ \A s \in Semaforos : ~EsperaA(q, s)
<1>1. PICK q \in Programas :
        /\ q = hilo[c].prog /\ EnCurso(c) /\ hilo[c].paso = "recibir"
        /\ Avance(q)' = Avance(q) + 1
        /\ \A p \in Programas : p # q => Avance(p)' = Avance(p)
  BY AvanceDeLinea
<1>2. PICK n \in Nat : n = cpu[c].pc
  BY DeTodos DEF CpusEnRegla, TipoCpu
<1>3. cpu[c].pid = q
  BY <1>1 DEF EnCurso
<1>4. Avance(q) = n
  <2>1. AvanceDice
    BY AvanceDe
  <2>2. pcb[q].pc <= n /\ Hasta(q, n)
    BY <1>1, <1>2 DEF InvAvance, CpusAlDia
  <2> QED
    BY <1>2, <1>3, <2>1, <2>2 DEF AvanceDice
<1>5. n + 1 \in DOMAIN Codigo[q] /\ ProximaLinea(c) = Codigo[q][n + 1]
  <2>1. n < Final(q)
    BY <1>2, <1>3, QueEjecuta
  <2>2. Len(Codigo[q]) \in Nat /\ DOMAIN Codigo[q] = 1..Len(Codigo[q])
    BY DEF ProgramasEnRegla
  <2> QED
    BY <1>2, <1>3, <2>1, <2>2 DEF Final, ProximaLinea
<1>6. Lugar(q) = "ejecutando" /\ Sitios
  BY <1>1, Vista DEF QuienEjecuta, PasosDueno
<1>7. \A p : Lugar(p)' = Lugar(p)
  BY DEF Lugar, HilosEn, EnCola, varsPCP, plp, ready, colas
<1>8. /\ \A p \in Programas : AvanceHastaElFin[p] = IF Lugar(p) = "fin" THEN 0 ELSE Avance(p)
      /\ \A p \in Programas : AvanceHastaElFin'[p] = IF Lugar(p)' = "fin" THEN 0 ELSE Avance(p)'
  BY DEF AvanceHastaElFin
<1>9. ASSUME NEW s \in Semaforos PROVE q \notin EnCola(progEncolados[s])
  <2>1. ~EnColas(q)
    BY <1>6 DEF Sitios
  <2>2. s \in DOMAIN progEncolados
    BY DeTodos DEF ListasEnRegla
  <2> QED
    BY <2>1, <2>2 DEF EnColas
<1>10. ASSUME NEW s \in Semaforos, NEW d \in CPUs, hilo[d].prog = q, PideEntrar(d, s) PROVE FALSE
  <2>1. CASE d = c
    <3>1. haciaKernel[c] = <<>>
      BY <1>1, LoQuePide
    <3> QED
      BY <1>1, <1>10, <2>1, <3>1, NadieEnCola DEF PideEntrar, PasosWait
  <2>2. CASE d # c
    <3>1. hilo[c].paso \in PasosDueno \ {"ioSacar"}
      BY <1>1 DEF PasosDueno
    <3>2. ~Lleva(hilo[d], q) /\ ~(Dueno(hilo[d], q) /\ hilo[d].paso # "ioSacar")
      BY <1>1, <2>2, <3>1, UnicoDueno
    <3> QED
      BY <1>10, <3>2 DEF PideEntrar, PasosWait, PasosDueno, Lleva, Dueno
  <2> QED
    BY <2>1, <2>2
<1>11. \A s \in Semaforos : ~EsperaA(q, s)
  BY <1>9, <1>10 DEF EsperaA
<1> QED
  BY <1>1, <1>2, <1>3, <1>4, <1>5, <1>6, <1>7, <1>8, <1>11

\* A line that a CPU executes: a wait leaves its program waiting, a signal takes it out
\* and gives the permit to the thread.
LEMMA LineaPermiso ==
  ASSUME ProgramasEnRegla, InvPCP, InvPCP', InvAvance, InvAvance', NEW c \in CPUs,
         UNCHANGED varsPCP, EjecutarLinea(c) \/ Pedir(c) \/ Fallar(c),
         NEW s \in Exclusivos, UnPermiso(s)
  PROVE  UnPermiso(s)'
<1> DEFINE l == ProximaLinea(c)
<1>1. s \in Semaforos
  BY DEF Exclusivos
<1>2. PICK q \in Programas : \E n \in Nat :
        /\ hilo[c].prog = q /\ hilo[c].paso = "recibir"
        /\ n + 1 \in DOMAIN Codigo[q] /\ l = Codigo[q][n + 1]
        /\ AvanceHastaElFin[q] = n /\ AvanceHastaElFin'[q] = n + 1
        /\ \A p \in Programas \ {q} : AvanceHastaElFin'[p] = AvanceHastaElFin[p]
        /\ ~EsperaA(q, s)
  BY <1>1, QuienPide
<1>3. PICK n \in Nat :
        /\ hilo[c].prog = q /\ hilo[c].paso = "recibir"
        /\ n + 1 \in DOMAIN Codigo[q] /\ l = Codigo[q][n + 1]
        /\ AvanceHastaElFin[q] = n /\ AvanceHastaElFin'[q] = n + 1
        /\ \A p \in Programas \ {q} : AvanceHastaElFin'[p] = AvanceHastaElFin[p]
        /\ ~EsperaA(q, s)
  BY <1>2
<1>4. /\ haciaKernel[c] = <<>>
      /\ \A d \in CPUs \ {c} : haciaKernel'[d] = haciaKernel[d]
      /\ \/ haciaKernel'[c] = <<>> /\ l.op \notin {"wait", "signal"}
         \/ \E m : /\ haciaKernel'[c] = <<m>>
                   /\ \/ l.op = "wait" /\ m.op = "waitKernel" /\ m.nombre = l.nombre
                      \/ l.op = "signal" /\ m.op = "signalKernel" /\ m.nombre = l.nombre
                      \/ /\ l.op \notin {"wait", "signal"}
                         /\ m.op \notin {"waitKernel", "signalKernel"}
  BY <1>3, LoQuePide
<1> HIDE DEF l
<1>5. \A m : EnCola(<<m>>) = {m}
  <2> TAKE m
  <2>1. Len(<<m>>) = 1 /\ <<m>>[1] = m
    OBVIOUS
  <2> QED
    BY <2>1 DEF EnCola
<1>6. UNCHANGED <<hilo, iSemaforo, progEncolados>> /\ iSemaforo[s] \in Int
  BY <1>1, DeTodos DEF varsPCP, colas, ValoresEnRegla
<1>7. \A d \in CPUs : PideEntrar(d, s) => PideEntrar(d, s)'
  <2> SUFFICES ASSUME NEW d \in CPUs, PideEntrar(d, s) PROVE PideEntrar(d, s)'
    OBVIOUS
  <2>1. CASE d = c
    BY <1>3, <1>4, <2>1, NadieEnCola DEF PideEntrar, PasosWait
  <2>2. CASE d # c
    BY <1>4, <1>6, <2>2 DEF PideEntrar, EnCola
  <2> QED
    BY <2>1, <2>2
<1>8. \A p : EsperaA(p, s) => EsperaA(p, s)'
  BY <1>6, <1>7 DEF EsperaA, EnCola
<1>9. \A p \in Programas \ {q} : Adentro(p, s)' => Adentro(p, s)
  BY <1>3, <1>8, AdentroSigue
<1>10. \A d \in CPUs : Cede(d, s)' => Cede(d, s) \/ (d = c /\ l.op = "signal" /\ l.nombre = s)
  <2> SUFFICES ASSUME NEW d \in CPUs, Cede(d, s)', ~Cede(d, s)
               PROVE  d = c /\ l.op = "signal" /\ l.nombre = s
    OBVIOUS
  <2>1. PICK m \in EnCola(haciaKernel'[d]) : m.op = "signalKernel" /\ m.nombre = s
    BY <1>6 DEF Cede, EnCola
  <2>2. d = c
    BY <1>4, <1>6, <2>1 DEF Cede, EnCola
  <2>3. PICK x : /\ haciaKernel'[c] = <<x>>
                 /\ x.op = "signalKernel" => l.op = "signal" /\ x.nombre = l.nombre
    <3>1. haciaKernel'[c] # <<>>
      BY <2>1, <2>2, NadieEnCola
    <3> QED
      BY <1>4, <3>1
  <2>4. m = x
    BY <1>5, <2>1, <2>2, <2>3
  <2> QED
    BY <2>1, <2>2, <2>3, <2>4
<1>11. Adentro(q, s) <=> EnSeccion(q, s, n)
  BY <1>3 DEF Adentro
<1>12. Adentro(q, s)' <=> EnSeccion(q, s, n + 1) /\ ~EsperaA(q, s)'
  BY <1>3 DEF Adentro, EnSeccion
<1>13. CASE l.op = "signal" /\ l.nombre = s
  <2>1. EnSeccion(q, s, (n + 1) - 1) /\ (n + 1) - 1 = n
    BY <1>3, <1>13 DEF Exclusivos
  <2>2. Adentro(q, s) /\ ~Adentro(q, s)'
    BY <1>3, <1>11, <1>12, <1>13, <2>1, UnaLineaMas
  <2> QED
    BY <1>6, <1>9, <1>10, <2>2, PermisoAlHilo
<1>14. CASE ~(l.op = "signal" /\ l.nombre = s)
  <2>1. Adentro(q, s)' => Adentro(q, s)
    <3>1. CASE l.op = "wait" /\ l.nombre = s
      <4>1. PICK m : haciaKernel'[c] = <<m>> /\ m.op = "waitKernel" /\ m.nombre = s
        BY <1>4, <3>1
      <4>2. PideEntrar(c, s)'
        <5>1. \E x \in EnCola(haciaKernel'[c]) : x.op = "waitKernel" /\ x.nombre = s
          BY <1>5, <4>1
        <5> QED
          BY <1>3, <1>6, <5>1 DEF PideEntrar, EnCola
      <4> QED
        BY <1>3, <1>6, <1>12, <4>2 DEF EsperaA
    <3>2. CASE ~(l.op = "wait" /\ l.nombre = s)
      BY <1>3, <1>11, <1>12, <3>2, UnaLineaMas
    <3> QED
      BY <3>1, <3>2
  <2> QED
    BY <1>6, <1>9, <1>10, <1>14, <2>1, PermisoSePierde
<1> QED
  BY <1>13, <1>14

-----------------------------------------------------------------------------
(* The theorems. *)

\* At the start nobody is inside, and no thread serves anything.
LEMMA PermisoInicial ==
  ASSUME ProgramasEnRegla, Init
  PROVE  InvPermiso
<1> SUFFICES ASSUME NEW s \in Exclusivos PROVE UnPermiso(s)
  BY DEF InvPermiso
<1>1. s \in Semaforos /\ ValorInicial[s] <= 1
  BY DEF Exclusivos
<1>2. iSemaforo[s] = ValorInicial[s] /\ \A c \in CPUs : hilo[c].paso = "esperar"
  BY <1>1 DEF Init, InitPCP, Hilo
<1>3. \A c \in CPUs : ~Cede(c, s)
  BY <1>2 DEF Cede
<1>4. AvanceHastaElFin = [p \in Programas |-> 0]
  BY InicioAbstracto DEF Abstracto!InitCP
<1>5. \A p \in Programas : ~Adentro(p, s)
  <2>1. \A p \in Programas : AvanceHastaElFin[p] = 0
    BY <1>4
  <2>2. \A p : ~EnSeccion(p, s, 0)
    BY DEF EnSeccion
  <2> QED
    BY <2>1, <2>2 DEF Adentro
<1> QED
  BY <1>1, <1>2, <1>3, <1>5 DEF UnPermiso

\* While no two threads are at the same semaphore, every step of the kernel and of a
\* CPU keeps one permit.
LEMMA PermisoSigue ==
  ASSUME ProgramasEnRegla, InvPCP, InvPCP', InvAvance, InvAvance', InvCorto, InvSem,
         SinCarreras, InvPermiso, [Next]_vars
  PROVE  InvPermiso'
<1> SUFFICES ASSUME NEW s \in Exclusivos PROVE UnPermiso(s)'
  BY DEF InvPermiso
<1>1. s \in Semaforos /\ UnPermiso(s)
  BY DEF Exclusivos, InvPermiso
<1>2. CASE NextPCP /\ UNCHANGED cpu
  <2>1. CASE Admision
    BY <1>1, <1>2, <2>1, PermisoSinHilo DEF Admision, PonerEnReady, PostProductor, colas, canales
  <2>2. ASSUME NEW c \in CPUs, pfnControladorConexion(c) PROVE UnPermiso(s)'
    BY <1>1, <1>2, <2>2, HiloPermiso
  <2>3. ASSUME NEW d \in Dispositivos, fnDispositivos(d) PROVE UnPermiso(s)'
    <3>1. UNCHANGED haciaKernel
      BY <2>3 DEF fnDispositivos, DispEsperar, DispSacar, DispReady, DispPost, canales
    <3> QED
      BY <1>1, <1>2, <2>3, <3>1, SemDisp, PermisoSinHilo
  <2> QED
    BY <1>2, <2>1, <2>2, <2>3 DEF NextPCP
<1>3. CASE NextCpu /\ UNCHANGED varsPCP
  <2>1. PICK c \in CPUs : EjecutarRafaga(c)
    BY <1>3 DEF NextCpu, signal_handler, ProgramasEnRegla
  <2>2. CASE EjecutarLinea(c) \/ Pedir(c) \/ Fallar(c)
    BY <1>1, <1>3, <2>2, LineaPermiso
  <2>3. CASE RecibirPcb(c) \/ RecibirRespuesta(c) \/ TerminarRafaga(c)
    BY <1>1, <1>3, <2>3, PermisoCpu
  <2> QED
    BY <2>1, <2>2, <2>3 DEF EjecutarRafaga
<1>4. CASE UNCHANGED vars
  <2>1. UNCHANGED <<admitidos, listaReady, exitProcesos, pcb, cpu, hilo, iSemaforo, progEncolados,
                    dispositivo, haciaKernel>>
    BY <1>4 DEF vars, varsPCP, plp, ready, colas, canales
  <2>2. AvanceHastaElFin' = AvanceHastaElFin
    BY <2>1 DEF AvanceHastaElFin, Lugar, Avance, HilosEn, EnCola
  <2>3. \A p : Adentro(p, s)' <=> Adentro(p, s)
    BY <2>1, <2>2 DEF Adentro, EnSeccion, EsperaA, PideEntrar, EnCola
  <2>4. \A c : Cede(c, s)' <=> Cede(c, s)
    BY <2>1 DEF Cede, EnCola
  <2> QED
    BY <1>1, <2>1, <2>3, <2>4 DEF UnPermiso
<1> QED
  BY <1>2, <1>3, <1>4 DEF Next

\* Two programs are never at once between a wait and a signal of the same semaphore of
\* initial value 1, while no two CPUs are in fnLock or fnUnlock of it at once; wherever
\* they are, and however many times they have been preempted or blocked.
THEOREM ExclusionSinCarreras ==
  ProgramasEnRegla /\ SemaforosExisten /\ InicialesNoNegativos /\ Spec /\ []SinCarreras
    => []ExclusionMutua
<1> SUFFICES ASSUME ProgramasEnRegla, SemaforosExisten, InicialesNoNegativos
             PROVE  Spec /\ []SinCarreras => []ExclusionMutua
  OBVIOUS
<1>1. Init => InvSem /\ InvPermiso
  BY SemInicial, PermisoInicial
<1>2. InvPCP /\ InvSem /\ SinCarreras /\ SinCarreras' /\ [Next]_vars => InvSem'
  BY SemSiguen
<1>3. /\ InvPCP /\ InvPCP' /\ InvAvance /\ InvAvance' /\ InvCorto /\ InvSem /\ SinCarreras
      /\ InvPermiso /\ [Next]_vars
      => InvPermiso'
  BY PermisoSigue
<1>4. InvPermiso => ExclusionMutua
  BY DEF InvPermiso, UnPermiso, ExclusionMutua
<1> QED
  BY <1>1, <1>2, <1>3, <1>4, InvariantePCP, InvarianteAvance, InvarianteCorto, PTL DEF Spec

\* With one CPU, always.
THEOREM ExclusionConUnaCpu ==
  ProgramasEnRegla /\ SemaforosExisten /\ InicialesNoNegativos /\ UnaCpu /\ Spec
    => []ExclusionMutua
<1> SUFFICES ASSUME ProgramasEnRegla, SemaforosExisten, InicialesNoNegativos, UnaCpu
             PROVE  Spec => []ExclusionMutua
  OBVIOUS
<1>1. SinCarreras
  BY UnaSinCarreras
<1>2. Spec /\ []SinCarreras => []ExclusionMutua
  BY ExclusionSinCarreras
<1> QED
  BY <1>1, <1>2, PTL

-----------------------------------------------------------------------------
(* What a program that is alone between a wait and a signal can count on. *)

\* The kernel ends a program only at a line that may end it.
LEMMA FinDelKernel ==
  ASSUME InvPCP, InvPCP', InvAvance, InvCorto, NextPCP, UNCHANGED cpu, NEW p \in Programas
  PROVE  \/ AvanceHastaElFin'[p] = AvanceHastaElFin[p]
         \/ AvanceHastaElFin'[p] = 0 /\ AvanceHastaElFin[p] \in Finales[p]
<1>1. /\ AvanceHastaElFin[p] = IF Lugar(p) = "fin" THEN 0 ELSE Avance(p)
      /\ AvanceHastaElFin'[p] = IF Lugar(p)' = "fin" THEN 0 ELSE Avance(p)'
  BY DEF AvanceHastaElFin
<1>2. Avance(p)' = Avance(p)
  BY KernelNoAvanza
<1>3. (Lugar(p) = "fin" <=> EnExit(p)) /\ (Lugar(p)' = "fin" <=> EnExit(p)')
  BY Vista DEF Sitios
<1>4. ~EnExit(p) /\ EnExit(p)' => Avance(p) \in Finales[p]
  BY KernelTermina, TerminaDonde DEF TerminaElQueTermino
<1>5. EnExit(p) => EnExit(p)'
  BY KernelTermina
<1> QED
  BY <1>1, <1>2, <1>3, <1>4, <1>5

\* No other step takes a thread into the functions of a wait, nor back to recv if it was
\* there.
LEMMA PasoSinWait ==
  ASSUME HilosEnRegla, NEW c \in CPUs, pfnControladorConexion(c), ~RecibirMensaje(c),
         ~(WaitLeer(c) \/ WaitEscribir(c) \/ WaitProbar(c) \/ WaitSacar(c) \/ WaitEncolar(c))
  PROVE  /\ hilo'[c].paso \notin PasosWait
         /\ ~(hilo[c].paso = "recibir" /\ hilo'[c].paso = "recibir")
<1> DEFINE B == {"recibir", "esperar", "sacar", "cargar", "enviar", "null", "ioEncolar",
                 "exitSacar", "ioSacar", "ioPost", "recargarReady", "recargarPost",
                 "exitAgregar", "terminado"} \cup PasosSignal
<1>1. CASE RecibirFin(c)
  <2>1. PICK v : hilo' = [hilo EXCEPT ![c].msg = v, ![c].paso = "exitSacar"]
    BY <1>1 DEF RecibirFin
  <2>2. hilo'[c].paso = "exitSacar"
    BY <2>1, SemHilo
  <2> QED
    BY <2>2 DEF PasosWait
<1>2. CASE ~RecibirFin(c)
  <2>1. hilo[c].paso # "recibir" /\ \E b \in B : \E v :
          \/ Seguir(c, b) \/ Volver(c, b)
          \/ hilo' = [hilo EXCEPT ![c].otro = v, ![c].paso = b]
          \/ hilo' = [hilo EXCEPT ![c].leido = v, ![c].paso = b]
          \/ hilo' = [hilo EXCEPT ![c] = Hilo(b, v)]
    <3> USE DEF PasosSignal
    <3>1. CASE \/ EnviarPcb(c) \/ Consulta(c) \/ WaitInexistente(c) \/ SignalInexistente(c)
               \/ WaitBloquear(c) \/ SignalResponder(c)
      BY <3>1 DEF EnviarPcb, Consulta, WaitInexistente, SignalInexistente, WaitBloquear,
         SignalResponder
    <3>2. CASE EsperarReady(c) \/ SacarReady(c) \/ CargarExec(c)
      BY <3>2 DEF EsperarReady, SacarReady, CargarExec, NullEn
    <3>3. CASE IoPcb(c) \/ IoEncolar(c) \/ IoSacar(c) \/ IoPost(c)
      BY <3>3 DEF IoPcb, IoEncolar, IoSacar, IoPost
    <3>4. CASE RecargarSacar(c) \/ RecargarReady(c) \/ RecargarPost(c)
      BY <3>4 DEF RecargarSacar, RecargarReady, RecargarPost, NullEn
    <3>5. CASE ExitSacar(c) \/ ExitAgregar(c)
      BY <3>5 DEF ExitSacar, ExitAgregar, NullEn
    <3>6. CASE SignalLeer(c) \/ SignalEscribir(c) \/ SignalProbar(c)
      BY <3>6 DEF SignalLeer, SignalEscribir, SignalProbar
    <3>7. CASE SignalSacar(c) \/ SignalReady(c) \/ SignalPost(c)
      BY <3>7 DEF SignalSacar, SignalReady, SignalPost, NullEn
    <3> QED
      BY <1>2, <3>1, <3>2, <3>3, <3>4, <3>5, <3>6, <3>7
      DEF pfnControladorConexion, Recibir, Enviar, Interno
  <2>2. \A b \in B : b \notin PasosWait
    BY DEF PasosSignal, PasosWait
  <2> HIDE DEF B
  <2> QED
    BY <2>1, <2>2, SemHilo
<1> QED
  BY <1>1, <1>2

\* Nor into the queue of a semaphore.
LEMMA ColaSinWait ==
  ASSUME InvPCP, NEW c \in CPUs, pfnControladorConexion(c), ~WaitEncolar(c),
         NEW s \in Semaforos, NEW p, p \in EnCola(progEncolados'[s])
  PROVE  p \in EnCola(progEncolados[s])
<1>1. CASE ~EnFn(c, s)
  BY <1>1, ColaAjena
<1>2. CASE EnFn(c, s) /\ UNCHANGED progEncolados
  BY <1>2
<1>3. CASE EnFn(c, s) /\ ~UNCHANGED progEncolados
  <2>1. hilo[c].msg.nombre = s /\ hilo[c].paso \in PasosWait \cup PasosSignal
    BY <1>3 DEF EnFn
  <2>2. SignalSacar(c)
    BY <1>3, <2>1 DEF pfnControladorConexion, Recibir, RecibirMensaje, RecibirFin, Enviar,
       EnviarPcb, Consulta, WaitInexistente, WaitProbar, WaitBloquear, SignalInexistente,
       SignalResponder, Interno, EsperarReady, SacarReady, CargarExec, WaitLeer, WaitEscribir,
       WaitSacar, SignalLeer, SignalEscribir, SignalProbar, SignalReady, SignalPost, IoPcb,
       IoEncolar, IoSacar, IoPost, RecargarSacar, RecargarReady, RecargarPost, ExitSacar,
       ExitAgregar, colas, PasosWait, PasosSignal
  <2> DEFINE U == 1..admitidos
  <2>3. progEncolados \in [Semaforos \cup Dispositivos -> Seq(U)]
    BY DeTodos DEF ListasEnRegla
  <2> HIDE DEF U
  <2>4. /\ progEncolados[s] # <<>> /\ progEncolados'[s] = Tail(progEncolados[s])
        /\ progEncolados[s] \in Seq(U)
    BY <1>3, <2>1, <2>2, <2>3 DEF SignalSacar
  <2> QED
    BY <2>4, EnColaQuitar
<1> QED
  BY <1>1, <1>2, <1>3

\* A thread asks for s only if its CPU has, and queues only who has asked.
LEMMA EsperaDeHilo ==
  ASSUME InvPCP, NEW c \in CPUs, pfnControladorConexion(c), NEW s \in Semaforos,
         NEW p, EsperaA(p, s)'
  PROVE  EsperaA(p, s)
<1>1. /\ Otros(c) /\ \A d \in CPUs \ {c} : haciaKernel'[d] = haciaKernel[d]
      /\ ~EnFn(c, s) => progEncolados'[s] = progEncolados[s]
      /\ ~RecibirMensaje(c) => UNCHANGED haciaKernel
      /\ HilosEnRegla
  BY ColaAjena, CanalAjeno, DeTodos
<1>2. ASSUME NEW d \in CPUs \ {c}, hilo'[d].prog = p, PideEntrar(d, s)' PROVE EsperaA(p, s)
  <2>1. hilo'[d] = hilo[d] /\ haciaKernel'[d] = haciaKernel[d]
    BY <1>1 DEF Otros
  <2>2. PideEntrar(d, s)
    BY <1>2, <2>1 DEF PideEntrar, EnCola
  <2> QED
    BY <1>2, <2>1, <2>2 DEF EsperaA
<1>3. CASE RecibirMensaje(c)
  <2> DEFINE m == Head(haciaKernel[c])
  <2>1. /\ hilo[c].paso = "recibir" /\ haciaKernel[c] # <<>>
        /\ hilo' = [hilo EXCEPT ![c].msg = m, ![c].paso = PasoPara(m)]
        /\ progEncolados' = progEncolados
    BY <1>3 DEF RecibirMensaje, colas
  <2>2. /\ haciaKernel[c] \in Seq(Mensajes) /\ Len(haciaKernel[c]) = 1
        /\ m.op \in {"consulta", "waitKernel", "signalKernel", "entradaSalidaKernel",
                     "notificarPorFinRafaga", "notificarPorFinPrograma", "exception"}
    BY <1>3, MensajeRecibido
  <2>3. m \in EnCola(haciaKernel[c])
    <3>1. m = haciaKernel[c][1] /\ 1 \in 1..Len(haciaKernel[c])
      BY <2>2
    <3> QED
      BY <3>1 DEF EnCola
  <2>4. PasoPara(m) \in PasosWait => m.op = "waitKernel"
    BY <2>2 DEF PasoPara, PasosWait
  <2>5. PasoPara(m) # "recibir"
    BY <2>2 DEF PasoPara
  <2> HIDE DEF m
  <2>6. hilo'[c].paso = PasoPara(m) /\ hilo'[c].msg = m /\ hilo'[c].prog = hilo[c].prog
    <3>1. HilosEnRegla
      BY DeTodos
    <3>2. PICK b : b = PasoPara(m)
      OBVIOUS
    <3>3. hilo' = [hilo EXCEPT ![c].msg = m, ![c].paso = b]
      BY <2>1, <3>2
    <3>4. hilo'[c].paso = b /\ hilo'[c].prog = hilo[c].prog
      BY <3>1, <3>3, PasoDelHilo
    <3>5. hilo'[c].msg = m
      BY <3>1, <3>3, SemHiloMsg
    <3> QED
      BY <3>2, <3>4, <3>5
  <2>7. PideEntrar(c, s)' => PideEntrar(c, s)
    BY <2>1, <2>3, <2>4, <2>5, <2>6 DEF PideEntrar
  <2> QED
    BY <1>2, <2>1, <2>6, <2>7 DEF EsperaA, EnCola
<1>4. CASE ~RecibirMensaje(c)
  <2>1. haciaKernel' = haciaKernel /\ (hilo[c].paso # "recibir" => haciaKernel[c] = <<>>)
    BY <1>1, <1>4, NadaQueRecibir
  <2>2. CASE WaitLeer(c) \/ WaitEscribir(c) \/ WaitProbar(c) \/ WaitSacar(c) \/ WaitEncolar(c)
    <3>1. /\ hilo'[c].prog = hilo[c].prog /\ (hilo'[c].paso = "recibir" \/ hilo'[c].msg = hilo[c].msg)
          /\ hilo[c].paso \in PasosWait \ {"waitBloquear"}
      <4>1. \E b, v : \/ Seguir(c, b)
                      \/ Volver(c, b) /\ b = "recibir"
                      \/ hilo' = [hilo EXCEPT ![c].leido = v, ![c].paso = b]
        BY <2>2 DEF WaitLeer, WaitEscribir, WaitProbar, WaitSacar, WaitEncolar
      <4>2. hilo[c].paso \in PasosWait \ {"waitBloquear"}
        BY <2>2 DEF WaitLeer, WaitEscribir, WaitProbar, WaitSacar, WaitEncolar, PasosWait
      <4>3. HilosEnRegla
        BY DeTodos
      <4>4. PICK b, v : \/ Seguir(c, b)
                        \/ Volver(c, b) /\ b = "recibir"
                        \/ hilo' = [hilo EXCEPT ![c].leido = v, ![c].paso = b]
        BY <4>1
      <4>5. hilo'[c].prog = hilo[c].prog /\ hilo'[c].paso = b
        BY <4>3, <4>4, PasoDelHilo
      <4>6. b = "recibir" \/ hilo'[c].msg = hilo[c].msg
        BY <4>3, <4>4, SemHiloMsg
      <4> QED
        BY <4>2, <4>5, <4>6
    <3>2. hilo[c].paso # "recibir"
      BY <3>1 DEF PasosWait
    <3>3. haciaKernel'[c] = <<>>
      BY <2>1, <3>2
    <3>4. PideEntrar(c, s)' => PideEntrar(c, s)
      BY <3>1, <3>3, NadieEnCola DEF PideEntrar, PasosWait
    <3>5. ASSUME p \in EnCola(progEncolados'[s]), p \notin EnCola(progEncolados[s])
          PROVE  hilo[c].prog = p /\ PideEntrar(c, s)
      <4>1. WaitEncolar(c)
        BY <2>2, <3>5 DEF WaitLeer, WaitEscribir, WaitProbar, WaitSacar, colas
      <4>2. Encolar(hilo[c].msg.nombre, hilo[c].prog)
        BY <4>1 DEF WaitEncolar
      <4> DEFINE T == Nat
                 U == 1..admitidos
      <4>3. progEncolados \in [Semaforos \cup Dispositivos -> Seq(U)] /\ U \subseteq T
        BY DeTodos DEF ListasEnRegla
      <4>4. hilo[c].prog \in T
        BY DeHilo DEF TipoHilo, Pids, Programas, Nadie
      <4> HIDE DEF T, U
      <4>5. /\ progEncolados'[s] = IF hilo[c].msg.nombre = s
                                   THEN Append(progEncolados[s], hilo[c].prog)
                                   ELSE progEncolados[s]
            /\ progEncolados[s] \in Seq(T)
        BY <4>2, <4>3, ColaCrece DEF Encolar
      <4>6. \A x : x \in EnCola(Append(progEncolados[s], hilo[c].prog)) <=>
                    x \in EnCola(progEncolados[s]) \/ x = hilo[c].prog
        BY <4>4, <4>5, EnColaAgregar
      <4>7. hilo[c].msg.nombre = s /\ hilo[c].prog = p
        BY <3>5, <4>5, <4>6
      <4> QED
        BY <3>1, <4>7 DEF PideEntrar
    <3> QED
      BY <1>2, <3>1, <3>4, <3>5 DEF EsperaA, EnCola
  <2>3. CASE ~(WaitLeer(c) \/ WaitEscribir(c) \/ WaitProbar(c) \/ WaitSacar(c) \/ WaitEncolar(c))
    <3>1. /\ hilo'[c].paso \notin PasosWait
          /\ ~(hilo[c].paso = "recibir" /\ hilo'[c].paso = "recibir")
      BY <1>1, <1>4, <2>3, PasoSinWait
    <3>2. ~PideEntrar(c, s)'
      BY <2>1, <3>1, NadieEnCola DEF PideEntrar
    <3>3. \A x : x \in EnCola(progEncolados'[s]) => x \in EnCola(progEncolados[s])
      BY <2>3, ColaSinWait
    <3> QED
      BY <1>2, <3>2, <3>3 DEF EsperaA, EnCola
  <2> QED
    BY <2>2, <2>3
<1> QED
  BY <1>3, <1>4

\* Nobody waits for s who did not, after a step of the kernel
LEMMA EsperaDelKernel ==
  ASSUME InvPCP, NextPCP, NEW s \in Semaforos, NEW p, EsperaA(p, s)'
  PROVE  EsperaA(p, s)
<1>1. ASSUME NEW c \in CPUs, pfnControladorConexion(c) PROVE EsperaA(p, s)
  BY <1>1, EsperaDeHilo
<1>2. CASE Admision \/ \E d \in Dispositivos : fnDispositivos(d)
  <2>1. /\ hilo' = hilo /\ haciaKernel' = haciaKernel /\ progEncolados'[s] = progEncolados[s]
    <3>1. CASE Admision
      BY <3>1 DEF Admision, PonerEnReady, PostProductor, colas, canales
    <3>2. ASSUME NEW d \in Dispositivos, fnDispositivos(d)
          PROVE  hilo' = hilo /\ haciaKernel' = haciaKernel /\ progEncolados'[s] = progEncolados[s]
      BY <3>2, SemDisp DEF fnDispositivos, DispEsperar, DispSacar, DispReady, DispPost, canales
    <3> QED
      BY <1>2, <3>1, <3>2
  <2> QED
    BY <2>1 DEF EsperaA, PideEntrar, EnCola
<1> QED
  BY <1>1, <1>2 DEF NextPCP

\* or of a CPU, unless it is the line of a program that waits for it.
LEMMA EsperaDeCpu ==
  ASSUME InvPCP, InvPCP', InvAvance, NEW c \in CPUs, UNCHANGED varsPCP, NEW s \in Semaforos,
         NEW p, EsperaA(p, s)',
         \/ RecibirPcb(c) \/ RecibirRespuesta(c) \/ TerminarRafaga(c)
         \/ /\ EjecutarLinea(c) \/ Pedir(c) \/ Fallar(c)
            /\ hilo[c].paso = "recibir"
            /\ ~(hilo[c].prog = p /\ ProximaLinea(c).op = "wait" /\ ProximaLinea(c).nombre = s)
  PROVE  EsperaA(p, s)
<1>1. UNCHANGED <<hilo, progEncolados>>
  BY DEF varsPCP, colas
<1>2. \A d \in CPUs : \A m :
        m \in EnCola(haciaKernel'[d]) /\ m.op = "waitKernel" =>
          \/ m \in EnCola(haciaKernel[d])
          \/ m.nombre = s => hilo[d].prog # p
  <2>1. CASE RecibirPcb(c) \/ RecibirRespuesta(c)
    BY <2>1 DEF RecibirPcb, RecibirRespuesta
  <2>2. CASE TerminarRafaga(c)
    <3>1. CASE UNCHANGED haciaKernel
      BY <3>1
    <3>2. CASE ~UNCHANGED haciaKernel
      <4>1. PICK e \in {"notificarPorFinRafaga", "notificarPorFinPrograma"} :
              EnviarAKernel(c, Mensaje(e, SinNombre, cpu[c].pid, cpu[c].pc))
        BY <2>2, <3>2 DEF TerminarRafaga
      <4>2. PICK m : m = Mensaje(e, SinNombre, cpu[c].pid, cpu[c].pc)
        OBVIOUS
      <4>3. m \in Mensajes /\ m.op # "waitKernel"
        BY <4>2, DeTodos DEF Mensaje, Mensajes, CpusEnRegla, TipoCpu, DeCpu
      <4>4. haciaKernel \in [CPUs -> Seq(Mensajes)]
        BY DeTodos DEF CanalesEnRegla
      <4>5. /\ haciaKernel'[c] = Append(haciaKernel[c], m) /\ haciaKernel[c] \in Seq(Mensajes)
            /\ \A d \in CPUs \ {c} : haciaKernel'[d] = haciaKernel[d]
        BY <4>1, <4>2, <4>4 DEF EnviarAKernel
      <4>6. \A x : x \in EnCola(Append(haciaKernel[c], m)) <=> x \in EnCola(haciaKernel[c]) \/ x = m
        BY <4>3, <4>5, EnColaAgregar
      <4> QED
        BY <4>3, <4>5, <4>6
    <3> QED
      BY <3>1, <3>2
  <2>3. CASE EjecutarLinea(c) \/ Pedir(c) \/ Fallar(c)
    <3>1. PICK l : l = ProximaLinea(c)
      OBVIOUS
    <3>2. /\ hilo[c].paso = "recibir"
          /\ ~(hilo[c].prog = p /\ l.op = "wait" /\ l.nombre = s)
      BY <2>3, <3>1 DEF RecibirPcb, RecibirRespuesta, TerminarRafaga, EjecutarLinea, Pedir, Fallar
    <3>3. /\ \A d \in CPUs \ {c} : haciaKernel'[d] = haciaKernel[d]
          /\ \/ haciaKernel'[c] = <<>>
             \/ \E m : /\ haciaKernel'[c] = <<m>>
                       /\ m.op = "waitKernel" => l.op = "wait" /\ m.nombre = l.nombre
      BY <2>3, <3>1, <3>2, LoQuePide
    <3>4. ASSUME NEW m, haciaKernel'[c] = <<m>> PROVE EnCola(haciaKernel'[c]) = {m}
      BY <3>4 DEF EnCola
    <3>5. \A m : m \in EnCola(haciaKernel'[c]) /\ m.op = "waitKernel" =>
                  l.op = "wait" /\ m.nombre = l.nombre
      BY <3>3, <3>4, NadieEnCola
    <3> QED
      BY <3>2, <3>3, <3>5
  <2> QED
    BY <2>1, <2>2, <2>3
<1> QED
  BY <1>1, <1>2 DEF EsperaA, PideEntrar, EnCola

\* No counter goes past the end of its text.
AvanceEnTexto == \A p \in Programas : AvanceHastaElFin[p] \in 0..Final(p)

LEMMA AvanceEnTextoSigue ==
  ASSUME ProgramasEnRegla, InvPCP, InvPCP', InvAvance, InvAvance', InvCorto, [Next]_vars,
         AvanceEnTexto
  PROVE  AvanceEnTexto'
<1>1. \A p \in Programas : 0 \in 0..Final(p) /\ DOMAIN Codigo[p] = 1..Final(p)
                             /\ Final(p) \in Nat
  BY DEF ProgramasEnRegla, Final
<1>2. CASE NextPCP /\ UNCHANGED cpu
  BY <1>1, <1>2, AvanceDelKernel DEF AvanceEnTexto
<1>3. CASE UNCHANGED vars
  <2>1. AvanceHastaElFin' = AvanceHastaElFin
    BY <1>3 DEF AvanceHastaElFin, Lugar, Avance, HilosEn, EnCola, vars, varsPCP, plp, ready, colas
  <2> QED
    BY <2>1 DEF AvanceEnTexto
<1>4. ASSUME NEW c \in CPUs, UNCHANGED varsPCP, EjecutarLinea(c) \/ Pedir(c) \/ Fallar(c)
      PROVE  AvanceEnTexto'
  <2>1. PICK q \in Programas : \E n \in Nat :
          /\ Avance(q) = n /\ Avance(q)' = n + 1 /\ n + 1 \in DOMAIN Codigo[q]
          /\ \A p \in Programas : p # q => Avance(p)' = Avance(p)
    <3>1. PICK q \in Programas :
            /\ q = hilo[c].prog /\ EnCurso(c) /\ hilo[c].paso = "recibir"
            /\ Avance(q)' = Avance(q) + 1
            /\ \A p \in Programas : p # q => Avance(p)' = Avance(p)
      BY <1>4, AvanceDeLinea
    <3>2. PICK n \in Nat : n = cpu[c].pc
      BY DeTodos DEF CpusEnRegla, TipoCpu
    <3>3. cpu[c].pid = q
      BY <3>1 DEF EnCurso
    <3>4. AvanceDice /\ pcb[q].pc <= n /\ Hasta(q, n)
      BY <3>1, <3>2, AvanceDe DEF InvAvance, CpusAlDia
    <3>5. Avance(q) = n
      BY <3>2, <3>3, <3>4 DEF AvanceDice
    <3>6. n < Final(q)
      BY <1>4, <3>2, <3>3, QueEjecuta
    <3> QED
      BY <1>1, <3>1, <3>5, <3>6
  <2>2. \A p : Lugar(p)' = Lugar(p)
    BY <1>4 DEF Lugar, HilosEn, EnCola, varsPCP, plp, ready, colas
  <2>3. /\ \A p \in Programas : AvanceHastaElFin[p] = IF Lugar(p) = "fin" THEN 0 ELSE Avance(p)
        /\ \A p \in Programas : AvanceHastaElFin'[p] = IF Lugar(p)' = "fin" THEN 0 ELSE Avance(p)'
    BY DEF AvanceHastaElFin
  <2> QED
    BY <1>1, <2>1, <2>2, <2>3 DEF AvanceEnTexto
<1>5. ASSUME NEW c \in CPUs, UNCHANGED varsPCP,
             RecibirPcb(c) \/ RecibirRespuesta(c) \/ TerminarRafaga(c)
      PROVE  AvanceEnTexto'
  <2>1. AvanceHastaElFin' = AvanceHastaElFin
    BY <1>5, CpuNoSeVe DEF Abstracto!varsCP
  <2> QED
    BY <2>1 DEF AvanceEnTexto
<1>6. CASE NextCpu /\ UNCHANGED varsPCP
  <2>1. PICK c \in CPUs : EjecutarRafaga(c)
    BY <1>6 DEF NextCpu, signal_handler, ProgramasEnRegla
  <2> QED
    BY <1>4, <1>5, <1>6, <2>1 DEF EjecutarRafaga
<1> QED
  BY <1>2, <1>3, <1>6 DEF Next

LEMMA SiempreEnTexto ==
  ProgramasEnRegla /\ SemaforosExisten /\ Spec => []AvanceEnTexto
<1> SUFFICES ASSUME ProgramasEnRegla, SemaforosExisten PROVE Spec => []AvanceEnTexto
  OBVIOUS
<1>1. Init => AvanceEnTexto
  <2> SUFFICES ASSUME Init PROVE AvanceEnTexto
    OBVIOUS
  <2>1. \A p \in Programas : AvanceHastaElFin[p] = 0
    BY InicioAbstracto DEF Abstracto!InitCP
  <2>2. \A p \in Programas : Final(p) \in Nat
    BY DEF ProgramasEnRegla, Final
  <2> QED
    BY <2>1, <2>2 DEF AvanceEnTexto
<1>2. /\ InvPCP /\ InvPCP' /\ InvAvance /\ InvAvance' /\ InvCorto /\ AvanceEnTexto /\ [Next]_vars
      => AvanceEnTexto'
  BY AvanceEnTextoSigue
<1> QED
  BY <1>1, <1>2, InvariantePCP, InvarianteAvance, InvarianteCorto, PTL DEF Spec

-----------------------------------------------------------------------------
(* For the shared variables: how the counter of a program moves.              *)

\* The CPU that executes a program has the program's counter, and no other CPU has.
LEMMA ContadorEnCurso ==
  ASSUME InvPCP, InvAvance, NEW c \in CPUs, EnCurso(c),
         hilo[c].paso \in {"recibir", "consulta", "signalInexistente"}
  PROVE  /\ hilo[c].prog \in Programas
         /\ AvanceHastaElFin[hilo[c].prog] = cpu[c].pc
         /\ \A d \in CPUs : EnCurso(d) /\ hilo[d].prog = hilo[c].prog => d = c
<1>1. PICK q : q = hilo[c].prog
  OBVIOUS
<1>2. q \in Programas /\ \A d \in CPUs : EnCurso(d) /\ hilo[d].prog = q => d = c
  BY <1>1, EnCursoUnico
<1>3. cpu[c].pid = q /\ cpu[c].pc \in Nat
  BY <1>1, DeTodos DEF EnCurso, CpusEnRegla, TipoCpu
<1>4. pcb[q].pc <= cpu[c].pc /\ Hasta(q, cpu[c].pc)
  BY <1>1 DEF InvAvance, CpusAlDia
<1>5. Avance(q) = cpu[c].pc
  BY <1>2, <1>3, <1>4, AvanceDe DEF AvanceDice
<1>6. Lugar(q) = "ejecutando"
  BY <1>1, <1>2, EsQuienEjecuta DEF QuienEjecuta, PasosDueno
<1> QED
  BY <1>1, <1>2, <1>5, <1>6 DEF AvanceHastaElFin

\* A program executes one line or none, or ends at a line that may end it; and it gets
\* to wait for a semaphore only by executing a wait of it.
LEMMA LoQueAvanza ==
  ASSUME ProgramasEnRegla, InvPCP, InvPCP', InvAvance, InvAvance', InvCorto, [Next]_vars,
         NEW p \in Programas
  PROVE  LET n == AvanceHastaElFin[p]
             m == AvanceHastaElFin'[p]
         IN  \/ m = n /\ \A s \in Semaforos : EsperaA(p, s)' => EsperaA(p, s)
             \/ m = 0 /\ n \in Finales[p]
             \/ /\ n \in Nat /\ m = n + 1 /\ m \in DOMAIN Codigo[p]
                /\ \A s \in Semaforos : EsperaA(p, s)' =>
                     Codigo[p][m].op = "wait" /\ Codigo[p][m].nombre = s
<1>1. CASE NextPCP /\ UNCHANGED cpu
  BY <1>1, FinDelKernel, EsperaDelKernel
<1>2. CASE UNCHANGED vars
  <2>1. AvanceHastaElFin' = AvanceHastaElFin
    BY <1>2 DEF AvanceHastaElFin, Lugar, Avance, HilosEn, EnCola, vars, varsPCP, plp, ready, colas
  <2>2. \A s : EsperaA(p, s)' <=> EsperaA(p, s)
    BY <1>2 DEF EsperaA, PideEntrar, EnCola, vars, varsPCP, canales, colas
  <2> QED
    BY <2>1, <2>2
<1>3. ASSUME NEW c \in CPUs, UNCHANGED varsPCP,
             RecibirPcb(c) \/ RecibirRespuesta(c) \/ TerminarRafaga(c)
      PROVE  /\ AvanceHastaElFin'[p] = AvanceHastaElFin[p]
             /\ \A s \in Semaforos : EsperaA(p, s)' => EsperaA(p, s)
  <2>1. AvanceHastaElFin' = AvanceHastaElFin
    BY <1>3, CpuNoSeVe DEF Abstracto!varsCP
  <2> QED
    BY <1>3, <2>1, EsperaDeCpu
<1>4. ASSUME NEW c \in CPUs, UNCHANGED varsPCP, EjecutarLinea(c) \/ Pedir(c) \/ Fallar(c)
      PROVE  \/ /\ AvanceHastaElFin'[p] = AvanceHastaElFin[p]
                /\ \A s \in Semaforos : EsperaA(p, s)' => EsperaA(p, s)
             \/ /\ AvanceHastaElFin[p] \in Nat
                /\ AvanceHastaElFin'[p] = AvanceHastaElFin[p] + 1
                /\ AvanceHastaElFin'[p] \in DOMAIN Codigo[p]
                /\ \A s \in Semaforos : EsperaA(p, s)' =>
                     /\ Codigo[p][AvanceHastaElFin'[p]].op = "wait"
                     /\ Codigo[p][AvanceHastaElFin'[p]].nombre = s
  <2>1. PICK q : q = hilo[c].prog
    OBVIOUS
  <2>2. /\ hilo[c].paso = "recibir" /\ cpu[c].pc \in Nat /\ q \in Programas
        /\ cpu[c].pc + 1 \in DOMAIN Codigo[q]
        /\ ProximaLinea(c) = Codigo[q][cpu[c].pc + 1]
        /\ AvanceHastaElFin[q] = cpu[c].pc /\ AvanceHastaElFin'[q] = cpu[c].pc + 1
        /\ \A x \in Programas \ {q} : AvanceHastaElFin'[x] = AvanceHastaElFin[x]
        /\ \A s \in Semaforos : ~EsperaA(q, s)
    BY <1>4, <2>1, QuienPide
  <2>3. ASSUME NEW s \in Semaforos, EsperaA(p, s)', ~EsperaA(p, s)
        PROVE  p = q /\ ProximaLinea(c).op = "wait" /\ ProximaLinea(c).nombre = s
    BY <1>4, <2>1, <2>2, <2>3, EsperaDeCpu
  <2>4. CASE p = q
    BY <2>2, <2>3, <2>4
  <2>5. CASE p # q
    BY <2>2, <2>3, <2>5
  <2> QED
    BY <2>4, <2>5
<1>5. CASE NextCpu /\ UNCHANGED varsPCP
  <2>1. PICK c \in CPUs : EjecutarRafaga(c)
    BY <1>5 DEF NextCpu, signal_handler, ProgramasEnRegla
  <2> QED
    BY <1>3, <1>4, <1>5, <2>1 DEF EjecutarRafaga
<1> QED
  BY <1>1, <1>2, <1>5 DEF Next

=============================================================================
