------------------------------- MODULE PCPCpu -------------------------------
(***************************************************************************)
(* The short-term scheduler and the CPUs together, over their sockets.     *)
(***************************************************************************)
EXTENDS PCP, Cpu

vars == <<varsPCP, canales, cpu>>

Init == InitConexion /\ InitPCP /\ InitCpu

Next ==
  \/ NextPCP /\ UNCHANGED cpu
  \/ NextCpu /\ UNCHANGED varsPCP

Spec == Init /\ [][Next]_vars

\* Every thread of the kernel and every CPU keeps running: each blocks only in
\* sem_wait or recv. Nothing forces SIGUSR1.
Equidad ==
  /\ WF_vars(Admision /\ UNCHANGED cpu)
  /\ \A c \in CPUs : WF_vars(pfnControladorConexion(c) /\ UNCHANGED cpu)
  /\ \A c \in CPUs : WF_vars(EjecutarRafaga(c) /\ UNCHANGED varsPCP)
  /\ \A d \in Dispositivos : WF_vars(fnDispositivos(d) /\ UNCHANGED cpu)

SpecJusta == Spec /\ Equidad

-----------------------------------------------------------------------------
(* Properties *)

PasosWait == {"waitLeer", "waitEscribir", "waitProbar", "waitSacar",
              "waitEncolar", "waitBloquear"}
PasosSignal == {"signalLeer", "signalEscribir", "signalProbar", "signalSacar",
                "signalReady", "signalPost", "signalResponder"}
PasosIo == {"ioPcb", "ioEncolar", "ioSacar", "ioPost"}
PasosHilo ==
  PasosWait \cup PasosSignal \cup PasosIo
    \cup {"esperar", "sacar", "cargar", "enviar", "recibir", "consulta",
          "waitInexistente", "signalInexistente", "recargarSacar",
          "recargarReady", "recargarPost", "exitSacar", "exitAgregar",
          "terminado", "null"}

Pids == Programas \cup {Nadie}
Nombres == UNION {{Codigo[p][i].nombre : i \in DOMAIN Codigo[p]} : p \in Programas}
Mensajes == [op : DeCpu \cup DeKernel \cup {"ninguno", "desconexion"},
             nombre : Nombres \cup {SinNombre}, pid : Pids, pc : Nat]

\* The programs and CPUs for which the kernel keeps what follows: no CPU leaves, a
\* line fails at most once, and the last line of a program ends it (or blocks it
\* for ever, on a semaphore that is not configured).
Ultima(l) ==
  \/ l.op \in {"fin", "falla"}
  \/ l.op = "io" /\ l.nombre \notin Dispositivos
  \/ l.op \in {"wait", "signal"} /\ l.nombre \notin Semaforos
ProgramasEnRegla ==
  /\ QuienesSeVan = {}
  /\ \A p \in Programas :
       /\ Codigo[p] \in Seq([op : Operaciones, nombre : Nombres, fallas : Nat])
       /\ Codigo[p] # <<>> /\ Ultima(Codigo[p][Len(Codigo[p])])
       /\ \A i \in DOMAIN Codigo[p] : Codigo[p][i].op = "falla" => Codigo[p][i].fallas = 1

\* A program that waits on a semaphore that is not configured stays in EXEC for
\* ever, and what it advanced is forgotten with the next PCB its CPU gets.
SemaforosExisten ==
  \A p \in Programas : \A i \in DOMAIN Codigo[p] :
    Codigo[p][i].op = "wait" => Codigo[p][i].nombre \in Semaforos

\* Every variable of the kernel, the CPUs and the sockets holds what its C
\* declaration says; a pid in a list is one the PLP has admitted.
TypeOK ==
  /\ admitidos \in Pids /\ debePost \in BOOLEAN /\ vivo \in BOOLEAN
  /\ productorConsumidor \in Nat
  /\ listaReady \in Seq(0..admitidos)
  /\ listaExec \in Seq(1..admitidos)
  /\ exitProcesos \in Seq(1..admitidos)
  /\ pcb \in [Programas -> [pid : Programas, pc : Nat]]
  /\ iSemaforo \in [Semaforos -> Int]
  /\ progEncolados \in [Semaforos \cup Dispositivos -> Seq(1..admitidos)]
  /\ semaforoDisp \in [Dispositivos -> Nat]
  /\ dispositivo \in [Dispositivos -> [paso : {"esperar", "sacar", "usar", "post"},
                                       prog : Pids]]
  /\ hilo \in [CPUs -> [paso : PasosHilo, prog : Pids, msg : Mensajes,
                        leido : Int, otro : Pids]]
  /\ haciaCpu \in [CPUs -> Seq(Mensajes)]
  /\ haciaKernel \in [CPUs -> Seq(Mensajes)]
  /\ conectada \in [CPUs -> BOOLEAN]
  /\ cpu \in [CPUs -> [paso : {"recibirPcb", "ejecutar", "respuesta", "muerta"},
                       pid : Pids, pc : Nat, i : 0..Quantum, fallas : Nat,
                       estadoRafaga : DeCpu \cup {"waitPcbBloqueado"},
                       manejador : BOOLEAN]]

Veces(s, p) == Cardinality({i \in 1..Len(s) : s[i] = p})
Uno(b) == IF b THEN 1 ELSE 0
HilosEn(pasos) == {c \in CPUs : hilo[c].paso \in pasos}

\* The places of p in the queues.
Encolado(p) ==
  UNION {{r} \X {i \in DOMAIN progEncolados[r] : progEncolados[r][i] = p} :
           r \in DOMAIN progEncolados}

\* The threads that hold p between two lists, in "programa" or in "otro".
Llevan(p) ==
  {c \in HilosEn({"cargar", "waitEncolar"}) : hilo[c].prog = p}
    \cup {c \in HilosEn({"signalReady", "recargarReady", "exitAgregar"}) :
            hilo[c].otro = p}

\* mandarADispositivo queues a program before it takes it out of listaExec.
EntreDosListas(p) == {c \in HilosEn({"ioSacar"}) : hilo[c].prog = p}

\* Every admitted program is in exactly one of READY, EXEC, EXIT, the queue of
\* one semaphore or device, a device's hands or the hands of one thread on its
\* way between them: no interleaving of waits, signals, I/O, ends of quantum
\* and exits loses a program or lets two CPUs have it.
UnSoloLugar ==
  \A p \in 1..admitidos :
    Veces(listaReady, p) + Veces(listaExec, p) + Veces(exitProcesos, p)
      + Cardinality(Encolado(p))
      + Cardinality({d \in Dispositivos : dispositivo[d].prog = p})
      + Cardinality(Llevan(p))
    = 1 + Cardinality(EntreDosListas(p))

\* productorConsumidor counts READY: the posts made, owed or taken by a thread
\* that has not removed its program yet are as many as the programs in READY,
\* so no thread removes from an empty list and none sleeps beside a full one.
ReadyContado ==
  productorConsumidor + Uno(debePost) + Cardinality(HilosEn({"sacar"}))
    + Cardinality(HilosEn({"signalPost", "recargarPost"}))
    + Cardinality({d \in Dispositivos : dispositivo[d].paso = "post"})
  = Len(listaReady)

\* No thread of the kernel ever dereferences the NULL that an empty list or a
\* program missing from listaExec gives.
KernelVivo == vivo

\* What KernelVivo comes to with several CPUs: the only NULL that a thread can
\* dereference is one in READY, which fnUnlock puts there when another CPU has
\* emptied the queue after its test. No list is empty when a thread takes from
\* it on the word of a semaphore, and no program is missing from listaExec.
SoloNullDeReady ==
  [][vivo /\ ~vivo' => listaReady # <<>> /\ Head(listaReady) = Nadie]_vars

\* The comment of fnUnlock: a signal that finds a program to wake takes it out of
\* the queue and wakes it. So the queue it has tested is not empty when it takes
\* from it, and what it puts in READY is a program. With one CPU it is so; with
\* several, two signals may test the same queue before either has taken from it.
SenalesSinNull ==
  \A c \in CPUs :
    /\ hilo[c].paso = "signalSacar" => progEncolados[hilo[c].msg.nombre] # <<>>
    /\ hilo[c].paso = "signalReady" => hilo[c].otro # Nadie

\* When no thread is in the middle of a wait or a signal, a negative semaphore
\* has as many programs queued as its value says, and one that is not negative
\* has none: the comments of fnLock and fnUnlock, "S->value--; if(S->value < 0)
\* anadir este proceso a S->list" and its converse.
SemaforoCoherente ==
  HilosEn(PasosWait \cup PasosSignal) = {} =>
    \A s \in Semaforos :
      Len(progEncolados[s]) = IF iSemaforo[s] < 0 THEN -iSemaforo[s] ELSE 0

\* How many lines of p have been executed, as far as anyone knows.
Avance(p) ==
  LET pcs == {pcb[p].pc} \cup {cpu[c].pc : c \in {d \in CPUs : cpu[d].pid = p}}
  IN  CHOOSE n \in pcs : \A m \in pcs : m <= n

\* A CPU that is about to execute a line executes the one that follows the last
\* that any CPU executed of that program: the PCB it got was up to date, whatever
\* the program went through (quantum, wait, I/O) since it last ran, even while
\* the CPU that gave it up has not finished its burst.
SinRetroceso ==
  \A c \in CPUs : cpu[c].paso = "ejecutar" /\ puedeSeguirEjecutando(c) =>
    cpu[c].pc = Avance(cpu[c].pid)

\* The lines a program may end at: its last, one whose access the UMV rejects,
\* one that prints (the text may not be sent), or one that names a shared variable,
\* semaphore or device that is not configured.
PuedeTerminar(l) ==
  \/ l.op \in {"fin", "falla"}
  \/ l.op = "consulta" /\ l.nombre \notin VariablesCompartidas
  \/ l.op = "signal" /\ l.nombre \notin Semaforos
  \/ l.op = "io" /\ l.nombre \notin Dispositivos
Finales ==
  [p \in Programas |-> {n \in DOMAIN Codigo[p] : PuedeTerminar(Codigo[p][n])}]

\* Only the program that reached one of those lines is moved to EXIT.
TerminaElQueTermino ==
  \A c \in HilosEn({"exitAgregar"}) : Avance(hilo[c].otro) \in Finales[hilo[c].otro]

EnCola(s) == {s[i] : i \in 1..Len(s)}
Bloqueados == UNION {EnCola(progEncolados[s]) : s \in Semaforos}

\* Every program admitted gets to EXIT.
TodosTerminan ==
  \A p \in Programas : (p <= admitidos) ~> (p \in EnCola(exitProcesos))

\* Every program admitted gets to EXIT or to the queue of a semaphore: READY,
\* EXEC and the devices keep moving, although a race on a semaphore may have
\* lost the signal that a blocked program needs.
NadieSeEstanca ==
  \A p \in Programas :
    (p <= admitidos) ~> (p \in EnCola(exitProcesos) \cup Bloqueados)

-----------------------------------------------------------------------------
(* Refinement: threads, sockets and CPUs implement CortoPlazo. *)

Lugar(p) ==
  CASE p > admitidos -> "afuera"
    [] p \in EnCola(listaReady) -> "listo"
    [] p \in EnCola(exitProcesos) -> "fin"
    [] p \in UNION {EnCola(progEncolados[r]) : r \in DOMAIN progEncolados} ->
         "bloqueado"
    [] \E d \in Dispositivos : dispositivo[d].prog = p -> "bloqueado"
    [] \E c \in HilosEn({"signalReady"}) : hilo[c].otro = p -> "bloqueado"
    [] OTHER -> "ejecutando"

AvanceHastaElFin == [p \in Programas |-> IF Lugar(p) = "fin" THEN 0 ELSE Avance(p)]

Abstracto == INSTANCE CortoPlazo WITH
  lugar <- [p \in Programas |-> Lugar(p)],
  listos <- listaReady,
  avance <- AvanceHastaElFin

\* Every step of the kernel and the CPUs is a step of the abstract scheduler or
\* changes nothing it sees: READY is served in order, a program advances one
\* line at a time and only while it has a CPU, and it ends only at a line that
\* ends it.
ImplementaCortoPlazo == Abstracto!SpecCP

-----------------------------------------------------------------------------
(* Mutual exclusion. *)

\* After n lines p is between a wait of s and the signal that follows.
EnSeccion(p, s, n) ==
  \E w \in 1..n :
    /\ Codigo[p][w].op = "wait" /\ Codigo[p][w].nombre = s
    /\ \A k \in (w + 1)..n : ~(Codigo[p][k].op = "signal" /\ Codigo[p][k].nombre = s)

\* The semaphores used to exclude: they let one in at most, and no program signals
\* one that it has not waited for.
Exclusivos ==
  {s \in Semaforos :
     /\ ValorInicial[s] <= 1
     /\ \A p \in Programas : \A n \in DOMAIN Codigo[p] :
          Codigo[p][n].op = "signal" /\ Codigo[p][n].nombre = s => EnSeccion(p, s, n - 1)}

\* The CPU of thread c has asked for s, and is not known to have got it.
PideEntrar(c, s) ==
  \/ /\ hilo[c].paso \in PasosWait \ {"waitBloquear"}
     /\ hilo[c].msg.nombre = s
  \/ /\ hilo[c].paso = "recibir"
     /\ \E m \in EnCola(haciaKernel[c]) : m.op = "waitKernel" /\ m.nombre = s
EsperaA(p, s) ==
  \/ p \in EnCola(progEncolados[s])
  \/ \E c \in CPUs : hilo[c].prog = p /\ PideEntrar(c, s)

\* p has passed its wait of s, is not past the signal, and has not ended.
Adentro(p, s) == EnSeccion(p, s, AvanceHastaElFin[p]) /\ ~EsperaA(p, s)

\* Two programs are never at once between a wait and a signal of a semaphore of
\* initial value 1, wherever each is: executing, preempted, in a device or in the
\* queue of another semaphore. It is what ANSISOP semaphores are for ("Mutex para
\* que cada uno agarre un step diferente"), and nothing in fnLock or fnUnlock says
\* who is inside: it follows from the counter, the queue and the order of the steps.
ExclusionMutua ==
  \A s \in Exclusivos : \A p, q \in Programas : Adentro(p, s) /\ Adentro(q, s) => p = q

=============================================================================
