--------------------------------- MODULE PCP ---------------------------------
(***************************************************************************)
(* The kernel's short-term scheduler (PCP): one connection thread per CPU, *)
(* which takes a program from READY, sends its PCB and then serves the     *)
(* CPU's messages until the program ends, blocks or runs out of quantum;   *)
(* the ANSISOP semaphores; and one thread per I/O device. A step makes at  *)
(* most one access to what the threads share.                              *)
(*                                                                         *)
(* The PLP appears as the admission of programs, and EXIT as the list the  *)
(* PCP puts finished programs in.                                          *)
(***************************************************************************)
EXTENDS Conexion

CONSTANTS
  Semaforos,      \* names of the configured semaphores
  ValorInicial,   \* and their values
  Dispositivos,   \* names of the configured devices
  VariablesCompartidas   \* names of the configured shared variables

ASSUME ParametrosPCP ==
  /\ IsFiniteSet(Semaforos) /\ IsFiniteSet(Dispositivos)
  /\ ValorInicial \in [Semaforos -> Int]
  /\ Semaforos \cap Dispositivos = {}
  /\ SinNombre \notin VariablesCompartidas    \* the name of what prints

VARIABLES
  admitidos,            \* programs the PLP has put in READY so far
  debePost,             \* has it yet to post productorConsumidor for the last?
  listaReady,
  productorConsumidor,
  listaExec,
  exitProcesos,
  pcb,                  \* program -> its PCB in the kernel, [pid, pc]
  iSemaforo,            \* semaphore -> value
  progEncolados,        \* semaphore or device -> programs waiting for it
  semaforoDisp,         \* device -> posts its thread has not taken
  dispositivo,          \* device -> control of its thread
  hilo,                 \* CPU -> control of its connection thread
  vivo                  \* FALSE once a thread has dereferenced NULL

ready == <<listaReady, productorConsumidor>>
plp == <<admitidos, debePost>>
colas == <<iSemaforo, progEncolados, semaforoDisp>>
varsPCP == <<plp, ready, listaExec, exitProcesos, pcb, colas, dispositivo,
             hilo, vivo>>

\* A thread: where it is, its local "programa", the message it serves, a value
\* it has read, and a program it has taken out of a list.
Hilo(paso, prog) ==
  [paso |-> paso, prog |-> prog, msg |-> Respuesta("ninguno"), leido |-> 0,
   otro |-> Nadie]

InitPCP ==
  /\ admitidos = 0
  /\ debePost = FALSE
  /\ listaReady = <<>>
  /\ productorConsumidor = 0
  /\ listaExec = <<>>
  /\ exitProcesos = <<>>
  /\ pcb = [p \in Programas |-> [pid |-> p, pc |-> 0]]
  /\ iSemaforo = ValorInicial
  /\ progEncolados = [r \in Semaforos \cup Dispositivos |-> <<>>]
  /\ semaforoDisp = [d \in Dispositivos |-> 0]
  /\ dispositivo = [d \in Dispositivos |-> [paso |-> "esperar", prog |-> Nadie]]
  /\ hilo = [c \in CPUs |-> Hilo("esperar", Nadie)]
  /\ vivo = TRUE

\* Thread c goes on at another step; with its locals kept, or done with them.
Seguir(c, paso) == hilo' = [hilo EXCEPT ![c].paso = paso]
Volver(c, paso) == hilo' = [hilo EXCEPT ![c] = Hilo(paso, @.prog)]

Encolar(r, p) == progEncolados' = [progEncolados EXCEPT ![r] = Append(@, p)]

\* list_remove_by_condition on listaExec: the positions of the first program
\* whose PCB has this pid (none or one).
EnExec(pid) ==
  {i \in 1..Len(listaExec) :
     /\ pcb[listaExec[i]].pid = pid
     /\ \A j \in 1..(i - 1) : pcb[listaExec[j]].pid # pid}
Sin(s, i) == SubSeq(s, 1, i - 1) \o SubSeq(s, i + 1, Len(s))
PcbDe(m) == [pid |-> m.pid, pc |-> m.pc]

NullEn(c) == vivo' = FALSE /\ Seguir(c, "null")

-----------------------------------------------------------------------------
(* ponerEnReadyProgramas, of the PLP: programs come in the order of pids. *)

PonerEnReady ==
  /\ ~debePost
  /\ admitidos + 1 \in Programas
  /\ admitidos' = admitidos + 1
  /\ debePost' = TRUE
  /\ listaReady' = Append(listaReady, admitidos + 1)
  /\ UNCHANGED <<productorConsumidor, listaExec, exitProcesos, pcb, colas,
                 dispositivo, hilo, vivo>>

\* Mutated: nobody is told of the program.
CallarProductor ==
  /\ debePost
  /\ debePost' = FALSE
  /\ UNCHANGED <<admitidos, ready, listaExec, exitProcesos, pcb, colas,
                 dispositivo, hilo, vivo>>

PostProductor ==
  /\ debePost
  /\ debePost' = FALSE
  /\ productorConsumidor' = productorConsumidor + 1
  /\ UNCHANGED <<admitidos, listaReady, listaExec, exitProcesos, pcb, colas,
                 dispositivo, hilo, vivo>>

-----------------------------------------------------------------------------
(* Dispatch: the five lines pfnControladorConexion repeats in every case. *)

\* Mutated: does not wait.
NoEsperarReady(c) ==
  /\ hilo[c].paso = "esperar"
  /\ productorConsumidor' = productorConsumidor - 1
  /\ Seguir(c, "sacar")
  /\ UNCHANGED <<plp, listaReady, listaExec, exitProcesos, pcb, colas,
                 dispositivo, vivo>>

\* Mutated: waits, but does not take the post.
MirarReady(c) ==
  /\ hilo[c].paso = "esperar"
  /\ productorConsumidor > 0
  /\ Seguir(c, "sacar")
  /\ UNCHANGED <<plp, ready, listaExec, exitProcesos, pcb, colas, dispositivo,
                 vivo>>

EsperarReady(c) ==
  /\ hilo[c].paso = "esperar"
  /\ productorConsumidor > 0
  /\ productorConsumidor' = productorConsumidor - 1
  /\ Seguir(c, "sacar")
  /\ UNCHANGED <<plp, listaReady, listaExec, exitProcesos, pcb, colas,
                 dispositivo, vivo>>

\* An empty list gives NULL, as does a NULL a signal has put in it.
SacarReady(c) ==
  /\ hilo[c].paso = "sacar"
  /\ \/ listaReady = <<>> /\ NullEn(c) /\ UNCHANGED listaReady
     \/ /\ listaReady # <<>> /\ Head(listaReady) = Nadie
        /\ NullEn(c)
        /\ listaReady' = Tail(listaReady)
     \/ /\ listaReady # <<>> /\ Head(listaReady) # Nadie
        /\ hilo' = [hilo EXCEPT ![c] = Hilo("cargar", Head(listaReady))]
        /\ listaReady' = Tail(listaReady)
        /\ UNCHANGED vivo
  /\ UNCHANGED <<plp, productorConsumidor, listaExec, exitProcesos, pcb, colas,
                 dispositivo>>

CargarExec(c) ==
  /\ hilo[c].paso = "cargar"
  /\ listaExec' = Append(listaExec, hilo[c].prog)
  /\ Seguir(c, "enviar")
  /\ UNCHANGED <<plp, ready, exitProcesos, pcb, colas, dispositivo, vivo>>

\* On a socket its CPU has closed, what is sent is lost.
Responder(c, m) ==
  IF conectada[c] THEN EnviarACpu(c, m) ELSE UNCHANGED haciaCpu

EnviarPcb(c) ==
  /\ hilo[c].paso = "enviar"
  /\ LET b == pcb[hilo[c].prog]
     IN  Responder(c, Mensaje("atendeProceso", SinNombre, b.pid, b.pc))
  /\ Seguir(c, "recibir")
  /\ UNCHANGED <<plp, ready, listaExec, exitProcesos, pcb, colas, dispositivo,
                 vivo>>

-----------------------------------------------------------------------------
(* The switch on the message. *)

PasoPara(m) ==
  CASE m.op = "consulta" -> "consulta"
    [] m.op = "obtenerValorVarCompartida" -> "obtener"
    [] m.op = "asignarValorVarCompartida" -> "asignar"
    [] m.op = "waitKernel" ->
         IF m.nombre \in Semaforos THEN "waitLeer" ELSE "waitInexistente"
    [] m.op = "signalKernel" ->
         IF m.nombre \in Semaforos THEN "signalLeer" ELSE "signalInexistente"
    [] m.op = "entradaSalidaKernel" -> "ioPcb"
    [] m.op = "notificarPorFinRafaga" -> "recargarSacar"
    [] m.op \in {"notificarPorFinPrograma", "exception"} -> "exitSacar"

RecibirMensaje(c) ==
  /\ hilo[c].paso = "recibir"
  /\ haciaKernel[c] # <<>>
  /\ haciaKernel' \in {[haciaKernel EXCEPT ![c] = r] : r \in Restos(haciaKernel[c])}
  /\ hilo' = [hilo EXCEPT ![c].msg = Head(haciaKernel[c]),
                          ![c].paso = PasoPara(Head(haciaKernel[c]))]
  /\ UNCHANGED <<plp, ready, listaExec, exitProcesos, pcb, colas, dispositivo,
                 vivo>>

\* recv returns 0 when the CPU has closed and everything it sent was read.
RecibirFin(c) ==
  /\ hilo[c].paso = "recibir"
  /\ haciaKernel[c] = <<>>
  /\ ~conectada[c]
  /\ hilo' = [hilo EXCEPT ![c].msg = Respuesta("desconexion"),
                          ![c].paso = "exitSacar"]
  /\ UNCHANGED <<haciaKernel, plp, ready, listaExec, exitProcesos, pcb, colas,
                 dispositivo, vivo>>

\* Shared variables and printing: the answer says whether the name exists, and
\* nothing of what the threads share here changes. The clients are there: a print
\* whose send fails is not modelled (the kernel would free the literal "exit").
RespuestasConsulta(nombre) ==
  {"continuar"} \cup IF nombre \in VariablesCompartidas THEN {} ELSE {"terminar"}

Consulta(c) ==
  /\ hilo[c].paso = "consulta"
  /\ \E op \in RespuestasConsulta(hilo[c].msg.nombre) : Responder(c, Respuesta(op))
  /\ Volver(c, "recibir")
  /\ UNCHANGED <<plp, ready, listaExec, exitProcesos, pcb, colas, dispositivo,
                 vivo>>

(* waitKernel: fnLock, whose decrement and test are not under a mutex. *)

\* The answer ends the burst; the program stays where it is, in listaExec.
WaitInexistente(c) ==
  /\ hilo[c].paso = "waitInexistente"
  /\ Responder(c, Respuesta("terminar"))
  /\ Volver(c, "esperar")
  /\ UNCHANGED <<plp, ready, listaExec, exitProcesos, pcb, colas, dispositivo,
                 vivo>>

WaitLeer(c) ==
  /\ hilo[c].paso = "waitLeer"
  /\ hilo' = [hilo EXCEPT ![c].leido = iSemaforo[hilo[c].msg.nombre],
                          ![c].paso = "waitEscribir"]
  /\ UNCHANGED <<plp, ready, listaExec, exitProcesos, pcb, colas, dispositivo,
                 vivo>>

WaitEscribir(c) ==
  /\ hilo[c].paso = "waitEscribir"
  /\ iSemaforo' = [iSemaforo EXCEPT ![hilo[c].msg.nombre] = hilo[c].leido - 1]
  /\ Seguir(c, "waitProbar")
  /\ UNCHANGED <<plp, ready, listaExec, exitProcesos, pcb, progEncolados,
                 semaforoDisp, dispositivo, vivo>>

\* Mutated: lets one more in.
WaitProbarTarde(c) ==
  /\ hilo[c].paso = "waitProbar"
  /\ \/ /\ iSemaforo[hilo[c].msg.nombre] < -1 /\ listaExec # <<>>
        /\ Seguir(c, "waitSacar")
        /\ UNCHANGED haciaCpu
     \/ /\ ~(iSemaforo[hilo[c].msg.nombre] < -1 /\ listaExec # <<>>)
        /\ Responder(c, Respuesta("continuar"))
        /\ Volver(c, "recibir")
  /\ UNCHANGED <<plp, ready, listaExec, exitProcesos, pcb, colas, dispositivo,
                 vivo>>

\* Mutated: blocks at zero.
WaitProbarCero(c) ==
  /\ hilo[c].paso = "waitProbar"
  /\ \/ /\ iSemaforo[hilo[c].msg.nombre] <= 0 /\ listaExec # <<>>
        /\ Seguir(c, "waitSacar")
        /\ UNCHANGED haciaCpu
     \/ /\ ~(iSemaforo[hilo[c].msg.nombre] <= 0 /\ listaExec # <<>>)
        /\ Responder(c, Respuesta("continuar"))
        /\ Volver(c, "recibir")
  /\ UNCHANGED <<plp, ready, listaExec, exitProcesos, pcb, colas, dispositivo,
                 vivo>>

WaitProbar(c) ==
  /\ hilo[c].paso = "waitProbar"
  /\ \/ /\ iSemaforo[hilo[c].msg.nombre] < 0 /\ listaExec # <<>>
        /\ Seguir(c, "waitSacar")
        /\ UNCHANGED haciaCpu
     \/ /\ ~(iSemaforo[hilo[c].msg.nombre] < 0 /\ listaExec # <<>>)
        /\ Responder(c, Respuesta("continuar"))
        /\ Volver(c, "recibir")
  /\ UNCHANGED <<plp, ready, listaExec, exitProcesos, pcb, colas, dispositivo,
                 vivo>>

\* What list_remove_by_condition returns is not looked at.
SacarSiEsta(pid) ==
  \/ EnExec(pid) = {} /\ UNCHANGED listaExec
  \/ \E i \in EnExec(pid) : listaExec' = Sin(listaExec, i)

\* Mutated: the blocked program stays in EXEC.
WaitNoSacar(c) ==
  /\ hilo[c].paso = "waitSacar"
  /\ Seguir(c, "waitEncolar")
  /\ UNCHANGED <<plp, ready, listaExec, exitProcesos, pcb, colas, dispositivo,
                 vivo>>

WaitSacar(c) ==
  /\ hilo[c].paso = "waitSacar"
  /\ SacarSiEsta(pcb[hilo[c].prog].pid)
  /\ Seguir(c, "waitEncolar")
  /\ UNCHANGED <<plp, ready, exitProcesos, pcb, colas, dispositivo, vivo>>

WaitEncolar(c) ==
  /\ hilo[c].paso = "waitEncolar"
  /\ pcb' = [pcb EXCEPT ![hilo[c].prog] = PcbDe(hilo[c].msg)]
  /\ Encolar(hilo[c].msg.nombre, hilo[c].prog)
  /\ Seguir(c, "waitBloquear")
  /\ UNCHANGED <<plp, ready, listaExec, exitProcesos, iSemaforo, semaforoDisp,
                 dispositivo, vivo>>

WaitBloquear(c) ==
  /\ hilo[c].paso = "waitBloquear"
  /\ Responder(c, Respuesta("bloquear"))
  /\ Volver(c, "esperar")
  /\ UNCHANGED <<plp, ready, listaExec, exitProcesos, pcb, colas, dispositivo,
                 vivo>>

(* signalKernel: fnUnlock. *)

SignalInexistente(c) ==
  /\ hilo[c].paso = "signalInexistente"
  /\ Responder(c, Respuesta("terminar"))
  /\ Volver(c, "recibir")
  /\ UNCHANGED <<plp, ready, listaExec, exitProcesos, pcb, colas, dispositivo,
                 vivo>>

SignalLeer(c) ==
  /\ hilo[c].paso = "signalLeer"
  /\ hilo' = [hilo EXCEPT ![c].leido = iSemaforo[hilo[c].msg.nombre],
                          ![c].paso = "signalEscribir"]
  /\ UNCHANGED <<plp, ready, listaExec, exitProcesos, pcb, colas, dispositivo,
                 vivo>>

SignalEscribir(c) ==
  /\ hilo[c].paso = "signalEscribir"
  /\ iSemaforo' = [iSemaforo EXCEPT ![hilo[c].msg.nombre] = hilo[c].leido + 1]
  /\ Seguir(c, "signalProbar")
  /\ UNCHANGED <<plp, ready, listaExec, exitProcesos, pcb, progEncolados,
                 semaforoDisp, dispositivo, vivo>>

\* Mutated: wakes nobody when the value gets to zero.
SignalProbarMenor(c) ==
  LET s == hilo[c].msg.nombre
  IN  /\ hilo[c].paso = "signalProbar"
      /\ Seguir(c, IF iSemaforo[s] < 0 /\ progEncolados[s] # <<>>
                   THEN "signalSacar" ELSE "signalResponder")
      /\ UNCHANGED <<plp, ready, listaExec, exitProcesos, pcb, colas,
                     dispositivo, vivo>>

\* Mutated: the queue is not looked at.
SignalProbarSinMirar(c) ==
  LET s == hilo[c].msg.nombre
  IN  /\ hilo[c].paso = "signalProbar"
      /\ Seguir(c, IF iSemaforo[s] <= 0 THEN "signalSacar" ELSE "signalResponder")
      /\ UNCHANGED <<plp, ready, listaExec, exitProcesos, pcb, colas,
                     dispositivo, vivo>>

SignalProbar(c) ==
  LET s == hilo[c].msg.nombre
  IN  /\ hilo[c].paso = "signalProbar"
      /\ Seguir(c, IF iSemaforo[s] <= 0 /\ progEncolados[s] # <<>>
                   THEN "signalSacar" ELSE "signalResponder")
      /\ UNCHANGED <<plp, ready, listaExec, exitProcesos, pcb, colas,
                     dispositivo, vivo>>

\* Under the mutex, but the list was tested before it: it may be empty by now.
SignalSacar(c) ==
  LET s == hilo[c].msg.nombre
  IN  /\ hilo[c].paso = "signalSacar"
      /\ \/ /\ progEncolados[s] = <<>>
            /\ hilo' = [hilo EXCEPT ![c].otro = Nadie, ![c].paso = "signalReady"]
            /\ UNCHANGED progEncolados
         \/ /\ progEncolados[s] # <<>>
            /\ hilo' = [hilo EXCEPT ![c].otro = Head(progEncolados[s]),
                                    ![c].paso = "signalReady"]
            /\ progEncolados' = [progEncolados EXCEPT ![s] = Tail(@)]
      /\ UNCHANGED <<plp, ready, listaExec, exitProcesos, pcb, iSemaforo,
                     semaforoDisp, dispositivo, vivo>>

\* Mutated: the woken program is not posted.
SignalReadySinPost(c) ==
  /\ hilo[c].paso = "signalReady"
  /\ listaReady' = Append(listaReady, hilo[c].otro)
  /\ hilo' = [hilo EXCEPT ![c].otro = Nadie, ![c].paso = "signalResponder"]
  /\ UNCHANGED <<plp, productorConsumidor, listaExec, exitProcesos, pcb, colas,
                 dispositivo, vivo>>

SignalReady(c) ==
  /\ hilo[c].paso = "signalReady"
  /\ listaReady' = Append(listaReady, hilo[c].otro)
  /\ hilo' = [hilo EXCEPT ![c].otro = Nadie, ![c].paso = "signalPost"]
  /\ UNCHANGED <<plp, productorConsumidor, listaExec, exitProcesos, pcb, colas,
                 dispositivo, vivo>>

SignalPost(c) ==
  /\ hilo[c].paso = "signalPost"
  /\ productorConsumidor' = productorConsumidor + 1
  /\ Seguir(c, "signalResponder")
  /\ UNCHANGED <<plp, listaReady, listaExec, exitProcesos, pcb, colas,
                 dispositivo, vivo>>

SignalResponder(c) ==
  /\ hilo[c].paso = "signalResponder"
  /\ Responder(c, Respuesta("continuar"))
  /\ Volver(c, "recibir")
  /\ UNCHANGED <<plp, ready, listaExec, exitProcesos, pcb, colas, dispositivo,
                 vivo>>

(* entradaSalidaKernel: mandarADispositivo, which queues the program before *)
(* it takes it out of listaExec, and posts the device last.                 *)

IoPcb(c) ==
  /\ hilo[c].paso = "ioPcb"
  /\ pcb' = [pcb EXCEPT ![hilo[c].prog] = PcbDe(hilo[c].msg)]
  /\ Seguir(c, IF hilo[c].msg.nombre \in Dispositivos THEN "ioEncolar"
               ELSE "exitSacar")
  /\ UNCHANGED <<plp, ready, listaExec, exitProcesos, colas, dispositivo, vivo>>

IoEncolar(c) ==
  /\ hilo[c].paso = "ioEncolar"
  /\ Encolar(hilo[c].msg.nombre, hilo[c].prog)
  /\ Seguir(c, "ioSacar")
  /\ UNCHANGED <<plp, ready, listaExec, exitProcesos, pcb, iSemaforo,
                 semaforoDisp, dispositivo, vivo>>

IoSacar(c) ==
  /\ hilo[c].paso = "ioSacar"
  /\ SacarSiEsta(pcb[hilo[c].prog].pid)
  /\ Seguir(c, "ioPost")
  /\ UNCHANGED <<plp, ready, exitProcesos, pcb, colas, dispositivo, vivo>>

IoPost(c) ==
  /\ hilo[c].paso = "ioPost"
  /\ semaforoDisp' = [semaforoDisp EXCEPT ![hilo[c].msg.nombre] = @ + 1]
  /\ Volver(c, "esperar")
  /\ UNCHANGED <<plp, ready, listaExec, exitProcesos, pcb, iSemaforo,
                 progEncolados, dispositivo, vivo>>

(* notificarPorFinRafaga: recargarReady, by the pid of the message. *)

\* Mutated: the PCB of the message is not kept.
RecargarPcbViejo(c) ==
  LET m == hilo[c].msg
  IN  /\ hilo[c].paso = "recargarSacar"
      /\ \/ EnExec(m.pid) = {} /\ NullEn(c) /\ UNCHANGED listaExec
         \/ \E i \in EnExec(m.pid) :
              /\ hilo' = [hilo EXCEPT ![c].otro = listaExec[i],
                                      ![c].paso = "recargarReady"]
              /\ listaExec' = Sin(listaExec, i)
              /\ UNCHANGED vivo
      /\ UNCHANGED <<plp, ready, exitProcesos, pcb, colas, dispositivo>>

RecargarSacar(c) ==
  LET m == hilo[c].msg
  IN  /\ hilo[c].paso = "recargarSacar"
      /\ \/ EnExec(m.pid) = {} /\ NullEn(c) /\ UNCHANGED <<listaExec, pcb>>
         \/ \E i \in EnExec(m.pid) :
              /\ hilo' = [hilo EXCEPT ![c].otro = listaExec[i],
                                      ![c].paso = "recargarReady"]
              /\ listaExec' = Sin(listaExec, i)
              /\ pcb' = [pcb EXCEPT ![listaExec[i]] = PcbDe(m)]
              /\ UNCHANGED vivo
      /\ UNCHANGED <<plp, ready, exitProcesos, colas, dispositivo>>

\* Mutated: goes to the front of READY.
RecargarPrimero(c) ==
  /\ hilo[c].paso = "recargarReady"
  /\ listaReady' = <<hilo[c].otro>> \o listaReady
  /\ Seguir(c, "recargarPost")
  /\ UNCHANGED <<plp, productorConsumidor, listaExec, exitProcesos, pcb, colas,
                 dispositivo, vivo>>

RecargarReady(c) ==
  /\ hilo[c].paso = "recargarReady"
  /\ listaReady' = Append(listaReady, hilo[c].otro)
  /\ Seguir(c, "recargarPost")
  /\ UNCHANGED <<plp, productorConsumidor, listaExec, exitProcesos, pcb, colas,
                 dispositivo, vivo>>

RecargarPost(c) ==
  /\ hilo[c].paso = "recargarPost"
  /\ productorConsumidor' = productorConsumidor + 1
  /\ Volver(c, "esperar")
  /\ UNCHANGED <<plp, listaReady, listaExec, exitProcesos, pcb, colas,
                 dispositivo, vivo>>

(* moverAExit, for a program that ended, failed, asked for an unknown device *)
(* or lost its CPU. Its posts to the PLP are in the module PLP.              *)

ExitSacar(c) ==
  /\ hilo[c].paso = "exitSacar"
  /\ LET i == EnExec(pcb[hilo[c].prog].pid)
     IN  \/ i = {} /\ NullEn(c) /\ UNCHANGED listaExec
         \/ \E k \in i :
              /\ hilo' = [hilo EXCEPT ![c].otro = listaExec[k],
                                      ![c].paso = "exitAgregar"]
              /\ listaExec' = Sin(listaExec, k)
              /\ UNCHANGED vivo
  /\ UNCHANGED <<plp, ready, exitProcesos, pcb, colas, dispositivo>>

ExitAgregar(c) ==
  /\ hilo[c].paso = "exitAgregar"
  /\ exitProcesos' = Append(exitProcesos, hilo[c].otro)
  /\ Volver(c, IF hilo[c].msg.op = "desconexion" THEN "terminado" ELSE "esperar")
  /\ UNCHANGED <<plp, ready, listaExec, pcb, colas, dispositivo, vivo>>

-----------------------------------------------------------------------------
(* fnDispositivos *)

DispEsperar(d) ==
  /\ dispositivo[d].paso = "esperar"
  /\ semaforoDisp[d] > 0
  /\ semaforoDisp' = [semaforoDisp EXCEPT ![d] = @ - 1]
  /\ dispositivo' = [dispositivo EXCEPT ![d].paso = "sacar"]
  /\ UNCHANGED <<plp, ready, listaExec, exitProcesos, pcb, iSemaforo,
                 progEncolados, hilo, vivo>>

DispSacar(d) ==
  /\ dispositivo[d].paso = "sacar"
  /\ \/ /\ progEncolados[d] = <<>>
        /\ vivo' = FALSE
        /\ UNCHANGED <<dispositivo, progEncolados>>
     \/ /\ progEncolados[d] # <<>>
        /\ dispositivo' = [dispositivo EXCEPT
             ![d] = [paso |-> "usar", prog |-> Head(progEncolados[d])]]
        /\ progEncolados' = [progEncolados EXCEPT ![d] = Tail(@)]
        /\ UNCHANGED vivo
  /\ UNCHANGED <<plp, ready, listaExec, exitProcesos, pcb, iSemaforo,
                 semaforoDisp, hilo>>

DispReady(d) ==
  /\ dispositivo[d].paso = "usar"
  /\ listaReady' = Append(listaReady, dispositivo[d].prog)
  /\ dispositivo' = [dispositivo EXCEPT ![d] = [paso |-> "post", prog |-> Nadie]]
  /\ UNCHANGED <<plp, productorConsumidor, listaExec, exitProcesos, pcb, colas,
                 hilo, vivo>>

DispPost(d) ==
  /\ dispositivo[d].paso = "post"
  /\ productorConsumidor' = productorConsumidor + 1
  /\ dispositivo' = [dispositivo EXCEPT ![d].paso = "esperar"]
  /\ UNCHANGED <<plp, listaReady, listaExec, exitProcesos, pcb, colas, hilo,
                 vivo>>

-----------------------------------------------------------------------------
\* Steps of a connection thread by what they do with the socket.
Recibir(c) ==
  /\ RecibirMensaje(c) \/ RecibirFin(c)
  /\ UNCHANGED <<haciaCpu, conectada>>

Enviar(c) ==
  /\ \/ EnviarPcb(c) \/ Consulta(c) \/ WaitInexistente(c) \/ WaitProbar(c)
     \/ WaitBloquear(c) \/ SignalInexistente(c) \/ SignalResponder(c)
  /\ UNCHANGED <<haciaKernel, conectada>>

Interno(c) ==
  /\ \/ EsperarReady(c) \/ SacarReady(c) \/ CargarExec(c)
     \/ WaitLeer(c) \/ WaitEscribir(c) \/ WaitSacar(c) \/ WaitEncolar(c)
     \/ SignalLeer(c) \/ SignalEscribir(c) \/ SignalProbar(c) \/ SignalSacar(c)
     \/ SignalReady(c) \/ SignalPost(c)
     \/ IoPcb(c) \/ IoEncolar(c) \/ IoSacar(c) \/ IoPost(c)
     \/ RecargarSacar(c) \/ RecargarReady(c) \/ RecargarPost(c)
     \/ ExitSacar(c) \/ ExitAgregar(c)
  /\ UNCHANGED canales

pfnControladorConexion(c) == vivo /\ (Recibir(c) \/ Enviar(c) \/ Interno(c))

fnDispositivos(d) ==
  /\ vivo
  /\ DispEsperar(d) \/ DispSacar(d) \/ DispReady(d) \/ DispPost(d)
  /\ UNCHANGED canales

Admision == vivo /\ (PonerEnReady \/ PostProductor) /\ UNCHANGED canales

NextPCP ==
  \/ Admision
  \/ \E c \in CPUs : pfnControladorConexion(c)
  \/ \E d \in Dispositivos : fnDispositivos(d)

=============================================================================
