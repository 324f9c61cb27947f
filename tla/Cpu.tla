--------------------------------- MODULE Cpu ---------------------------------
(***************************************************************************)
(* The CPU process: it receives a PCB, executes up to Quantum lines of the *)
(* program and gives the PCB back. The parser's work on a line is reduced  *)
(* to the system call it makes; stack and UMV are not modelled here, but   *)
(* for a line on which the UMV answers with an error.                      *)
(***************************************************************************)
EXTENDS Conexion

CONSTANTS
  Codigo,       \* pid -> the program's lines, as the system call each makes
  Quantum,
  QuienesSeVan  \* CPUs that may receive SIGUSR1

\* A line: its system call, the resource it names, and how many accesses of the
\* line the UMV rejects.
Linea(op, nombre) == [op |-> op, nombre |-> nombre, fallas |-> 0]
LineaConFallas(n) == [op |-> "falla", nombre |-> SinNombre, fallas |-> n]
Operaciones == {"calculo", "consulta", "leer", "escribir", "wait", "signal", "io",
                "falla", "fin"}

ASSUME ParametrosCpu ==
  /\ \A p \in Programas : \A i \in DOMAIN Codigo[p] : Codigo[p][i].op \in Operaciones
  /\ Quantum \in Nat \ {0}
  /\ QuienesSeVan \subseteq CPUs

VARIABLE cpu   \* CPU -> [paso, pid, pc, i, estadoRafaga, fallas, manejador]

InitCpu ==
  cpu = [c \in CPUs |->
           [paso |-> "recibirPcb", pid |-> Nadie, pc |-> 0, i |-> 0,
            estadoRafaga |-> "notificarPorFinRafaga", fallas |-> 0,
            manejador |-> FALSE]]

\* The line that is executed next, and the one being executed.
ProximaLinea(c) == Codigo[cpu[c].pid][cpu[c].pc + 1]
LineaActual(c) == Codigo[cpu[c].pid][cpu[c].pc]

\* recibirPcb, and the reset of estadoRafaga at the start of ejecutarRafaga. A
\* message that is no PCB makes it copy from a wild pointer: the process dies.
RecibirPcb(c) ==
  /\ cpu[c].paso = "recibirPcb"
  /\ haciaCpu[c] # <<>>
  /\ haciaCpu' \in {[haciaCpu EXCEPT ![c] = r] : r \in Restos(haciaCpu[c])}
  /\ LET m == Head(haciaCpu[c])
     IN  \/ /\ m.op = "atendeProceso"
            /\ cpu' = [cpu EXCEPT ![c] =
                 [paso |-> "ejecutar", pid |-> m.pid, pc |-> m.pc, i |-> 0,
                  estadoRafaga |-> "notificarPorFinRafaga", fallas |-> 0,
                  manejador |-> @.manejador]]
            /\ UNCHANGED conectada
         \/ /\ m.op # "atendeProceso"
            /\ cpu' = [cpu EXCEPT ![c].paso = "muerta"]
            /\ conectada' = [conectada EXCEPT ![c] = FALSE]
  /\ UNCHANGED haciaKernel

puedeSeguirEjecutando(c) ==
  /\ cpu[c].i < Quantum
  /\ cpu[c].estadoRafaga = "notificarPorFinRafaga"

\* One line without an answer to wait for. The program counter moves before the
\* line is executed, so the PCB an I/O call sends is past it.
EjecutarLinea(c) ==
  /\ cpu[c].paso = "ejecutar"
  /\ puedeSeguirEjecutando(c)
  /\ LET l == ProximaLinea(c)
         siguiente == [cpu[c] EXCEPT !.pc = @ + 1, !.i = @ + 1]
         pcb == <<siguiente.pid, siguiente.pc>>
     IN  \/ /\ l.op = "calculo"
            /\ cpu' = [cpu EXCEPT ![c] = siguiente]
            /\ UNCHANGED haciaKernel
         \/ /\ l.op = "fin"
            /\ cpu' = [cpu EXCEPT ![c] =
                 [siguiente EXCEPT !.estadoRafaga = "notificarPorFinPrograma"]]
            /\ UNCHANGED haciaKernel
         \/ /\ l.op = "io"
            /\ cpu' = [cpu EXCEPT ![c] =
                 [siguiente EXCEPT !.estadoRafaga = "entradaSalidaKernel"]]
            /\ EnviarAKernel(c, Mensaje("entradaSalidaKernel", l.nombre, pcb[1], pcb[2]))
  /\ UNCHANGED <<haciaCpu, conectada>>

\* Mutated: the PCB sent with a wait is not past the line.
PedirConPcViejo(c) ==
  /\ cpu[c].paso = "ejecutar"
  /\ puedeSeguirEjecutando(c)
  /\ LET l == ProximaLinea(c)
         pc == cpu[c].pc
     IN  /\ \/ /\ l.op = "consulta"
               /\ EnviarAKernel(c, Mensaje("consulta", l.nombre, Nadie, 0))
            \/ /\ l.op = "wait"
               /\ EnviarAKernel(c, Mensaje("waitKernel", l.nombre, cpu[c].pid, pc))
            \/ /\ l.op = "signal"
               /\ EnviarAKernel(c, Mensaje("signalKernel", l.nombre, Nadie, 0))
         /\ cpu' = [cpu EXCEPT ![c].paso = "respuesta", ![c].pc = pc + 1]
  /\ UNCHANGED <<haciaCpu, conectada>>

\* enviaYRecibeAOtroProceso: a line that waits for the kernel's answer. Only a
\* wait carries the PCB.
Pedir(c) ==
  /\ cpu[c].paso = "ejecutar"
  /\ puedeSeguirEjecutando(c)
  /\ LET l == ProximaLinea(c)
         pc == cpu[c].pc + 1
     IN  /\ \/ /\ l.op = "consulta"
               /\ EnviarAKernel(c, Mensaje("consulta", l.nombre, Nadie, 0))
            \/ /\ l.op = "wait"
               /\ EnviarAKernel(c, Mensaje("waitKernel", l.nombre, cpu[c].pid, pc))
            \/ /\ l.op = "signal"
               /\ EnviarAKernel(c, Mensaje("signalKernel", l.nombre, Nadie, 0))
         /\ cpu' = [cpu EXCEPT ![c].paso = "respuesta", ![c].pc = pc]
  /\ UNCHANGED <<haciaCpu, conectada>>

\* Each call has its own test of the answer.
EstadoTras(op, respuesta) ==
  CASE op = "consulta" /\ respuesta # "continuar" -> "notificarPorFinPrograma"
    [] op = "wait" /\ respuesta # "continuar" -> "waitPcbBloqueado"
    [] op = "signal" /\ respuesta = "terminar" -> "notificarPorFinPrograma"
    [] OTHER -> "notificarPorFinRafaga"

RecibirRespuesta(c) ==
  /\ cpu[c].paso = "respuesta"
  /\ haciaCpu[c] # <<>>
  /\ haciaCpu' \in {[haciaCpu EXCEPT ![c] = r] : r \in Restos(haciaCpu[c])}
  /\ cpu' = [cpu EXCEPT ![c].paso = "ejecutar", ![c].i = @ + 1,
                        ![c].estadoRafaga =
                          EstadoTras(LineaActual(c).op, Head(haciaCpu[c]).op)]
  /\ UNCHANGED <<haciaKernel, conectada>>

\* excepcionSolicitud: the line goes on after a rejected access, so a line may
\* notify several.
Fallar(c) ==
  /\ cpu[c].paso = "ejecutar"
  /\ \/ /\ puedeSeguirEjecutando(c)
        /\ ProximaLinea(c).op = "falla"
        /\ cpu' = [cpu EXCEPT ![c] =
             [cpu[c] EXCEPT !.pc = @ + 1, !.i = @ + 1, !.estadoRafaga = "exception",
                            !.fallas = ProximaLinea(c).fallas - 1]]
     \/ /\ cpu[c].fallas > 0
        /\ cpu' = [cpu EXCEPT ![c].fallas = @ - 1]
  /\ EnviarAKernel(c, Mensaje("exception", SinNombre, Nadie, 0))
  /\ UNCHANGED <<haciaCpu, conectada>>

\* The end of ejecutarRafaga, which installs the handler of SIGUSR1, and the
\* PCB sent back unless the kernel already has it.
TerminarRafaga(c) ==
  /\ cpu[c].paso = "ejecutar"
  /\ ~puedeSeguirEjecutando(c)
  /\ cpu[c].fallas = 0
  /\ LET estado == cpu[c].estadoRafaga
     IN  \/ /\ estado \in {"entradaSalidaKernel", "waitPcbBloqueado", "exception"}
            /\ UNCHANGED haciaKernel
         \/ /\ estado \in {"notificarPorFinRafaga", "notificarPorFinPrograma"}
            /\ EnviarAKernel(c, Mensaje(estado, SinNombre, cpu[c].pid, cpu[c].pc))
  /\ cpu' = [cpu EXCEPT ![c].paso = "recibirPcb", ![c].manejador = TRUE]
  /\ UNCHANGED <<haciaCpu, conectada>>

\* SIGUSR1, at any instant. Before the first burst ended its handler is not
\* installed and the signal just kills the process.
signal_handler(c) ==
  /\ c \in QuienesSeVan
  /\ conectada[c]
  /\ \/ /\ cpu[c].manejador
        /\ EnviarAKernel(c, Mensaje("notificarPorFinRafaga", SinNombre,
                                    cpu[c].pid, cpu[c].pc))
     \/ ~cpu[c].manejador /\ UNCHANGED haciaKernel
  /\ conectada' = [conectada EXCEPT ![c] = FALSE]
  /\ cpu' = [cpu EXCEPT ![c].paso = "muerta"]
  /\ UNCHANGED haciaCpu

EjecutarRafaga(c) ==
  RecibirPcb(c) \/ EjecutarLinea(c) \/ Pedir(c) \/ RecibirRespuesta(c)
    \/ Fallar(c) \/ TerminarRafaga(c)

NextCpu == \E c \in CPUs : EjecutarRafaga(c) \/ signal_handler(c)

=============================================================================
