------------------------------- MODULE Conexion -------------------------------
(***************************************************************************)
(* The sockets between the kernel and the CPUs and the messages of the     *)
(* kernel-CPU protocol, reduced to what decides what the receiver does:    *)
(* the operation, the PCB (its pid and program counter) and the name of    *)
(* the resource. Modelled after the handshake (primerMsj, okCpu).          *)
(***************************************************************************)
EXTENDS Integers, Sequences, FiniteSets

CONSTANTS
  CPUs,          \* the CPU processes; each has a connection thread in the kernel
  MaxProgramas,  \* bound on the programs (pidGeneral is unbounded)
  MaxFusion      \* how many messages one recv may return together (see Restos)

ASSUME ParametrosConexion ==
  /\ IsFiniteSet(CPUs)
  /\ MaxProgramas \in Nat
  /\ MaxFusion \in Nat \ {0}

Programas == 1..MaxProgramas    \* pids
Nadie == 0                      \* NULL
SinNombre == ""

VARIABLES
  haciaCpu,      \* CPU -> messages sent by the kernel, not yet received
  haciaKernel,   \* CPU -> messages sent by the CPU, not yet received
  conectada      \* CPU -> is the process alive and its socket open?

canales == <<haciaCpu, haciaKernel, conectada>>

\* Operations of the messages. imprimir and imprimirTexto only differ in data: they
\* are "consulta", and so is an access to a shared variable whose value does not
\* matter (Compartidas has those whose value does).
DeCpu == {"consulta", "obtenerValorVarCompartida", "asignarValorVarCompartida",
          "waitKernel", "signalKernel", "entradaSalidaKernel",
          "notificarPorFinRafaga", "notificarPorFinPrograma", "exception"}
DeKernel == {"continuar", "valorCompartida", "bloquear", "terminar", "atendeProceso"}

Mensaje(op, nombre, pid, pc) == [op |-> op, nombre |-> nombre, pid |-> pid, pc |-> pc]
Respuesta(op) == Mensaje(op, SinNombre, Nadie, 0)

InitConexion ==
  /\ haciaCpu = [c \in CPUs |-> <<>>]
  /\ haciaKernel = [c \in CPUs |-> <<>>]
  /\ conectada = [c \in CPUs |-> TRUE]

EnviarACpu(c, m) == haciaCpu' = [haciaCpu EXCEPT ![c] = Append(@, m)]
EnviarAKernel(c, m) == haciaKernel' = [haciaKernel EXCEPT ![c] = Append(@, m)]

\* socket_recv returns all the bytes that have arrived, up to MaxFusion messages,
\* and the deserializers only look at the first message of them: the others are
\* lost. MaxFusion = 1 assumes that each recv returns one message.
Restos(canal) ==
  {SubSeq(canal, n + 1, Len(canal)) : n \in {k \in 1..MaxFusion : k <= Len(canal)}}

=============================================================================
