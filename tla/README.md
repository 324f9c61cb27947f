# Verification project for the AnSISOP system

The repository is a small operating system for AnSISOP programs, made of four
kinds of process: **programa** (a client that sends a script), **kernel**
(long- and short-term schedulers, semaphores, I/O devices, shared variables),
**CPU** (interprets the script a quantum at a time) and **UMV** (segmented
memory). This directory holds TLA+ models of it, the TLC runs that check them,
and TLAPS proofs. Names of actions and variables are the code's own, in Spanish.

## 1. Inventory

Paths are under `src/src/`.

| Component | Code | State | Operations | What makes it correct |
|---|---|---|---|---|
| Main loop | `kernel/src/kernelMain.c` | `lista_de_programas`, `pidGeneral` | accept a client, build its program, list_add, post | every program received reaches the PLP once |
| PLP (long-term scheduler) | `kernel/src/plp/PlanificadorPLP.c` | `newProcesos` (NEW), `estado_multiprogramacion`, semaphores `nuevoProgramaSem`, `semaforoExit` | reserve segments, accept or reject, promote to READY (shortest job first), end a program | places are conserved; no promotion or answer is lost; a failed reservation is undone |
| PCP (short-term scheduler) | `kernel/src/pcp`, `kernel/src/soporte/ConexionConCPU.c` | `listaReady`, `listaExec`, `exitProcesos`, `productorConsumidor`, semaphores, devices; one thread per CPU and per device | dispatch, quantum end, wait, signal, I/O, exit, CPU disconnection | a program is in one place; resumes where it stopped; semaphores count; everything in READY gets a CPU |
| Shared variables | `PlanificadorPCP_th.c:131-188` | dictionary of values | read, write, print | a name that does not exist ends the program; no lost update |
| CPU | `CPU/src/cpuMain2.c`, `CPU/src/funcionesAnsisop` | the PCB, `estadoRafaga`, stack context | fetch and execute lines, system calls, exceptions, SIGUSR1 | quantum respected, one answer per request, PCB returned once |
| Protocol | `protocolo_kernel_cpu`, `msgUMV` | the bytes in the sockets | serialise, receive | one message read per message sent |
| AnSISOP stack and calls | `CPU/src/funcionesAnsisop`, `parser/parser` | stack segment, `cursorStack`, `tamanioContexto`, the dictionary of variables, labels | declare, read, assign, call, return, jump, rebuild the context | a call sees its own variables, the caller's are untouched, it goes on where it should, also after a preemption |
| UMV: memory | `umv/umvMain.c` | `pSegmentos`, physical memory, `ALG_MEM`, `mutex` | create, destroy, read, write, compact | segments do not overlap and stay within memory; compaction keeps contents; searches find what they say; bounds tested |
| UMV: connections | `umv/sockets/sockets.c`, `umv/serializado` | one thread per client, its `idPrograma` | handshake, active program, requests | a client reaches its program's segments only; one answer per request |
| UMV: console | `umv/consola/consola.c` | none | alg, compactar, cs, ds, sb, eb, dump, retardo | the blocks shown are the free ones |
| Programa | `programa/programaMain.c` | none | send the script, print | gets an answer |
| Console of the kernel | `kernel/src/consola` | none | print lists | (no state) |
| commons, parser | vendored | - | lists, metadata, line parser | used, not verified as such |

How they interact. Programs enter through the main loop, which shares
`lista_de_programas` with the PLP thread. The PLP asks the UMV for segments over
a socket and, when there is a free place, appends the program to `listaReady`,
which it shares with all CPU threads. A CPU thread takes the head of READY,
sends the PCB and then serves the CPU's messages; it puts the program back in
READY, in the queue of a semaphore or a device (whose thread puts it back), or
in EXIT. `moverAExit` gives the place back and wakes both the exit thread and
the PLP.

What is hard. Every queue is a list under its own mutex plus a counting
semaphore posted separately; several counters are read or updated without the
mutex (`estado_multiprogramacion`, `iSemaforo`); list removals return NULL on an
empty list and the result is dereferenced; the protocol has no framing; CPUs
leave at any instant. The UMV's table is under one mutex, but
`generarSegmento` releases it to compact and reads its new segment after the
last unlock. The stack of a program is bytes that each CPU interprets anew: the
dictionary of variables is rebuilt from them after a return or a preemption, and
the primitives go on after an access was rejected. `PROJECT.json` lists the hazards at their lines.

## 2. Modules

| Module | Models |
|---|---|
| `LargoPlazo` | abstract: what the long-term scheduler promises (program life cycle, shortest job first, bounded degree) |
| `PLP` | main loop, PLP thread, exit thread and `moverAExit`, one action per access to shared state |
| `PLP_proof` | the theorems about `PLP`, the segments the UMV holds for each program, and that it implements `LargoPlazo` |
| `Conexion` | sockets and messages between kernel and CPUs |
| `Cpu` | the CPU's burst loop and system calls |
| `PCP` | CPU connection threads, `fnLock`/`fnUnlock`, devices |
| `CortoPlazo` | abstract: what the short-term scheduler and the CPUs promise |
| `PCPCpu` | composition of `PCP` and `Cpu` over `Conexion`, its properties and refinement |
| `PCPCpu_proof` | READY is counted, whatever the programs and CPUs do |
| `PCPLugar_proof` | types, protocol, the one place of every program, what NULL can be dereferenced, and the semaphores without races |
| `PCPAvance_proof` | no line is repeated or skipped: the newest counter of every program |
| `PCPRefina_proof` | that `PCPCpu` implements `CortoPlazo`, and who is ended |
| `PCPExclusion_proof` | that semaphores exclude |
| `Compartidas` | shared variables with their values, on `PCPCpu`, which it also implements |
| `Compartidas_proof` | that it does, and what of `PCPCpu` it keeps |
| `Memoria` | abstract: what the UMV promises to its clients (segments of bytes, no physical addresses) |
| `Umv` | connection and console threads, both searches, compaction, insertion, destruction, reads and writes |
| `Umv_proof` | the theorems about `Umv`: the table, the compaction, the searches, the dump, the node read after the unlock, and that it implements `Memoria` |
| `Ansisop` | texts and their metadata, labels, lines and expressions |
| `Llamadas` | abstract: what AnSISOP calls and variables mean |
| `PilaCpu` | the CPU's primitives on the bytes of the stack, line by line, with preemptions |
| `MCPLP`, `MCUnaCpu`, `MCDosCpus`, `MCDesvios`, `MCUmv`, `MCPila` | instances for TLC |

`PLP` implements `LargoPlazo`, `PCPCpu` (`PCP` and `Cpu` over `Conexion`)
implements `CortoPlazo`, `Umv` implements `Memoria`, `PilaCpu` implements
`Llamadas`. `Compartidas` in turn implements `PCPCpu`, once the values are left out.
The four are separate: `PLP` takes the PCP as its effect on the
queues and the UMV's answers as choices; `Cpu` takes lines as the system calls
they make and `PilaCpu` as what they do to the stack.

Definitions whose comment starts with "Mutated" are not part of the models: each
is a plausible wrong version of the definition after it, used to show that a
property can fail.

### Correspondence with the code

*PLP.* `plp.paso` is where the PLP thread stands in `planificar_programas` and
the functions it calls, `salida[h]` where thread `h` stands in `moverAExit`,
`hiloExit` the exit thread in `terminarPrograma`. The unlocked test of
`estado_multiprogramacion` and the decrement under the mutex are two actions
(`DecidirPromocion`, `OcuparLugar`), as are an insertion in a list and the post
that announces it. `conectarUMV` is one action per segment, because the exit
thread and other programs interleave with it. A program is its pid; its metadata
(what its weight is computed from and how many of its four segments are not
empty) is chosen from `Metadatos`. The PCP is reduced to its effect on the
shared lists: `TomarDeReady`, `VolverAReady` and the steps of `moverAExit`.

*PCP.* `hilo[c]` is the connection thread of CPU `c`: where it is, its local
`programa`, the message it is serving, and the two values it carries across
steps: the semaphore's value between the load and the store of `iSemaforo--`
(`leido`), and a program taken out of one list and not yet in the next (`otro`).
The dispatch sequence the code repeats in five cases is written once
(`EsperarReady`, `SacarReady`, `CargarExec`, `EnviarPcb`). A thread that would
dereference NULL sets `vivo` to FALSE, after which no kernel thread moves.
`listaExec` is searched by the pid in the kernel's PCB (`EnExec`), as the code
does, and the PCB is overwritten by the one in the message where the code does
it, so that a wrong program's PCB would be visible.

*Cpu.* A program is a sequence of lines, each reduced to the system call it makes
(`Codigo`). `cpu[c]` holds the PCB in use, the quantum counter and
`estadoRafaga`. The answers of the kernel are tested as each primitive tests
them (`EstadoTras`). A line of kind "falla" is one whose accesses the UMV
rejects `fallas` times. SIGUSR1 may come at any step of the CPUs in
`QuienesSeVan`; before the first burst has ended it simply kills the process.

*Compartidas.* It adds to `PCPCpu` the dictionary `variables_compartidas`, one
variable of each program (`propia`, in its stack), and two kinds of line: "leer"
(`s = !step`) and "escribir" (`!step = s + 1`), each a request with its answer,
which the CPU tests as `obtenerValorCompartida` and `asignarValorCompartida` do.
A line that does both is two here. Every step of `PCPCpu` is a step of it, and
without the values every step of it is one of `PCPCpu` (`ImplementaPCPCpu`).

*Umv.* `hilo[h]` is a thread: `paso` is where it stands, `pedido` and
`respuesta` what it serves and what it will send, and the rest are the locals of
the function it is in (`i` the next node of `pSegmentos`, `pos` the moving
pointer `pMoviendo` or `pCompactado`, `mayor` and `fisica` what worst fit keeps,
`compactado` whether `generarSegmento` has compacted already, `nodo` its
`nodoAux`). The loops that run under the mutex take one segment at a time; a
locked section without a loop is one action. The unlock and the lock around
`fnCompactar` are separate actions, so other threads run between the compaction
and the second search, and so is the answer after the last unlock, which reads
the node when another thread may have freed it. `ALG_MEM` changes without the
mutex. Sums of offsets and sizes wrap at `2^ANCHO`. Physical addresses count
from `pInicioMemoria`. `dump` holds the mutex and changes nothing, so it is a
function of the table (`fnMostrarEspaciosLibre`). A logical address is a member
of `DirLogicas` that is in use by no segment, because `generarDireccionLogica`
draws until it finds one.

*PilaCpu, Ansisop.* `cpu` holds the PCB in use, the CPU's globals and the bytes of
the stack segment; a byte is tagged with the value it is part of and its index,
so four bytes that are not of one value give no value. `faltan` is what a
`variables` line or a call with parameters has still to declare, `abiertas` what
the text says of each open call, `afuera` that the PCB is in no CPU. A primitive
and its request to the UMV are one step: nobody else uses the program's stack.
After an exception the line goes on, as the parser does. `Desalojar` and
`Recibir` are the preemption between any two lines, after which
`actualizarContexto` rebuilds the dictionary. A text is a sequence of lines with
its labels; `metadata_desde_literal` and `metadata_buscar_etiqueta` make of it
what the parser makes, the label's instruction truncated to a signed `char`
included. An expression is evaluated by `Operar` with the positions and the
contents it is given, which are the CPU's in `PilaCpu` and the abstract ones in
`Llamadas`; a line whose expressions (`Expresiones`: its own, the arguments of a call
and the left side of an assignment) make an access that is rejected raises an
exception in both, and what it does afterwards is not seen.

*Conexion.* `MaxFusion` says how many messages a single `recv` may return; all
but the first are lost.

## 3. Runs

| Run | Instance | Shows |
|---|---|---|
| `plp` | 3 programs of two weights and 1 or 2 segments, 2 CPU threads, degree 1 | type, conservation of places, no lost promotion, exit list never empty when removed from, segments consistent, every program answered, refinement of `LargoPlazo` |
| `pcp_unacpu` | 1 CPU, 4 programs, two semaphores, a device and a shared counter, quantum 2 | semaphore coherence, mutual exclusion, each program gets a value of the counter of its own and the counter ends up counting every update, every program ends, no NULL dereferenced, refinement of `CortoPlazo` and, without the values, of `PCPCpu` |
| `pcp_doscpus` | 2 CPUs, 3 programs, one shared semaphore and a device, an unknown device, a failing access | no program lost, duplicated or run from an old PCB, READY counted, no NULL from EXEC nor from a list that a semaphore announced; nothing stuck outside semaphores, refinement |
| `carrera_semaforo` | 2 CPUs, 2 waits | violation: a lost decrement |
| `dos_senales` | 2 CPUs, 3 programs: one waits, two signal | violation: the second signal takes NULL from the queue and puts it in READY |
| `recv_fusion` | 1 CPU, `MaxFusion = 2` | violation: a lost PCB, kernel and CPU wait for each other |
| `dos_fallas` | 1 CPU, a line with two failing accesses | violation: another program is ended |
| `desconexion` | 1 CPU that leaves | violation: the program dispatched to it is ended |
| `umv` | 7 bytes, 3 logical addresses, segments of 2 to 4 bytes, the kernel's connection and the console | type, segments ordered and disjoint, both searches against the definition of first fit and worst fit, the free blocks of `dump`, the node read after the unlock, compaction without gaps |
| `umv_bytes` | 5 bytes, 2 addresses, the kernel's connection and a CPU's | refinement of `Memoria` |
| `umv_overload` | as `umv` | violation: memory overload although the request fits in the free memory |
| `pila` | the programs of `src/src/scripts`, a loop that declares a variable again, and accesses outside the stack in the arguments of calls and on the left side of an assignment, on stacks of every size up to what they need | type, the dictionary agrees with the stack, refinement of `Llamadas` |

Why the bounds are enough. In `plp`, three programs and one place make NEW hold two
programs while another runs or leaves (with two places it would take a fourth
program, which TLC does not finish in minutes), of equal or different weights,
so its order decides; two threads make two `moverAExit` overlap each other and a
promotion. What two programs that leave at the same instant add is covered by
the theorems, which hold for every degree. In `pcp_unacpu` program 1 blocks on a semaphore that only program 3
signals, and programs 1 and 2 exclude each other around the update of a counter
and an I/O, so that a program blocks while its owner is at the device. The first
is at the device between its read of the counter and its write, and the quantum
(2) ends there too when the wait took the first line of a burst: only the
semaphore keeps the other out. Each program ends in its own way: writing or
reading a variable that is not configured, a signal of a semaphore that is not, a
failing access. In `pcp_doscpus` both CPUs are inside `fnLock` and `fnUnlock` of the same semaphore
at once, a quantum ends, and the device returns a program while the CPU that
sent it there has not finished its burst. The sequences of messages in a socket
are bounded by the protocol, not by the models. Nothing else is cut off: the
programs are finite and the state spaces are explored completely.
`CHECK_DEADLOCK` is off in the runs of the kernel and in `pila` because the
system really stops when every program ended; in those of the UMV, which serves
for ever, it is on.

In `umv` two segments and a gap in the middle of the memory leave gaps of
different sizes for first and worst fit to differ on, gaps at the start, in the
middle and at the end occur, a request fits only after compacting, or not at
all, and the console creates, destroys, compacts and changes the algorithm
between the two searches of the kernel's thread. `ANCHO = 4` makes the word just
larger than the memory. In `umv_bytes` the CPU reads and writes a segment that
moves: one of three bytes behind a hole of two. Logical addresses are symmetric
in `umv`. In `pila` every stack size makes a program run out at a different
primitive: in the middle of the parameters of a call, in the record of a call, in
the declaration of a variable. The numbers of the scripts are smaller (a shorter
recursion reaches the same cases); `ANCHO = 9` is enough for the addresses used
and lets a negative offset wrap far beyond the segment.

What these instances leave out. A console that creates a segment of size 0 is not
modelled (`ParametrosUmv`). Requests whose offset and size wrap around 32 bits
pass the bounds test of the code: the instances do not make them, and
`Umv` would show a byte outside the memory as `basura`. Programs in `pila` are
texts of less than 128 instructions (`ParametrosPila`), in which functions end as
they are called and every label exists.

`MCUnaCpu` assumes `TextosEnRegla`, `SemaforosExisten` and `ActualizacionesEnRegla`, hypotheses of the theorems
on the shared variables, and `MCUmv` assumes `SinDesborde`, one of the theorem on the
refinement of `Memoria`, so these are ones that instances with all kinds of
line, and with the kernel, the console and a CPU all at work, satisfy.

The violating runs isolate what the passing ones exclude: semaphores shared by
CPUs are in `pcp_doscpus` but coherence of their counter is only claimed for one
CPU; `MaxFusion` is 1, no CPU leaves and no line fails twice in the passing runs.
In those circumstances the properties fail, as the runs show. For the
same reason `ExclusionMutua`, `CadaUnoSuStep` and `CuentaTodas` are claimed for one CPU: they rest on
the semaphore, and with two CPUs a decrement may be lost at 1, as
`carrera_semaforo` loses one at 0.
`KernelVivo` is claimed for one CPU too. `fnUnlock` tests the queue of the
semaphore without its mutex, takes from it afterwards and puts what it got in
READY. With two CPUs and three programs (one waits on a semaphore of 0, the others
signal it at once), TLC finds the second signal taking NULL from the queue that
the first has emptied: that is `dos_senales`, which checks `SenalesSinNull`, the
comment of `fnUnlock` that a signal wakes a program of the queue. The next thread
that loads READY dereferences that NULL. So for several CPUs the property is
`SoloNullDeReady`, an action property: a kernel dies of that NULL and of nothing
else. In `pcp_doscpus` only two programs use the semaphore, so no two signals can
test a queue of one: `ImplementaCortoPlazo` is checked there, and proved in general,
where the race does not happen. `MCDosCpus` assumes `ProgramasEnRegla` and
`SemaforosExisten`, hypotheses of the theorems below, so these are ones that an
instance with two CPUs satisfies.

No instance has a program that waits on a semaphore that does not exist
(`SemaforosExisten`). `PCP` models it (`WaitInexistente`): the kernel answers
`terminar` and dispatches another program (`ConexionConCPU.c:366-378`), the CPU takes any
answer but `continuar` as "blocked", and nobody calls `moverAExit`. The program stays
in `listaExec` for ever, so `TodosTerminan` fails at once of such an instance, by a
path without any interleaving; `src/Enunciado.pdf` (page 7) asks for an "excepcion
abortiva".

`umv_overload` is
the same instance as `umv`, with the one property that the comments of
`generarSegmento` state and its code does not keep.

### Fairness

Weak fairness of each kernel thread and of each CPU process: the code blocks
only in `sem_wait` and `recv` (mutex sections are finite), and the operating
system schedules every runnable thread. For `PLP`, whose PCP is abstract,
`SF(SacarDeExec(p))` says that a program which runs again and again ends: the
kernel promises nothing about programs that loop. No fairness on new arrivals
nor on SIGUSR1. `Umv`, `PilaCpu` and their abstract specifications state safety
only: a thread of the UMV may wait for ever for a mutex that others take in turn,
and an AnSISOP program may loop.

## 4. Proofs

### The long-term scheduler

`PLP_proof` proves, for any number of programs, threads, metadata and any
degree of multiprogramming, from the assumption `ParametrosPLP` alone:

* `TiposCorrectos`: `Spec => []TypeOK`;
* `GradoSeConserva`: `Spec => []GradoConservado`;
* `NingunaPromocionSePierde`: `Spec => []SinPromocionPerdida`;
* `ExitNuncaVacia`: `Spec => []ExitConPrograma`;

all from `InvariantePLP`: `Spec => []InvPLP`. None of these is inductive alone.
Conservation needs `UnSoloLugar` (a program put back or promoted is not already
counted in `enPCP`), which needs `EnOrdenDeLlegada` (the program the PLP handles
is newer than any in a queue). The decrement of the degree needs
`PromocionPosible`: between the PLP's unlocked test and its decrement only
increments happen. `SinPromocionPerdida` follows from `PostsAlcanzan`: the posts
of `nuevoProgramaSem`, made or owed, plus the round in progress, are at least
the programs to take plus the promotions the free places allow. It holds only
because `moverAExit` increments the degree before it posts. `ExitConPrograma`
follows from `ExitContado`. The proof has a lemma per conjunct of the invariant
and, in each, a step per action; facts about counting threads by step
(`CuentaCambia` and its like) are stated once.

To `InvPLP` it adds what the refinement needs:

* `SegmentosSiempreEnRegla`: `Spec => []SegmentosEnRegla`;
* `RefinaLargoPlazo`: `Spec => ImplementaLargoPlazo`, the whole refinement, which is
  safety only;

from `InvarianteRefina`: `Spec => []InvRefina`. The mapping asks where a program is,
and its answer is a CASE over queues and threads, right only if the cases exclude
each other. So `UnSitio` says that each program received is in exactly one of nine
places, `SinRepetir` that no queue has one twice and no two threads move the
same, `NewOrdenada` that NEW is ordered by weight and, for one weight, by arrival
(this is what makes the head of NEW the one that `LargoPlazo` promotes), and
`Segmentos` how many segments the UMV holds for a program in each place, those
half made or half undone in `conectarUMV` included. `EtapasSon` turns the places
into the stages of `LargoPlazo`; then there is a lemma per action, which says which
abstract step it is or that it is a stutter. Promoting needs that the degree is
free: `AdmitidosCaben` gets it from the conservation of places.

### The short-term scheduler and the CPUs

`PCPCpu_proof` proves `ReadySiempreContado`: `Spec => []ReadyContado`, for any
number of CPUs, devices, semaphores and programs, with CPUs that leave, messages
that are fused and lines that fail any number of times; the only assumption is
`ParametrosPCP` (finite sets). Its invariant `InvReady` adds the little of the types
that counting needs (`Sanos`): queues are sequences, a thread's fields are there.
Each thread at a step between taking a post and removing, or inserting and
posting, is one unit of the sum.

`PCPLugar_proof` proves, for any number of CPUs, devices, semaphores and programs,
under the hypothesis `ProgramasEnRegla`:

* `TiposSiempre`: `[]TypeOK`;
* `SiempreUnSoloLugar`: `[]UnSoloLugar`, no program is lost, duplicated or on two CPUs;
* `SoloMuereDeNull`: `SoloNullDeReady`, the only NULL dereferenced is one taken from READY;
* `CoherenteSinCarreras`, `VivoSinCarreras`: `[]SemaforoCoherente` and `[]KernelVivo` in
  every behaviour with `[]SinCarreras`, in which no two threads are in `fnLock` or
  `fnUnlock` of the same semaphore at once;
* `CoherenteConUnaCpu` and `VivoConUnaCpu`: the same of `SemaforoCoherente` and
  `KernelVivo` when there is one CPU (`UnaCpu`);

all from `InvariantePCP`: `[]InvPCP`. `ProgramasEnRegla` says that no CPU leaves on
SIGUSR1, that a line fails at most once, and that the last line of a program ends
it (or names something that is not configured, which ends it or blocks it for
ever). It is needed: the runs `desconexion` and `dos_fallas` are the
counterexamples without the first two, and a program without an end runs past its
text. Three things make up `InvPCP`.

`Tipos` is `TypeOK` with the bounds that a step needs: which threads hold a
program and which hold `Nadie`, and that a pid in use is one of those admitted.

`Protocolo` says, for each CPU, what the thread that serves it, the CPU and both
sockets can be at together (`Fase`). A thread that is between two dispatches has
an idle CPU and empty sockets, or a CPU that has asked to `wait` and was not yet
told (`TrasWait`); one that serves a system call has a CPU that waits for its answer
(`Pregunta`); one in `recv` has a CPU that was just given a PCB (`Dada`), runs
(`Corre`), has asked (`Pide`), was answered (`Contestada`), or has sent the PCB
back (`Devuelta`). That a message in a socket is of the program that the thread
holds comes from here, and with it that the search of `listaExec` by the pid of
a message finds a program.

`Puestos` says where each program is: `Lugares` is `UnSoloLugar` strengthened
with the threads whose steps presuppose that their program is in `listaExec`
(`Duenos`): they are at most the copies of it there, so that two threads never move
the same one. `PcbsEnRegla` says that a PCB is of its program and does not point
beyond its text, and `DispContado` that a device has a post, made, taken or owed, for
each program in its queue.

The proof has a lemma per step of a thread, a device or a CPU, for each of the
three; `LugarLuego`, `VecesMenosUno` and the lemmas beside them say how counts
change when a list does. `SoloMuereDeNull` goes through the actions that take from a
list: READY has something to take (`ReadyContado`), so has a device
(`DispContado`), and a program that is looked for in EXEC is there (`Lugares`).
`VivoSinCarreras` adds that READY holds no NULL (`ReadySinNull`), which rests on
`SenalesSinNull`: nobody empties the queue between the test of `fnUnlock` and its
removal (the lemma `SenalesSinCarreras`, which says no more than that `SinCarreras`
excludes the case of `dos_senales`).

The semaphores need an invariant of their own, `InvSem`: while nobody is in `fnLock`
or `fnUnlock` of a semaphore, its queue agrees with its value; and a thread that is
there knows which value the queue agrees with, the new one or, while the change has
not been acted upon, the one before (`Visto`), that what it loaded is still what is
stored, and what it tested still holds (`SabeDe`). `SinCarreras` is what the code would
give for any number of CPUs if the mutex of the semaphore were held from the
decrement to the end of the function; without it `carrera_semaforo` is the
counterexample. `InicialesNoNegativos`, that no semaphore is configured with a
negative value, is a hypothesis of the two theorems on `SemaforoCoherente`, which such a
value would violate from the start.

`PCPAvance_proof` proves, under the same hypothesis, that no line of a program is
repeated or skipped:

* `NuncaRetrocede`: `[]SinRetroceso`, from
* `InvarianteAvance`: `[]InvAvance`.

The program counter of a program has a copy in its PCB, one in the message that
carries the PCB, and one in every CPU that ever had the program (`cpu[c].pid` is not
cleared). `SinRetroceso` takes the maximum of them all, so it is not inductive: one
must know which copy is the newest at each moment. `InvAvance` says it. While a CPU
has the program (`EnCurso`: it runs it, asks for something, or has sent the PCB back
and the thread has not stored it yet), the newest is that of the CPU (`CpusAlDia`).
While the program waits to be executed (`EnEspera`: not admitted, in READY, in a
queue, in a device, or in the hands of a thread that sends it or queues it), it is
that of the PCB, and no CPU is beyond it (`PcbsAlDia`); a message on its way to the
CPU has a copy of it (`MensajesAlDia`). The steps that count are from one to the
other: a program is put in READY or in a queue only after its thread has stored the
PCB that came back, and the CPU stores the PCB it gets before it runs
(`GuardarAvanza`, `RecibirPcbAvanza`). `InvPCP` puts the program in one place only,
so nobody else has it then (`UnicoDueno`, `EnCursoUnico`).

`PCPRefina_proof` proves, under `ProgramasEnRegla` and `SemaforosExisten` (the
semaphores that programs wait on are configured), that the kernel's threads and
the CPUs implement the abstract short-term scheduler:

* `RefinaSinNull`: `Spec /\ []SenalesSinNull => ImplementaCortoPlazo`, for any number
  of CPUs;
* `RefinaSinCarreras` and `RefinaCortoPlazo`: the same from `[]SinCarreras`, and with no
  such hypothesis when there is one CPU (`UnaCpu`);
* `SoloTerminaElQueTermino`: `[]TerminaElQueTermino`, a program is ended only at a line
  that may end it (what `dos_fallas` and `desconexion` refute outside
  `ProgramasEnRegla`);

from `InvarianteCorto`: `[]InvCorto`. The hypotheses are needed: a NULL in READY is
dispatched as no program of `CortoPlazo` is, and a program that waits on a
semaphore that does not exist stays in EXEC while its CPU gets another PCB, so
what it had advanced is forgotten.
`InvCorto` says that a program is ended at a line that may end it, from the
message of its CPU until it is in EXIT (`FinEnRegla`, `SalidaEnRegla`), and that a
counter some CPU has kept is newer than that of the PCB only while the program is
executed or ended (`SobraEnRegla`): the mapping gives the counter of a program as the
maximum of all its copies (`Avance`). It also asks where a program is, in a CASE
over lists and threads; `Excluyentes` turns the counts of `Lugares` into the fact
that its cases exclude each other, `Sitios` gives the answer of each, and
`QuienEjecuta` the only CPU a program can be executed on. Then there is a lemma for
each step that is seen in `CortoPlazo` (`PasoAdmitir`, `PasoDespachar`,
`PasoRecargar`, `PasoSenal`, `PasoServido`, `PasoBloquear`, `PasoTerminar`,
`PasoAvanzar`), and lemmas which say that the others are not (`NoSeMueve`,
`HiloNoSeVe`, `DispositivoNoSeVe`, `CpuNoSeVe`).

`PCPExclusion_proof` proves, under both hypotheses and `InicialesNoNegativos`, that
semaphores exclude:

* `ExclusionSinCarreras`: `[]ExclusionMutua` in every behaviour with `[]SinCarreras`, for
  any number of CPUs;
* `ExclusionConUnaCpu`: `[]ExclusionMutua` when there is one CPU.

`ExclusionMutua` speaks of programs: by the lines each has executed, wherever it is,
no two are at once between a wait and the next signal of a semaphore that starts at
1 or 0 and that no program signals out of place (`Exclusivos`). Nothing in the kernel
records who is inside, so the invariant, `InvPermiso`, says where the one permit is:
in the counter, with a program inside, or with a thread (`Cede`), which took it from
the counter for a wait not yet answered, or has a signal to serve and has neither
added it to the counter nor given it to a program of the queue. A wait takes it at its
store, before its test; a signal that finds a queue gives it when it removes a program
from it, and which of the two happens is known only at its own test: that the value
and the queue say the same then is `InvSem`. That a program gets inside only by a line
of its own, and leaves the queue only by a signal, uses `InvAvance` (the line the CPU
executes is the next one, `QuienPide`) and `Sitios` (who executes is in no queue). The
lemmas `PermisoSePierde`, `PermisoAlHilo`, `PermisoAlPrograma` and `PermisoAlSemaforo`
are the four ways the permit moves; then there is one lemma for the functions of the
wait, one for those of the signal, and one for each other kind of step.

### The shared variables

`Compartidas_proof` proves, for any number of CPUs, programs and variables, under
`TextosEnRegla`, that the kernel and the CPUs of `Compartidas`, whose programs read
and write values, do what those of `PCPCpu` do without them:

* `RefinaSinValores`: `SpecCompartidas => ImplementaPCPCpu`;

and from it and the theorems above, that the system with values keeps

* `UnSoloLugarConVariables`: `[]UnSoloLugar`;
* `NuncaRetrocedeConVariables`: `[]SinRetroceso`;
* `VivoConVariables` and `CoherenteConVariables`: `[]KernelVivo` and
  `[]SemaforoCoherente`, when there is one CPU;
* `CortoPlazoSinCarreras` and `CortoPlazoConVariables`, under `SemaforosExisten`:
  `ImplementanCortoPlazo`, in every behaviour with `[]SinCarreras`, and with one CPU;
* `ExclusionConVariables` and `ExclusionConVariablesConUnaCpu`, under
  `InicialesNoNegativos` too: `[]ExclusionMutua`, likewise;
* `CadaUnoSuStepSinCarreras` and `CadaUnoSuStepConUnaCpu`, under `ActualizacionesEnRegla`
  too: `[]CadaUnoSuStep`, likewise.

`TextosEnRegla` is `ProgramasEnRegla` for these texts: no CPU leaves, a line fails at
most once, every text has a line that ends it, or would block it for ever, and the
empty name is of no semaphore.

The mapping. A request for a configured variable is seen as a `consulta`; one for a
variable that is not configured, which ends the program, as a signal of a semaphore
that does not exist, which has the same answer. The two answers that let the program
go on, `valorCompartida` and `continuar`, are seen as the same, as are the two steps
in which a CPU waits for one (`CpuVista`). A text is cut at its first line that ends
it (`CodigoVisto`), so that an unconfigured variable in the middle of a text is its
last line, as `ProgramasEnRegla` wants.

The mapping forgets too much for the proof to be step by step: the CPU that reads
takes `continuar` as an error and ends the program, where the CPU seen would go on.
So `InvVisto` adds to the invariant of `PCPCpu`, read through the mapping, the shapes
that the mapping loses (`FormaHilos`, `FormaCanales`, `FormaCpus`) and that thread,
messages and CPU agree on who reads and who writes (`Acorde`): a thread obtains or
assigns a variable only for a CPU whose current line reads or writes, the request on
its way is the one of that line, and the answer on its way is the one that line
expects. Each of the two invariants needs the other: that the answer belongs to the
line the CPU is at comes from `Fase`, which says that nothing else is in the sockets.
There is a lemma per step which says what it is without the values (their names end
in `Visto` or `Vista`), and that the step keeps `Acorde`. `LineaActualVista` and
`ProximaLineaVista` say that a CPU never goes beyond the line its text is cut at.

`CadaUnoSuStep` is about the values themselves: programs that read a counter and write
it plus one, each inside the section of one semaphore, read different values. It is
false of texts that do otherwise, so `ActualizacionesEnRegla` says which texts it is
about: every variable has a semaphore of `Exclusivos` such that each line of an update,
from the read to the write, is inside a section of it (`Protege`), is not the wait
itself and is not one that may end the program; a program writes only what it has read;
and, as it has one variable to read into, it reads one shared variable only. The
argument has two parts. First, no two programs are at an update of the same variable
(`Solos`): at those lines each is between the wait and the signal (`EnSeccion`), and is
not waiting for it (`SinEsperar`), so `ExclusionMutua` applies. Then `InvValores` says
what the copies of the value have to do with the variable: the request that writes
carries what was read plus one (`PedidoConValor`), the answer to a read carries the
variable's value (`RespuestaConValor`), who has read and not written yet has it still
(`AlDia`), and whoever has ever read has a lesser value, or the same only while its
update is open (`Atras`). A write that is served keeps `AlDia` because nobody else is at an
update, and makes the variable greater than every value read. There is a lemma for the
kernel's steps, one for the step that assigns (`AsignarConValores`), and one for each of
the CPU's (`RafagaConValores`, `PedirConValores`, `RecibirConValores`); those that are
not of a variable leave `InvValores` as it was.

### The UMV

`Umv_proof` proves, for a memory of any size, any set of threads, logical
addresses and requests, from the assumption `ParametrosUmv` alone (sizes and
offsets are naturals, a created segment is not empty, the memory is smaller than
the machine word):

* `TiposUmv`: `Spec => []TypeOK`;
* `SegmentosDisjuntos`: `Spec => []TablaEnRegla`;
* `CompactacionCompleta`: `Spec => CompactarJunta`;

all from `Invariante`: `Spec => []InvUmv`. That the table is in order and
disjoint is not inductive: an insertion is right only because the place found is
still free, and a step of the compaction only because its pointer is at the end
of the segment before. So `InvUmv` adds to `TablaEnRegla` what every loop knows
of the table in the middle of its work (`Avance`: the pointer is at the end of a
segment, the space worst fit keeps is free, the segments already moved are
together), and `Control`: a thread is in one of those steps exactly when it has
the mutex. That is what lets the other threads change the table: when it changes,
nobody else is in a loop (`LosOtros`). `Orden`, `LibreAntes` and `LibreAlFinal`
turn the order of the table into what the searches use; `TablaInserta`,
`TablaQuita` and `TablaMueve` say that each change keeps it; `Insertada`,
`Quitada` and `Parte` describe the sequences. There is a lemma for each group of
steps (connection, accesses, locks, search, changes of the table). It holds
whatever the console does to `ALG_MEM` between the two searches.

It also proves from it that both searches are right:

* `EspacioBienElegido`: `Spec => []EspacioCorrecto`, from
* `InvarianteEspacio`: `Spec => []InvEspacio`.

`EspacioCorrecto` speaks of the maximal free runs of bytes (`Huecos`); the loops
only see segments. The proof counts gaps instead, the k-th being what is between
the segment k and the one before (`ComienzoDe`, `Ancho`): `GapEsHueco` and
`HuecoEsGap` say that the gaps that are not empty are the maximal free runs, and
no others are. `InvEspacio` adds to `InvUmv` what a search knows (`Busca`): for
first fit, that every gap passed is too small; for worst fit, that the size it
keeps is that of a gap passed, at the address it keeps, and none passed is
bigger. `UltimoGap` says that neither loop ends before the last segment although
its condition also tests the end of the memory: this is where it matters that no
segment is empty. Another thread cannot spoil what a search knows, because the
table changes only with the mutex (`SoloUno`).

And that the free blocks the console shows are those of the memory:

* `DumpEsVeraz`: `Spec => []DumpVeraz`.

`fnMostrarEspaciosLibre` is a loop over the table, written as a function defined by
recursion on how many segments it has passed (`Mostrado`). `MostradoHay` proves that
a function with that equation exists, by taking a least number of turns for which
there would be none; `MostradoEs` that `Mostrado` satisfies it. After k turns
(`Visto`) the loop stands at the end of the segment k and has shown as many blocks as
there are non-empty gaps before, each of which it has shown: `VistoTodo` goes from
each turn to the next in the same way. `GapsSon` counts them, and with `HuecosSon`
they are the maximal free runs. Nothing is said of the base of the block at the end of the memory, which
the code takes from the block before.

Finally it proves that the threads implement the abstract memory:

* `RefinaMemoria`: `Spec /\ []SinCruces => ImplementaMemoria`, from `SinDesborde`;
* `NodoSigueVivo`: `Spec /\ []SinCruces => []NodoVivo`;

so a client of `Memoria` sees segments of bytes with logical addresses, requests that
take effect at one instant, and neither the compaction nor the mutex.

The hypotheses. `SinDesborde`: no request has an offset and a size whose sum wraps in
the word; one that wraps passes the bounds test and reads what no abstract segment
holds (hazard `umvMain.c:246`). `SinCruces`: no thread is destroying the segments of a
program while another is about to answer that it created one for it. That answer
is made after the last unlock from a node which the destruction would have freed
(hazard `umvMain.c:384`), and what is sent then is arbitrary. The kernel keeps it by
its order: it creates and destroys over different connections, but it asks to destroy a program's segments
(`PlanificadorPLP.c:126`, at its end, and `:156`, after a creation that failed) only
when it has the answers to the creations. The console's `ds` of a program that is
being admitted does not. `Umv` lets any connection send any of its requests at any
time, so that order is a hypothesis here; in the instances the kernel has one
connection, and the console a program of its own.

The argument. `InvDialogo` adds to `InvUmv` what each thread has of request and answer
at each step, and that the program a connection works for is one it was told of;
this makes the abstract request and answer those of the mapping in every step
(`EsRespuesta`). `InvVivo` adds that the node of a thread about to answer is in the table.
`ContenidoSon` says that the mapping's CHOOSE finds the only segment at a logical
address, and that a free one has none; from it `ContenidoInserta`, `ContenidoQuita`
and `ContenidoEscribe` say what an insertion, a removal and a write do to the abstract
contents, and `ContenidoMueve` that a segment moved by the compaction keeps its bytes,
whose new place may overlap the old. `PermitidoEs` gives the bounds test its meaning in segments,
where `SinDesborde` is used. `OcupadoCabe` gives `Memoria` its bound on memory in use: the segments, being
disjoint, fit in it. Then there is a lemma per step that is seen in `Memoria`
(`PedirM`, `EscribirM`, `NoQuedanM` and so on), and the rest are stutters.

### Only model-checked

Liveness (`TodosRespondidos`, `TodosTerminan`, `NadieSeEstanca`, `CuentaTodas`), which
TLAPS cannot do under fairness. The refinement of `Llamadas` and the invariants of
`PilaCpu`, whose expressions are evaluated by RECURSIVE operators (they are
in `Ansisop`, which only `Llamadas` and `PilaCpu` use).

## 5. Not modelled

* The bytes of the messages, partial receptions, and the handshakes.
* SIGPIPE on a socket whose other end has gone (it would end the kernel); a
  message sent to such a socket is lost in the model.
* Clients that leave. When the `send` of a print fails without SIGPIPE, `imrpimirTexto`
  and `imrpimirVariable` return the literal `"exit"` (`PlanificadorPCP_th.c:100`, `:126`) and
  the thread frees it (`ConexionConCPU.c:283`, `:304`), which ends the kernel too. In
  `Consulta` a print is always sent; `terminar` is the answer for a variable that does not
  exist.
* Lines with more than one access to shared variables; printing, logging, the kernel's console, delays
  (`retardo` of the UMV included).
* Freed memory: programs are freed by the exit thread while others may still
  print their pid; the hazards list says where.
* In the UMV: clients that fail the handshake, segments of size 0 (the console can
  ask for them), `dump` beyond the free blocks, a failing `malloc`.
* In the CPU: the text of a line (the parser is taken by what it does with lines),
  and the half-done call that SIGUSR1 in the middle of a line sends to the kernel.
* One model with the PLP and the PCP together: each is checked against what the
  other does to the shared queues. The product of their threads is beyond what
  TLC explores here in minutes.
* A CPU that connects while the system runs: the set of CPUs is fixed, each
  connected from the start; READY does not depend on it.

## 6. Plan

Done:

1. `PLP`, `LargoPlazo`, `PLP_proof`.
2. `Conexion`, `Cpu`, `PCP`, `PCPCpu`, `CortoPlazo`, `Compartidas` and their runs.
3. `Umv`, `Memoria`, `Umv_proof` and their runs.
4. `Ansisop`, `Llamadas`, `PilaCpu` and their run.
5. Proofs: `PCPCpu_proof`, `PCPLugar_proof`, `PCPAvance_proof`, `PCPRefina_proof`,
   `PCPExclusion_proof`, `Compartidas_proof`.

Left:

6. `Kernel`: `PLP` and `PCP` composed, with the abstract PCP of `PLP` replaced,
   for the freed programs that are still read.
