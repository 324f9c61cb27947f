----------------------------- MODULE Compartidas -----------------------------
(***************************************************************************)
(* The shared variables of the programs, with their values, on the kernel  *)
(* and the CPUs of PCPCpu: a program reads one into a variable of its own  *)
(* and later writes what it read plus one (s = !step, !step = s + 1), a    *)
(* message each time, and uses the semaphores to be alone meanwhile.       *)
(***************************************************************************)
EXTENDS PCPCpu

CONSTANTS
  ValorVariable,          \* the values of the configured shared variables
  SinLeer,                \* what a program's variable holds before it reads
  ValoresBasura           \* what valorVariable may hold if nobody assigns it

ASSUME ParametrosCompartidas ==
  /\ ValorVariable \in [VariablesCompartidas -> Int]
  /\ SinLeer \in Int /\ ValoresBasura \subseteq Int

VARIABLES
  variables_compartidas,  \* name -> value
  propia                  \* program -> its variable, which is in its stack

compartidas == <<variables_compartidas, propia>>
varsCompartidas == <<vars, compartidas>>

InitCompartidas ==
  /\ Init
  /\ variables_compartidas = ValorVariable
  /\ propia = [p \in Programas |-> SinLeer]

\* A message that carries a value.
MensajeValor(op, nombre, valor) ==
  [op |-> op, nombre |-> nombre, pid |-> Nadie, pc |-> 0, valor |-> valor]

-----------------------------------------------------------------------------
(* The CPU: obtenerValorCompartida and asignarValorCompartida. *)

PedirCompartida(c) ==
  /\ cpu[c].paso = "ejecutar"
  /\ puedeSeguirEjecutando(c)
  /\ LET l == ProximaLinea(c)
     IN  \/ /\ l.op = "leer"
            /\ EnviarAKernel(c,
                 Mensaje("obtenerValorVarCompartida", l.nombre, Nadie, 0))
         \/ /\ l.op = "escribir"
            /\ EnviarAKernel(c,
                 MensajeValor("asignarValorVarCompartida", l.nombre,
                              propia[cpu[c].pid] + 1))
  /\ cpu' = [cpu EXCEPT ![c].paso = "respuestaValor", ![c].pc = @ + 1]
  /\ UNCHANGED <<haciaCpu, conectada, propia>>

\* Mutated: the answer is not tested.
RecibirValorSinMirar(c) ==
  /\ cpu[c].paso = "respuestaValor"
  /\ haciaCpu[c] # <<>>
  /\ haciaCpu' \in {[haciaCpu EXCEPT ![c] = r] : r \in Restos(haciaCpu[c])}
  /\ cpu' = [cpu EXCEPT ![c].paso = "ejecutar", ![c].i = @ + 1]
  /\ \E v \in ValoresBasura :
       propia' = IF LineaActual(c).op = "leer" THEN [propia EXCEPT ![cpu[c].pid] = v]
                 ELSE propia
  /\ UNCHANGED <<haciaKernel, conectada>>

\* After an answer that is not the one expected the burst ends the program; what a
\* read returns then is not initialized, and it is assigned all the same.
RecibirValor(c) ==
  /\ cpu[c].paso = "respuestaValor"
  /\ haciaCpu[c] # <<>>
  /\ haciaCpu' \in {[haciaCpu EXCEPT ![c] = r] : r \in Restos(haciaCpu[c])}
  /\ LET m == Head(haciaCpu[c])
         lee == LineaActual(c).op = "leer"
         esperada == IF lee THEN "valorCompartida" ELSE "continuar"
     IN  /\ cpu' = [cpu EXCEPT ![c].paso = "ejecutar", ![c].i = @ + 1,
                      ![c].estadoRafaga = IF m.op = esperada THEN @
                                          ELSE "notificarPorFinPrograma"]
         /\ \E v \in IF m.op = esperada THEN {m.valor} ELSE ValoresBasura :
              propia' = IF lee THEN [propia EXCEPT ![cpu[c].pid] = v] ELSE propia
  /\ UNCHANGED <<haciaKernel, conectada>>

-----------------------------------------------------------------------------
(* The kernel's two functions, and the answer. The mutex of a variable covers *)
(* its assignment only.                                                       *)

obtenerVariable(c) ==
  LET n == hilo[c].msg.nombre
  IN  /\ hilo[c].paso = "obtener"
      /\ Responder(c, IF n \in VariablesCompartidas
                      THEN MensajeValor("valorCompartida", SinNombre,
                                        variables_compartidas[n])
                      ELSE Respuesta("terminar"))
      /\ Volver(c, "recibir")
      /\ UNCHANGED <<plp, ready, listaExec, exitProcesos, pcb, colas, dispositivo,
                     vivo, variables_compartidas>>

asignarVariable(c) ==
  LET n == hilo[c].msg.nombre
  IN  /\ hilo[c].paso = "asignar"
      /\ \/ /\ n \in VariablesCompartidas
            /\ variables_compartidas' =
                 [variables_compartidas EXCEPT ![n] = hilo[c].msg.valor]
            /\ Responder(c, MensajeValor("continuar", SinNombre, hilo[c].msg.valor))
         \/ /\ n \notin VariablesCompartidas
            /\ Responder(c, Respuesta("terminar"))
            /\ UNCHANGED variables_compartidas
      /\ Volver(c, "recibir")
      /\ UNCHANGED <<plp, ready, listaExec, exitProcesos, pcb, colas, dispositivo,
                     vivo>>

-----------------------------------------------------------------------------
Atender(c) ==
  \/ pfnControladorConexion(c) /\ UNCHANGED <<cpu, compartidas>>
  \/ /\ vivo
     /\ obtenerVariable(c) \/ asignarVariable(c)
     /\ UNCHANGED <<haciaKernel, conectada, cpu, propia>>

Ejecutar(c) ==
  \/ EjecutarRafaga(c) /\ UNCHANGED <<varsPCP, compartidas>>
  \/ /\ PedirCompartida(c) \/ RecibirValor(c)
     /\ UNCHANGED <<varsPCP, variables_compartidas>>

NextCompartidas ==
  \/ Next /\ UNCHANGED compartidas
  \/ \E c \in CPUs : Atender(c) \/ Ejecutar(c)

\* The fairness of PCPCpu, whose threads and processes are the same.
SpecCompartidas ==
  /\ InitCompartidas /\ [][NextCompartidas]_varsCompartidas
  /\ WF_varsCompartidas(Admision /\ UNCHANGED <<cpu, compartidas>>)
  /\ \A c \in CPUs : WF_varsCompartidas(Atender(c)) /\ WF_varsCompartidas(Ejecutar(c))
  /\ \A d \in Dispositivos :
       WF_varsCompartidas(fnDispositivos(d) /\ UNCHANGED <<cpu, compartidas>>)

-----------------------------------------------------------------------------
(* Properties *)

\* The reads of a configured variable that come before its update.
Leidas(v) ==
  {p \in Programas : /\ propia[p] # SinLeer
                     /\ \E i \in DOMAIN Codigo[p] : Codigo[p][i] = Linea("leer", v)}

\* Programs that read a counter and write it plus one between a wait and a signal
\* of the same semaphore, whatever blocks or preempts them in between, get
\* different values: "Mutex para que cada uno agarre un step diferente", as the
\* script bench/productor.ansisop puts it.
CadaUnoSuStep ==
  \A v \in VariablesCompartidas : \A p, q \in Leidas(v) :
    p # q => propia[p] # propia[q]

\* The lines a program may end at, now that the variables that exist are known.
FinalesCompartidas ==
  [p \in Programas |->
     Finales[p] \cup
       {n \in DOMAIN Codigo[p] : /\ Codigo[p][n].op \in {"leer", "escribir"}
                                 /\ Codigo[p][n].nombre \notin VariablesCompartidas}]

\* The writes that get to be executed: no line up to them may end the program.
Escrituras(v) ==
  UNION {{<<p, i>> : i \in {k \in DOMAIN Codigo[p] :
                              /\ Codigo[p][k] = Linea("escribir", v)
                              /\ \A j \in 1..k : j \notin FinalesCompartidas[p]}} :
           p \in Programas}

\* No update is lost or made twice, and none is left to do: each counter ends up
\* counting its updates.
CuentaTodas ==
  <>[](\A v \in VariablesCompartidas :
         variables_compartidas[v] = ValorVariable[v] + Cardinality(Escrituras(v)))

AbstractoCompartidas == INSTANCE CortoPlazo WITH
  Finales <- FinalesCompartidas,
  lugar <- [p \in Programas |-> Lugar(p)],
  listos <- listaReady,
  avance <- AvanceHastaElFin

\* With the shared variables, kernel and CPU still implement the abstract
\* short-term scheduler: a request for a variable is one more line of the program
\* and never moves it out of EXEC, and one that names a variable that is not
\* configured ends that program there and then.
ImplementanCortoPlazo == AbstractoCompartidas!SpecCP

-----------------------------------------------------------------------------
(* Without the values: the same kernel and CPUs as PCPCpu has them. A request  *)
(* for a variable that exists is a "consulta"; for one that does not, a signal *)
(* of a semaphore that does not exist, which has the same answer; and a text   *)
(* is read up to the line that ends it.                                        *)

LineaVista(l) ==
  IF l.op \notin {"leer", "escribir"} THEN l
  ELSE IF l.nombre \in VariablesCompartidas THEN Linea("consulta", l.nombre)
  ELSE Linea("signal", SinNombre)

\* The lines that end program p, or block it for ever.
QueTerminan(p) == {i \in DOMAIN Codigo[p] : Ultima(LineaVista(Codigo[p][i]))}
Termina(p) == CHOOSE i \in QueTerminan(p) : \A j \in QueTerminan(p) : i <= j
CodigoVisto == [p \in Programas |-> [i \in 1..Termina(p) |-> LineaVista(Codigo[p][i])]]

DeVariable == {"obtenerValorVarCompartida", "asignarValorVarCompartida"}
MensajeVisto(m) ==
  IF m.op \in DeVariable
  THEN IF m.nombre \in VariablesCompartidas
       THEN Mensaje("consulta", m.nombre, m.pid, m.pc)
       ELSE Mensaje("signalKernel", SinNombre, m.pid, m.pc)
  ELSE Mensaje(IF m.op = "valorCompartida" THEN "continuar" ELSE m.op,
               m.nombre, m.pid, m.pc)
CanalVisto(s) == [i \in 1..Len(s) |-> MensajeVisto(s[i])]

HiloVisto(h) ==
  [paso |-> IF h.paso \notin {"obtener", "asignar"} THEN h.paso
            ELSE IF h.msg.nombre \in VariablesCompartidas THEN "consulta"
            ELSE "signalInexistente",
   prog |-> h.prog, msg |-> MensajeVisto(h.msg), leido |-> h.leido, otro |-> h.otro]
CpuVista(x) == [x EXCEPT !.paso = IF @ = "respuestaValor" THEN "respuesta" ELSE @]

HaciaCpuVisto == [c \in CPUs |-> CanalVisto(haciaCpu[c])]
HaciaKernelVisto == [c \in CPUs |-> CanalVisto(haciaKernel[c])]
HilosVistos == [c \in CPUs |-> HiloVisto(hilo[c])]
CpusVistas == [c \in CPUs |-> CpuVista(cpu[c])]

SinValores == INSTANCE PCPCpu WITH
  Codigo <- CodigoVisto,
  haciaCpu <- HaciaCpuVisto,
  haciaKernel <- HaciaKernelVisto,
  hilo <- HilosVistos,
  cpu <- CpusVistas

\* Every step with values is one without: what PCPCpu keeps, kernel and CPUs keep with
\* the shared variables too.
ImplementaPCPCpu == SinValores!Spec

\* For which texts that is, in the terms of ProgramasEnRegla: each has a line that ends
\* it, now that the variables that exist are known.
TextosEnRegla ==
  /\ QuienesSeVan = {} /\ SinNombre \notin Semaforos
  /\ \A p \in Programas :
       /\ Codigo[p] \in Seq([op : Operaciones, nombre : Nombres, fallas : Nat])
       /\ QueTerminan(p) # {}
       /\ \A i \in DOMAIN Codigo[p] : Codigo[p][i].op = "falla" => Codigo[p][i].fallas = 1

-----------------------------------------------------------------------------
(* The texts that update as CadaUnoSuStep says: read, then write, between a    *)
(* wait and a signal of the semaphore that takes care of the variable.         *)

\* After n lines p has read v and has not written it yet; or it has just done so.
TieneLeido(p, v, n) ==
  \E r \in 1..n :
    /\ Codigo[p][r].op = "leer" /\ Codigo[p][r].nombre = v
    /\ \A k \in (r + 1)..n : ~(Codigo[p][k].op = "escribir" /\ Codigo[p][k].nombre = v)
Actualiza(p, v, n) ==
  \/ TieneLeido(p, v, n)
  \/ n > 0 /\ Codigo[p][n].op = "escribir" /\ Codigo[p][n].nombre = v

\* Every update of v is inside a section of s, which it neither enters nor ends in.
Protege(s, v) ==
  \A p \in Programas : \A n \in 1..Termina(p) :
    Actualiza(p, v, n) =>
      /\ EnSeccion(p, s, n) /\ n \notin FinalesCompartidas[p]
      /\ ~(Codigo[p][n].op = "wait" /\ Codigo[p][n].nombre = s)

\* A program writes what it has read plus one, and its only variable is for that.
ActualizacionesEnRegla ==
  /\ \A v \in VariablesCompartidas : \E s \in Exclusivos : Protege(s, v)
  /\ \A p \in Programas :
       /\ \A n \in 1..Termina(p) :
            Codigo[p][n].op = "escribir" /\ Codigo[p][n].nombre \in VariablesCompartidas
              => TieneLeido(p, Codigo[p][n].nombre, n - 1)
       /\ \A i, j \in DOMAIN Codigo[p] :
            Codigo[p][i].op = "leer" /\ Codigo[p][j].op = "leer" =>
              Codigo[p][i].nombre = Codigo[p][j].nombre

=============================================================================
