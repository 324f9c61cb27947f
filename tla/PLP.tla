--------------------------------- MODULE PLP ---------------------------------
(***************************************************************************)
(* The kernel's long-term scheduler (PLP): the accept loop of the main     *)
(* thread, the PLP thread that reserves a program's segments in the UMV    *)
(* and promotes programs to READY (shortest job first, under the degree of *)
(* multiprogramming), and the exit thread that destroys the segments of a  *)
(* finished program and answers its client.                                *)
(*                                                                         *)
(* The short-term scheduler (PCP) appears only as its users see it: it     *)
(* takes programs from READY, gives them back, and CPU connection threads  *)
(* run moverAExit, here step by step because it races with the PLP.        *)
(* The UMV appears as an answer to each request: OK or memory_overload.    *)
(***************************************************************************)
EXTENDS Integers, Sequences, FiniteSets

CONSTANTS
  MaxProgramas,       \* bound on the programs received (pidGeneral is unbounded)
  Metadatos,          \* what metadata_desde_literal may return, as records
                      \* [etiquetas, funciones, instrucciones, segmentos]
  Hilos,              \* the CPU connection threads, which run moverAExit
  MULTIPROGRAMACION   \* the configured degree of multiprogramming

ASSUME ParametrosPLP ==
  /\ MaxProgramas \in Nat
  /\ MULTIPROGRAMACION \in Nat
  /\ IsFiniteSet(Hilos)
  /\ \A m \in Metadatos : /\ m.etiquetas \in Nat
                          /\ m.funciones \in Nat
                          /\ m.instrucciones \in Nat
                          /\ m.segmentos \in 1..4

Programas == 1..MaxProgramas    \* pids, in the order generar_pid gives them
Nadie == 0                      \* NULL

VARIABLES
  metadata,                 \* pid -> the metadata of the program, in arrival order
  lista_de_programas,       \* received, not yet taken by the PLP
  newProcesos,              \* NEW: segments reserved, sorted by weight
  listaReady,               \* READY, shared with the PCP
  enPCP,                    \* programs the PCP holds outside READY (EXEC, BLOCK)
  exitProcesos,             \* EXIT, shared with the PCP
  estado_multiprogramacion, \* free places
  nuevoProgramaSem,         \* posted by an arrival and by an exit
  productorConsumidor,      \* posted once per program put in READY
  semaforoExit,             \* posted once per program put in EXIT
  segmentos,                \* pid -> how many segments the UMV holds for it
  respuesta,                \* pid -> last message the kernel sent before close()
  principal,                \* control of the main thread
  plp,                      \* control of the PLP thread and its program
  hiloExit,                 \* control of the exit thread and its program
  salida,                   \* Hilos -> where each thread is in moverAExit
  saliente                  \* Hilos -> the program it moves

ventanilla == <<metadata, principal>>
mundoPCP == <<listaReady, enPCP, productorConsumidor>>
colaExit == <<exitProcesos, semaforoExit>>
moviendo == <<salida, saliente>>
vars == <<ventanilla, mundoPCP, colaExit, moviendo, lista_de_programas,
          newProcesos, estado_multiprogramacion, nuevoProgramaSem, segmentos,
          respuesta, plp, hiloExit>>

Init ==
  /\ metadata = <<>>
  /\ principal = "poll"
  /\ lista_de_programas = <<>>
  /\ newProcesos = <<>>
  /\ listaReady = <<>>
  /\ enPCP = {}
  /\ exitProcesos = <<>>
  /\ estado_multiprogramacion = MULTIPROGRAMACION
  /\ nuevoProgramaSem = 0
  /\ productorConsumidor = 0
  /\ semaforoExit = 0
  /\ segmentos = [p \in Programas |-> 0]
  /\ respuesta = [p \in Programas |-> "ninguna"]
  /\ plp = [paso |-> "esperar", prog |-> Nadie]
  /\ hiloExit = [paso |-> "esperar", prog |-> Nadie]
  /\ salida = [h \in Hilos |-> "libre"]
  /\ saliente = [h \in Hilos |-> Nadie]

-----------------------------------------------------------------------------
(* Main thread: accept, nuevo_programa, list_add under mutex; then the post. *)

\* The last pid given: generar_pid counts the programs received.
pidGeneral == Len(metadata)

AgregarPrograma ==
  /\ principal = "poll"
  /\ pidGeneral < MaxProgramas
  /\ \E m \in Metadatos : metadata' = Append(metadata, m)
  /\ lista_de_programas' = Append(lista_de_programas, pidGeneral + 1)
  /\ principal' = "postear"
  /\ UNCHANGED <<mundoPCP, colaExit, moviendo, newProcesos, segmentos, plp,
                 estado_multiprogramacion, nuevoProgramaSem, respuesta, hiloExit>>

PostNuevoPrograma ==
  /\ principal = "postear"
  /\ nuevoProgramaSem' = nuevoProgramaSem + 1
  /\ principal' = "poll"
  /\ UNCHANGED <<metadata, mundoPCP, colaExit, moviendo, plp,
                 lista_de_programas, newProcesos, estado_multiprogramacion,
                 segmentos, respuesta, hiloExit>>

-----------------------------------------------------------------------------
(* PLP thread: planificar_programas. *)

PesoDe(m) == 5 * m.etiquetas + 3 * m.funciones + m.instrucciones
calcular_peso(p) == PesoDe(metadata[p])

\* Mutated: strict, so equals are swapped.
ordenadorEstricto(p, q) == calcular_peso(p) < calcular_peso(q)

\* May p stay before q?
ordenador(p, q) == calcular_peso(p) <= calcular_peso(q)

\* s with e after its first k elements.
Insertar(s, k, e) ==
  [i \in 1..(Len(s) + 1) |-> IF i <= k THEN s[i]
                             ELSE IF i = k + 1 THEN e ELSE s[i - 1]]

EsperarPrograma ==
  /\ plp.paso = "esperar"
  /\ nuevoProgramaSem > 0
  /\ nuevoProgramaSem' = nuevoProgramaSem - 1
  /\ plp' = [paso |-> "sacar", prog |-> Nadie]
  /\ UNCHANGED <<ventanilla, mundoPCP, colaExit, moviendo, lista_de_programas,
                 newProcesos, estado_multiprogramacion, segmentos, respuesta,
                 hiloExit>>

\* Mutated: the post of an exit is taken for an arrival and ends the round.
SacarProgramaYSeguir ==
  /\ plp.paso = "sacar"
  /\ \/ /\ lista_de_programas = <<>>
        /\ plp' = [paso |-> "esperar", prog |-> Nadie]
        /\ UNCHANGED lista_de_programas
     \/ /\ lista_de_programas # <<>>
        /\ plp' = [paso |-> "crear", prog |-> Head(lista_de_programas)]
        /\ lista_de_programas' = Tail(lista_de_programas)
  /\ UNCHANGED <<ventanilla, mundoPCP, colaExit, moviendo, newProcesos,
                 estado_multiprogramacion, nuevoProgramaSem, segmentos,
                 respuesta, hiloExit>>

\* list_remove(lista_de_programas, 0): NULL on an empty list, when the post
\* came from an exit.
SacarPrograma ==
  /\ plp.paso = "sacar"
  /\ \/ /\ lista_de_programas = <<>>
        /\ plp' = [paso |-> "promover", prog |-> Nadie]
        /\ UNCHANGED lista_de_programas
     \/ /\ lista_de_programas # <<>>
        /\ plp' = [paso |-> "crear", prog |-> Head(lista_de_programas)]
        /\ lista_de_programas' = Tail(lista_de_programas)
  /\ UNCHANGED <<ventanilla, mundoPCP, colaExit, moviendo, newProcesos,
                 estado_multiprogramacion, nuevoProgramaSem, segmentos,
                 respuesta, hiloExit>>

\* One crearSegmento (and its almacenar) of conectarUMV's loop: the UMV grants
\* it or answers memory_overload. A segment of size 0 is not requested, so a
\* program has metadata.segmentos of them.
CrearSegmento ==
  /\ plp.paso = "crear"
  /\ segmentos[plp.prog] < metadata[plp.prog].segmentos
  /\ \/ segmentos' = [segmentos EXCEPT ![plp.prog] = @ + 1] /\ UNCHANGED plp
     \/ plp' = [plp EXCEPT !.paso = "destruir"] /\ UNCHANGED segmentos
  /\ UNCHANGED <<ventanilla, mundoPCP, colaExit, moviendo, lista_de_programas,
                 newProcesos, estado_multiprogramacion, nuevoProgramaSem,
                 respuesta, hiloExit>>

\* aceptar_programa: list_add and list_sort. The list was sorted, so the new
\* program sinks until the one before it is no heavier: after its equals.
AceptarPrograma ==
  /\ plp.paso = "crear"
  /\ segmentos[plp.prog] = metadata[plp.prog].segmentos
  /\ \E k \in 0..Len(newProcesos) :
       /\ \A i \in 1..k : ordenador(newProcesos[i], plp.prog)
       /\ \A i \in (k + 1)..Len(newProcesos) : ~ordenador(newProcesos[i], plp.prog)
       /\ newProcesos' = Insertar(newProcesos, k, plp.prog)
  /\ plp' = [paso |-> "promover", prog |-> Nadie]
  /\ UNCHANGED <<ventanilla, mundoPCP, colaExit, moviendo, lista_de_programas,
                 estado_multiprogramacion, nuevoProgramaSem, segmentos,
                 respuesta, hiloExit>>

\* Mutated: the segments reserved before the overload stay in the UMV.
DejarRechazado ==
  /\ plp.paso = "destruir"
  /\ plp' = [plp EXCEPT !.paso = "avisar"]
  /\ UNCHANGED <<ventanilla, mundoPCP, colaExit, moviendo, lista_de_programas,
                 newProcesos, estado_multiprogramacion, nuevoProgramaSem,
                 segmentos, respuesta, hiloExit>>

\* rechazar_programa: destruir_segmento, then the message and close().
DestruirRechazado ==
  /\ plp.paso = "destruir"
  /\ segmentos' = [segmentos EXCEPT ![plp.prog] = 0]
  /\ plp' = [plp EXCEPT !.paso = "avisar"]
  /\ UNCHANGED <<ventanilla, mundoPCP, colaExit, moviendo, lista_de_programas,
                 newProcesos, estado_multiprogramacion, nuevoProgramaSem,
                 respuesta, hiloExit>>

AvisarRechazo ==
  /\ plp.paso = "avisar"
  /\ respuesta' = [respuesta EXCEPT ![plp.prog] = "Programa rechazado"]
  /\ plp' = [paso |-> "promover", prog |-> Nadie]
  /\ UNCHANGED <<ventanilla, mundoPCP, colaExit, moviendo, lista_de_programas,
                 newProcesos, estado_multiprogramacion, nuevoProgramaSem,
                 segmentos, hiloExit>>

\* Mutated: the degree of multiprogramming is not looked at.
DecidirSinGrado ==
  /\ plp.paso = "promover"
  /\ plp' = [plp EXCEPT !.paso = IF newProcesos # <<>> THEN "ocupar" ELSE "esperar"]
  /\ UNCHANGED <<ventanilla, mundoPCP, colaExit, moviendo, lista_de_programas,
                 newProcesos, estado_multiprogramacion, nuevoProgramaSem,
                 segmentos, respuesta, hiloExit>>

\* The two tests around ponerEnReadyProgramas, and its decrement. Between the
\* unlocked read of estado_multiprogramacion and the decrement only other
\* threads' increments can happen, so reading and decrementing are two steps.
DecidirPromocion ==
  /\ plp.paso = "promover"
  /\ plp' = [plp EXCEPT !.paso =
               IF newProcesos # <<>> /\ estado_multiprogramacion > 0
               THEN "ocupar" ELSE "esperar"]
  /\ UNCHANGED <<ventanilla, mundoPCP, colaExit, moviendo, lista_de_programas,
                 newProcesos, estado_multiprogramacion, nuevoProgramaSem,
                 segmentos, respuesta, hiloExit>>

OcuparLugar ==
  /\ plp.paso = "ocupar"
  /\ estado_multiprogramacion' = estado_multiprogramacion - 1
  /\ plp' = [plp EXCEPT !.paso = "mover"]
  /\ UNCHANGED <<ventanilla, mundoPCP, colaExit, moviendo, lista_de_programas,
                 newProcesos, nuevoProgramaSem, segmentos, respuesta, hiloExit>>

\* Under mutexReady: the head of NEW goes to the end of READY.
MoverAReady ==
  /\ plp.paso = "mover"
  /\ listaReady' = Append(listaReady, Head(newProcesos))
  /\ newProcesos' = Tail(newProcesos)
  /\ plp' = [plp EXCEPT !.paso = "postear"]
  /\ UNCHANGED <<ventanilla, enPCP, productorConsumidor, colaExit, moviendo,
                 lista_de_programas, estado_multiprogramacion,
                 nuevoProgramaSem, segmentos, respuesta, hiloExit>>

PostReady ==
  /\ plp.paso = "postear"
  /\ productorConsumidor' = productorConsumidor + 1
  /\ plp' = [plp EXCEPT !.paso = "esperar"]
  /\ UNCHANGED <<ventanilla, listaReady, enPCP, colaExit, moviendo,
                 lista_de_programas, newProcesos, estado_multiprogramacion,
                 nuevoProgramaSem, segmentos, respuesta, hiloExit>>

-----------------------------------------------------------------------------
(* Exit thread: terminarPrograma. *)

EsperarSalida ==
  /\ hiloExit.paso = "esperar"
  /\ semaforoExit > 0
  /\ semaforoExit' = semaforoExit - 1
  /\ hiloExit' = [hiloExit EXCEPT !.paso = "sacar"]
  /\ UNCHANGED <<ventanilla, mundoPCP, exitProcesos, moviendo, newProcesos,
                 lista_de_programas, estado_multiprogramacion,
                 nuevoProgramaSem, segmentos, respuesta, plp>>

\* On an empty list the code dereferences NULL; ExitConPrograma says it never
\* gets there with one.
SacarDeExit ==
  /\ hiloExit.paso = "sacar"
  /\ exitProcesos # <<>>
  /\ hiloExit' = [paso |-> "destruir", prog |-> Head(exitProcesos)]
  /\ exitProcesos' = Tail(exitProcesos)
  /\ UNCHANGED <<ventanilla, mundoPCP, semaforoExit, moviendo, newProcesos,
                 lista_de_programas, estado_multiprogramacion,
                 nuevoProgramaSem, segmentos, respuesta, plp>>

DestruirSegmentos ==
  /\ hiloExit.paso = "destruir"
  /\ segmentos' = [segmentos EXCEPT ![hiloExit.prog] = 0]
  /\ hiloExit' = [hiloExit EXCEPT !.paso = "avisar"]
  /\ UNCHANGED <<ventanilla, mundoPCP, colaExit, moviendo, newProcesos,
                 lista_de_programas, estado_multiprogramacion,
                 nuevoProgramaSem, respuesta, plp>>

AvisarFin ==
  /\ hiloExit.paso = "avisar"
  /\ respuesta' = [respuesta EXCEPT ![hiloExit.prog] = "Termino la ejecucion"]
  /\ hiloExit' = [paso |-> "esperar", prog |-> Nadie]
  /\ UNCHANGED <<ventanilla, mundoPCP, colaExit, moviendo, newProcesos,
                 lista_de_programas, estado_multiprogramacion,
                 nuevoProgramaSem, segmentos, plp>>

-----------------------------------------------------------------------------
(* The PCP: programs leave READY and come back, one post per program put in. *)

TomarDeReady ==
  /\ productorConsumidor > 0
  /\ listaReady # <<>>
  /\ productorConsumidor' = productorConsumidor - 1
  /\ enPCP' = enPCP \cup {Head(listaReady)}
  /\ listaReady' = Tail(listaReady)
  /\ UNCHANGED <<ventanilla, colaExit, moviendo, newProcesos, plp, hiloExit,
                 lista_de_programas, estado_multiprogramacion,
                 nuevoProgramaSem, segmentos, respuesta>>

VolverAReady(p) ==
  /\ p \in enPCP
  /\ enPCP' = enPCP \ {p}
  /\ listaReady' = Append(listaReady, p)
  /\ productorConsumidor' = productorConsumidor + 1
  /\ UNCHANGED <<ventanilla, colaExit, moviendo, newProcesos, plp, hiloExit,
                 lista_de_programas, estado_multiprogramacion,
                 nuevoProgramaSem, segmentos, respuesta>>

(* moverAExit, run by CPU connection thread h for a program in EXEC. *)

SacarDeExec(h, p) ==
  /\ salida[h] = "libre"
  /\ p \in enPCP
  /\ enPCP' = enPCP \ {p}
  /\ salida' = [salida EXCEPT ![h] = "agregar"]
  /\ saliente' = [saliente EXCEPT ![h] = p]
  /\ UNCHANGED <<ventanilla, listaReady, productorConsumidor, colaExit,
                 newProcesos, plp, hiloExit, lista_de_programas,
                 estado_multiprogramacion, nuevoProgramaSem, segmentos,
                 respuesta>>

AgregarAExit(h) ==
  /\ salida[h] = "agregar"
  /\ exitProcesos' = Append(exitProcesos, saliente[h])
  /\ salida' = [salida EXCEPT ![h] = "sumar"]
  /\ saliente' = [saliente EXCEPT ![h] = Nadie]
  /\ UNCHANGED <<ventanilla, mundoPCP, semaforoExit, newProcesos, plp, hiloExit,
                 lista_de_programas, estado_multiprogramacion,
                 nuevoProgramaSem, segmentos, respuesta>>

\* Mutated: the place of a program that ended is not given back.
OlvidarLugar(h) ==
  /\ salida[h] = "sumar"
  /\ salida' = [salida EXCEPT ![h] = "postExit"]
  /\ UNCHANGED <<ventanilla, mundoPCP, colaExit, saliente, newProcesos, plp,
                 hiloExit, lista_de_programas, estado_multiprogramacion,
                 nuevoProgramaSem, segmentos, respuesta>>

LiberarLugar(h) ==
  /\ salida[h] = "sumar"
  /\ estado_multiprogramacion' = estado_multiprogramacion + 1
  /\ salida' = [salida EXCEPT ![h] = "postExit"]
  /\ UNCHANGED <<ventanilla, mundoPCP, colaExit, saliente, newProcesos, plp,
                 hiloExit, lista_de_programas, nuevoProgramaSem, segmentos,
                 respuesta>>

\* Mutated: posts twice.
PostExitDoble(h) ==
  /\ salida[h] = "postExit"
  /\ semaforoExit' = semaforoExit + 2
  /\ salida' = [salida EXCEPT ![h] = "postNuevo"]
  /\ UNCHANGED <<ventanilla, mundoPCP, exitProcesos, saliente, newProcesos, plp,
                 hiloExit, lista_de_programas, estado_multiprogramacion,
                 nuevoProgramaSem, segmentos, respuesta>>

PostExit(h) ==
  /\ salida[h] = "postExit"
  /\ semaforoExit' = semaforoExit + 1
  /\ salida' = [salida EXCEPT ![h] = "postNuevo"]
  /\ UNCHANGED <<ventanilla, mundoPCP, exitProcesos, saliente, newProcesos, plp,
                 hiloExit, lista_de_programas, estado_multiprogramacion,
                 nuevoProgramaSem, segmentos, respuesta>>

\* Mutated: the PLP is not told of the place.
CallarLugar(h) ==
  /\ salida[h] = "postNuevo"
  /\ salida' = [salida EXCEPT ![h] = "libre"]
  /\ UNCHANGED <<ventanilla, mundoPCP, colaExit, saliente, newProcesos, plp,
                 hiloExit, lista_de_programas, estado_multiprogramacion,
                 nuevoProgramaSem, segmentos, respuesta>>

PostLugar(h) ==
  /\ salida[h] = "postNuevo"
  /\ nuevoProgramaSem' = nuevoProgramaSem + 1
  /\ salida' = [salida EXCEPT ![h] = "libre"]
  /\ UNCHANGED <<ventanilla, mundoPCP, colaExit, saliente, newProcesos, plp,
                 hiloExit, lista_de_programas, estado_multiprogramacion,
                 segmentos, respuesta>>

-----------------------------------------------------------------------------
planificar_programas ==
  \/ EsperarPrograma \/ SacarPrograma \/ CrearSegmento \/ AceptarPrograma
  \/ DestruirRechazado \/ AvisarRechazo \/ DecidirPromocion \/ OcuparLugar
  \/ MoverAReady \/ PostReady

terminarPrograma ==
  EsperarSalida \/ SacarDeExit \/ DestruirSegmentos \/ AvisarFin

moverAExit(h) ==
  \/ \E p \in Programas : SacarDeExec(h, p)
  \/ AgregarAExit(h) \/ LiberarLugar(h) \/ PostExit(h) \/ PostLugar(h)

Next ==
  \/ AgregarPrograma \/ PostNuevoPrograma
  \/ planificar_programas
  \/ terminarPrograma
  \/ TomarDeReady
  \/ \E p \in Programas : VolverAReady(p)
  \/ \E h \in Hilos : moverAExit(h)

Spec == Init /\ [][Next]_vars

\* Every thread of the kernel keeps running; a post that was started is made.
\* Of the PCP: READY is served, and a program that runs over and over ends (the
\* property is about programs that end: the code imposes no limit).
Equidad ==
  /\ WF_vars(PostNuevoPrograma)
  /\ WF_vars(planificar_programas)
  /\ WF_vars(terminarPrograma)
  /\ WF_vars(TomarDeReady)
  /\ \A p \in Programas : SF_vars(\E h \in Hilos : SacarDeExec(h, p))
  /\ \A h \in Hilos :
       WF_vars(AgregarAExit(h) \/ LiberarLugar(h) \/ PostExit(h) \/ PostLugar(h))

SpecJusta == Spec /\ Equidad

-----------------------------------------------------------------------------
(* Properties *)

PasosPLP == {"esperar", "sacar", "crear", "destruir", "avisar", "promover",
             "ocupar", "mover", "postear"}
PasosConPrograma == {"crear", "destruir", "avisar"}
PasosSalida == {"libre", "agregar", "sumar", "postExit", "postNuevo"}
Respuestas == {"ninguna", "Programa rechazado", "Termino la ejecucion"}

TiposColas ==
  /\ metadata \in Seq(Metadatos)
  /\ pidGeneral <= MaxProgramas
  /\ lista_de_programas \in Seq(1..pidGeneral)
  /\ newProcesos \in Seq(1..pidGeneral)
  /\ listaReady \in Seq(1..pidGeneral)
  /\ enPCP \in SUBSET (1..pidGeneral)
  /\ exitProcesos \in Seq(1..pidGeneral)

TiposContadores ==
  /\ estado_multiprogramacion \in Nat
  /\ nuevoProgramaSem \in Nat
  /\ productorConsumidor \in Nat
  /\ semaforoExit \in Nat

TiposUMV ==
  /\ segmentos \in [Programas -> 0..4]
  /\ respuesta \in [Programas -> Respuestas]

TiposPLP ==
  /\ principal \in {"poll", "postear"}
  /\ plp \in [paso : PasosPLP, prog : 0..pidGeneral]
  /\ plp.paso \in PasosConPrograma => plp.prog # Nadie

TiposSalida ==
  /\ hiloExit \in [paso : {"esperar", "sacar", "destruir", "avisar"},
                   prog : 0..pidGeneral]
  /\ hiloExit.paso \in {"destruir", "avisar"} => hiloExit.prog # Nadie
  /\ salida \in [Hilos -> PasosSalida]
  /\ saliente \in [Hilos -> 0..pidGeneral]
  /\ \A h \in Hilos : salida[h] = "agregar" => saliente[h] # Nadie

\* Every variable holds what the C declaration says: semaphores and the degree
\* never below zero, queues of pids, a thread with a program where it uses one.
TypeOK == TiposColas /\ TiposContadores /\ TiposUMV /\ TiposPLP /\ TiposSalida

Cuenta(S) == Cardinality({h \in Hilos : salida[h] \in S})
Uno(b) == IF b THEN 1 ELSE 0
Menor(a, b) == IF a <= b THEN a ELSE b

\* The places that are free and those in use add up to MULTIPROGRAMACION at
\* every instant, counting the one the PLP has taken for a program it has not
\* moved yet and those moverAExit has not given back: no place is ever lost
\* or handed out twice, whatever the PLP and the CPU threads interleave.
GradoConservado ==
  estado_multiprogramacion + Uno(plp.paso = "mover") + Len(listaReady)
    + Cardinality(enPCP) + Cuenta({"agregar", "sumar"}) = MULTIPROGRAMACION

\* The posts of nuevoProgramaSem that are owed: the main thread's, after its
\* list_add, and moverAExit's, after its increment.
PostsEnCamino == Uno(principal = "postear") + Cuenta({"postExit", "postNuevo"})

\* The one semaphore that wakes the PLP for an arrival and for a freed place
\* loses neither: when the PLP sleeps and no post is on its way, nothing it
\* should have done is left, neither a program to admit nor one to promote.
SinPromocionPerdida ==
  plp.paso = "esperar" /\ nuevoProgramaSem = 0 /\ PostsEnCamino = 0 =>
    /\ lista_de_programas = <<>>
    /\ newProcesos = <<>> \/ estado_multiprogramacion = 0

\* terminarPrograma never removes from an empty exitProcesos (it would
\* dereference NULL): semaforoExit counts the programs in EXIT.
ExitConPrograma ==
  hiloExit.paso = "sacar" => exitProcesos # <<>>

EnCola(s) == {s[i] : i \in 1..Len(s)}
\* The programs that hold, or wait for, a place.
Aceptados == EnCola(newProcesos) \cup EnCola(listaReady) \cup enPCP

\* A program in NEW, READY or running has every segment it needs, and one that
\* was answered (rejected or finished) has none left in the UMV and is in no
\* queue: a reservation that fails half way is undone before the answer.
SegmentosEnRegla ==
  /\ \A p \in Aceptados : segmentos[p] = metadata[p].segmentos
  /\ \A p \in Programas : respuesta[p] # "ninguna" =>
       segmentos[p] = 0 /\ p \notin Aceptados \cup EnCola(exitProcesos)

\* Every program received is answered in the end, although admission and
\* promotion depend on posts of other threads.
TodosRespondidos ==
  \A p \in Programas : (p <= pidGeneral) ~> (respuesta[p] # "ninguna")

-----------------------------------------------------------------------------
(* Refinement: the threads implement LargoPlazo. *)

\* Where a program is in its life. It counts as admitted from the moment its
\* place is taken, before it leaves NEW, until it enters EXIT.
Etapa(p) ==
  CASE p > pidGeneral -> "afuera"
    [] respuesta[p] = "Programa rechazado" -> "rechazado"
    [] respuesta[p] = "Termino la ejecucion" -> "terminado"
    [] p \in EnCola(lista_de_programas) -> "recibido"
    [] plp.paso \in PasosConPrograma /\ plp.prog = p -> "recibido"
    [] p \in EnCola(newProcesos) /\ ~(plp.paso = "mover" /\ p = Head(newProcesos)) ->
         "nuevo"
    [] p \in EnCola(exitProcesos) -> "saliendo"
    [] hiloExit.prog = p -> "saliendo"
    [] OTHER -> "admitido"

Abstracto == INSTANCE LargoPlazo WITH
  Pesos <- {PesoDe(m) : m \in Metadatos},
  Grado <- MULTIPROGRAMACION,
  etapa <- [p \in Programas |-> Etapa(p)],
  pesos <- [p \in 1..pidGeneral |-> calcular_peso(p)],
  ocupados <- MULTIPROGRAMACION - estado_multiprogramacion

\* Every step of the kernel's threads is a step of the abstract scheduler or
\* changes nothing it sees: a program is never lost, duplicated, skipped over
\* by a heavier or later one, or admitted beyond the degree.
ImplementaLargoPlazo == Abstracto!SpecLP

-----------------------------------------------------------------------------
(* The inductive invariant behind TypeOK, GradoConservado,                 *)
(* SinPromocionPerdida and ExitConPrograma.                                *)

\* The PLP promotes only from a NEW list that has a program, into a free place.
PromocionPosible ==
  /\ plp.paso \in {"ocupar", "mover"} => newProcesos # <<>>
  /\ plp.paso = "ocupar" => estado_multiprogramacion > 0

\* The PLP takes programs in the order of their pids, so the ones it has taken
\* are those up to Tomados and everything beyond is still in the list.
Tomados == pidGeneral - Len(lista_de_programas)

Pasado(p) ==
  p <= Tomados /\ (plp.paso \in PasosConPrograma => p < Tomados)

EnOrdenDeLlegada ==
  /\ \A i \in 1..Len(lista_de_programas) : lista_de_programas[i] = Tomados + i
  /\ plp.paso \in PasosConPrograma => plp.prog = Tomados
  /\ \A i \in 1..Len(newProcesos) : Pasado(newProcesos[i])
  /\ \A i \in 1..Len(listaReady) : Pasado(listaReady[i])
  /\ \A p \in enPCP : Pasado(p)

\* No program is twice in NEW, READY and the rest of the PCP.
UnSoloLugar ==
  /\ \A i, j \in 1..Len(newProcesos) : newProcesos[i] = newProcesos[j] => i = j
  /\ \A i, j \in 1..Len(listaReady) : listaReady[i] = listaReady[j] => i = j
  /\ \A i \in 1..Len(newProcesos) :
       /\ newProcesos[i] \notin enPCP
       /\ \A j \in 1..Len(listaReady) : newProcesos[i] # listaReady[j]
  /\ \A i \in 1..Len(listaReady) : listaReady[i] \notin enPCP

\* Every program to take has a post, made or owed; and so has every promotion
\* that the programs in NEW and the free places allow. The round the PLP is in
\* counts as one while it has not decided about a promotion.
PostsAlcanzan ==
  LET posts == nuevoProgramaSem + PostsEnCamino
  IN  /\ posts + Uno(plp.paso = "sacar") >= Len(lista_de_programas)
      /\ posts + Uno(plp.paso \in {"sacar", "promover", "ocupar"})
           >= Len(lista_de_programas)
              + Menor(Len(newProcesos) - Uno(plp.paso = "mover"),
                      estado_multiprogramacion)

\* One post of semaforoExit, made, owed or being served, per program in EXIT.
ExitContado ==
  semaforoExit + Uno(hiloExit.paso = "sacar") + Cuenta({"sumar", "postExit"})
    = Len(exitProcesos)

InvPLP ==
  /\ TypeOK
  /\ PromocionPosible
  /\ EnOrdenDeLlegada
  /\ UnSoloLugar
  /\ GradoConservado
  /\ PostsAlcanzan
  /\ ExitContado

=============================================================================
