----------------------------- MODULE CortoPlazo -----------------------------
(***************************************************************************)
(* What the short-term scheduler and the CPUs promise, without threads,    *)
(* sockets or PCBs: a program is in one place at a time, READY is a queue, *)
(* its lines are executed one after the other and only while it has a CPU, *)
(* and it ends only at a line that may end a program.                      *)
(***************************************************************************)
EXTENDS Integers, Sequences

CONSTANTS Programas,     \* pids
          Finales        \* pid -> the numbers of the lines that may end it

VARIABLES lugar,         \* pid -> where it is
          listos,        \* READY
          avance         \* pid -> lines executed

varsCP == <<lugar, listos, avance>>

InitCP ==
  /\ lugar = [p \in Programas |-> "afuera"]
  /\ listos = <<>>
  /\ avance = [p \in Programas |-> 0]

\* p goes from one place to another; into READY by its end, out of it by its head.
Mudar(p, de, a) ==
  /\ lugar[p] = de
  /\ lugar' = [lugar EXCEPT ![p] = a]
  /\ IF a = "listo" THEN listos' = Append(listos, p)
     ELSE IF de = "listo" THEN p = Head(listos) /\ listos' = Tail(listos)
     ELSE UNCHANGED listos

Admitir(p) ==
  /\ \A q \in Programas : q < p => lugar[q] # "afuera"
  /\ Mudar(p, "afuera", "listo")
  /\ UNCHANGED avance
Despachar(p) == Mudar(p, "listo", "ejecutando") /\ UNCHANGED avance
Volver(p) == Mudar(p, "ejecutando", "listo") /\ UNCHANGED avance
Bloquear(p) == Mudar(p, "ejecutando", "bloqueado") /\ UNCHANGED avance
Despertar(p) == Mudar(p, "bloqueado", "listo") /\ UNCHANGED avance

\* How far it got is forgotten.
Terminar(p) ==
  /\ avance[p] \in Finales[p]
  /\ Mudar(p, "ejecutando", "fin")
  /\ avance' = [avance EXCEPT ![p] = 0]

Avanzar(p) ==
  /\ lugar[p] = "ejecutando"
  /\ avance' = [avance EXCEPT ![p] = @ + 1]
  /\ UNCHANGED <<lugar, listos>>

NextCP ==
  \E p \in Programas :
    \/ Admitir(p) \/ Despachar(p) \/ Avanzar(p) \/ Volver(p)
    \/ Bloquear(p) \/ Despertar(p) \/ Terminar(p)

SpecCP == InitCP /\ [][NextCP]_varsCP

=============================================================================
