----------------------------- MODULE LargoPlazo -----------------------------
(***************************************************************************)
(* What the long-term scheduler promises, without threads, lists or        *)
(* semaphores: every program received is either rejected or goes through   *)
(* NEW, its admission and its end, once; admissions are shortest job       *)
(* first and at most Grado programs are admitted at a time.                *)
(***************************************************************************)
EXTENDS Integers, Sequences, FiniteSets

CONSTANTS Programas,   \* pids
          Pesos,       \* weights a program may have
          Grado        \* degree of multiprogramming

VARIABLES etapa,       \* pid -> where the program is in its life
          pesos,       \* the weights, in arrival order
          ocupados     \* places in use

varsLP == <<etapa, pesos, ocupados>>

En(e) == {p \in Programas : etapa[p] = e}

InitLP ==
  /\ etapa = [p \in Programas |-> "afuera"]
  /\ pesos = <<>>
  /\ ocupados = 0

Pasar(p, de, a) ==
  /\ etapa[p] = de
  /\ etapa' = [etapa EXCEPT ![p] = a]

Recibir(p) ==
  /\ Pasar(p, "afuera", "recibido")
  /\ p = Len(pesos) + 1
  /\ pesos' \in {Append(pesos, w) : w \in Pesos}
  /\ UNCHANGED ocupados

\* Programs are looked at in the order they came.
Primero(p) == \A q \in En("recibido") : p <= q

Aceptar(p) ==
  Primero(p) /\ Pasar(p, "recibido", "nuevo") /\ UNCHANGED <<pesos, ocupados>>

Rechazar(p) ==
  Primero(p) /\ Pasar(p, "recibido", "rechazado") /\ UNCHANGED <<pesos, ocupados>>

MasCorto(p) ==
  \A q \in En("nuevo") : \/ pesos[p] < pesos[q]
                         \/ pesos[p] = pesos[q] /\ p <= q

Admitir(p) ==
  /\ Pasar(p, "nuevo", "admitido")
  /\ MasCorto(p)
  /\ ocupados < Grado
  /\ ocupados' = ocupados + 1
  /\ UNCHANGED pesos

Terminar(p) ==
  Pasar(p, "admitido", "saliendo") /\ UNCHANGED <<pesos, ocupados>>

\* The place of a program that ended, whether or not its client knows yet.
Desocupar ==
  /\ ocupados > Cardinality(En("admitido"))
  /\ ocupados' = ocupados - 1
  /\ UNCHANGED <<etapa, pesos>>

Responder(p) ==
  Pasar(p, "saliendo", "terminado") /\ UNCHANGED <<pesos, ocupados>>

NextLP ==
  \/ Desocupar
  \/ \E p \in Programas :
       \/ Recibir(p) \/ Aceptar(p) \/ Rechazar(p)
       \/ Admitir(p) \/ Terminar(p) \/ Responder(p)

SpecLP == InitLP /\ [][NextLP]_varsLP

=============================================================================
