------------------------------ MODULE Llamadas ------------------------------
(***************************************************************************)
(* What AnSISOP programs mean, without a stack of bytes, a dictionary or a  *)
(* scheduler: each call has variables of its own, a line to go back to and, *)
(* if it returns a value, an address that gets it. Variables take five      *)
(* bytes and calls eight or twelve, which is what an address counts.        *)
(***************************************************************************)
EXTENDS Ansisop, FiniteSets, FiniteSetsExt

CONSTANTS Base,        \* address of the first variable's name
          basura,      \* what a variable holds before it is assigned
          Parametros   \* sequence of the names of parameters

VARIABLES programa,    \* [texto, stack]
          marcos,      \* open calls, each [inicio, vars, vuelta, destino]
          pc,          \* next line
          faltan,      \* declarations the line in progress has still to do
          estado       \* "sigue", "fin" or "exception"

varsL == <<programa, marcos, pc, faltan, estado>>

\* Instructions of the text: those before a line of it. A jump goes to the first
\* that follows the label.
Renglon(buscados) == Min({k \in DOMAIN programa.texto : programa.texto[k] \in buscados})
Antes(k) == Cardinality({j \in 1..(k - 1) : programa.texto[j].tipo = "instruccion"})
Destino(etiqueta) == Antes(Renglon({Function(etiqueta), Etiqueta(etiqueta)}))
L == programa.texto[CHOOSE j \in DOMAIN programa.texto :
                      programa.texto[j].tipo = "instruccion" /\ Antes(j) = pc]

\* A call begins at an address, after what it pushed, and may have a destination.
SinDestino == 0
Marco(inicio, vuelta, destino) ==
  [inicio |-> inicio, vars |-> <<>>, vuelta |-> vuelta, destino |-> destino]

InitL ==
  /\ marcos = <<Marco(Base, 0, SinDestino)>> /\ pc = Antes(Renglon({Begin}))
  /\ faltan = <<>> /\ estado = "sigue"

Actual == Len(marcos)
Tope == marcos[Actual].inicio + 5 * Len(marcos[Actual].vars)

\* The address of a variable of a call, and what is at each address.
Direccion(marco, i) == marco.inicio + 5 * (i - 1) + 1
Memoria ==
  LET ms == marcos
      todas == UNION {{<<Direccion(ms[k], i), ms[k].vars[i].valor>> : i \in DOMAIN ms[k].vars} :
                      k \in DOMAIN ms}
      escritas == {x[1] : x \in todas} IN
  [dir \in Base..(Base + programa.stack - 4) |->
     IF dir \in escritas THEN (CHOOSE x \in todas : x[1] = dir)[2] ELSE basura]

\* A name is the first variable of the open call that was declared so.
Posiciones ==
  LET marco == marcos[Actual]
      suyas(n) == {i \in DOMAIN marco.vars : marco.vars[i].nombre = n} IN
  [n \in {marco.vars[i].nombre : i \in DOMAIN marco.vars} |-> Direccion(marco, Min(suyas(n)))]

Valor(e) == Operar(e, Posiciones, Memoria)
EnMarcos(ms, dir, v) ==
  [k \in DOMAIN ms |-> [ms[k] EXCEPT !.vars = [i \in DOMAIN @ |->
     IF Direccion(ms[k], i) = dir THEN [@[i] EXCEPT !.valor = v] ELSE @[i]]]]

\* A call for a value pushes twelve bytes, the others eight.
Empuja == CASE L.op = "llamarSinRetorno" -> 8 [] L.op = "llamarConRetorno" -> 12 [] OTHER -> 0

\* What a line does to <<marcos, pc, faltan, estado>> when there is room.
Efecto ==
  CASE L.op = "variables" ->
         <<marcos, pc + 1,
           [i \in DOMAIN L.nombres |-> Declaracion(L.nombres[i], FALSE, basura)], estado>>
    [] L.op = "asignar" ->
         <<EnMarcos(marcos, Valor(L.donde), Valor(L.valor)), pc + 1, <<>>, estado>>
    [] L.op = "print" -> <<marcos, pc + 1, <<>>, estado>>
    [] L.op \in Saltos ->
         <<marcos, IF Salta(L, Valor(L.valor)) THEN Destino(L.etiqueta) ELSE pc + 1, <<>>, estado>>
    [] L.op \in {"llamarSinRetorno", "llamarConRetorno"} ->
         <<Append(marcos,
             Marco(Tope + Empuja, pc + 1,
                   IF L.op = "llamarConRetorno" THEN Valor(L.donde) ELSE SinDestino)),
           Destino(L.etiqueta),
           [i \in DOMAIN L.args |-> Declaracion(Parametros[i], TRUE, Valor(L.args[i]))],
           estado>>
    [] L.op = "end" ->
         IF Actual = 1 THEN <<marcos, pc + 1, <<>>, "fin">>
         ELSE <<SubSeq(marcos, 1, Actual - 1), marcos[Actual].vuelta, <<>>, estado>>
    [] L.op = "return" ->
         <<EnMarcos(SubSeq(marcos, 1, Actual - 1), marcos[Actual].destino, Valor(L.valor)),
           marcos[Actual].vuelta, <<>>, estado>>

\* The line needs more room than there is, or reads or writes outside the stack.
Excede ==
  \/ Tope + (IF faltan # <<>> THEN 5 ELSE Empuja) > Base + programa.stack
  \/ faltan = <<>> /\ \E e \in Expresiones(L) : Falla(e, Posiciones, Memoria)
  \/ faltan = <<>> /\ L.op = "asignar" /\ Valor(L.donde) \notin DOMAIN Memoria

Ejecutar == ~Excede /\ faltan = <<>> /\ <<marcos, pc, faltan, estado>>' = Efecto

Definir ==
  /\ ~Excede /\ faltan # <<>>
  /\ marcos' = [marcos EXCEPT ![Actual].vars =
       Append(@, [nombre |-> Head(faltan).nombre, valor |-> Head(faltan).valor])]
  /\ faltan' = Tail(faltan)
  /\ UNCHANGED <<pc, estado>>

\* A program that does is ended, and does nothing of what the line or the
\* declaration would do.
Exceder ==
  /\ Excede
  /\ estado' = "exception" /\ marcos' = <<>> /\ pc' = 0 /\ faltan' = <<>>

NextL ==
  /\ estado = "sigue"
  /\ UNCHANGED programa
  /\ Ejecutar \/ Definir \/ Exceder

SpecL == InitL /\ [][NextL]_varsL

=============================================================================
