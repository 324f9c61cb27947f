------------------------------ MODULE PilaCpu ------------------------------
(***************************************************************************)
(* The CPU's AnSISOP primitives on a program's stack: variables of five     *)
(* bytes (a name and a value), calls that push where the caller's context   *)
(* begins, the line to go back to and the address for the result, and the  *)
(* dictionary of variables, which is rebuilt from the stack after a call    *)
(* ends and each time a CPU gets the PCB. Only this CPU uses the segment,   *)
(* so a primitive, with its request to the UMV and the answer, is a step.   *)
(*                                                                         *)
(* A program may lose its CPU between any two lines. In the programs, a     *)
(* routine that is called for a value ends with return and the others with *)
(* end, and a routine only names what it has declared.                      *)
(***************************************************************************)
EXTENDS Ansisop, FiniteSets

CONSTANTS
  segmentoStack,  \* logical address of the stack
  ANCHO,          \* bits of an u_int32_t, fewer here
  Parametros,     \* sequence of the names of parameters: '0', '1', ...
  basura,         \* what follows the name in the memory it is copied from
  Programas       \* programs: [texto, stack], stack in bytes

Modulo == 2^ANCHO

ASSUME ParametrosPila ==
  /\ segmentoStack \in Nat /\ segmentoStack > 12
  /\ \A p \in Programas : segmentoStack + p.stack + 12 < Modulo /\ Len(p.texto) < 128

VARIABLES
  programa,    \* the one that runs: [texto, stack, metadata]
  cpu,         \* the PCB in use, the globals of the CPU and the stack:
               \* [cursorStack, tamanioContexto, programCounter, inicioContexto,
               \*  diccionario, estadoRafaga, pila]
  faltan,      \* declarations the line being executed has still to do
  abiertas,    \* what the text says of each open call: is it for a value?
  afuera       \* the PCB is not in a CPU

vars == <<programa, cpu, faltan, abiertas, afuera>>

-----------------------------------------------------------------------------
(* The stack and the UMV's answers. *)

\* A byte: the k-th of a value; a name has one byte, the 0-th.
Byte(v, k) == [de |-> v, k |-> k]
Entero(v) == [k \in 1..4 |-> Byte(v, k)]
Nombre(n) == <<Byte(n, 0)>>

\* Mutated: the test lets the byte after the segment in.
AceptaUnoMas(off, tam) == (off + tam) % Modulo <= programa.stack + 1

\* Offset of an address, in 32 bits; the UMV's bounds test.
Desde(dir) == (dir - segmentoStack) % Modulo
Acepta(off, tam) == (off + tam) % Modulo <= programa.stack

Leer(c, off, tam) ==
  [k \in 1..tam |-> IF off + k - 1 \in DOMAIN c.pila THEN c.pila[off + k - 1]
                    ELSE Byte(basura, 0)]
Escribir(c, off, bytes) ==
  [c EXCEPT !.pila = [d \in DOMAIN @ |->
     IF d \in off..(off + Len(bytes) - 1) THEN bytes[d - off + 1] ELSE @[d]]]

\* The value four bytes make, if they are of one.
Valor(bytes) ==
  IF \A k \in 1..4 : bytes[k] = Byte(bytes[1].de, k) THEN bytes[1].de ELSE basura

excepcionSolicitud(c) == [c EXCEPT !.estadoRafaga = "exception"]

-----------------------------------------------------------------------------
(* The primitives, as functions of the CPU's state. *)

InicioDe(c) == c.cursorStack - 5 * c.tamanioContexto

\* Mutated: of two variables of a name, the dictionary keeps the last.
LaUltima(nombres, n) ==
  CHOOSE i \in 1..Len(nombres) :
    nombres[i] = n /\ \A j \in (i + 1)..Len(nombres) : nombres[j] # n

\* dictionary_put adds at the end of the chain and dictionary_get takes the first:
\* of two variables of a name, a context has the first.
LaPrimera(nombres, n) ==
  CHOOSE i \in 1..Len(nombres) : nombres[i] = n /\ \A j \in 1..(i - 1) : nombres[j] # n

\* Position of each variable of a context.
Posiciones(nombres, inicio) ==
  [n \in {nombres[i] : i \in 1..Len(nombres)} |->
     inicio + 5 * (LaPrimera(nombres, n) - 1) + 1]

actualizarContexto(c) ==
  LET tam == (c.cursorStack - c.inicioContexto) \div 5
      off == Desde(c.inicioContexto)
      nuevo == [c EXCEPT !.tamanioContexto = tam, !.diccionario = <<>>] IN
  IF Acepta(off, 5 * tam)
  THEN [nuevo EXCEPT !.diccionario =
          Posiciones([i \in 1..tam |-> c.pila[off + 5 * (i - 1)].de], c.inicioContexto)]
  ELSE excepcionSolicitud(nuevo)

definirVariable(c, n) ==
  LET off == Desde(c.cursorStack) IN
  IF Acepta(off, 5)
  THEN [Escribir(c, off, Nombre(n) \o Entero(basura)) EXCEPT
          !.diccionario = @ @@ (n :> c.cursorStack + 1),
          !.tamanioContexto = @ + 1, !.cursorStack = @ + 5]
  ELSE excepcionSolicitud(c)

\* What it returns: the position, or 0.
Definida(c) == IF Acepta(Desde(c.cursorStack), 5) THEN c.cursorStack + 1 ELSE 0

\* dereferenciar, at every address the UMV accepts.
Accesibles == {dir \in 0..(Modulo - 1) : Acepta(Desde(dir), 4)}
Contenido(c) == [dir \in Accesibles |-> Valor(Leer(c, Desde(dir), 4))]

\* _operar: obtenerPosicionVariable reads the dictionary.
Evaluar(e) == Operar(e, cpu.diccionario, Contenido(cpu))

asignar(c, dir, v) ==
  IF Acepta(Desde(dir), 4) THEN Escribir(c, Desde(dir), Entero(v))
  ELSE excepcionSolicitud(c)

irAlLabel(etiqueta) == metadata_buscar_etiqueta(etiqueta, programa.metadata.etiquetas)

\* llamarSinRetorno and llamarConRetorno: the dictionary and the size of the
\* context are cleared before the UMV has answered.
Llamar(c, etiqueta, registro) ==
  LET off == Desde(c.cursorStack)
      limpio == [c EXCEPT !.diccionario = <<>>, !.tamanioContexto = 0] IN
  IF Acepta(off, Len(registro))
  THEN [Escribir(limpio, off, registro) EXCEPT
          !.programCounter = irAlLabel(etiqueta), !.cursorStack = @ + Len(registro)]
  ELSE excepcionSolicitud(limpio)

llamarSinRetorno(c, etiqueta) ==
  Llamar(c, etiqueta, Entero(InicioDe(c)) \o Entero(c.programCounter))

\* Mutated: the beginning of the context is computed after its size is cleared.
llamarConTamanioCero(c, etiqueta, donde) ==
  Llamar(c, etiqueta, Entero(c.cursorStack) \o Entero(c.programCounter) \o Entero(donde))

llamarConRetorno(c, etiqueta, donde) ==
  Llamar(c, etiqueta, Entero(InicioDe(c)) \o Entero(c.programCounter) \o Entero(donde))

\* What finalizar and retornar do with the bytes they read: the context, the
\* line and the top of the stack of the caller.
Volver(c, bytes) ==
  [c EXCEPT !.inicioContexto = Valor(SubSeq(bytes, 1, 4)),
            !.programCounter = Valor(SubSeq(bytes, 5, 8)),
            !.cursorStack = InicioDe(c) - Len(bytes)]

finalizar(c) ==
  LET off == Desde(InicioDe(c) - 8) IN
  IF InicioDe(c) = segmentoStack
  THEN [c EXCEPT !.estadoRafaga = "notificarPorFinPrograma"]
  ELSE IF Acepta(off, 8) THEN actualizarContexto(Volver(c, Leer(c, off, 8)))
  ELSE excepcionSolicitud(c)

retornar(c, v) ==
  LET off == Desde(InicioDe(c) - 12)
      bytes == Leer(c, off, 12)
      vuelto == actualizarContexto(
                  asignar(Volver(c, bytes), Valor(SubSeq(bytes, 9, 12)), v)) IN
  IF ~Acepta(off, 12) THEN excepcionSolicitud(c)
  ELSE IF vuelto.cursorStack = segmentoStack
  THEN [vuelto EXCEPT !.estadoRafaga = "notificarPorFinPrograma"]
  ELSE vuelto

-----------------------------------------------------------------------------
(* The burst: analizadorLinea, line by line. *)

L == programa.metadata.instrucciones[cpu.programCounter + 1]

\* ejecutarRafaga starts a line: the program counter moves first, and an access
\* of its expressions that the UMV rejects is notified before the line goes on.
EmpiezaLinea(op) ==
  /\ ~afuera
  /\ cpu.estadoRafaga = "notificarPorFinRafaga"
  /\ faltan = <<>>
  /\ L.op \in op
EnLinea ==
  LET rechazada == \E e \in Expresiones(L) : Falla(e, cpu.diccionario, Contenido(cpu)) IN
  [cpu EXCEPT !.programCounter = @ + 1,
              !.estadoRafaga = IF rechazada THEN "exception" ELSE @]

\* variables a, b
DefinirVariables ==
  /\ EmpiezaLinea({"variables"})
  /\ faltan' = [i \in DOMAIN L.nombres |-> Declaracion(L.nombres[i], FALSE, basura)]
  /\ cpu' = EnLinea
  /\ UNCHANGED <<programa, abiertas, afuera>>

\* One declaration of a line, or one parameter of a call, which is assigned
\* wherever definirVariable says. After an exception the line goes on.
Definir ==
  /\ faltan # <<>>
  /\ LET decl == Head(faltan)
         definida == definirVariable(cpu, decl.nombre) IN
     cpu' = IF decl.conValor THEN asignar(definida, Definida(cpu), decl.valor)
            ELSE definida
  /\ faltan' = Tail(faltan)
  /\ UNCHANGED <<programa, abiertas, afuera>>

\* x = e, *e = f
Asignacion ==
  /\ EmpiezaLinea({"asignar"})
  /\ cpu' = asignar(EnLinea, Evaluar(L.donde), Evaluar(L.valor))
  /\ UNCHANGED <<programa, faltan, abiertas, afuera>>

Impresion ==
  /\ EmpiezaLinea({"print"})
  /\ cpu' = EnLinea
  /\ UNCHANGED <<programa, faltan, abiertas, afuera>>

\* _llamadaFuncion: the parameters are evaluated before the call and defined
\* after it.
ConParametros ==
  [i \in DOMAIN L.args |-> Declaracion(Parametros[i], TRUE, Evaluar(L.args[i]))]

LlamadaSinRetorno ==
  /\ EmpiezaLinea({"llamarSinRetorno"})
  /\ cpu' = llamarSinRetorno(EnLinea, L.etiqueta)
  /\ faltan' = ConParametros
  /\ abiertas' = Append(abiertas, FALSE)
  /\ UNCHANGED <<programa, afuera>>

LlamadaConRetorno ==
  /\ EmpiezaLinea({"llamarConRetorno"})
  /\ cpu' = llamarConRetorno(EnLinea, L.etiqueta, Evaluar(L.donde))
  /\ faltan' = ConParametros
  /\ abiertas' = Append(abiertas, TRUE)
  /\ UNCHANGED <<programa, afuera>>

Cierra == IF abiertas = <<>> THEN <<>> ELSE SubSeq(abiertas, 1, Len(abiertas) - 1)

Fin ==
  /\ EmpiezaLinea({"end"})
  /\ cpu' = finalizar(EnLinea)
  /\ abiertas' = Cierra
  /\ UNCHANGED <<programa, faltan, afuera>>

Retorno ==
  /\ EmpiezaLinea({"return"})
  /\ cpu' = retornar(EnLinea, Evaluar(L.valor))
  /\ abiertas' = Cierra
  /\ UNCHANGED <<programa, faltan, afuera>>

\* goto and _saltoCondicional.
Salto ==
  /\ EmpiezaLinea(Saltos)
  /\ cpu' = IF Salta(L, Evaluar(L.valor))
            THEN [EnLinea EXCEPT !.programCounter = irAlLabel(L.etiqueta)] ELSE EnLinea
  /\ UNCHANGED <<programa, faltan, abiertas, afuera>>

\* The quantum ends, or the program blocks: the PCB goes to the kernel. The
\* globals of the CPU that gets it next are as its last program left them.
Desalojar ==
  /\ ~afuera
  /\ cpu.estadoRafaga = "notificarPorFinRafaga"
  /\ faltan = <<>>
  /\ cpu' = [cpu EXCEPT !.inicioContexto = segmentoStack + programa.stack,
                        !.diccionario = [n \in DOMAIN @ |-> segmentoStack]]
  /\ afuera' = TRUE
  /\ UNCHANGED <<programa, faltan, abiertas>>

Reconstruido(c) == actualizarContexto([c EXCEPT !.inicioContexto = InicioDe(c)])

\* recibirPcb, the start of the loop of main, and the reset of estadoRafaga.
RecibirPcb ==
  /\ afuera
  /\ LET recibido == IF cpu.tamanioContexto > 0 THEN Reconstruido(cpu) ELSE cpu IN
     cpu' = [Reconstruido(recibido) EXCEPT !.estadoRafaga = "notificarPorFinRafaga"]
  /\ afuera' = FALSE
  /\ UNCHANGED <<programa, faltan, abiertas>>

Init ==
  /\ programa \in {p @@ [metadata |-> metadata_desde_literal(p.texto)] : p \in Programas}
  /\ cpu = [cursorStack |-> segmentoStack, tamanioContexto |-> 0,
            programCounter |-> programa.metadata.instruccion_inicio, inicioContexto |-> 0,
            diccionario |-> <<>>, estadoRafaga |-> "notificarPorFinRafaga",
            pila |-> [d \in 0..(programa.stack - 1) |-> Byte(basura, 0)]]
  /\ faltan = <<>> /\ abiertas = <<>> /\ afuera = TRUE

Next ==
  \/ DefinirVariables \/ Definir \/ Asignacion \/ Impresion
  \/ LlamadaSinRetorno \/ LlamadaConRetorno \/ Fin \/ Retorno \/ Salto
  \/ Desalojar \/ RecibirPcb

Spec == Init /\ [][Next]_vars

-----------------------------------------------------------------------------
(* Properties. *)

Viva == cpu.estadoRafaga = "notificarPorFinRafaga"

\* The PCB's numbers are those of a context that lies within the stack.
TypeOK ==
  /\ cpu.estadoRafaga \in {"notificarPorFinRafaga", "notificarPorFinPrograma", "exception"}
  /\ cpu.tamanioContexto \in Nat
  /\ cpu.programCounter \in 0..Len(programa.metadata.instrucciones)
  /\ InicioDe(cpu) >= segmentoStack
  /\ cpu.cursorStack <= segmentoStack + programa.stack

\* Between two lines the dictionary is what a CPU would rebuild from the PCB and
\* the stack: losing the CPU at that point does not move any variable.
DiccionarioAlDia ==
  Viva /\ ~afuera /\ faltan = <<>> =>
    Reconstruido(cpu).diccionario = cpu.diccionario

-----------------------------------------------------------------------------
(* The calls that the stack encodes, from the last one down. *)

Llamados == Len(abiertas)
AnchoDe(k) == IF abiertas[k - 1] THEN 12 ELSE 8
EnPila[dir \in segmentoStack..(segmentoStack + programa.stack - 4)] ==
  Valor(Leer(cpu, Desde(dir), 4))

\* Where the context of each call begins; call 1 is the main program.
InicioMarco ==
  LET inicio[k \in 1..(Llamados + 1)] ==
        IF k = Llamados + 1 THEN InicioDe(cpu)
        ELSE EnPila[inicio[k + 1] - AnchoDe(k + 1)]
  IN inicio
FinMarco(k) ==
  IF k = Llamados + 1 THEN cpu.cursorStack ELSE InicioMarco[k + 1] - AnchoDe(k + 1)

MarcoDe(k) ==
  LET desde == InicioMarco[k] IN
  [inicio |-> desde,
   vars |-> [j \in 1..((FinMarco(k) - desde) \div 5) |->
               [nombre |-> cpu.pila[Desde(desde) + 5 * (j - 1)].de,
                valor |-> EnPila[desde + 5 * (j - 1) + 1]]],
   vuelta |-> IF k = 1 THEN 0 ELSE EnPila[FinMarco(k - 1) + 4],
   destino |-> IF k = 1 \/ AnchoDe(k) = 8 THEN 0
               ELSE EnPila[FinMarco(k - 1) + 8]]

Si(viva, nada) == IF cpu.estadoRafaga = "exception" THEN nada ELSE viva

Ll == INSTANCE Llamadas WITH
  Base <- segmentoStack,
  marcos <- Si([k \in 1..(Llamados + 1) |-> MarcoDe(k)], <<>>),
  pc <- Si(cpu.programCounter, 0),
  faltan <- Si(faltan, <<>>),
  estado <- CASE Viva -> "sigue"
              [] cpu.estadoRafaga = "exception" -> "exception"
              [] OTHER -> "fin"

\* Whatever the calls, the jumps and the moments at which the CPU is lost, a
\* call sees its own variables, the caller finds its own as it left them, with
\* the result where it asked for it, and goes on at the line after the call.
ImplementaLlamadas == Ll!SpecL

=============================================================================
