------------------------------ MODULE Ansisop ------------------------------
(***************************************************************************)
(* AnSISOP programs: the metadata of a text, and lines and expressions as   *)
(* the parser takes them. What an expression is worth depends on where      *)
(* variables are (pos) and on what is at each address (en).                 *)
(***************************************************************************)
EXTENDS Integers, Sequences, SequencesExt, TLC

Cte(v) == [op |-> "cte", v |-> v]
Var(n) == [op |-> "var", n |-> n]
Dir(n) == [op |-> "dir", n |-> n]                     \* &n
En(e) == [op |-> "en", e |-> e]                       \* *e
Suma(e, f) == [op |-> "suma", e |-> e, f |-> f]
Resta(e, f) == [op |-> "resta", e |-> e, f |-> f]

\* An access that is rejected gives 0.
Leido(en, dir) == IF dir \in DOMAIN en THEN en[dir] ELSE 0

RECURSIVE Operar(_, _, _)
Operar(e, pos, en) ==
  CASE e.op = "cte" -> e.v
    [] e.op = "var" -> Leido(en, pos[e.n])
    [] e.op = "dir" -> pos[e.n]
    [] e.op = "en" -> Leido(en, Operar(e.e, pos, en))
    [] e.op = "suma" -> Operar(e.e, pos, en) + Operar(e.f, pos, en)
    [] e.op = "resta" -> Operar(e.e, pos, en) - Operar(e.f, pos, en)

\* Is some access of it rejected?
RECURSIVE Falla(_, _, _)
Falla(e, pos, en) ==
  CASE e.op \in {"cte", "dir"} -> FALSE
    [] e.op = "var" -> pos[e.n] \notin DOMAIN en
    [] e.op = "en" -> Falla(e.e, pos, en) \/ Operar(e.e, pos, en) \notin DOMAIN en
    [] OTHER -> Falla(e.e, pos, en) \/ Falla(e.f, pos, en)

\* The text of a program: lines with an instruction, which has an expression
\* (worth nothing where the operation takes none), and the others.
Linea(op, valor) == [tipo |-> "instruccion", op |-> op, valor |-> valor]
Nada == Cte(0)

Begin == [tipo |-> "begin"]
Function(nombre) == [tipo |-> "etiqueta", nombre |-> nombre]
Etiqueta(nombre) == [tipo |-> "etiqueta", nombre |-> nombre]
Comentario == [tipo |-> "comentario"]

Variables(nombres) == Linea("variables", Nada) @@ [nombres |-> nombres]
Asignar(donde, valor) == Linea("asignar", valor) @@ [donde |-> donde]
LlamarProc(etiqueta, args) ==
  Linea("llamarSinRetorno", Nada) @@ [etiqueta |-> etiqueta, args |-> args]
LlamarFun(x, etiqueta, args) ==
  Linea("llamarConRetorno", Nada) @@ [etiqueta |-> etiqueta, args |-> args, donde |-> Dir(x)]
End == Linea("end", Nada)
Return(valor) == Linea("return", valor)
Imprimir(valor) == Linea("print", valor)     \* and what else only reads
Goto(etiqueta) == Linea("goto", Nada) @@ [etiqueta |-> etiqueta]
Jz(valor, etiqueta) == Linea("jz", valor) @@ [etiqueta |-> etiqueta]
Jnz(valor, etiqueta) == Linea("jnz", valor) @@ [etiqueta |-> etiqueta]

\* What the parser evaluates in a line: its expression, the arguments of a call,
\* and where the result goes.
Expresiones(linea) ==
  {linea.valor}
    \cup (IF "args" \in DOMAIN linea THEN Range(linea.args) ELSE {})
    \cup (IF "donde" \in DOMAIN linea THEN {linea.donde} ELSE {})

\* A goto always jumps.
Salta(linea, v) ==
  \/ linea.op = "goto"
  \/ linea.op = "jz" /\ v = 0
  \/ linea.op = "jnz" /\ v # 0
Saltos == {"goto", "jz", "jnz"}

\* What a line has still to declare: a variable, or a parameter with its value.
Declaracion(n, conValor, v) == [nombre |-> n, conValor |-> conValor, valor |-> v]

-----------------------------------------------------------------------------
(* The metadata the kernel makes of the text. *)

\* A label is that of the next instruction.
Agregar(ret, renglon) ==
  CASE renglon.tipo = "begin" ->
         [ret EXCEPT !.instruccion_inicio = Len(ret.instrucciones)]
    [] renglon.tipo = "etiqueta" ->
         [ret EXCEPT !.etiquetas =
            Append(@, [nombre |-> renglon.nombre, pc |-> Len(ret.instrucciones)])]
    [] renglon.tipo = "instruccion" ->
         [ret EXCEPT !.instrucciones = Append(@, renglon)]
    [] OTHER -> ret

metadata_desde_literal(texto) ==
  FoldLeft(Agregar,
           [instruccion_inicio |-> 0, instrucciones |-> <<>>, etiquetas |-> <<>>], texto)

\* Only the lowest byte of the label's instruction is read, and with its sign.
Char(pc) == ((pc + 128) % 256) - 128

\* The first label of that name; the texts have it.
metadata_buscar_etiqueta(objetivo, etiquetas) ==
  LET k == CHOOSE i \in DOMAIN etiquetas :
             /\ etiquetas[i].nombre = objetivo
             /\ \A j \in 1..(i - 1) : etiquetas[j].nombre # objetivo
  IN Char(etiquetas[k].pc)

=============================================================================
