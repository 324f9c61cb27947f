------------------------------- MODULE MCPila -------------------------------
(***************************************************************************)
(* The texts of src/src/scripts as the parser takes them, with smaller      *)
(* numbers. What goes to the kernel (shared variables, devices, text) is a  *)
(* line that only reads; !compartida is worth 1. In mcd "printText", which  *)
(* is no keyword and is not reached, is written as textPrint.               *)
(***************************************************************************)
EXTENDS PilaCpu

CONSTANTS a, b, c, d, e, f, g, i, p, r, t, x, y, A, p0, p1

MCParametros == <<p0, p1>>
MCBasura == -7

Programa(texto, pilas) == [texto : {texto}, stack : pilas]
Va(n, valor) == Asignar(Dir(n), valor)
Pantalla == Imprimir(Nada)

fibo(n) == <<
  Comentario, Begin, Variables(<<x>>), LlamarFun(x, "fibo", <<Cte(n)>>), Comentario,
  Pantalla, Imprimir(Var(x)), End,
  Function("fibo"), Imprimir(Var(p0)),
  Jz(Var(p0), "return0"), Jz(Resta(Var(p0), Cte(1)), "return1"),
  Variables(<<a, b>>), LlamarFun(a, "fibo", <<Resta(Var(p0), Cte(1))>>),
  LlamarFun(b, "fibo", <<Resta(Var(p0), Cte(2))>>), Return(Suma(Var(a), Var(b))),
  Etiqueta("return0"), Return(Cte(0)),
  Etiqueta("return1"), Return(Cte(1))>>

completo == <<
  Comentario, Function("imprimir"), Imprimir(Suma(Var(p0), Cte(1))), End,
  Begin, Variables(<<f, A, g>>), Va(A, Cte(0)), Pantalla, Pantalla,
  Jnz(Cte(1), "Siguiente"),
  Etiqueta("Proximo"), Va(f, Cte(8)), LlamarFun(g, "doble", <<Cte(1)>>), Pantalla, Pantalla,
  LlamarProc("sumar1", <<Dir(g)>>), Imprimir(Var(g)), LlamarProc("sinParam", <<>>), End,
  Function("sinParam"), Pantalla, End,
  Function("doble"), Variables(<<f>>), Va(f, Suma(Var(p0), Var(p0))), Return(Var(f)), End,
  Function("sumar1"), Asignar(Var(p0), Suma(Cte(1), En(Var(p0)))), End,
  Etiqueta("Siguiente"), LlamarProc("imprimir", <<Var(A)>>), Goto("Proximo")>>

\* The upper limit of geq is 8.
mcd(equis, ygriega) == <<
  Function("mult"), Variables(<<i>>), Va(i, Cte(0)), Jz(Var(p1), "mult-ret"),
  Etiqueta("mult-loop"), Va(p1, Resta(Var(p1), Cte(1))), Va(i, Suma(Var(p0), Var(i))),
  Jnz(Var(p1), "mult-loop"),
  Etiqueta("mult-ret"), Return(Var(i)), End,
  Function("geq"), Variables(<<t>>), Comentario, Va(t, Cte(0)),
  Etiqueta("geq-loop"), Va(t, Suma(Var(t), Cte(1))),
  Jz(Suma(Var(t), Resta(Var(p0), Var(p1))), "false"),
  Jz(Resta(Var(t), Cte(8)), "true"), Goto("geq-loop"), End,
  Function("swap"), Variables(<<x>>), Va(x, En(Var(p0))), Asignar(Var(p0), En(Var(p1))),
  Asignar(Var(p1), Var(x)), End,
  Function("mod"), Variables(<<i, a, t>>), Va(a, Cte(1)), Jz(Var(p1), "zerodiv"),
  Etiqueta("mod-loop"), LlamarFun(i, "mult", <<Var(p1), Var(a)>>),
  Va(a, Suma(Cte(1), Var(a))), LlamarFun(t, "geq", <<Var(i), Var(p0)>>),
  Jnz(Var(t), "ret-mod"), Goto("mod-loop"),
  Etiqueta("ret-mod"), Jz(Resta(Var(i), Var(p0)), "false"),
  Return(Resta(Var(p0), Resta(Var(i), Var(p1)))), End,
  Function("mcd"), Variables(<<r>>), Jnz(Var(p1), "mcd-loop"),
  LlamarProc("swap", <<Dir(p0), Dir(p1)>>),
  Etiqueta("mcd-loop"), LlamarFun(r, "mod", <<Var(p0), Var(p1)>>), Va(p0, Var(p1)),
  Va(p1, Var(r)), Jnz(Var(r), "mcd-loop"), Return(Var(p0)), End,
  Etiqueta("zerodiv"), Pantalla,
  Etiqueta("true"), Return(Cte(1)),
  Etiqueta("false"), Return(Cte(0)),
  Begin, Variables(<<x, y, A>>), Va(y, Cte(ygriega)), Va(x, Cte(equis)), Pantalla,
  Imprimir(Var(x)), Imprimir(Var(y)), Pantalla, LlamarFun(A, "mcd", <<Var(x), Var(y)>>),
  Imprimir(Var(A)), End>>

Rebote(una, otra) == <<
  Function(una), Variables(<<a>>), Pantalla, Va(a, Suma(Var(p0), Cte(1))), Imprimir(Var(a)),
  LlamarProc(otra, <<Var(a)>>), End>>
stackoverflow ==
  <<Comentario, Begin, LlamarProc("f", <<Cte(0)>>), End>> \o Rebote("f", "g") \o Rebote("g", "f")

segfault == <<Begin, Variables(<<a>>), Comentario, Imprimir(En(Suma(Dir(a), Cte(300)))), End>>

vector == <<
  Begin, Variables(<<a, b, c, d, e, i>>), Va(i, Cte(0)),
  Etiqueta("for"), Imprimir(En(Suma(Dir(a), Var(i)))), Va(i, Suma(Var(i), Cte(5))),
  Jnz(Resta(Cte(25), Var(i)), "for"), Pantalla, End>>

derefPrioridad == <<
  Begin, Variables(<<a, p>>), Va(p, Dir(a)), Va(a, Cte(19)), Imprimir(En(Var(p))),
  Imprimir(Suma(Cte(30), En(Var(p)))), Imprimir(En(Suma(Var(p), Cte(30)))),
  Va(p, Suma(Dir(a), Cte(30))), Imprimir(Var(p)), Va(p, Suma(Cte(30), Dir(a))),
  Imprimir(Var(p)), End>>

\* Not a script: a loop that declares the same variable each time.
redeclarar == <<
  Begin, Variables(<<i>>), Va(i, Cte(3)),
  Etiqueta("otra"), Variables(<<t>>), Va(t, Var(i)), Va(i, Resta(Var(i), Cte(1))),
  Jnz(Var(i), "otra"), Imprimir(Var(t)), End>>

\* Nor these: accesses outside the stack in an argument, with and without a result,
\* and on the left side of an assignment, at offset n from the variables.
argumento(n) == <<
  Begin, Variables(<<a, b>>), Va(a, Cte(4)), LlamarFun(b, "doble", <<Var(a)>>),
  LlamarFun(b, "doble", <<En(Suma(Dir(a), Cte(n)))>>), Imprimir(Var(b)), End,
  Function("doble"), Return(Suma(Var(p0), Var(p0)))>>
dosArgumentos(n) == <<
  Begin, Variables(<<a, b>>), Va(a, Cte(4)),
  LlamarProc("nada", <<Var(a), En(Suma(Dir(a), Cte(n)))>>), Imprimir(Var(b)), End,
  Function("nada"), End>>
izquierda(n) == <<
  Begin, Variables(<<a, p>>), Va(p, Suma(Dir(a), Cte(n))), Va(a, Dir(p)),
  Asignar(En(Var(p)), Cte(3)), Imprimir(Var(a)), End>>

\* Enough for the program, and what runs out at one point or another of it.
MCProgramas == UNION {
  Programa(fibo(5), (4..80) \cup {160}),
  Programa(completo, (14..50) \cup {60}),
  Programa(mcd(4, 6), (14..100) \cup {140}),
  Programa(mcd(4, 0), (14..100) \cup {140}),
  Programa(stackoverflow, 7..70),
  Programa(segfault, {4, 30}),
  Programa(vector, 28..40),
  Programa(redeclarar, 9..25),
  Programa(argumento(5), 20..30), Programa(argumento(300), {30}),
  Programa(dosArgumentos(5), 20..30), Programa(dosArgumentos(300), {30}),
  Programa(izquierda(0), 10..12), Programa(izquierda(300), {10, 30}),
  Programa(derefPrioridad, {9, 30, 50})}

=============================================================================
